------------------------------ MODULE SimuCalls ------------------------------
(***************************************************************************)
(* Calls, returns, setjmp and longjmp in the Simu run-time.                *)
(*                                                                         *)
(* Every activation of a simulated function is an activation of its C      *)
(* wrapper (codegen/packager.cpp), which runs __PD_simulate (PD_kernel.c)  *)
(* on the operation table of the function.  The wrapper keeps the          *)
(* caller's register file, operation table and parameters in C locals; the *)
(* prologue and the epilogue (PD_stack.c) keep the rest on a macro stack.  *)
(* A simulated longjmp (PD_longjmp.c) cannot cut the C stack: it restores  *)
(* the checkpoint and the kernels return one by one, counting on the depth *)
(* that prologues and epilogues maintain for every jump buffer.            *)
(***************************************************************************)
EXTENDS Integers, Sequences, FiniteSets

CONSTANTS
    Func,       \* simulated functions
    Main,       \* the function native code enters first
    Key,        \* jump buffers
    None,       \* no buffer, no file
    MAXDEPTH,   \* bound: activations on the C stack
    Programs,   \* the programs a run considers: see program below
    CROSSNATIVE,\* a longjmp may leave native activations behind
    PV          \* the aggregated predicate registers __PD_PV_n to follow

ASSUME FuncAssumption == Main \in Func
ASSUME DepthAssumption == MAXDEPTH \in Nat \ {0}
ASSUME PVAssumption == PV \subseteq 0 .. 7
ASSUME ProgramsAssumption ==
    Programs \subseteq [virtregs : BOOLEAN, callbacks : BOOLEAN,
                         keys : SUBSET Key, pv : SUBSET PV]

VARIABLES
    program,        \* what is simulated: with a register file per activation or
                    \* not, with native functions that call back or not, the jump
                    \* buffers it uses, the predicate registers it changes
    cstack,         \* the C stack: activations of wrappers and native functions
    mstack,         \* the macro stack: what each prologue pushed
    jmpbuf,         \* the list of jump buffers
    fname,          \* __PD_function_name
    ops,            \* __PD_cur_op_list, named by its function
    parms,          \* __PD_parameters: the activation whose local it points to
    file,           \* __PD_registers
    reginfo,        \* __PD_reginfo, named by its function
    alive,          \* register files allocated and not freed
    sp,             \* __PD_SP_REG, in frames
    pv,             \* the macro registers __PD_PV_n
    longjmp_executed, longjmp_depth,
    aborted,        \* an assertion of the run-time failed
    home, target    \* history: where a live setjmp was made; the last longjmp

vars == <<program, cstack, mstack, jmpbuf, fname, ops, parms, file, reginfo, alive, sp, pv,
          longjmp_executed, longjmp_depth, aborted, home, target>>

VIRTREGS == program.virtregs    \* the __PD_VIRTREGS flag
File == 1 .. MAXDEPTH + 1
Depth == Len(cstack)
Top == cstack[Depth]
Front(s) == SubSeq(s, 1, Len(s) - 1)

\* The C stack is about to run an operation of a simulated function.
Simulating ==
    /\ aborted = FALSE
    /\ Depth > 0
    /\ Top.k = "sim"
    /\ ~longjmp_executed

InNative == aborted = FALSE /\ Depth > 0 /\ Top.k = "nat"

\* calloc and malloc return some file that is not allocated.
Fresh(used) == CHOOSE x \in File : x \notin used /\ \A y \in File \ used : x <= y

----------------------------------------------------------------------------
\* A definition whose comment says "Faulty:" is not part of the model.  It is the
\* definition after it with a plausible bug, kept to see that a property notices.

\* Faulty: an activation more is not counted.
AddDepthNever(b) == b

\* Faulty: a depth of zero is decremented.
SubDepthBelowZero(b) == [k \in Key |-> IF b[k] = None THEN None
                                       ELSE [b[k] EXCEPT !.depth = @ - 1]]

\* __PD_increment_longjump_depth_count, and the saturating decrement
AddDepth(b) == [k \in Key |-> IF b[k] = None THEN None
                              ELSE [b[k] EXCEPT !.depth = @ + 1]]
SubDepth(b) == [k \in Key |-> IF b[k] = None THEN None
                              ELSE [b[k] EXCEPT !.depth = IF @ > 0 THEN @ - 1 ELSE 0]]

\* Faulty: the last register of the macros is not saved either.
SavedPVShort == {0}

\* PV4_REG is defined as __PD_PV_3 and so on up, so the eight names the prologue
\* saves stand for seven registers.
PVReg(n) == IF n <= 3 THEN n ELSE n - 1
SavedPV == {PVReg(n) : n \in 0 .. 7}

\* Activations above position n disappear, and the setjmps made there with them.
Forget(n) == [k \in Key |-> IF home[k] > n THEN 0 ELSE home[k]]

\* __PD_allocate_native_stack, and its inverse: a fake frame for the arguments of a
\* call from native code.
AllocateNative(args) == IF args THEN sp + 1 ELSE sp
DeallocateNative(args, at) == IF args THEN at - 1 ELSE at

\* The wrapper of f up to its call of the kernel.  args: the call is a native one
\* and f has arguments.
Wrapper(f, args) ==
    /\ Depth < MAXDEPTH
    /\ cstack' = Append(cstack, [k |-> "sim", fn |-> f, args |-> args,
                                 file |-> file, reginfo |-> reginfo,
                                 ops |-> ops, parms |-> parms, pv |-> pv])
    /\ LET new == IF VIRTREGS THEN Fresh(alive) ELSE file
       IN  file' = new /\ alive' = alive \cup {new}
    /\ reginfo' = IF VIRTREGS THEN f ELSE reginfo
    /\ parms' = Depth + 1
    /\ ops' = f

\* The prologue, the first operation of f.
PD_prologue(f, args) ==
    /\ jmpbuf' = AddDepth(jmpbuf)
    /\ mstack' = Append(mstack, [fname |-> fname,
                                 pv |-> [i \in PV \cap SavedPV |-> pv[i]]])
    /\ fname' = f
    /\ sp' = AllocateNative(args) + 1

Enter(f, args) ==
    /\ Wrapper(f, args)
    /\ PD_prologue(f, args)
    /\ UNCHANGED <<program, pv, longjmp_executed, longjmp_depth, aborted, home, target>>

\* A simulated function calls a simulated function (BRL).
Call(f) == Simulating /\ Enter(f, FALSE)

\* A simulated function calls a native one, such as qsort.
CallNative ==
    /\ program.callbacks
    /\ Simulating
    /\ Depth < MAXDEPTH
    /\ cstack' = Append(cstack, [k |-> "nat"])
    /\ UNCHANGED <<program, mstack, jmpbuf, fname, ops, parms, file, reginfo, alive, sp, pv,
                   longjmp_executed, longjmp_depth, aborted, home, target>>

\* Native code calls a simulated function through its wrapper.
CallBack(f, args) == program.callbacks /\ InNative /\ Enter(f, args)

NativeReturns ==
    /\ InNative
    /\ Depth > 1
    /\ cstack' = Front(cstack)
    /\ UNCHANGED <<program, mstack, jmpbuf, fname, ops, parms, file, reginfo, alive, sp, pv,
                   longjmp_executed, longjmp_depth, aborted, home, target>>

\* Faulty: the register file of the activation is not freed.
RestoreFileLeaks ==
    IF VIRTREGS
    THEN /\ file' = Top.file
         /\ reginfo' = IF Top.reginfo = None THEN reginfo ELSE Top.reginfo
         /\ UNCHANGED alive
    ELSE UNCHANGED <<file, reginfo, alive>>

\* The wrapper gives the caller its register file back and frees its own.
RestoreFile ==
    IF VIRTREGS
    THEN /\ file' = Top.file
         /\ reginfo' = IF Top.reginfo = None THEN reginfo ELSE Top.reginfo
         /\ alive' = alive \ {file}
    ELSE UNCHANGED <<file, reginfo, alive>>

\* The epilogue, run by RTS.
PD_epilogue(args) ==
    /\ jmpbuf' = SubDepth(jmpbuf)
    /\ mstack' = Front(mstack)
    /\ LET m == mstack[Len(mstack)]
       IN  /\ fname' = m.fname
           /\ pv' = [i \in PV |-> IF i \in SavedPV THEN m.pv[i] ELSE pv[i]]
    /\ sp' = DeallocateNative(args, sp - 1)

\* RTS: the epilogue, the end of the kernel loop, and the rest of the wrapper.
Return ==
    /\ Simulating
    /\ PD_epilogue(Top.args)
    /\ parms' = Top.parms
    /\ ops' = Top.ops
    /\ RestoreFile
    /\ cstack' = Front(cstack)
    /\ home' = Forget(Depth - 1)
    /\ UNCHANGED <<program, longjmp_executed, longjmp_depth, aborted, target>>

\* A predicate operation of the running function changes a PV register.
WritePV(i) ==
    /\ Simulating
    /\ i \in program.pv
    /\ pv' = [pv EXCEPT ![i] = 1 - @]
    /\ UNCHANGED <<program, cstack, mstack, jmpbuf, fname, ops, parms, file, reginfo, alive, sp,
                   longjmp_executed, longjmp_depth, aborted, home, target>>

\* Faulty: the macro stack pointer is taken a frame too low.
CheckpointLow ==
    [depth |-> 0, reginfo |-> reginfo, mstack |-> Len(mstack) - 1,
     params |-> parms, fname |-> fname, sp |-> sp, pv |-> pv]

\* Faulty: the stack pointer is that of the caller.
CheckpointCallerSP ==
    [depth |-> 0, reginfo |-> reginfo, mstack |-> Len(mstack),
     params |-> parms, fname |-> fname, sp |-> sp - 1, pv |-> pv]

\* What a jump buffer receives.
Checkpoint ==
    [depth |-> 0, reginfo |-> reginfo, mstack |-> Len(mstack),
     params |-> parms, fname |-> fname, sp |-> sp, pv |-> pv]

PD_setjmp(k) ==
    /\ Simulating
    /\ k \in program.keys
    /\ jmpbuf' = [jmpbuf EXCEPT ![k] = Checkpoint]
    /\ home' = [home EXCEPT ![k] = Depth]
    /\ UNCHANGED <<program, cstack, mstack, fname, ops, parms, file, reginfo, alive, sp, pv,
                   longjmp_executed, longjmp_depth, aborted, target>>

\* C allows a longjmp only to a setjmp whose function has not returned.
PD_longjmp(k) ==
    /\ Simulating
    /\ home[k] # 0
    /\ CROSSNATIVE \/ \A i \in home[k] .. Depth : cstack[i].k = "sim"
    /\ LET b == jmpbuf[k]
       IN  /\ reginfo' = b.reginfo
           /\ LET new == IF VIRTREGS THEN Fresh(alive \ {file}) ELSE file
              IN  /\ file' = new
                  /\ alive' = (alive \ {file}) \cup {new}
           /\ sp' = b.sp
           /\ pv' = b.pv
           /\ mstack' = SubSeq(mstack, 1, b.mstack)
           /\ parms' = b.params
           /\ fname' = b.fname
           /\ longjmp_executed' = TRUE
           /\ longjmp_depth' = b.depth
           /\ jmpbuf' = [jmpbuf EXCEPT ![k].depth = 0]
    /\ target' = k
    /\ UNCHANGED <<program, cstack, ops, aborted, home>>

\* Faulty: the forced returns are not counted down.
ReturnsLeftStuck == longjmp_depth

ReturnsLeft == longjmp_depth - 1

\* The kernel finds longjmp_executed set after an operation and has returns left
\* to force: it returns false, and the wrapper drops the saved register file.
\* A wrapper that was entered from native code first takes its fake frame off,
\* where the run-time asserts that no longjmp is under way.
Unwind ==
    /\ aborted = FALSE
    /\ Depth > 0
    /\ Top.k = "sim"
    /\ longjmp_executed
    /\ longjmp_depth > 0
    /\ longjmp_depth' = ReturnsLeft
    /\ jmpbuf' = SubDepth(jmpbuf)
    /\ IF Top.args
       THEN aborted' = TRUE /\ UNCHANGED <<cstack, alive, home>>
       ELSE /\ cstack' = Front(cstack)
            /\ alive' = IF VIRTREGS THEN alive \ {Top.file} ELSE alive
            /\ home' = Forget(Depth - 1)
            /\ UNCHANGED aborted
    /\ UNCHANGED <<program, mstack, fname, ops, parms, file, reginfo, sp, pv,
                   longjmp_executed, target>>

\* Faulty: the last return is not forced.
LandEarly ==
    /\ aborted = FALSE
    /\ Depth > 0
    /\ Top.k = "sim"
    /\ longjmp_executed
    /\ longjmp_depth <= 1
    /\ longjmp_executed' = FALSE
    /\ UNCHANGED <<program, cstack, mstack, jmpbuf, fname, ops, parms, file, reginfo, alive, sp,
                   pv, longjmp_depth, aborted, home, target>>

\* No return is left to force: simulation goes on in this activation.
Land ==
    /\ aborted = FALSE
    /\ Depth > 0
    /\ Top.k = "sim"
    /\ longjmp_executed
    /\ longjmp_depth = 0
    /\ longjmp_executed' = FALSE
    /\ UNCHANGED <<program, cstack, mstack, jmpbuf, fname, ops, parms, file, reginfo, alive, sp,
                   pv, longjmp_depth, aborted, home, target>>

----------------------------------------------------------------------------
\* Native code has called the wrapper of Main.
Init ==
    /\ program \in Programs
    /\ cstack = <<[k |-> "sim", fn |-> Main, args |-> TRUE, file |-> None,
                   reginfo |-> None, ops |-> None, parms |-> 0,
                   pv |-> [i \in PV |-> 0]]>>
    /\ mstack = <<[fname |-> None, pv |-> [i \in PV \cap SavedPV |-> 0]]>>
    /\ jmpbuf = [k \in Key |-> None]
    /\ fname = Main /\ ops = Main /\ parms = 1
    /\ file = 1 /\ reginfo = Main /\ alive = {1}
    /\ sp = 2
    /\ pv = [i \in PV |-> 0]
    /\ longjmp_executed = FALSE /\ longjmp_depth = 0
    /\ aborted = FALSE
    /\ home = [k \in Key |-> 0]
    /\ target = None

Unwinding == Unwind \/ Land

Next ==
    \/ \E f \in Func : Call(f)
    \/ CallNative
    \/ \E f \in Func, args \in BOOLEAN : CallBack(f, args)
    \/ NativeReturns
    \/ Return
    \/ \E i \in PV : WritePV(i)
    \/ \E k \in Key : PD_setjmp(k)
    \/ \E k \in Key : PD_longjmp(k)
    \/ Unwinding

Spec == Init /\ [][Next]_vars

\* The kernel leaves an activation by itself once a longjmp is under way.
FairSpec == Spec /\ WF_vars(Unwinding)

----------------------------------------------------------------------------
Frame == [k : {"sim"}, fn : Func, args : BOOLEAN, file : File \cup {None},
          reginfo : Func \cup {None}, ops : Func \cup {None},
          parms : 0 .. MAXDEPTH, pv : [PV -> {0, 1}]]
Buffer == [depth : 0 .. MAXDEPTH, reginfo : Func, mstack : 1 .. MAXDEPTH,
           params : 1 .. MAXDEPTH, fname : Func, sp : Nat, pv : [PV -> {0, 1}]]

ASSUME NoneAssumption == None \notin Func \cup File \cup Buffer

\* The variables stay in their types; the macro stack holds what prologues push.
TypeOK ==
    /\ cstack \in Seq(Frame \cup [k : {"nat"}]) /\ Depth <= MAXDEPTH
    /\ mstack \in Seq([fname : Func \cup {None}, pv : [PV \cap SavedPV -> {0, 1}]])
    /\ \A k \in Key : jmpbuf[k] = None \/ jmpbuf[k] \in Buffer
    /\ {fname, ops, reginfo} \subseteq Func \cup {None}
    /\ file \in File \cup {None} /\ alive \subseteq File
    /\ parms \in 0 .. MAXDEPTH /\ sp \in Nat
    /\ pv \in [PV -> {0, 1}]
    /\ longjmp_executed \in BOOLEAN /\ longjmp_depth \in 0 .. MAXDEPTH
    /\ aborted \in BOOLEAN
    /\ home \in [Key -> 0 .. MAXDEPTH]
    /\ target \in Key \cup {None}

\* Activations of simulated functions among the first n of the C stack.
SimFrames(n) == Cardinality({i \in 1 .. n : cstack[i].k = "sim"})
ToUnwind == IF longjmp_executed THEN longjmp_depth ELSE 0

\* The depth of every buffer whose setjmp is still active is the number of
\* simulated activations entered since, through any mix of calls, returns and
\* longjmps to this or other buffers (PD_setjmp.c counts in prologues, epilogues
\* and forced returns, and saturates at zero).
DepthExact ==
    \A k \in Key : home[k] # 0 =>
        LET above == SimFrames(Depth) - SimFrames(home[k])
        IN  IF longjmp_executed /\ k = target
            THEN longjmp_depth = above
            ELSE jmpbuf[k].depth = IF above >= 0 THEN above ELSE 0

\* The three stacks agree: the macro stack has one entry for each simulated
\* activation that is not about to be unwound; and whenever a function is being
\* simulated, the function name, the parameters, the register file info and the
\* simulated stack pointer are its own.
FrameWords(n) == SimFrames(n) + Cardinality({i \in 1 .. n : cstack[i].k = "sim" /\ cstack[i].args})
StacksAgree ==
    /\ Len(mstack) = SimFrames(Depth) - ToUnwind
    /\ Simulating => /\ fname = Top.fn
                     /\ parms = Depth
                     /\ VIRTREGS => reginfo = Top.fn
                     /\ sp = FrameWords(Depth)

\* Register files are neither leaked nor freed while in use, across longjmps that
\* free the current file and wrappers that free the saved ones: the allocated
\* files are the current one and those saved in wrappers, all different.
Saved == {i \in 1 .. Depth : cstack[i].k = "sim" /\ cstack[i].file # None}
RegFilesOwned ==
    VIRTREGS =>
        /\ alive = {cstack[i].file : i \in Saved} \cup ({file} \ {None})
        /\ \A i \in Saved : cstack[i].file # file
        /\ \A i, j \in Saved : cstack[i].file = cstack[j].file => i = j

\* PD_kernel.c: when the forced returns are over, "the actual program stack frame
\* now should point to the C longjmp target function", the one that called setjmp.
LandsHome ==
    [][longjmp_executed /\ ~longjmp_executed' => home[target] = Depth]_vars

\* The forced returns always come to an end, on which simulation goes on.
LongjmpLands == longjmp_executed ~> ~longjmp_executed

\* What the simulated program sees of its activations, read off the macro stack
\* and the function name, behaves as C prescribes: in particular a longjmp cuts
\* the stack at once, and unwinding the C stack is invisible.
C == INSTANCE CCalls WITH
    frames <- [i \in 1 .. Len(mstack) |->
                 IF i = Len(mstack) THEN fname ELSE mstack[i + 1].fname],
    env <- [k \in Key |-> LET n == SimFrames(home[k])
                          IN  IF n <= Len(mstack) THEN n ELSE 0]
ImplementsC == C!Spec

\* PD_stack.c: a fake frame is not taken off while a longjmp is under way, "the
\* wrapper should have guarded against this".
WrapperGuards == ~aborted

\* PD_stack.c saves the aggregated predicate registers "since macro file is
\* shared": a call, whatever it called and wherever longjmps went inside it, leaves
\* the caller's values as they were, all but that of __PD_PV_7, which no saved name
\* stands for and which comes back as the callee left it.
PVPreserved ==
    [][Return /\ Depth > 1 =>
        \A i \in PV : pv'[i] = IF i = 7 THEN pv[i] ELSE Top.pv[i]]_vars
=============================================================================
