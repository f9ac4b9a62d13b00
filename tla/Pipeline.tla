------------------------------ MODULE Pipeline ------------------------------
(***************************************************************************)
(* The loops that drive the action queue: the kernel loop of one or more   *)
(* activations, __PD_aclock, __PD_check_interlock, and the calls that a    *)
(* clock makes, nested in them, including setjmp, which drains the         *)
(* interlocks, and longjmp.  The C control state is a stack of activation  *)
(* records; the kernel's program is any sequence of operations.            *)
(*                                                                         *)
(* Registers are the physical file, shared by all activations.  A longjmp  *)
(* goes back to a setjmp of the same activation; unwinding others is in    *)
(* SimuCalls.                                                              *)
(***************************************************************************)
EXTENDS ActionQueue

CONSTANTS
    Setjmp, Longjmp, Epilogue,  \* the targets with a meaning of their own
    NoBuffer,                   \* setjmp has not been called
    Programs,                   \* the registers and call targets of the programs looked at
    PLEN,                       \* bound: operations in a function, which then loops
    MAXACT                      \* bound: activations of simulated functions

ASSUME ProgramsAssumption == Programs \subseteq [regs : SUBSET Reg, calls : SUBSET Target]
ASSUME PlenAssumption == PLEN \in Nat \ {0}
\* A latency is a ubyte, and the queue has 4096 slots.
ASSUME LatencyAssumption == MAXLAT < QSIZE

VARIABLES
    program,            \* the program simulated; it never changes
    act,                \* the C stack, innermost last
    pc,                 \* __PD_PC_REG
    done,               \* __PD_done
    buffer,             \* the jump buffer
    longjmp_executed,
    outcome             \* "running", or the assertion that stopped the run

pvars == <<program, act, pc, done, buffer, longjmp_executed, outcome>>
vars == <<qvars, pvars>>

Function == Target \ {Setjmp, Longjmp, Epilogue}
Top == act[Len(act)]
Below == SubSeq(act, 1, Len(act) - 1)
Activations == {i \in 1 .. Len(act) : act[i].k = "kernel"}
Running(k) == outcome = "running" /\ ~punted /\ act # <<>> /\ Top.k = k
NextPC == (pc + 1) % PLEN

\* The activations still there of a jump buffer's activation.
Keep(stack) ==
    IF buffer # NoBuffer /\ buffer.act \notin 1 .. Len(stack) THEN NoBuffer ELSE buffer

\* A definition whose comment says "Faulty:" is not part of the model.  It is the
\* definition after it with a plausible bug, kept to see that a property notices.

\* Faulty: the slot a stall begins at is taken one late.
InterlockLate(r) ==
    [k |-> "interlock", reg |-> r, slot |-> NextSlot, stepped |-> FALSE,
     called |-> FALSE, at |-> pc]

\* A record of __PD_check_interlock(r), and one of __PD_aclock.  "at" and "called"
\* are history: the operation they are part of, and whether a clock of the stall
\* has made a call.
Interlock(r) ==
    [k |-> "interlock", reg |-> r, slot |-> PD_pending, stepped |-> FALSE,
     called |-> FALSE, at |-> pc]
Clocks(n) == [k |-> "aclock", left |-> n, at |-> pc]

----------------------------------------------------------------------------
\* Operations of the kernel loop; the loop then goes to the next one.
Issuing == Running("kernel") /\ ~done /\ ~longjmp_executed

Write(r, v, lat) ==
    /\ Issuing
    /\ PD_delay(r, v, lat)
    /\ pc' = NextPC
    /\ UNCHANGED <<program, act, done, buffer, longjmp_executed, outcome>>

\* A source register is read through check_interlock.
Read(r) ==
    /\ Issuing
    /\ act' = Append(act, Interlock(r))
    /\ UNCHANGED <<program, qvars, pc, done, buffer, longjmp_executed, outcome>>

\* BRL, and RTS with the epilogue as target.  Scheduled code has one call or
\* return in flight; it returns and jumps only where C allows it.
Branch(t, lat) ==
    /\ Issuing
    /\ \A s \in Slot : call[s] = NoCall
    /\ t \in Function => MAXACT > Len(SelectSeq(act, LAMBDA a : a.k = "kernel"))
    /\ t = Longjmp => buffer # NoBuffer /\ buffer.act = Len(act)
    /\ PD_delay_call(t, lat)
    /\ pc' = NextPC
    /\ UNCHANGED <<program, act, done, buffer, longjmp_executed, outcome>>

Aclock(clocks) ==
    /\ Issuing
    /\ act' = Append(act, Clocks(clocks))
    /\ UNCHANGED <<program, qvars, pc, done, buffer, longjmp_executed, outcome>>

----------------------------------------------------------------------------
\* One clock on behalf of the loop whose record is now a; a due call starts above.
Clock(a) ==
    /\ PD_execute_instructions
    /\ act' = Append(Below, a) \o
              (IF DueCall = NoCall THEN <<>>
               ELSE <<[k |-> "call", targ |-> DueCall, pc |-> pc]>>)
    /\ UNCHANGED <<program, pc, done, buffer, longjmp_executed, outcome>>

AclockStep ==
    /\ Running("aclock")
    /\ Top.left > 0
    /\ ~longjmp_executed
    /\ Clock([Top EXCEPT !.left = @ - 1])

\* __PD_aclock returns, at once after a longjmp.  The kernel clears the longjmp
\* flag (no activation is to be unwound) and goes on after PC_REG.
AclockReturns ==
    /\ Running("aclock")
    /\ Top.left = 0 \/ longjmp_executed
    /\ act' = Below
    /\ pc' = NextPC
    /\ longjmp_executed' = FALSE
    /\ UNCHANGED <<program, qvars, done, buffer, outcome>>

InterlockStep ==
    /\ Running("interlock")
    /\ ~Top.stepped
    /\ mem[Flag(Top.reg)] # READY
    /\ Clock([Top EXCEPT !.stepped = TRUE, !.called = @ \/ DueCall # NoCall])

\* After each clock of a stall, and the call it made: the slot must not be the
\* one the stall began at, nor may the call have been a longjmp.
InterlockCheck ==
    /\ Running("interlock")
    /\ Top.stepped
    /\ act' = Append(Below, [Top EXCEPT !.stepped = FALSE])
    /\ outcome' = IF Top.slot = PD_pending THEN "deadlock"
                  ELSE IF longjmp_executed THEN "longjmp in a stall"
                  ELSE outcome
    /\ UNCHANGED <<program, qvars, pc, done, buffer, longjmp_executed>>

InterlockReturns ==
    /\ Running("interlock")
    /\ ~Top.stepped
    /\ mem[Flag(Top.reg)] = READY
    /\ act' = Below
    /\ pc' = IF Below[Len(Below)].k = "kernel" THEN NextPC ELSE pc
    /\ UNCHANGED <<program, qvars, done, buffer, longjmp_executed, outcome>>

----------------------------------------------------------------------------
\* The call of a clock starts.  "return" restores PC_REG when it is over.
Calling(t) == Running("call") /\ Top.targ = t
Return == [k |-> "return", pc |-> Top.pc]

\* The wrapper of a simulated function, which is told the call is not native,
\* and the start of its kernel loop.
CallFunction ==
    /\ \E f \in Function : Calling(f) /\ PD_is_simulator_call(f)
    /\ act' = Below \o <<Return, [k |-> "kernel"]>>
    /\ pc' = 0
    /\ UNCHANGED <<program, done, buffer, longjmp_executed, outcome>>

CallEpilogue ==
    /\ Calling(Epilogue)
    /\ act' = Append(Below, Return)
    /\ done' = TRUE
    /\ UNCHANGED <<program, qvars, pc, buffer, longjmp_executed, outcome>>

CallSetjmp ==
    /\ Calling(Setjmp)
    /\ act' = Below \o <<Return, [k |-> "setjmp", regs |-> Reg]>>
    /\ UNCHANGED <<program, qvars, pc, done, buffer, longjmp_executed, outcome>>

\* The setjmp loop over the registers.
SetjmpDrains ==
    /\ Running("setjmp")
    /\ \E r \in Top.regs :
         act' = Below \o <<[Top EXCEPT !.regs = @ \ {r}], Interlock(r)>>
    /\ UNCHANGED <<program, qvars, pc, done, buffer, longjmp_executed, outcome>>

\* The checkpoint; the activation to come back to is the innermost kernel.
SetjmpSaves ==
    /\ Running("setjmp")
    /\ Top.regs = {}
    /\ act' = Below
    /\ buffer' = [mem |-> mem, pc |-> pc,
                  act |-> CHOOSE i \in Activations : \A j \in Activations : j <= i]
    /\ UNCHANGED <<program, qvars, pc, done, longjmp_executed, outcome>>

\* Faulty: the return from the longjmp restores the PC_REG of the call.
CallLongjmpThenRestores ==
    /\ Calling(Longjmp)
    /\ mem' = buffer.mem
    /\ pc' = buffer.pc
    /\ longjmp_executed' = TRUE
    /\ act' = Append(Below, Return)
    /\ UNCHANGED <<program, PD_pending, moves, call, last_call, punted, done, buffer, outcome>>

\* The restored PC_REG is not clobbered by the return: there is nothing to undo.
CallLongjmp ==
    /\ Calling(Longjmp)
    /\ mem' = buffer.mem
    /\ pc' = buffer.pc
    /\ longjmp_executed' = TRUE
    /\ act' = Below
    /\ UNCHANGED <<program, PD_pending, moves, call, last_call, punted, done, buffer, outcome>>

\* Faulty: PC_REG is not restored.
CallReturnsElsewhere ==
    /\ Running("return")
    /\ act' = Below
    /\ UNCHANGED <<program, qvars, pc, done, buffer, longjmp_executed, outcome>>

\* execute_instructions gets control back from its call.
CallReturns ==
    /\ Running("return")
    /\ act' = Below
    /\ pc' = Top.pc
    /\ UNCHANGED <<program, qvars, done, buffer, longjmp_executed, outcome>>

\* The kernel loop of an activation ends.
KernelReturns ==
    /\ Running("kernel")
    /\ done
    /\ done' = FALSE
    /\ act' = Below
    /\ buffer' = Keep(Below)
    /\ UNCHANGED <<program, qvars, pc, longjmp_executed, outcome>>

----------------------------------------------------------------------------
PInit ==
    /\ Init
    /\ program \in Programs
    /\ act = <<[k |-> "kernel"]>>
    /\ pc = 0
    /\ done = FALSE
    /\ buffer = NoBuffer
    /\ longjmp_executed = FALSE
    /\ outcome = "running"

\* What the program chooses, and what the run-time then does by itself.
Program ==
    \/ \E r \in program.regs, v \in Val, lat \in Latency : Write(r, v, lat)
    \/ \E r \in program.regs : Read(r)
    \/ \E t \in program.calls, lat \in Latency : Branch(t, lat)
    \/ \E clocks \in 1 .. 2 : Aclock(clocks)

RunTime ==
    \/ AclockStep \/ AclockReturns
    \/ InterlockStep \/ InterlockCheck \/ InterlockReturns
    \/ CallFunction \/ CallEpilogue \/ CallSetjmp \/ CallLongjmp
    \/ SetjmpDrains \/ SetjmpSaves
    \/ CallReturns \/ KernelReturns

PNext == Program \/ RunTime

PSpec == PInit /\ [][PNext]_vars

\* The run-time's own loops are C loops: they go on as long as they have a step.
PFairSpec == PSpec /\ WF_vars(RunTime)

----------------------------------------------------------------------------
\* An operation that let other activations run in the middle of a clock ends at
\* the PC_REG it began at; after a longjmp it ends at that of the setjmp.
ResumesWhereItWas ==
    [][/\ AclockReturns => pc = (IF longjmp_executed THEN buffer.pc ELSE Top.at)
       /\ InterlockReturns => pc = Top.at]_vars

\* A stall ends before its own clocks bring the queue round to the slot it began
\* at: if the deadlock assertion of check_interlock fails, a clock of this very stall
\* has made a call, whose clocks moved the head.
DeadlockNeedsCall == outcome = "deadlock" => Top.k = "interlock" /\ Top.called

Stalled == act # <<>> /\ Top.k = "interlock"

\* Without calls every stall ends, and by its register being released: the write that took the
\* interlock is still queued when the stall begins, and is reached.
StallsEnd == program.calls = {} /\ Stalled ~> ~Stalled

\* While a register's interlock is taken, its release is queued, whatever runs in
\* between: activations share the register file and the queue.
BusyIsReleased ==
    \A r \in Reg : mem[Flag(r)] = BUSY => Wakeups(r) # {}

\* PD_setjmp.c, on check_interlock for every register: "this will force all
\* operations in flight to complete".  When the checkpoint is taken no register
\* write is queued.
CheckpointIsQuiet ==
    (Running("setjmp") /\ Top.regs = {})
        => \A s \in Slot, c \in Data : Writes(moves[s], c) = {}
=============================================================================
