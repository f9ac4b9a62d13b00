-------------------------- MODULE SoftwarePipeline --------------------------
(***************************************************************************)
(* A loop on its whole way: modulo scheduled and given rotating registers  *)
(* by elcor (ModuloSched, RotAlloc), entered through its preloop           *)
(* (MSched/pre_post.cpp) and executed by Simu's loop branch BRF on its     *)
(* rotating register files (PD_ops.list, PD_reg.h).                        *)
(*                                                                         *)
(* A register holds the value <<op, i>> that operation op computed in      *)
(* iteration i; negative iterations are the values live into the loop.     *)
(* Nothing the machine does depends on an iteration number: it knows the   *)
(* rotating register base, the loop counters and the predicates only.      *)
(***************************************************************************)
EXTENDS RotAlloc

CONSTANTS
    WORD,       \* RRB is a machine word: it counts modulo WORD
    RRBS,       \* where earlier loops may have left it
    MAXLC       \* bound: LC when the loop is entered

\* An RRB that goes below 0 stays in step with every rotating file.
ASSUME WordAssumption ==
    /\ WORD \in Nat \ {0} /\ RRBS \subseteq 0..(WORD - 1) /\ MAXLC \in Nat
    /\ \A f \in Files : WORD % reg_max[f] = 0

VARIABLES
    kphase,     \* "before" the loop, in the "kernel", "after" the loop
    clock,      \* cycles since the kernel was entered
    trips,      \* history: LC when the loop was entered
    LC, ESC, RRB,
    gpr, pr,    \* the rotating registers
    inflight    \* results on their way: when they land, where, and what

kernelVars == <<kphase, clock, trips, LC, ESC, RRB, gpr, pr, inflight>>
swpVars == <<rotVars, kernelVars>>

Nothing == <<0, 0>>
GPRs == 0..(reg_max[GPR] - 1)
PRs == 0..(reg_max[PR] - 1)

\* SREG and PREG: the register an operand names.
Physical(f, num, base) == ((num + base) % WORD) % reg_max[f]

KernelInit ==
    /\ kphase = "before" /\ clock = 0 /\ trips = 0
    /\ LC = 0 /\ ESC = 0 /\ RRB \in RRBS
    /\ gpr = [p \in GPRs |-> Nothing]
    /\ pr = [p \in PRs |-> TRUE]    \* as an earlier loop may have left them
    /\ inflight = {}

-----------------------------------------------------------------------------
\* Values needed from before the loop, with how many iterations before.
LiveIns == UNION {{<<e.src, w>> : w \in 1..e.omega} : e \in loop.flow}

\* The preloop: ESC, the predicates cleared, the staging predicate of the
\* first iteration set, and a copy for every live-in.
Enter(lc) ==
    /\ phase = "scheduled" /\ file \notin Files /\ kphase = "before"
    /\ kphase' = "kernel" /\ clock' = 0
    /\ trips' = lc /\ LC' = lc /\ ESC' = esc
    /\ pr' = [p \in PRs |-> p = Physical(PR, EntryReg(PR, Branch, 0), RRB)]
    /\ \E into \in {[x \in LiveIns |-> Physical(GPR, EntryReg(GPR, x[1], x[2]), RRB)]} :
        gpr' = [p \in GPRs |-> LET X == {x \in LiveIns : into[x] = p} IN
                    IF X = {} THEN gpr[p] ELSE LET x == CHOOSE x \in X : TRUE IN <<x[1], -x[2]>>]
    /\ UNCHANGED <<rotVars, RRB, inflight>>

Issues(op) == Issue(op) % ii = clock % ii
Iteration(op) == Floor(clock) - Floor(Issue(op))
Guard(op) == pr[Physical(PR, UseReg(PR, Branch, op, 0), RRB)]
Operand(e) == gpr[Physical(GPR, UseReg(GPR, e.src, e.dst, e.omega), RRB)]

IssuedResults == {op \in Results : Issues(op) /\ Guard(op)}
Written == inflight \cup {[due |-> clock + loop.lat[op], reg |-> Physical(GPR, DefReg(GPR, op), RRB),
                           val |-> <<op, Iteration(op)>>] : op \in IssuedResults}

\* Faulty (see ModuloSched): the register base is no machine word.
RotateUnwrapped == RRB' = RRB - 1

Rotate == RRB' = (RRB - 1) % WORD
SetStaging(b) == pr' = [pr EXCEPT ![Physical(PR, DefReg(PR, Branch), RRB)] = b]

\* Faulty: the epilogue stages are not counted down.
BRFKeepsESC ==
    \/ LC > 0 /\ Rotate /\ SetStaging(TRUE) /\ LC' = LC - 1 /\ UNCHANGED <<ESC, kphase>>
    \/ LC <= 0 /\ ESC > 0 /\ Rotate /\ SetStaging(FALSE) /\ UNCHANGED <<LC, ESC, kphase>>
    \/ LC <= 0 /\ ESC = 0 /\ Rotate /\ SetStaging(FALSE) /\ ESC' = ESC - 1
       /\ kphase' = "after" /\ UNCHANGED LC

\* The loop branch.  (A negative ESC would only leave the loop; it is never
\* negative in the kernel.)
BRF ==
    \/ /\ LC > 0
       /\ Rotate /\ SetStaging(TRUE) /\ LC' = LC - 1
       /\ UNCHANGED <<ESC, kphase>>
    \/ /\ LC <= 0 /\ ESC > 0
       /\ Rotate /\ SetStaging(FALSE) /\ ESC' = ESC - 1
       /\ UNCHANGED <<LC, kphase>>
    \/ /\ LC <= 0 /\ ESC = 0
       /\ Rotate /\ SetStaging(FALSE) /\ ESC' = ESC - 1
       /\ kphase' = "after" /\ UNCHANGED LC

Cycle ==
    /\ kphase = "kernel"
    /\ \E W \in {Written} :
        /\ gpr' = [p \in GPRs |-> LET X == {x \in W : x.due = clock + 1 /\ x.reg = p} IN
                        IF X = {} THEN gpr[p] ELSE (CHOOSE x \in X : TRUE).val]
        /\ inflight' = {x \in W : x.due > clock + 1}
    /\ IF Issues(Branch) THEN BRF ELSE UNCHANGED <<kphase, LC, ESC, RRB, pr>>
    /\ clock' = clock + 1
    /\ UNCHANGED <<rotVars, trips>>

SwpInit == SchedInit /\ AllocInit /\ KernelInit
SwpStep ==
    \/ SchedStep /\ UNCHANGED <<allocVars, kernelVars>>
    \/ Allocate /\ UNCHANGED kernelVars
    \/ \E lc \in 0..MAXLC : Enter(lc)
    \/ Cycle
SwpEnded == (phase = "failed" \/ kphase = "after") /\ UNCHANGED swpVars

SwpSpec == SwpInit /\ [][SwpStep \/ SwpEnded]_swpVars

-----------------------------------------------------------------------------
SwpTypeOK ==
    /\ kphase \in {"before", "kernel", "after"}
    /\ file \in GPR..(PR + 1)
    /\ LC \in 0..MAXLC /\ ESC \in -1..esc /\ RRB \in 0..(WORD - 1)
    /\ gpr \in [GPRs -> (0..NumNodes) \X Int]
    /\ pr \in [PRs -> BOOLEAN]

Running == {op \in Ops : kphase = "kernel" /\ Issues(op)}

\* Prologue, kernel and epilogue are the same code: the rotating staging
\* predicate lets exactly the iterations 0..trips of an operation through.
StagingIsExact == \A op \in Running : Guard(op) <=> Iteration(op) \in 0..trips

\* Every operand is the value the source program means: of the iteration
\* omega earlier, or live in, whatever else was put in the register file.
OperandsAreRight == \A e \in loop.flow :
    e.dst \in Running /\ Iteration(e.dst) \in 0..trips
        => Operand(e) = <<e.src, Iteration(e.dst) - e.omega>>

\* After the loop, the values of the last iteration are where the postloop
\* copies them from.
LiveOutsFound == kphase = "after" => \A s \in loop.liveout :
    gpr[Physical(GPR, ExitReg(GPR, s), RRB)] = <<s, trips>>

\* The kernel is executed once for every iteration and once for every
\* further stage of the last, however LC and ESC are counted down.
KernelOnTime ==
    /\ kphase = "kernel" => clock < (trips + stage_count) * ii
    /\ kphase = "after" => clock = (trips + stage_count) * ii
=============================================================================
