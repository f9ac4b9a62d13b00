---------------------------- MODULE MCPipeline ----------------------------
(***************************************************************************)
(* Pipeline with a queue of three slots, latencies below its size, and     *)
(* three families of programs: stalls alone, setjmp alone, and everything  *)
(* a clock can call.                                                       *)
(***************************************************************************)
EXTENDS Pipeline

CONSTANTS r1, r2, f

TwoRegs == {r1, r2}
OneVal == {0}
AllTargets == {f, Epilogue, Setjmp, Longjmp}

Stalls == [regs |-> TwoRegs, calls |-> {}]
SetjmpAlone == [regs |-> {r1}, calls |-> {Setjmp}]
AllCalls == [regs |-> {r1}, calls |-> AllTargets]
StallsAndCalls == {Stalls, AllCalls}
OnlySetjmp == {SetjmpAlone}
=============================================================================
