-------------------------- MODULE MCActionQueue --------------------------
(***************************************************************************)
(* ActionQueue on a small instance: one register whose two words take two  *)
(* values, two call targets, and a queue of three slots with the longest   *)
(* latency below its size, so that every slot is reused within a few       *)
(* cycles and one slot is to stay free.                                    *)
(***************************************************************************)
EXTENDS ActionQueue, TLC

CONSTANTS r1, f, g

OneReg == {r1}
TwoVals == {0, 1}
TwoTargets == {f, g}
TargetSymmetry == Permutations(TwoTargets)
=============================================================================
