---------------------------- MODULE MCSimuCalls ----------------------------
(***************************************************************************)
(* SimuCalls with two functions, up to two jump buffers and a C stack of   *)
(* up to four activations.                                                 *)
(***************************************************************************)
EXTENDS SimuCalls

CONSTANTS main, f, k1, k2

MCFunc == {main, f}
OneKey == {k1}
TwoKeys == {k1, k2}
NoPV == {}
LastPVs == {6, 7}

Virtual == [virtregs |-> TRUE, callbacks |-> TRUE, keys |-> OneKey, pv |-> {}]
Physical == [virtregs |-> FALSE, callbacks |-> TRUE, keys |-> OneKey, pv |-> {6}]
Unsaved == [virtregs |-> FALSE, callbacks |-> FALSE, keys |-> OneKey, pv |-> {7}]
TwoBuffers == [virtregs |-> TRUE, callbacks |-> FALSE, keys |-> TwoKeys, pv |-> {}]

AllKinds == {Virtual, Physical, Unsaved, TwoBuffers}
OnlyVirtual == {Virtual}
=============================================================================
