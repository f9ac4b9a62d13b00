------------------------------- MODULE CCalls -------------------------------
(***************************************************************************)
(* What a C program may expect of calls, returns, setjmp and longjmp: one  *)
(* stack of activations, and a longjmp that cuts it, at once, back to the  *)
(* activation that made the setjmp.                                        *)
(***************************************************************************)
EXTENDS Integers, Sequences

CONSTANTS Func, Main, Key

VARIABLES
    frames, \* the active functions, innermost last
    env     \* env[k]: position of the activation that set k, 0 if it is gone

cvars == <<frames, env>>

Init == frames = <<Main>> /\ env = [k \in Key |-> 0]

CutTo(n) ==
    /\ frames' = SubSeq(frames, 1, n)
    /\ env' = [k \in Key |-> IF env[k] > n THEN 0 ELSE env[k]]

Call(f) == frames' = Append(frames, f) /\ UNCHANGED env
Return == frames # <<>> /\ CutTo(Len(frames) - 1)
SetJmp(k) == frames # <<>> /\ env' = [env EXCEPT ![k] = Len(frames)] /\ UNCHANGED frames
LongJmp(k) == env[k] > 0 /\ CutTo(env[k])

Next ==
    \/ \E f \in Func : Call(f)
    \/ Return
    \/ \E k \in Key : SetJmp(k) \/ LongJmp(k)

Spec == Init /\ [][Next]_cvars
=============================================================================
