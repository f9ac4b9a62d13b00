------------------------- MODULE MCSoftwarePipeline -------------------------
EXTENDS SoftwarePipeline

CONSTANTS u0, u1, u2, bu

MCCount == [r \in Resources |-> 1]
MCRegMax == [f \in Files |-> IF f = GPR THEN 5 ELSE 6]
At(r, t) == [res |-> r, time |-> t]

\* Operation 2 has a result of latency 2, the others of latency 1.
Lat == [op \in Nodes |-> IF op = 2 THEN 2 ELSE 1]
Flow(s, d, w) == [src |-> s, dst |-> d, lat |-> Lat[s], omega |-> w]
Legal == {e \in {Flow(s, d, w) : s \in Ops, d \in Ops, w \in 0..2} : e.omega = 0 => e.src < e.dst}

\* Two values; or a chain through the body with two values carried round.
Pairs == {{e, f} : e, f \in Legal}
Chain == {Flow(op, op + 1, 0) : op \in 1..(N - 1)}
Carried == {e \in Legal : e.omega > 0 /\ e.src >= e.dst}
Chains == {Chain \cup {e, f} : e, f \in Carried}

\* Sources read at issue, and a source of operation 1 read after all results of
\* the body are written: the epilogue is longer than the results need.
AtIssue == [op \in Nodes |-> 0]
LateRead == [AtIssue EXCEPT ![1] = 4]

\* The unit of each operation: one for all, or one each.
Units == {<<u0, u0, u0, bu>>, <<u0, u1, u2, bu>>}

LoopOf(b, anti, o, u) ==
    [edges |-> b, flow |-> b, lat |-> Lat, anti |-> anti, liveout |-> o,
     alts |-> [op \in Nodes |-> <<{At(u[op], 0)}>>]]

MCLoops ==
    {LoopOf(b, AtIssue, o, u) : b \in Pairs \cup Chains, o \in {{}, {2}, {1, 3}}, u \in Units}
        \cup {LoopOf(b, LateRead, o, u) : b \in Chains, o \in {{}, {1, 3}}, u \in Units}
=============================================================================
