--------------------------- MODULE MCModuloSched ---------------------------
EXTENDS ModuloSched

CONSTANTS u0, u1, bu

MCCount == [r \in Resources |-> 1]
At(r, t) == [res |-> r, time |-> t]
AltsOf == {<<{At(u0, 0)}>>, <<{At(u0, 0)}, {At(u1, 0)}>>, <<{At(u0, 0), At(u1, 1)}>>}
\* The branch has a unit of its own, or shares one with the operations.
BranchAltsOf == {<<{At(bu, 0)}>>, <<{At(u0, 0)}>>}

\* Operation 2 has a result of latency 2, the others of latency 1.
Lat == [op \in Nodes |-> IF op = 2 THEN 2 ELSE 1]

\* Operations read their sources as they issue; or operation 1 reads one later
\* than any result is written.
AtIssue == [op \in Nodes |-> 0]
LateRead == [AtIssue EXCEPT ![1] = 4]

\* Flow dependences between operations, and edges to and from the branch.
Flow == {[src |-> s, dst |-> d, lat |-> Lat[s], omega |-> w] : s \in Ops, d \in Ops, w \in {0, 1, 2}}
OpEdges == {e \in Flow : /\ (e.omega = 0 => e.src < e.dst)
                         /\ (e.omega = 2 => e.src > e.dst)}
BranchEdges == {[src |-> op, dst |-> Branch, lat |-> 1, omega |-> 0] : op \in Ops}
                \cup {[src |-> Branch, dst |-> op, lat |-> 1, omega |-> 1] : op \in Ops}

\* One recurrence of longest latencies through the whole body: its interval
\* is the first the driver no longer tries.
Longest == {[src |-> op, dst |-> (op % NumNodes) + 1, lat |-> MAXOPLAT,
             omega |-> IF op = Branch THEN 1 ELSE 0] : op \in Nodes}

LoopOf(edges, anti, a, b) ==
    [edges |-> edges, lat |-> Lat, anti |-> anti,
     alts |-> [op \in Nodes |-> IF op = Branch THEN b ELSE a[op]]]

MCLoops ==
    {LoopOf({e, f}, AtIssue, a, <<{At(bu, 0)}>>) : a \in [Ops -> AltsOf], e, f \in OpEdges}
        \cup {LoopOf({e, f}, AtIssue, a, b) : a \in [Ops -> AltsOf], b \in BranchAltsOf,
                                      e \in {d \in OpEdges : d.omega = 0}, f \in BranchEdges}
        \cup {LoopOf(Longest, anti, a, <<{At(bu, 0)}>>) : a \in [Ops -> AltsOf], anti \in {AtIssue, LateRead}}
=============================================================================
