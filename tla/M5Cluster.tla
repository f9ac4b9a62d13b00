----------------------------- MODULE M5Cluster -----------------------------
(***************************************************************************)
(* The M5elements side of the cache simulation (m5elements/m5e_cluster.cc  *)
(* and cache.cc): each cluster collects the requests of a cycle, hands     *)
(* them to its data cache on the next tick, keeps those the cache refuses  *)
(* in a queue, and collects the completed ones of a tick until Simu reads  *)
(* them.                                                                   *)
(*                                                                         *)
(* The caches themselves are M5's, which is not part of the repository: a  *)
(* request in a cache completes on any later tick, and a cache may refuse  *)
(* requests at any time.                                                   *)
(***************************************************************************)
EXTENDS Integers, Sequences, FiniteSets
LOCAL INSTANCE SequencesExt

CONSTANTS
    Cluster,    \* the clusters, each with a data cache
    RegId,      \* register_id of a load
    NoReg,      \* a store names no register
    MAXREQ      \* bound: requests ever sent

ASSUME NoRegAssumption == NoReg \notin RegId
ASSUME MaxReqAssumption == MAXREQ \in Nat

VARIABLES
    issued,     \* issuedDcacheReqsThisCycle
    blocked,    \* blockedDcacheReqs
    inCache,    \* the requests each cache works on
    refusing,   \* dcacheInterface->isBlocked()
    completed,  \* completedReqsThisCycle
    current,    \* completedReqsCycleNum is the current tick
    unread,     \* completedReqsUnread
    nextReqId,
    outstanding \* _outstanding_requests

mvars == <<issued, blocked, inCache, refusing, completed, current, unread,
           nextReqId, outstanding>>

Request == [id : 0 .. MAXREQ - 1, reg : RegId \cup {NoReg}]

\* A definition whose comment says "Faulty:" is not part of the model.  It is the
\* definition after it with a plausible bug, kept to see that a property notices.

\* Faulty: the cache alone is asked.
IsDcacheBlockedCacheOnly(c) == refusing[c]

\* Faulty: a cluster with nothing to retry is taken for full.
IsDcacheBlockedNegated(c) == refusing[c] \/ blocked[c] = <<>>

\* M5E_is_dcache_request_queue_full.  A cache that refused requests in a tick may
\* take requests again at its end.
IsDcacheBlocked(c) == refusing[c] \/ blocked[c] # <<>>

InitM5 ==
    /\ issued = [c \in Cluster |-> <<>>]
    /\ blocked = [c \in Cluster |-> <<>>]
    /\ inCache = [c \in Cluster |-> {}]
    /\ refusing \in [Cluster -> BOOLEAN]
    /\ completed = [c \in Cluster |-> {}]
    /\ current = [c \in Cluster |-> TRUE]
    /\ unread = [c \in Cluster |-> FALSE]
    /\ nextReqId = 0
    /\ outstanding = 0

\* Faulty: a store is not counted, though its completion is.
M5E_send_dcache_requestUncounted(r, c) ==
    /\ nextReqId < MAXREQ
    /\ issued' = [issued EXCEPT ![c] = Append(@, [id |-> nextReqId, reg |-> r])]
    /\ nextReqId' = nextReqId + 1
    /\ outstanding' = IF r = NoReg THEN outstanding ELSE outstanding + 1
    /\ UNCHANGED <<blocked, inCache, refusing, completed, current, unread>>

M5E_send_dcache_request(r, c) ==
    /\ nextReqId < MAXREQ
    /\ issued' = [issued EXCEPT ![c] = Append(@, [id |-> nextReqId, reg |-> r])]
    /\ nextReqId' = nextReqId + 1
    /\ outstanding' = outstanding + 1
    /\ UNCHANGED <<blocked, inCache, refusing, completed, current, unread>>

\* What tick() offers to the cache, in order: first what the cache refused
\* before, then what was issued since the last tick.
Waiting(c) == blocked[c] \o issued[c]

\* Faulty: a refused request is put in front of those refused before it.
RefusedReversed(c, n) == Reverse(SubSeq(Waiting(c), n + 1, Len(Waiting(c))))
Refused(c, n) == SubSeq(Waiting(c), n + 1, Len(Waiting(c)))

Requests(s) == {s[i] : i \in 1 .. Len(s)}

\* One tick of every cluster.  The requests of done complete and are collected;
\* of those waiting in c the cache takes taken[c] and refuses the rest.
M5E_advance_clock(done, taken) ==
    /\ completed' = [c \in Cluster |-> IF inCache[c] \cap done = {} THEN completed[c]
                                       ELSE inCache[c] \cap done]
    /\ current' = [c \in Cluster |-> inCache[c] \cap done # {}]
    /\ unread' = [c \in Cluster |-> unread[c] \/ inCache[c] \cap done # {}]
    /\ inCache' = [c \in Cluster |->
                     (inCache[c] \ done) \cup Requests(SubSeq(Waiting(c), 1, taken[c]))]
    /\ blocked' = [c \in Cluster |-> Refused(c, taken[c])]
    /\ issued' = [c \in Cluster |-> <<>>]
    /\ refusing' \in [Cluster -> BOOLEAN]
    /\ UNCHANGED <<nextReqId, outstanding>>

\* Faulty: a cluster's completed requests are kept when they have been read.
GetCompletedRequestsAgain(c) == completed[c]

\* The completed requests of a cluster: those of an earlier tick have been read.
GetCompletedRequests(c) == IF ~unread[c] /\ ~current[c] THEN {} ELSE completed[c]

\* Faulty: the list ends after the first register.
ReadyRegsOne ==
    LET done == UNION {GetCompletedRequests(c) : c \in Cluster}
    IN  {q.reg : q \in {d \in done : \A e \in done : d.id <= e.id}} \ {NoReg}

\* The registers of the loads that have completed, which M5E_ready_loads returns;
\* it counts the stores as well.
ReadyRegs == {q.reg : q \in UNION {GetCompletedRequests(c) : c \in Cluster}} \ {NoReg}

M5E_ready_loads ==
    /\ completed' = [c \in Cluster |-> GetCompletedRequests(c)]
    /\ unread' = [c \in Cluster |-> FALSE]
    /\ outstanding' = outstanding
         - Cardinality(UNION {GetCompletedRequests(c) : c \in Cluster})
    /\ UNCHANGED <<issued, blocked, inCache, refusing, current, nextReqId>>

----------------------------------------------------------------------------
\* Requests Simu has not been told the completion of.
Unfinished(c) ==
    Requests(issued[c]) \cup Requests(blocked[c]) \cup inCache[c]
        \cup (IF unread[c] THEN completed[c] ELSE {})
AllUnfinished == UNION {Unfinished(c) : c \in Cluster}
=============================================================================
