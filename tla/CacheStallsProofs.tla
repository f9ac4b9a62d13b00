------------------------- MODULE CacheStallsProofs -------------------------
(***************************************************************************)
(* What holds of the requests between Simu and M5 (CacheStalls) for every  *)
(* number of clusters, registers and requests, every schedule and whatever *)
(* the caches do.                                                          *)
(***************************************************************************)
EXTENDS CacheStalls, ActionQueueProofs, FiniteSetTheorems

\* What a cluster and its cache hold.
Held(c) == Requests(Waiting(c)) \cup inCache[c]

\* A load or store that waits for room names a cluster and a register.
WaitOK == wait.k = "queue" => wait.reg \in RegId \cup {NoReg} /\ wait.cid \in Cluster

\* The types the steps rely on.
RequestTypes ==
    /\ issued \in [Cluster -> Seq(Request)]
    /\ blocked \in [Cluster -> Seq(Request)]
    /\ inCache \in [Cluster -> SUBSET Request]
    /\ completed \in [Cluster -> SUBSET Request]
    /\ current \in [Cluster -> BOOLEAN]
    /\ unread \in [Cluster -> BOOLEAN]
    /\ refusing \in [Cluster -> BOOLEAN]
    /\ nextReqId \in Nat
    /\ phase \in {"go", "ready"}
    /\ WaitOK

\* Ids are given out once.
Fresh == \A c \in Cluster : \A q \in Held(c) \cup completed[c] : q.id < nextReqId

\* A request is in one cluster.
Apart == \A c, d \in Cluster : c # d => Held(c) \cap Held(d) = {}

\* Completed requests are read right after the tick that collects them, and
\* are gone from the clusters by then.
Told ==
    \A c \in Cluster :
        /\ phase = "go" => ~unread[c]
        /\ unread[c] = (current[c] /\ phase = "ready")
        /\ unread[c] => \A d \in Cluster : completed[c] \cap Held(d) = {}

\* The count, of a set that has a count.
Counted == IsFiniteSet(AllUnfinished) /\ OutstandingExact

\* The inductive invariant.
StallsInv ==
    /\ RequestTypes /\ Fresh /\ InOrder
    /\ Apart /\ Told /\ Counted

-----------------------------------------------------------------------------
\* The requests in a sequence, when it is extended, cut or joined.

\* No sequence element comes from elsewhere.
LEMMA RequestsOf ==
  /\ Requests(<<>>) = {}
  /\ \A S : \A s \in Seq(S) : Requests(s) \subseteq S
  BY DEF Requests

\* An append adds one request.
LEMMA RequestsAppended ==
  ASSUME NEW S, NEW s \in Seq(S), NEW q \in S
  PROVE  Requests(Append(s, q)) = Requests(s) \cup {q}
  <1>1. Len(Append(s, q)) = Len(s) + 1 /\ Append(s, q)[Len(s) + 1] = q
        /\ \A i \in 1 .. Len(s) : Append(s, q)[i] = s[i]
    OBVIOUS
  <1>2. \A i \in 1 .. Len(s) + 1 : i \in 1 .. Len(s) \/ i = Len(s) + 1
    OBVIOUS
  <1>3. Len(s) + 1 \in 1 .. Len(s) + 1 /\ \A i \in 1 .. Len(s) : i \in 1 .. Len(s) + 1
    OBVIOUS
  <1> QED BY <1>1, <1>2, <1>3 DEF Requests

\* Joined sequences hold the requests of both.
LEMMA RequestsJoined ==
  ASSUME NEW S, NEW s \in Seq(S), NEW t \in Seq(S)
  PROVE  Requests(s \o t) = Requests(s) \cup Requests(t)
  <1>1. /\ Len(s \o t) = Len(s) + Len(t)
        /\ \A i \in 1 .. Len(s) : (s \o t)[i] = s[i]
        /\ \A i \in 1 .. Len(t) : (s \o t)[Len(s) + i] = t[i]
    OBVIOUS
  <1>2. \A i \in 1 .. Len(s) + Len(t) :
           i \in 1 .. Len(s) \/ \E j \in 1 .. Len(t) : i = Len(s) + j
    <2> TAKE i \in 1 .. Len(s) + Len(t)
    <2>1. CASE i <= Len(s)
      BY <2>1
    <2>2. CASE i > Len(s)
      <3>1. i - Len(s) \in 1 .. Len(t) /\ i = Len(s) + (i - Len(s))
        BY <2>2
      <3> QED BY <3>1
    <2> QED BY <2>1, <2>2
  <1>3. /\ \A i \in 1 .. Len(s) : i \in 1 .. Len(s) + Len(t)
        /\ \A i \in 1 .. Len(t) : Len(s) + i \in 1 .. Len(s) + Len(t)
    OBVIOUS
  <1> QED BY <1>1, <1>2, <1>3 DEF Requests

\* What is appended to the second of two sequences is last in the joined one.
LEMMA AppendedLast ==
  ASSUME NEW s \in Seq(Request), NEW t \in Seq(Request), NEW q \in Request
  PROVE  s \o Append(t, q) = Append(s \o t, q)
  <1> DEFINE S == Request
  <1> HIDE DEF S
  <1>1. s \in Seq(S) /\ t \in Seq(S) /\ q \in S
    BY DEF S
  <1> QED BY <1>1

\* A sequence cut after n elements: nothing is lost, the rest keeps its order.
LEMMA RequestsCut ==
  ASSUME NEW S, NEW s \in Seq(S), NEW n \in 0 .. Len(s)
  PROVE  LET first == SubSeq(s, 1, n)
             rest == SubSeq(s, n + 1, Len(s))
         IN  /\ first \in Seq(S) /\ rest \in Seq(S)
             /\ Requests(s) = Requests(first) \cup Requests(rest)
             /\ \A q \in Requests(first) : \E i \in 1 .. n : q = s[i]
             /\ Len(rest) = Len(s) - n
             /\ \A i \in 1 .. Len(rest) : rest[i] = s[n + i]
  <1> DEFINE first == SubSeq(s, 1, n)
             rest == SubSeq(s, n + 1, Len(s))
  <1>1. first \in Seq(S) /\ rest \in Seq(S)
    OBVIOUS
  <1>2. Len(first) = n /\ \A i \in 1 .. n : first[i] = s[i]
    OBVIOUS
  <1>3. Len(rest) = Len(s) - n /\ \A i \in 1 .. Len(s) - n : rest[i] = s[n + i]
    OBVIOUS
  <1>4. \A i \in 1 .. Len(s) : i \in 1 .. n \/ \E j \in 1 .. Len(s) - n : i = n + j
    <2> TAKE i \in 1 .. Len(s)
    <2>1. CASE i <= n
      BY <2>1
    <2>2. CASE i > n
      <3>1. i - n \in 1 .. Len(s) - n /\ i = n + (i - n)
        BY <2>2
      <3> QED BY <3>1
    <2> QED BY <2>1, <2>2
  <1>5. /\ \A i \in 1 .. n : i \in 1 .. Len(s)
        /\ \A i \in 1 .. Len(s) - n : n + i \in 1 .. Len(s)
    OBVIOUS
  <1> HIDE DEF first, rest
  <1>6. Requests(s) = Requests(first) \cup Requests(rest)
    <2>1. \A q \in Requests(s) : q \in Requests(first) \/ q \in Requests(rest)
      <3> SUFFICES ASSUME NEW i \in 1 .. Len(s)
                   PROVE  s[i] \in Requests(first) \/ s[i] \in Requests(rest)
        BY DEF Requests
      <3>1. CASE i \in 1 .. n
        <4>1. first[i] = s[i] /\ i \in 1 .. Len(first)
          BY <1>2, <3>1
        <4> QED BY <4>1 DEF Requests
      <3>2. ASSUME NEW j \in 1 .. Len(s) - n, i = n + j PROVE s[i] \in Requests(rest)
        <4>1. rest[j] = s[i] /\ j \in 1 .. Len(rest)
          BY <1>3, <3>2
        <4> QED BY <4>1 DEF Requests
      <3> QED BY <1>4, <3>1, <3>2
    <2>2. \A q \in Requests(first) \cup Requests(rest) : q \in Requests(s)
      BY <1>2, <1>3, <1>5 DEF Requests
    <2> QED BY <2>1, <2>2
  <1>7. \A q \in Requests(first) : \E i \in 1 .. n : q = s[i]
    BY <1>2 DEF Requests
  <1> QED BY <1>1, <1>3, <1>6, <1>7 DEF first, rest

\* What a cluster waits with and holds, in terms of its three parts.
LEMMA WaitingIs ==
  ASSUME RequestTypes, NEW c \in Cluster
  PROVE  /\ Waiting(c) \in Seq(Request)
         /\ Requests(Waiting(c)) = Requests(blocked[c]) \cup Requests(issued[c])
         /\ Requests(Waiting(c)) \subseteq Request
         /\ Held(c) \subseteq Request
         /\ Unfinished(c) = Held(c) \cup (IF unread[c] THEN completed[c] ELSE {})
  <1>1. blocked[c] \in Seq(Request) /\ issued[c] \in Seq(Request) /\ inCache[c] \subseteq Request
    BY DEF RequestTypes
  <1>2. Waiting(c) \in Seq(Request)
    BY <1>1 DEF Waiting
  <1>3. Requests(Waiting(c)) = Requests(blocked[c]) \cup Requests(issued[c])
    BY <1>1, RequestsJoined DEF Waiting
  <1>4. Requests(Waiting(c)) \subseteq Request
    BY <1>2, RequestsOf
  <1> QED BY <1>1, <1>2, <1>3, <1>4 DEF Held, Unfinished

-----------------------------------------------------------------------------
\* A tick: what a cluster holds afterwards is what it held and has not
\* completed, in the same order.
LEMMA TickHeld ==
  ASSUME RequestTypes, InOrder, NEW done, NEW taken, M5E_advance_clock(done, taken),
         NEW c \in Cluster, taken[c] \in 0 .. Len(Waiting(c))
  PROVE  /\ issued'[c] = <<>> /\ blocked'[c] \in Seq(Request)
         /\ Len(Waiting(c)') = Len(Waiting(c)) - taken[c]
         /\ \A i \in 1 .. Len(Waiting(c)') : Waiting(c)'[i] = Waiting(c)[taken[c] + i]
         /\ inCache'[c] = (inCache[c] \ done) \cup Requests(SubSeq(Waiting(c), 1, taken[c]))
         /\ \A q \in Requests(SubSeq(Waiting(c), 1, taken[c])) :
                \E i \in 1 .. taken[c] : q = Waiting(c)[i]
         /\ inCache'[c] \subseteq Request
         /\ Held(c)' = Held(c) \ (inCache[c] \cap done)
  <1> DEFINE W == Waiting(c)
             n == taken[c]
             first == SubSeq(W, 1, n)
             rest == SubSeq(W, n + 1, Len(W))
  <1>1. W \in Seq(Request) /\ Requests(W) \subseteq Request
    BY WaitingIs
  <1>2. issued'[c] = <<>> /\ blocked'[c] = rest
        /\ inCache'[c] = (inCache[c] \ done) \cup Requests(first)
    BY DEF M5E_advance_clock, Refused
  <1>3. /\ first \in Seq(Request) /\ rest \in Seq(Request)
        /\ Requests(W) = Requests(first) \cup Requests(rest)
        /\ \A q \in Requests(first) : \E i \in 1 .. n : q = W[i]
        /\ Len(rest) = Len(W) - n
        /\ \A i \in 1 .. Len(rest) : rest[i] = W[n + i]
    <2> HIDE DEF W, n
    <2> QED BY <1>1, RequestsCut DEF n, W
  <1>4. Waiting(c)' = rest
    <2>1. Waiting(c)' = rest \o <<>>
      BY <1>2 DEF Waiting
    <2> HIDE DEF rest
    <2> QED BY <1>3, <2>1
  <1>5. inCache[c] \cap Requests(W) = {}
    <2>1. \A q \in inCache[c], p \in Requests(W) : q.id < p.id
      BY DEF InOrder
    <2>2. \A q \in Request : q.id \in Int
      BY MaxReqAssumption DEF Request
    <2> QED BY <1>1, <2>1, <2>2
  <1>6. inCache[c] \subseteq Request
    BY DEF RequestTypes
  <1>7. Held(c)' = Held(c) \ (inCache[c] \cap done)
    <2>1. Held(c)' = Requests(rest) \cup (inCache[c] \ done) \cup Requests(first)
      BY <1>2, <1>4 DEF Held
    <2> QED BY <1>3, <1>5, <2>1 DEF Held
  <1> HIDE DEF first, rest
  <1>8. inCache'[c] \subseteq Request
    BY <1>1, <1>2, <1>3, <1>6
  <1> QED BY <1>2, <1>3, <1>4, <1>7, <1>8 DEF first, rest

\* A tick keeps the invariant: it moves requests within their cluster.
LEMMA TickInv ==
  ASSUME StallsInv, phase = "go", Ticks(InFlight), UNCHANGED wait
  PROVE  /\ StallsInv'
         /\ AllUnfinished' = AllUnfinished
         /\ UNCHANGED <<nextReqId, outstanding>> /\ phase' = "ready"
  <1>1. PICK done \in SUBSET InFlight, taken \in [Cluster -> 0 .. MAXREQ] :
            /\ \A c \in Cluster : taken[c] <= Len(Waiting(c))
            /\ M5E_advance_clock(done, taken)
            /\ phase' = "ready"
    BY DEF Ticks, Tick
  <1>2. \A c \in Cluster : taken[c] \in 0 .. Len(Waiting(c))
    <2> TAKE c \in Cluster
    <2>1. taken[c] \in Nat /\ taken[c] <= Len(Waiting(c)) /\ Len(Waiting(c)) \in Nat
      <3>1. Waiting(c) \in Seq(Request)
        BY WaitingIs DEF StallsInv
      <3>2. taken[c] \in 0 .. MAXREQ /\ taken[c] <= Len(Waiting(c))
        BY <1>1
      <3> QED BY <3>1, <3>2, MaxReqAssumption
    <2> QED BY <2>1
  <1>3. \A c \in Cluster :
          /\ issued'[c] = <<>> /\ blocked'[c] \in Seq(Request)
          /\ Len(Waiting(c)') = Len(Waiting(c)) - taken[c]
          /\ \A i \in 1 .. Len(Waiting(c)') : Waiting(c)'[i] = Waiting(c)[taken[c] + i]
          /\ inCache'[c] = (inCache[c] \ done) \cup Requests(SubSeq(Waiting(c), 1, taken[c]))
          /\ \A q \in Requests(SubSeq(Waiting(c), 1, taken[c])) :
                 \E i \in 1 .. taken[c] : q = Waiting(c)[i]
          /\ inCache'[c] \subseteq Request
          /\ Held(c)' = Held(c) \ (inCache[c] \cap done)
    BY <1>1, <1>2, TickHeld DEF StallsInv
  <1>4. \A c \in Cluster : ~unread[c]
    BY DEF StallsInv, Told
  <1>5. \A c \in Cluster :
          /\ completed'[c] = IF inCache[c] \cap done = {} THEN completed[c] ELSE inCache[c] \cap done
          /\ current'[c] = (inCache[c] \cap done # {})
          /\ unread'[c] = (inCache[c] \cap done # {})
    BY <1>1, <1>4 DEF M5E_advance_clock
  <1>6. RequestTypes'
    <2>1. /\ issued' = [c \in Cluster |-> <<>>]
          /\ blocked' = [c \in Cluster |-> Refused(c, taken[c])]
          /\ inCache' = [c \in Cluster |->
                (inCache[c] \ done) \cup Requests(SubSeq(Waiting(c), 1, taken[c]))]
          /\ completed' = [c \in Cluster |-> IF inCache[c] \cap done = {} THEN completed[c]
                                             ELSE inCache[c] \cap done]
          /\ current' = [c \in Cluster |-> inCache[c] \cap done # {}]
          /\ unread' = [c \in Cluster |-> unread[c] \/ inCache[c] \cap done # {}]
          /\ refusing' \in [Cluster -> BOOLEAN]
          /\ nextReqId' = nextReqId
      BY <1>1 DEF M5E_advance_clock
    <2>2. issued' \in [Cluster -> Seq(Request)] /\ blocked' \in [Cluster -> Seq(Request)]
      BY <1>3, <2>1
    <2>3. inCache' \in [Cluster -> SUBSET Request]
      BY <1>3, <2>1
    <2>4. completed' \in [Cluster -> SUBSET Request]
      BY <2>1 DEF StallsInv, RequestTypes
    <2>5. current' \in [Cluster -> BOOLEAN] /\ unread' \in [Cluster -> BOOLEAN]
      BY <2>1, <1>4
    <2>6. WaitOK'
      BY DEF WaitOK, StallsInv, RequestTypes
    <2> QED BY <1>1, <2>1, <2>2, <2>3, <2>4, <2>5, <2>6 DEF RequestTypes, StallsInv
  <1>7. Fresh'
    <2> SUFFICES ASSUME NEW c \in Cluster, NEW q \in Held(c)' \cup completed'[c]
                 PROVE  q.id < nextReqId'
      BY DEF Fresh
    <2>1. q \in Held(c) \cup completed[c]
      BY <1>3, <1>5 DEF Held
    <2>2. nextReqId' = nextReqId
      BY <1>1 DEF M5E_advance_clock
    <2> QED BY <2>1, <2>2 DEF StallsInv, Fresh
  <1>8. InOrder'
    <2> SUFFICES ASSUME NEW c \in Cluster
                 PROVE  /\ \A q \in inCache'[c], p \in Requests(Waiting(c)') : q.id < p.id
                        /\ \A i, j \in 1 .. Len(Waiting(c)') :
                              i < j => Waiting(c)'[i].id < Waiting(c)'[j].id
      BY DEF InOrder
    <2> DEFINE W == Waiting(c)
               n == taken[c]
    <2>1. /\ \A q \in inCache[c], p \in Requests(W) : q.id < p.id
          /\ \A i, j \in 1 .. Len(W) : i < j => W[i].id < W[j].id
      BY DEF StallsInv, InOrder
    <2>2. Len(W) \in Nat /\ n \in 0 .. Len(W)
      BY <1>2, WaitingIs DEF StallsInv
    <2>3. Len(Waiting(c)') = Len(W) - n
          /\ \A i \in 1 .. Len(Waiting(c)') : Waiting(c)'[i] = W[n + i]
      BY <1>3
    <2> HIDE DEF W, n
    <2>4. \A i \in 1 .. Len(Waiting(c)') : n + i \in 1 .. Len(W)
      BY <2>2, <2>3
    <2>5. \A i, j \in 1 .. Len(Waiting(c)') : i < j => Waiting(c)'[i].id < Waiting(c)'[j].id
      <3> TAKE i, j \in 1 .. Len(Waiting(c)')
      <3> HAVE i < j
      <3>1. n + i \in 1 .. Len(W) /\ n + j \in 1 .. Len(W) /\ n + i < n + j
        BY <2>2, <2>3, <2>4
      <3> QED BY <2>1, <2>3, <3>1
    <2>6. \A p \in Requests(Waiting(c)') : \E k \in 1 .. Len(W) : k > n /\ p = W[k]
      <3> SUFFICES ASSUME NEW i \in 1 .. Len(Waiting(c)')
                   PROVE  \E k \in 1 .. Len(W) : k > n /\ Waiting(c)'[i] = W[k]
        BY DEF Requests
      <3>1. n + i \in 1 .. Len(W) /\ n + i > n /\ Waiting(c)'[i] = W[n + i]
        BY <2>2, <2>3, <2>4
      <3> QED BY <3>1
    <2>7. ASSUME NEW q \in inCache'[c], NEW p \in Requests(Waiting(c)') PROVE q.id < p.id
      <3>1. PICK k \in 1 .. Len(W) : k > n /\ p = W[k]
        BY <2>6
      <3>2. CASE q \in inCache[c]
        BY <2>1, <3>1, <3>2 DEF Requests
      <3>3. CASE \E i \in 1 .. n : q = W[i]
        <4>1. PICK i \in 1 .. n : q = W[i]
          BY <3>3
        <4>2. i \in 1 .. Len(W) /\ i < k
          BY <2>2, <3>1
        <4> QED BY <2>1, <3>1, <4>1, <4>2
      <3>4. q \in inCache[c] \/ \E i \in 1 .. n : q = W[i]
        BY <1>3 DEF W, n
      <3> QED BY <3>2, <3>3, <3>4
    <2> QED BY <2>5, <2>7
  <1>9. Apart'
    BY <1>3 DEF Apart, StallsInv
  <1>10. Told'
    <2> SUFFICES ASSUME NEW c \in Cluster
                 PROVE  /\ unread'[c] = current'[c]
                        /\ unread'[c] => \A d \in Cluster : completed'[c] \cap Held(d)' = {}
      BY <1>1, <1>6 DEF Told, RequestTypes
    <2>1. unread'[c] = current'[c]
      BY <1>5
    <2>2. ASSUME unread'[c], NEW d \in Cluster PROVE completed'[c] \cap Held(d)' = {}
      <3>1. completed'[c] = inCache[c] \cap done
        BY <1>5, <2>2
      <3>2. CASE c = d
        BY <1>3, <3>1, <3>2
      <3>3. CASE c # d
        BY <1>3, <3>1, <3>3 DEF StallsInv, Apart, Held
      <3> QED BY <3>2, <3>3
    <2> QED BY <2>1, <2>2
  <1>11. \A c \in Cluster : Unfinished(c)' = Unfinished(c)
    <2> TAKE c \in Cluster
    <2>1. Unfinished(c) = Held(c)
      BY <1>4, WaitingIs DEF StallsInv
    <2>2. Unfinished(c)' = Held(c)' \cup (IF unread'[c] THEN completed'[c] ELSE {})
      <3>1. Requests(Waiting(c)') = Requests(blocked'[c]) \cup Requests(issued'[c])
        BY <1>6, RequestsJoined DEF RequestTypes, Waiting
      <3> QED BY <3>1 DEF Unfinished, Held
    <2>3. Held(c)' \cup (inCache[c] \cap done) = Held(c)
      BY <1>3 DEF Held
    <2> QED BY <1>5, <2>1, <2>2, <2>3
  <1>12. AllUnfinished' = AllUnfinished /\ outstanding' = outstanding
    BY <1>1, <1>11 DEF AllUnfinished, M5E_advance_clock
  <1>13. Counted'
    BY <1>12 DEF Counted, StallsInv, OutstandingExact
  <1>14. UNCHANGED <<nextReqId, outstanding>> /\ phase' = "ready"
    BY <1>1 DEF M5E_advance_clock
  <1> QED BY <1>6, <1>7, <1>8, <1>9, <1>10, <1>12, <1>13, <1>14 DEF StallsInv

-----------------------------------------------------------------------------
\* A request is sent: its id is new, and it is the last its cluster offers.
LEMMA SendInv ==
  ASSUME StallsInv, SendAccess
  PROVE  /\ StallsInv'
         /\ AllUnfinished' = AllUnfinished \cup {[id |-> nextReqId, reg |-> wait.reg]}
  <1> DEFINE k == wait.cid
             req == [id |-> nextReqId, reg |-> wait.reg]
  <1>1. k \in Cluster /\ wait.reg \in RegId \cup {NoReg} /\ phase = "go"
    BY DEF StallsInv, RequestTypes, WaitOK, SendAccess, Now
  <1>2. /\ issued' = [issued EXCEPT ![k] = Append(@, req)]
        /\ nextReqId < MAXREQ /\ nextReqId' = nextReqId + 1
        /\ outstanding' = outstanding + 1
        /\ UNCHANGED <<blocked, inCache, refusing, completed, current, unread>>
    BY DEF SendAccess, M5E_send_dcache_request
  <1>3. wait' = Go /\ phase' = phase
    BY DEF SendAccess
  <1>4. nextReqId \in Nat /\ req \in Request
    <2>1. nextReqId \in 0 .. MAXREQ - 1
      BY <1>2, MaxReqAssumption DEF StallsInv, RequestTypes
    <2> QED BY <1>1, <2>1 DEF Request
  <1> HIDE DEF req, k
  <1>5. \A c \in Cluster : issued[c] \in Seq(Request) /\ blocked[c] \in Seq(Request)
    BY DEF StallsInv, RequestTypes
  <1>6. \A c \in Cluster : issued'[c] = IF c = k THEN Append(issued[c], req) ELSE issued[c]
    BY <1>2 DEF StallsInv, RequestTypes
  <1>7. \A c \in Cluster : Waiting(c)' = IF c = k THEN Append(Waiting(c), req) ELSE Waiting(c)
    <2> TAKE c \in Cluster
    <2>1. Waiting(c)' = blocked[c] \o issued'[c]
      BY <1>2 DEF Waiting
    <2>2. blocked[c] \o Append(issued[c], req) = Append(blocked[c] \o issued[c], req)
      <3>1. blocked[c] \in Seq(Request) /\ issued[c] \in Seq(Request)
        BY <1>5
      <3> QED BY <1>4, <3>1, AppendedLast
    <2> QED BY <1>6, <2>1, <2>2 DEF Waiting
  <1>8. \A c \in Cluster : Waiting(c) \in Seq(Request)
    BY WaitingIs DEF StallsInv
  <1>9. \A c \in Cluster :
           Requests(Waiting(c)') = Requests(Waiting(c)) \cup (IF c = k THEN {req} ELSE {})
    <2> TAKE c \in Cluster
    <2>1. Requests(Append(Waiting(c), req)) = Requests(Waiting(c)) \cup {req}
      BY <1>4, <1>8, RequestsAppended
    <2> QED BY <1>7, <2>1
  <1>10. \A c \in Cluster : Held(c)' = Held(c) \cup (IF c = k THEN {req} ELSE {})
    BY <1>2, <1>9 DEF Held
  <1>11. RequestTypes'
    <2>1. issued' \in [Cluster -> Seq(Request)]
      <3>1. Append(issued[k], req) \in Seq(Request)
        BY <1>1, <1>4, <1>5 DEF k
      <3>2. issued \in [Cluster -> Seq(Request)]
        BY DEF StallsInv, RequestTypes
      <3> QED BY <1>2, <3>1, <3>2
    <2>2. WaitOK'
      BY <1>3 DEF WaitOK, Go
    <2> QED BY <1>2, <1>3, <1>4, <2>1, <2>2 DEF StallsInv, RequestTypes
  <1>12. \A c \in Cluster : \A q \in Held(c) \cup completed[c] : q \in Request /\ q.id < nextReqId
    <2> TAKE c \in Cluster
    <2>1. Held(c) \cup completed[c] \subseteq Request
      BY WaitingIs DEF StallsInv, RequestTypes
    <2> QED BY <2>1 DEF StallsInv, Fresh
  <1>13. req.id = nextReqId /\ \A q \in Request : q.id \in Nat
    BY MaxReqAssumption DEF Request, req
  <1>14. \A c \in Cluster : req \notin Held(c) \cup completed[c]
    <2> TAKE c \in Cluster
    <2>1. ~(nextReqId < nextReqId)
      BY <1>4
    <2> QED BY <1>12, <1>13, <2>1
  <1>15. Fresh'
    <2> SUFFICES ASSUME NEW c \in Cluster, NEW q \in Held(c)' \cup completed[c]
                 PROVE  q.id < nextReqId + 1
      BY <1>2 DEF Fresh
    <2>1. CASE q = req
      BY <1>4, <1>13, <2>1
    <2>2. CASE q \in Held(c) \cup completed[c]
      <3>1. q \in Request /\ q.id < nextReqId
        BY <1>12, <2>2
      <3>2. q.id \in Nat
        BY <1>13, <3>1
      <3> QED BY <1>4, <3>1, <3>2
    <2> QED BY <1>10, <2>1, <2>2
  <1>16. InOrder'
    <2> SUFFICES ASSUME NEW c \in Cluster
                 PROVE  /\ \A q \in inCache[c], p \in Requests(Waiting(c)') : q.id < p.id
                        /\ \A i, j \in 1 .. Len(Waiting(c)') :
                              i < j => Waiting(c)'[i].id < Waiting(c)'[j].id
      BY <1>2 DEF InOrder
    <2> DEFINE W == Waiting(c)
    <2>1. /\ \A q \in inCache[c], p \in Requests(W) : q.id < p.id
          /\ \A i, j \in 1 .. Len(W) : i < j => W[i].id < W[j].id
      BY DEF StallsInv, InOrder
    <2>2. CASE c # k
      <3>1. Waiting(c)' = W
        BY <1>7, <2>2
      <3> QED BY <2>1, <3>1
    <2>3. CASE c = k
      <3>1. Waiting(c)' = Append(W, req) /\ Requests(Waiting(c)') = Requests(W) \cup {req}
        BY <1>7, <1>9, <2>3
      <3>2. W \in Seq(Request)
        BY <1>8
      <3>3. \A q \in inCache[c] : q.id < req.id
        BY <1>12, <1>13 DEF Held
      <3>4. \A i \in 1 .. Len(W) : W[i].id < req.id
        <4> TAKE i \in 1 .. Len(W)
        <4>1. W[i] \in Held(c)
          BY DEF Held, Requests
        <4> QED BY <1>12, <1>13, <4>1
      <3> HIDE DEF W
      <3>5. Len(Append(W, req)) = Len(W) + 1 /\ Append(W, req)[Len(W) + 1] = req
            /\ \A i \in 1 .. Len(W) : Append(W, req)[i] = W[i]
        BY <1>4, <3>2
      <3>6. \A i, j \in 1 .. Len(W) + 1 :
               i < j => Append(W, req)[i].id < Append(W, req)[j].id
        <4> TAKE i, j \in 1 .. Len(W) + 1
        <4> HAVE i < j
        <4>1. i \in 1 .. Len(W) /\ (j \in 1 .. Len(W) \/ j = Len(W) + 1)
          BY <3>2
        <4> QED BY <2>1, <3>4, <3>5, <4>1
      <3> QED BY <2>1, <3>1, <3>3, <3>5, <3>6
    <2> QED BY <2>2, <2>3
  <1>17. Apart'
    <2> SUFFICES ASSUME NEW c \in Cluster, NEW d \in Cluster, c # d
                 PROVE  Held(c)' \cap Held(d)' = {}
      BY DEF Apart
    <2>1. Held(c) \cap Held(d) = {}
      BY DEF StallsInv, Apart
    <2> QED BY <1>10, <1>14, <2>1
  <1>18. Told'
    <2>1. \A c \in Cluster : unread[c] = (current[c] /\ phase = "ready")
      BY DEF StallsInv, Told
    <2>2. \A c \in Cluster : ~unread[c]
      BY <1>1 DEF StallsInv, Told
    <2> QED BY <1>1, <1>2, <1>3, <2>1, <2>2 DEF Told
  <1>19. \A c \in Cluster : Unfinished(c) = Held(c) /\ Unfinished(c)' = Held(c)'
    <2>1. \A c \in Cluster : ~unread[c]
      BY <1>1 DEF StallsInv, Told
    <2>2. \A c \in Cluster : Unfinished(c) = Held(c)
      BY <2>1, WaitingIs DEF StallsInv
    <2>3. \A c \in Cluster : Unfinished(c)' = Held(c)'
      <3> TAKE c \in Cluster
      <3>1. Requests(Waiting(c)') = Requests(blocked'[c]) \cup Requests(issued'[c])
        BY <1>11, RequestsJoined DEF RequestTypes, Waiting
      <3> QED BY <1>2, <2>1, <3>1 DEF Unfinished, Held
    <2> QED BY <2>2, <2>3
  <1>20. AllUnfinished' = AllUnfinished \cup {req}
    BY <1>1, <1>10, <1>19 DEF AllUnfinished, k
  <1>21. Counted'
    <2>1. req \notin AllUnfinished
      BY <1>14, <1>19 DEF AllUnfinished
    <2>2. IsFiniteSet(AllUnfinished) /\ outstanding = Cardinality(AllUnfinished)
      BY DEF StallsInv, Counted, OutstandingExact
    <2>3. /\ IsFiniteSet(AllUnfinished \cup {req})
          /\ Cardinality(AllUnfinished \cup {req}) = Cardinality(AllUnfinished) + 1
      BY <2>1, <2>2, FS_AddElement
    <2> QED BY <1>2, <1>20, <2>2, <2>3 DEF Counted, OutstandingExact
  <1>22. StallsInv'
    BY <1>11, <1>15, <1>16, <1>17, <1>18, <1>21 DEF StallsInv
  <1> QED BY <1>20, <1>22 DEF req

\* Completions are read: what is taken off the count is what is told.
LEMMA ReadyInv ==
  ASSUME StallsInv, UpdateReady
  PROVE  /\ StallsInv'
         /\ AllUnfinished' = AllUnfinished \ UNION {GetCompletedRequests(c) : c \in Cluster}
         /\ outstanding' <= outstanding
  <1> DEFINE told == UNION {GetCompletedRequests(c) : c \in Cluster}
  <1>1. /\ phase = "ready" /\ phase' = "go" /\ wait' = wait
        /\ completed' = [c \in Cluster |-> GetCompletedRequests(c)]
        /\ unread' = [c \in Cluster |-> FALSE]
        /\ outstanding' = outstanding - Cardinality(told)
        /\ UNCHANGED <<issued, blocked, inCache, refusing, current, nextReqId>>
    BY DEF UpdateReady, M5E_ready_loads
  <1>2. \A c \in Cluster : GetCompletedRequests(c) = IF unread[c] THEN completed[c] ELSE {}
    BY <1>1 DEF StallsInv, Told, RequestTypes, GetCompletedRequests
  <1>3. \A c \in Cluster : completed'[c] \subseteq completed[c] /\ unread'[c] = FALSE
    BY <1>1, <1>2
  <1>4. \A c \in Cluster : Held(c)' = Held(c) /\ Waiting(c)' = Waiting(c)
    BY <1>1 DEF Held, Waiting
  <1>5. RequestTypes'
    <2>1. completed' \in [Cluster -> SUBSET Request]
      BY <1>1, <1>2 DEF StallsInv, RequestTypes
    <2>2. WaitOK'
      BY <1>1 DEF WaitOK, StallsInv, RequestTypes
    <2> QED BY <1>1, <2>1, <2>2 DEF StallsInv, RequestTypes
  <1>6. Fresh' /\ Apart' /\ InOrder'
    BY <1>1, <1>3, <1>4 DEF StallsInv, Fresh, Apart, InOrder
  <1>7. Told'
    BY <1>1, <1>3 DEF Told
  <1>8. \A c \in Cluster :
           /\ Unfinished(c) = Held(c) \cup GetCompletedRequests(c)
           /\ Unfinished(c)' = Held(c)
    <2> TAKE c \in Cluster
    <2>1. Unfinished(c) = Held(c) \cup GetCompletedRequests(c)
      BY <1>2, WaitingIs DEF StallsInv
    <2>2. Held(c) = Requests(blocked[c]) \cup Requests(issued[c]) \cup inCache[c]
      BY WaitingIs DEF StallsInv, Held
    <2>3. Unfinished(c)' = Requests(issued[c]) \cup Requests(blocked[c]) \cup inCache[c]
      BY <1>1, <1>3 DEF Unfinished
    <2> QED BY <2>1, <2>2, <2>3
  <1>9. \A c, d \in Cluster : GetCompletedRequests(c) \cap Held(d) = {}
    BY <1>2 DEF StallsInv, Told
  <1>10. told \subseteq AllUnfinished /\ AllUnfinished' = AllUnfinished \ told
    BY <1>8, <1>9 DEF AllUnfinished
  <1>11. IsFiniteSet(AllUnfinished) /\ outstanding = Cardinality(AllUnfinished)
    BY DEF StallsInv, Counted, OutstandingExact
  <1> HIDE DEF told
  <1>12. AllUnfinished \cap told = told
    BY <1>10
  <1>13. /\ IsFiniteSet(AllUnfinished \ told)
         /\ Cardinality(AllUnfinished \ told) = Cardinality(AllUnfinished) - Cardinality(told)
    BY <1>11, <1>12, FS_Difference
  <1>14. Counted'
    BY <1>1, <1>10, <1>11, <1>13 DEF Counted, OutstandingExact
  <1>15. outstanding' <= outstanding
    <2>1. IsFiniteSet(told) /\ Cardinality(told) \in Nat /\ Cardinality(AllUnfinished) \in Nat
      BY <1>10, <1>11, FS_Subset, FS_CardinalityType
    <2> QED BY <1>1, <1>11, <2>1 DEF told
  <1> QED BY <1>5, <1>6, <1>7, <1>10, <1>14, <1>15 DEF StallsInv, told

-----------------------------------------------------------------------------
\* Every other step leaves the requests alone.
LEMMA QuietInv ==
  ASSUME StallsInv, UNCHANGED <<mvars, phase>>, WaitOK'
  PROVE  StallsInv' /\ AllUnfinished' = AllUnfinished
  <1>1. UNCHANGED <<issued, blocked, inCache, refusing, completed, current, unread,
                    nextReqId, outstanding, phase>>
    BY DEF mvars
  <1>2. RequestTypes'
    BY <1>1 DEF StallsInv, RequestTypes
  <1>3. \A c \in Cluster : /\ Held(c)' = Held(c) /\ Waiting(c)' = Waiting(c)
                          /\ Unfinished(c)' = Unfinished(c)
    BY <1>1 DEF Held, Waiting, Unfinished
  <1>4. AllUnfinished' = AllUnfinished
    BY <1>3 DEF AllUnfinished
  <1>5. Fresh' /\ InOrder' /\ Apart' /\ Told'
    BY <1>1, <1>3 DEF StallsInv, Fresh, InOrder, Apart, Told
  <1>6. Counted'
    BY <1>1, <1>4 DEF StallsInv, Counted, OutstandingExact
  <1> QED BY <1>2, <1>4, <1>5, <1>6 DEF StallsInv

\* Nothing has been sent at the start.
LEMMA InitInv ==
  ASSUME InitStalls
  PROVE  StallsInv /\ BackPressure
  <1>1. /\ issued = [c \in Cluster |-> <<>>]
        /\ blocked = [c \in Cluster |-> <<>>]
        /\ inCache = [c \in Cluster |-> {}]
        /\ refusing \in [Cluster -> BOOLEAN]
        /\ completed = [c \in Cluster |-> {}]
        /\ current = [c \in Cluster |-> TRUE]
        /\ unread = [c \in Cluster |-> FALSE]
        /\ nextReqId = 0 /\ outstanding = 0
        /\ phase = "go" /\ wait = [k |-> "go"]
    BY DEF InitStalls, InitM5, Go
  <1>2. <<>> \in Seq(Request)
    OBVIOUS
  <1>3. RequestTypes
    <2>1. WaitOK
      BY <1>1 DEF WaitOK
    <2> QED BY <1>1, <1>2, <2>1 DEF RequestTypes
  <1>4. \A c \in Cluster : Waiting(c) = <<>> /\ Held(c) = {} /\ Unfinished(c) = {}
    <2> TAKE c \in Cluster
    <2>1. Waiting(c) = <<>> \o <<>>
      BY <1>1 DEF Waiting
    <2>2. Waiting(c) = <<>>
      BY <2>1
    <2>3. Held(c) = {}
      BY <1>1, <2>2, RequestsOf DEF Held
    <2>4. Unfinished(c) = {}
      BY <1>1, RequestsOf DEF Unfinished
    <2> QED BY <2>2, <2>3, <2>4
  <1>5. Fresh /\ Apart /\ Told
    BY <1>1, <1>4 DEF Fresh, Apart, Told
  <1>6. InOrder
    BY <1>1, <1>4 DEF InOrder
  <1>7. AllUnfinished = {}
    BY <1>4 DEF AllUnfinished
  <1>8. Counted
    BY <1>1, <1>7, FS_EmptySet DEF Counted, OutstandingExact
  <1>9. BackPressure
    BY <1>1 DEF BackPressure
  <1> QED BY <1>3, <1>5, <1>6, <1>8, <1>9 DEF StallsInv

\* Every step keeps the invariant.
LEMMA StepInv ==
  ASSUME StallsInv, [NextStalls]_cvars
  PROVE  StallsInv'
  <1>0. WaitOK
    BY DEF StallsInv, RequestTypes
  <1>1. ASSUME NEW r \in Reg, NEW v \in Val, NEW lat \in Latency, Alu(r, v, lat)
        PROVE  StallsInv'
    BY <1>0, <1>1, QuietInv DEF Alu, svars, WaitOK
  <1>2. ASSUME NEW r \in Reg \cup {NoReg}, NEW c \in Cluster, NEW lat \in Latency,
               DataAccess(r, c, lat)
        PROVE  StallsInv'
    BY <1>2, RegIdAssumption, QuietInv DEF DataAccess, WaitOK
  <1>3. CASE SendAccess
    BY <1>3, SendInv
  <1>4. ASSUME NEW r \in Reg, Use(r) \/ Setjmp(r)
        PROVE  StallsInv'
    BY <1>4, QuietInv DEF Use, Setjmp, WaitOK
  <1>5. CASE OperandReady \/ Return \/ Epilogue
    BY <1>5, QuietInv DEF OperandReady, Return, Epilogue, Go, WaitOK
  <1>6. CASE Stall \/ Aclock
    BY <1>6, TickInv DEF Stall, MustStall, Aclock, Now
  <1>7. CASE UpdateReady
    BY <1>7, ReadyInv
  <1>8. CASE Drain
    BY <1>0, <1>8, QuietInv DEF Drain, WaitOK
  <1>9. CASE DrainNext
    BY <1>9, QuietInv DEF DrainNext, Go, WaitOK
  <1>10. CASE UNCHANGED cvars
    BY <1>0, <1>10, QuietInv DEF cvars, svars, WaitOK
  <1> QED BY <1>1, <1>2, <1>3, <1>4, <1>5, <1>6, <1>7, <1>8, <1>9, <1>10 DEF NextStalls

\* StallsInv holds of every behaviour: the requests that clusters, caches and Simu
\* each keep a part of are one set of distinct, finitely many requests.
THEOREM StallsInvariant == SpecStalls => []StallsInv
  <1>1. InitStalls => StallsInv
    BY InitInv
  <1>2. StallsInv /\ [NextStalls]_cvars => StallsInv'
    BY StepInv
  <1> QED BY <1>1, <1>2, PTL DEF SpecStalls

\* M5's count of outstanding requests is always the number of requests whose
\* completion Simu has not been told (_outstanding_requests, PD_m5e.c and
\* m5e_cluster.cc).
THEOREM OutstandingAlways == SpecStalls => []OutstandingExact
  <1>1. StallsInv => OutstandingExact
    BY DEF StallsInv, Counted
  <1> QED BY <1>1, StallsInvariant, PTL

\* A cache always gets the requests of its cluster in the order of their issue,
\* whatever it refused (blockedDcacheReqs in m5e_cluster.cc).
THEOREM InOrderAlways == SpecStalls => []InOrder
  <1>1. StallsInv => InOrder
    BY DEF StallsInv
  <1> QED BY <1>1, StallsInvariant, PTL

\* A function returns only when M5 holds no request that names its registers
\* (the epilogue's wait for _outstanding_requests, PD_m5e.c).
THEOREM EpilogueQuiet == SpecStalls => [][Epilogue => AllUnfinished = {}]_cvars
  <1>1. StallsInv /\ Epilogue => AllUnfinished = {}
    BY FS_EmptySet DEF StallsInv, Counted, OutstandingExact, Epilogue
  <1> QED BY <1>1, StallsInvariant, PTL

\* Simu issues nothing to a cluster that holds requests its cache refused
\* (M5E_is_dcache_request_queue_full asked before every request).
THEOREM BackPressureAlways == SpecStalls => []BackPressure
  <1>1. InitStalls => BackPressure
    BY InitInv
  <1>2. StallsInv /\ BackPressure /\ [NextStalls]_cvars => BackPressure'
    <2> SUFFICES ASSUME StallsInv, BackPressure, [NextStalls]_cvars, NEW c \in Cluster,
                        blocked'[c] # <<>>
                 PROVE  issued'[c] = <<>>
      BY DEF BackPressure
    <2>1. CASE SendAccess
      <3>1. /\ blocked' = blocked /\ blocked[wait.cid] = <<>>
            /\ \E q : issued' = [issued EXCEPT ![wait.cid] = Append(@, q)]
        BY <2>1 DEF SendAccess, IsDcacheBlocked, M5E_send_dcache_request
      <3>2. issued'[c] = issued[c]
        BY <3>1 DEF StallsInv, RequestTypes
      <3> QED BY <3>1, <3>2 DEF BackPressure
    <2>2. CASE Stall \/ Aclock
      <3>1. issued' = [d \in Cluster |-> <<>>]
        BY <2>2 DEF Stall, Aclock, Ticks, Tick, M5E_advance_clock
      <3> QED BY <3>1
    <2>3. CASE UpdateReady
      BY <2>3 DEF UpdateReady, M5E_ready_loads, BackPressure
    <2>4. CASE UNCHANGED mvars
      BY <2>4 DEF mvars, BackPressure
    <2>5. ASSUME NextStalls, ~SendAccess, ~Stall, ~Aclock, ~UpdateReady
          PROVE  UNCHANGED mvars
      BY <2>5 DEF NextStalls, Alu, DataAccess, Use, Setjmp, OperandReady, Return,
                  Epilogue, Drain, DrainNext
    <2>6. UNCHANGED cvars => UNCHANGED mvars
      BY DEF cvars
    <2> QED BY <2>1, <2>2, <2>3, <2>4, <2>5, <2>6
  <1> QED BY <1>1, <1>2, StallsInvariant, PTL DEF SpecStalls

-----------------------------------------------------------------------------
\* The queue's side: what the kernel waits for, and what its busy registers are owed.

\* The kernel waits for one of these.
WaitTyped ==
    wait \in {Go, [k |-> "epilogue"]}
         \cup [k : {"queue"}, reg : Reg \cup {NoReg}, cid : Cluster, lat : Latency]
         \cup [k : {"operand"}, reg : Reg]
         \cup [k : {"drain"}, reg : Reg, slot : Slot]

\* The room a load found in the queue is still there when M5 takes it: the queue
\* stands still in the meantime.
RoomKept == wait.k = "queue" => Len(moves[Attime(wait.lat)]) < MAXWRITE

\* No more requests are counted than were sent.
Bounded == nextReqId <= MAXREQ /\ outstanding <= nextReqId

\* The strengthening of StallsInv that covers the queue and the kernel.
OwedInv == TypeOK /\ FlagMovesReady /\ BusyIsOwed /\ WaitTyped /\ RoomKept /\ Bounded

\* The queue at rest keeps what is owed, when the requests stay the same.
LEMMA OwedStill ==
  ASSUME OwedInv, UNCHANGED qvars, AllUnfinished' = AllUnfinished
  PROVE  TypeOK' /\ FlagMovesReady' /\ BusyIsOwed'
  <1>1. UNCHANGED <<moves, mem>>
    BY DEF qvars
  <1>2. TypeOK'
    BY TypeStep DEF OwedInv
  <1>3. \A r \in Reg : Wakeups(r)' = Wakeups(r)
    BY <1>1 DEF Wakeups
  <1>4. FlagMovesReady'
    BY <1>1 DEF OwedInv, FlagMovesReady
  <1>5. BusyIsOwed'
    BY <1>1, <1>3 DEF OwedInv, BusyIsOwed, Busy
  <1> QED BY <1>2, <1>4, <1>5

\* A clock of the queue releases the registers whose READY moves it takes.
LEMMA OwedClock ==
  ASSUME OwedInv, PD_execute_instructions, AllUnfinished' = AllUnfinished
  PROVE  TypeOK' /\ FlagMovesReady' /\ BusyIsOwed'
  <1>1. TypeOK'
    BY TypeStep DEF OwedInv, Next
  <1>2. FlagMovesReady' /\ \A r \in Reg :
          /\ Wakeups(r)' = {w \in Wakeups(r) : w[1] # PD_pending}
          /\ mem'[Flag(r)] = IF \E w \in Wakeups(r) : w[1] = PD_pending
                             THEN READY ELSE mem[Flag(r)]
    BY ClockReleases DEF OwedInv
  <1>3. BusyIsOwed'
    <2> SUFFICES ASSUME NEW r \in Reg, mem'[Flag(r)] = BUSY
                 PROVE  Wakeups(r)' # {} \/ \E q \in AllUnfinished : q.reg = r
      BY DEF BusyIsOwed, Busy
    <2>1. ~\E w \in Wakeups(r) : w[1] = PD_pending
      BY <1>2 DEF READY, BUSY
    <2>2. mem[Flag(r)] = BUSY /\ Wakeups(r)' = Wakeups(r)
      BY <1>2, <2>1
    <2> QED BY <2>2 DEF OwedInv, BusyIsOwed, Busy
  <1> QED BY <1>1, <1>2, <1>3

\* The elements of a sequence with one element put before it and one behind.
LEMMA RequestsOne ==
  ASSUME NEW S, NEW x \in S
  PROVE  <<x>> \in Seq(S) /\ Requests(<<x>>) = {x}
  <1> DEFINE s == <<x>>
  <1>1. s \in Seq(S) /\ Len(s) = 1 /\ s[1] = x
    OBVIOUS
  <1> HIDE DEF s
  <1>2. Requests(s) = {x}
    <2>1. \A i \in 1 .. Len(s) : i = 1
      BY <1>1
    <2>2. 1 \in 1 .. Len(s)
      BY <1>1
    <2> QED BY <1>1, <2>1, <2>2 DEF Requests
  <1> QED BY <1>1, <1>2 DEF s

LEMMA RequestsBetween ==
  ASSUME NEW S, NEW x \in S, NEW y \in S, NEW s \in Seq(S)
  PROVE  /\ <<x>> \o s \o <<y>> \in Seq(S)
         /\ Requests(<<x>> \o s \o <<y>>) = {x} \cup Requests(s) \cup {y}
  <1> DEFINE t == <<x>>
             u == <<y>>
             first == t \o s
  <1>1. /\ t \in Seq(S) /\ Requests(t) = {x}
        /\ u \in Seq(S) /\ Requests(u) = {y}
    BY RequestsOne
  <1> HIDE DEF t, u
  <1>2. first \in Seq(S) /\ Requests(first) = {x} \cup Requests(s)
    BY <1>1, RequestsJoined
  <1> HIDE DEF first
  <1>3. first \o u \in Seq(S) /\ Requests(first \o u) = Requests(first) \cup {y}
    BY <1>1, <1>2, RequestsJoined
  <1> QED BY <1>2, <1>3 DEF t, u, first

\* A write is queued with a READY move behind it: the register it takes is owed that.
LEMMA OwedAlu ==
  ASSUME OwedInv, AllUnfinished' = AllUnfinished,
         NEW r \in Reg, NEW v \in Val, NEW lat \in Latency, Alu(r, v, lat)
  PROVE  TypeOK' /\ FlagMovesReady' /\ BusyIsOwed'
  <1> DEFINE write == [reg |-> <<r, "lo">>, val |-> v]
             ready == [reg |-> Flag(r), val |-> READY]
             ms == <<write>> \o Wakeup(r) \o <<ready>>
             a == Attime(lat)
  <1>1. write \in Move /\ ready \in Move
    BY MoveType
  <1>2. /\ Len(moves[a]) + Len(ms) <= MAXWRITE
        /\ moves' = [moves EXCEPT ![a] = @ \o ms]
        /\ mem' = [mem EXCEPT ![Flag(r)] = BUSY]
        /\ UNCHANGED <<PD_pending, call, last_call, punted>>
    BY DEF Alu
  <1>3. a \in Slot
    BY AttimeSlot DEF OwedInv, TypeOK
  <1>4. ms \in Seq(Move) /\ Requests(ms) = {write, ready}
    <2>1. Wakeup(r) = <<>> \/ Wakeup(r) = <<ready>>
      BY DEF Wakeup
    <2> HIDE DEF write, ready
    <2>2. Wakeup(r) \in Seq(Move) /\ Requests(Wakeup(r)) \subseteq {ready}
      <3>1. <<ready>> \in Seq(Move) /\ Requests(<<ready>>) = {ready}
        BY <1>1, RequestsOne
      <3>2. <<>> \in Seq(Move) /\ Requests(<<>>) = {}
        BY RequestsOf
      <3> QED BY <2>1, <3>1, <3>2, Zenon
    <2> QED BY <1>1, <2>2, RequestsBetween
  <1>5. /\ \A q \in Reg : write.reg # Flag(q)
        /\ ready.reg = Flag(r) /\ ready.val = READY
    BY FlagCells
  <1> HIDE DEF ms, write, ready, a
  <1>6. \E i \in 1 .. Len(ms) : ms[i] = ready
    BY <1>4 DEF Requests
  <1>7. \A i \in 1 .. Len(ms) : ms[i] = write \/ ms[i] = ready
    BY <1>4 DEF Requests
  <1>8. \A i \in 1 .. Len(ms), q \in Reg : ms[i].reg = Flag(q) => ms[i].val = READY
    BY <1>5, <1>7
  <1>9. /\ moves' \in [Slot -> Seq(Move)]
        /\ \A s \in Slot : Len(moves'[s]) <= MAXWRITE
        /\ FlagMovesReady'
        /\ \A q \in Reg : Wakeups(q) \subseteq Wakeups(q)'
        /\ \A q \in Reg : (\E i \in 1 .. Len(ms) : ms[i].reg = Flag(q)) =>
              \E w \in Wakeups(q)' : w[1] = a
    BY <1>2, <1>3, <1>4, <1>8, MovesAppended DEF OwedInv
  <1>10. TypeOK'
    BY <1>2, <1>9 DEF OwedInv, TypeOK, Word
  <1>11. Wakeups(r)' # {}
    BY <1>5, <1>6, <1>9
  <1>12. \A q \in Reg : q # r => mem'[Flag(q)] = mem[Flag(q)]
    BY <1>2, FlagCells DEF OwedInv, TypeOK
  <1>13. BusyIsOwed'
    BY <1>9, <1>11, <1>12 DEF OwedInv, BusyIsOwed, Busy
  <1> QED BY <1>9, <1>10, <1>13

\* A load is sent: the register it takes is owed the load.
LEMMA OwedSend ==
  ASSUME StallsInv, OwedInv, SendAccess
  PROVE  OwedInv'
  <1> DEFINE req == [id |-> nextReqId, reg |-> wait.reg]
             a == Attime(wait.lat)
             ms == LoadMoves(wait.reg)
  <1>1. AllUnfinished' = AllUnfinished \cup {req}
    BY SendInv
  <1>2. /\ wait.reg \in Reg \cup {NoReg} /\ wait.lat \in Latency
        /\ wait.k = "queue" /\ wait' = Go
        /\ nextReqId < MAXREQ /\ nextReqId' = nextReqId + 1
        /\ outstanding' = outstanding + 1
        /\ UNCHANGED <<PD_pending, call, last_call, punted, phase, drained>>
    BY DEF SendAccess, Now, OwedInv, WaitTyped, Go, M5E_send_dcache_request
  <1>3. Bounded'
    <2>1. nextReqId \in Nat /\ outstanding \in Nat
      BY FS_CardinalityType DEF StallsInv, RequestTypes, Counted, OutstandingExact
    <2> QED BY <1>2, <2>1, MaxReqAssumption DEF OwedInv, Bounded
  <1>4. WaitTyped' /\ RoomKept'
    BY <1>2 DEF WaitTyped, RoomKept, Go
  <1>5. CASE wait.reg = NoReg
    <2>1. UNCHANGED <<moves, mem>>
      BY <1>5 DEF SendAccess
    <2>2. UNCHANGED qvars
      BY <1>2, <2>1 DEF qvars
    <2>3. TypeOK'
      BY <2>2, TypeStep DEF OwedInv
    <2>4. FlagMovesReady' /\ \A r \in Reg : Wakeups(r)' = Wakeups(r)
      BY <2>1 DEF OwedInv, FlagMovesReady, Wakeups
    <2>5. BusyIsOwed'
      BY <1>1, <2>1, <2>4 DEF OwedInv, BusyIsOwed, Busy
    <2> QED BY <1>3, <1>4, <2>3, <2>4, <2>5 DEF OwedInv
  <1>6. CASE wait.reg # NoReg
    <2> DEFINE r == wait.reg
    <2>1. r \in Reg
      BY <1>2, <1>6
    <2>2. /\ moves' = [moves EXCEPT ![a] = @ \o ms]
          /\ mem' = [mem EXCEPT ![Flag(r)] = BUSY]
      BY <1>6 DEF SendAccess
    <2>3. a \in Slot
      BY <1>2, AttimeSlot DEF OwedInv, TypeOK
    <2>4. /\ ms = <<[reg |-> <<r, "lo">>, val |-> 0]>>
          /\ [reg |-> <<r, "lo">>, val |-> 0] \in Move
      BY <2>1, MoveType, ValAssumption DEF LoadMoves
    <2>5. /\ ms \in Seq(Move) /\ Len(ms) = 1
          /\ \A i \in 1 .. Len(ms), q \in Reg : ms[i].reg # Flag(q)
      BY <2>1, <2>4, FlagCells
    <2>6. Len(moves[a]) + Len(ms) <= MAXWRITE
      <3>1. Len(moves[a]) < MAXWRITE /\ Len(moves[a]) \in Nat
        BY <1>2, <2>3 DEF OwedInv, RoomKept, TypeOK
      <3> HIDE DEF ms
      <3> QED BY <2>5, <3>1, MaxWriteAssumption
    <2> HIDE DEF ms, a, r
    <2>7. /\ moves' \in [Slot -> Seq(Move)]
          /\ \A s \in Slot : Len(moves'[s]) <= MAXWRITE
          /\ FlagMovesReady'
          /\ \A q \in Reg : Wakeups(q) \subseteq Wakeups(q)'
      BY <2>2, <2>3, <2>5, <2>6, MovesAppended DEF OwedInv
    <2>8. TypeOK'
      BY <1>2, <2>2, <2>7 DEF OwedInv, TypeOK, Word
    <2>9. \A q \in Reg : q # r => mem'[Flag(q)] = mem[Flag(q)]
      BY <2>1, <2>2, FlagCells DEF OwedInv, TypeOK
    <2>10. BusyIsOwed'
      <3> SUFFICES ASSUME NEW q \in Reg, mem'[Flag(q)] = BUSY
                   PROVE  Wakeups(q)' # {} \/ \E p \in AllUnfinished' : p.reg = q
        BY DEF BusyIsOwed, Busy
      <3>1. CASE q = r
        <4>1. req \in AllUnfinished' /\ req.reg = r
          BY <1>1 DEF r
        <4> QED BY <3>1, <4>1
      <3>2. CASE q # r
        <4>1. Wakeups(q) # {} \/ \E p \in AllUnfinished : p.reg = q
          BY <2>9, <3>2 DEF OwedInv, BusyIsOwed, Busy
        <4> QED BY <1>1, <2>7, <4>1
      <3> QED BY <3>1, <3>2
    <2> QED BY <1>3, <1>4, <2>7, <2>8, <2>10 DEF OwedInv
  <1> QED BY <1>5, <1>6

\* M5 tells which loads completed: the registers they release are the ones they were
\* owed to.
LEMMA OwedReady ==
  ASSUME StallsInv, OwedInv, UpdateReady
  PROVE  OwedInv'
  <1> DEFINE told == UNION {GetCompletedRequests(c) : c \in Cluster}
  <1>1. /\ AllUnfinished' = AllUnfinished \ told
        /\ outstanding' <= outstanding /\ outstanding' \in Int /\ outstanding \in Int
    <2>1. StallsInv' /\ outstanding' <= outstanding /\ AllUnfinished' = AllUnfinished \ told
      BY ReadyInv
    <2>2. outstanding \in Nat
      BY FS_CardinalityType DEF StallsInv, Counted, OutstandingExact
    <2>3. outstanding' \in Nat
      BY <2>1, FS_CardinalityType DEF StallsInv, Counted, OutstandingExact
    <2> QED BY <2>1, <2>2, <2>3
  <1>2. /\ mem' = [c \in Cell |-> IF \E r \in ReadyRegs : c = Flag(r) THEN READY ELSE mem[c]]
        /\ nextReqId' = nextReqId
        /\ UNCHANGED <<PD_pending, moves, call, last_call, punted, wait>>
    BY DEF UpdateReady, M5E_ready_loads
  <1>3. TypeOK'
    <2>1. mem' \in [Cell -> Word]
      BY <1>2 DEF OwedInv, TypeOK, Word
    <2> QED BY <1>2, <2>1 DEF OwedInv, TypeOK
  <1>4. FlagMovesReady' /\ \A r \in Reg : Wakeups(r)' = Wakeups(r)
    BY <1>2 DEF OwedInv, FlagMovesReady, Wakeups
  <1>5. BusyIsOwed'
    <2> SUFFICES ASSUME NEW r \in Reg, mem'[Flag(r)] = BUSY
                 PROVE  Wakeups(r) # {} \/ \E q \in AllUnfinished \ told : q.reg = r
      BY <1>1, <1>4 DEF BusyIsOwed, Busy
    <2>1. r \notin ReadyRegs /\ mem[Flag(r)] = BUSY
      BY <1>2, FlagCells DEF READY, BUSY
    <2>2. Wakeups(r) # {} \/ \E q \in AllUnfinished : q.reg = r
      BY <2>1 DEF OwedInv, BusyIsOwed, Busy
    <2>3. \A q \in told : q.reg # r
      BY <2>1, RegIdAssumption, NoRegAssumption DEF ReadyRegs
    <2> QED BY <2>2, <2>3
  <1>6. Bounded'
    <2>1. nextReqId \in Nat
      BY DEF StallsInv, RequestTypes
    <2> QED BY <1>1, <1>2, <2>1 DEF OwedInv, Bounded
  <1>7. WaitTyped' /\ RoomKept'
    BY <1>2 DEF OwedInv, WaitTyped, RoomKept, Attime
  <1> QED BY <1>3, <1>4, <1>5, <1>6, <1>7 DEF OwedInv

\* A step that moves neither the queue nor the requests, when it types what it waits
\* for and, for a load, has found room.
LEMMA OwedQuiet ==
  ASSUME StallsInv, OwedInv, UNCHANGED <<qvars, mvars, phase>>, WaitTyped', RoomKept'
  PROVE  OwedInv'
  <1>1. WaitOK'
    BY RegIdAssumption DEF WaitTyped, WaitOK, Go
  <1>2. AllUnfinished' = AllUnfinished
    BY <1>1, QuietInv
  <1>3. Bounded'
    BY DEF OwedInv, Bounded, mvars
  <1> QED BY <1>2, <1>3, OwedStill DEF OwedInv

\* Every step keeps OwedInv.
LEMMA OwedStep ==
  ASSUME StallsInv, OwedInv, [NextStalls]_cvars
  PROVE  OwedInv'
  <1>0. TypeOK /\ WaitTyped /\ RoomKept /\ Bounded
    BY DEF OwedInv
  <1>1. ASSUME NEW r \in Reg, NEW v \in Val, NEW lat \in Latency, Alu(r, v, lat)
        PROVE  OwedInv'
    <2>1. UNCHANGED <<mvars, phase, wait>> /\ wait = Go
      BY <1>1 DEF Alu, svars, Now, WaitTyped, OwedInv, Go
    <2>2. AllUnfinished' = AllUnfinished
      BY <2>1, QuietInv DEF StallsInv, RequestTypes, WaitOK
    <2>3. WaitTyped' /\ RoomKept' /\ Bounded'
      BY <1>0, <2>1 DEF WaitTyped, RoomKept, Bounded, Go, mvars
    <2> QED BY <1>1, <2>2, <2>3, OwedAlu DEF OwedInv
  <1>2. ASSUME NEW r \in Reg \cup {NoReg}, NEW c \in Cluster, NEW lat \in Latency,
               DataAccess(r, c, lat)
        PROVE  OwedInv'
    <2>1. /\ wait' = [k |-> "queue", reg |-> r, cid |-> c, lat |-> lat]
          /\ UNCHANGED <<qvars, mvars, phase>>
          /\ Len(moves[Attime(lat)]) < MAXWRITE
      BY <1>2 DEF DataAccess
    <2>2. WaitTyped'
      BY <2>1 DEF WaitTyped
    <2>3. RoomKept'
      BY <2>1 DEF RoomKept, Attime, qvars
    <2> QED BY <2>1, <2>2, <2>3, OwedQuiet
  <1>3. CASE SendAccess
    BY <1>3, OwedSend
  <1>4. ASSUME NEW r \in Reg, Use(r) \/ Setjmp(r)
        PROVE  OwedInv'
    <2>1. /\ wait' \in {[k |-> "operand", reg |-> r],
                       [k |-> "drain", reg |-> r, slot |-> PD_pending]}
          /\ UNCHANGED <<qvars, mvars, phase>>
      BY <1>4 DEF Use, Setjmp
    <2>2. WaitTyped' /\ RoomKept'
      BY <1>0, <2>1 DEF WaitTyped, RoomKept, TypeOK
    <2> QED BY <2>1, <2>2, OwedQuiet
  <1>5. CASE OperandReady \/ Return \/ Epilogue
    <2>1. wait' \in {Go, [k |-> "epilogue"]} /\ UNCHANGED <<qvars, mvars, phase>>
      BY <1>5 DEF OperandReady, Return, Epilogue
    <2>2. WaitTyped' /\ RoomKept'
      BY <2>1 DEF WaitTyped, RoomKept, Go
    <2> QED BY <2>1, <2>2, OwedQuiet
  <1>6. CASE Stall
    <2>1. phase = "go" /\ UNCHANGED <<qvars, wait>> /\ Ticks(InFlight)
      BY <1>6 DEF Stall, MustStall, Now
    <2>2. AllUnfinished' = AllUnfinished /\ UNCHANGED <<nextReqId, outstanding>>
      BY <2>1, TickInv
    <2>3. WaitTyped' /\ RoomKept' /\ Bounded'
      BY <1>0, <2>1, <2>2 DEF WaitTyped, RoomKept, Bounded, Attime, qvars
    <2> QED BY <2>1, <2>2, <2>3, OwedStill DEF OwedInv
  <1>7. CASE Aclock
    <2>1. /\ phase = "go" /\ PD_execute_instructions /\ Ticks(InFlight)
          /\ wait' = wait /\ wait.k = "go"
      BY <1>7 DEF Aclock, Now
    <2>2. AllUnfinished' = AllUnfinished /\ UNCHANGED <<nextReqId, outstanding>>
      BY <2>1, TickInv
    <2>3. WaitTyped' /\ RoomKept' /\ Bounded'
      BY <1>0, <2>1, <2>2 DEF WaitTyped, RoomKept, Bounded
    <2> QED BY <2>1, <2>2, <2>3, OwedClock DEF OwedInv
  <1>8. CASE UpdateReady
    BY <1>8, OwedReady
  <1>9. CASE Drain
    <2>1. /\ PD_execute_instructions /\ UNCHANGED <<mvars, wait, phase>>
          /\ wait.k = "drain"
      BY <1>9 DEF Drain, Now
    <2>2. AllUnfinished' = AllUnfinished
      BY <2>1, QuietInv DEF StallsInv, RequestTypes, WaitOK
    <2>3. WaitTyped' /\ RoomKept' /\ Bounded'
      BY <1>0, <2>1 DEF WaitTyped, RoomKept, Bounded, mvars
    <2> QED BY <2>1, <2>2, <2>3, OwedClock DEF OwedInv
  <1>10. CASE DrainNext
    <2>1. /\ \/ wait' = Go
             \/ \E r \in Reg : wait' = [k |-> "drain", reg |-> r, slot |-> PD_pending]
          /\ UNCHANGED <<qvars, mvars, phase>>
      BY <1>10 DEF DrainNext
    <2>2. WaitTyped' /\ RoomKept'
      BY <1>0, <2>1 DEF WaitTyped, RoomKept, TypeOK, Go
    <2> QED BY <2>1, <2>2, OwedQuiet
  <1>11. CASE UNCHANGED cvars
    <2>1. UNCHANGED <<qvars, mvars, phase, wait>>
      BY <1>11 DEF cvars, svars
    <2>2. WaitTyped' /\ RoomKept'
      BY <1>0, <2>1 DEF WaitTyped, RoomKept, Attime, qvars
    <2> QED BY <2>1, <2>2, OwedQuiet
  <1> QED BY <1>1, <1>2, <1>3, <1>4, <1>5, <1>6, <1>7, <1>8, <1>9, <1>10, <1>11
          DEF NextStalls

\* No register is busy at the start.
LEMMA OwedStart ==
  ASSUME InitStalls
  PROVE  OwedInv
  <1>1. TypeOK
    BY TypeInit DEF InitStalls
  <1>2. wait = Go /\ nextReqId = 0 /\ outstanding = 0 /\ Init
    BY DEF InitStalls, InitM5
  <1>3. FlagMovesReady
    BY <1>2 DEF Init, PD_initialize_queue, FlagMovesReady
  <1>4. BusyIsOwed
    <2>1. \A r \in Reg : mem[Flag(r)] = 0
      BY <1>2, FlagCells DEF Init
    <2> QED BY <2>1 DEF BusyIsOwed, Busy, BUSY
  <1>5. WaitTyped /\ RoomKept /\ Bounded
    BY <1>2, MaxReqAssumption DEF WaitTyped, RoomKept, Bounded, Go
  <1> QED BY <1>1, <1>3, <1>4, <1>5 DEF OwedInv

\* Both invariants hold of every behaviour.
THEOREM OwedInvariant == SpecStalls => [](StallsInv /\ OwedInv)
  <1>1. InitStalls => StallsInv /\ OwedInv
    BY InitInv, OwedStart
  <1>2. (StallsInv /\ OwedInv) /\ [NextStalls]_cvars => (StallsInv /\ OwedInv)'
    BY StepInv, OwedStep
  <1> QED BY <1>1, <1>2, PTL DEF SpecStalls

\* A busy register is always owed its release, by a READY move in the queue or by a
\* load M5 has not told the completion of, although the two overlap and either one
\* clears the flag (PD_delay_load, update_ready_requests in PD_m5e.c).
THEOREM BusyIsOwedAlways == SpecStalls => []BusyIsOwed
  <1>1. StallsInv /\ OwedInv => BusyIsOwed
    BY DEF OwedInv
  <1> QED BY <1>1, OwedInvariant, PTL

\* The variables of the kernel and of M5 stay in their types; in particular M5 never
\* counts below zero.
THEOREM StallsTypeAlways == SpecStalls => []StallsTypeOK
  <1>1. StallsInv /\ OwedInv => StallsTypeOK
    <2> SUFFICES ASSUME StallsInv, OwedInv PROVE StallsTypeOK
      OBVIOUS
    <2>1. WaitTyped /\ mem \in [Cell -> Word] /\ phase \in {"go", "ready"}
      BY DEF OwedInv, TypeOK, StallsInv, RequestTypes
    <2>2. \A c \in Cluster :
            /\ Requests(Waiting(c)) \subseteq Request
            /\ inCache[c] \cup completed[c] \subseteq Request
      BY WaitingIs DEF StallsInv, RequestTypes
    <2>3. nextReqId \in Nat /\ outstanding \in Nat
      BY FS_CardinalityType DEF StallsInv, RequestTypes, Counted, OutstandingExact
    <2>4. nextReqId \in 0 .. MAXREQ /\ outstanding \in 0 .. MAXREQ
      BY <2>3, MaxReqAssumption DEF OwedInv, Bounded
    <2> QED BY <2>1, <2>2, <2>4 DEF StallsTypeOK, WaitTyped
  <1> QED BY <1>1, OwedInvariant, PTL
=============================================================================
