---------------------------- MODULE CacheStalls ----------------------------
(***************************************************************************)
(* Stalls of the cache simulation (emulib/PD_m5e.c with PD_kernel.c): the  *)
(* kernel sends loads and stores to M5 and stalls the whole machine while  *)
(* a request queue is full, while a source register waits for its load,    *)
(* and before a return.  A stalled machine moves M5's clock and not the    *)
(* action queue; only aclock moves both.  Two parties write the pending    *)
(* flag of a register: M5, when a load completes, and the action queue,    *)
(* when a READY move lands.                                                *)
(*                                                                         *)
(* The punt after 500000 stall cycles is left out: a stall lasts as long   *)
(* as M5 makes it last.                                                    *)
(***************************************************************************)
EXTENDS ActionQueue, M5Cluster

ASSUME RegIdAssumption == RegId = Reg
ASSUME LatencyAssumption == MAXLAT < QSIZE

VARIABLES
    wait,       \* what the kernel waits for
    phase,      \* "ready": M5's clock has moved, the loads are still to be read
    drained     \* FALSE: check_interlock has asserted a deadlock

svars == <<wait, phase, drained>>
cvars == <<qvars, mvars, svars>>

Go == [k |-> "go"]
InitStalls ==
    /\ Init
    /\ InitM5
    /\ wait = Go
    /\ phase = "go"
    /\ drained = TRUE

Now(k) == wait.k = k /\ phase = "go" /\ drained
Busy(r) == mem[Flag(r)] = BUSY

\* The compiler's schedule, made for the latencies of the machine description,
\* lets the write of a register land before it is written again or read.  It may
\* still be written again while a load of it is late, and never read.
Due(r) == \E s \in Slot : \E i \in 1 .. Len(moves[s]) : moves[s][i].reg[1] = r

----------------------------------------------------------------------------
\* Operations

\* One that is not a load or a store: the write is queued, and behind it
\* mark_dest_regs_available queues a READY move of its own.
Alu(r, v, lat) ==
    LET ms == <<[reg |-> <<r, "lo">>, val |-> v]>> \o Wakeup(r)
                 \o <<[reg |-> Flag(r), val |-> READY]>>
    IN  /\ Now("go")
        /\ ~Due(r)
        /\ Len(moves[Attime(lat)]) + Len(ms) <= MAXWRITE
        /\ moves' = [moves EXCEPT ![Attime(lat)] = @ \o ms]
        /\ mem' = [mem EXCEPT ![Flag(r)] = BUSY]
        /\ UNCHANGED <<PD_pending, call, last_call, punted, mvars, svars>>

\* A load of r, or a store (NoReg), reaches the data cache interface.
DataAccess(r, c, lat) ==
    /\ Now("go")
    /\ nextReqId < MAXREQ
    /\ r # NoReg => ~Due(r)
    /\ Len(moves[Attime(lat)]) < MAXWRITE
    /\ wait' = [k |-> "queue", reg |-> r, cid |-> c, lat |-> lat]
    /\ UNCHANGED <<qvars, mvars, phase, drained>>

\* What PD_delay queues for a load: the register is busy already, so no READY
\* move follows.
LoadMoves(r) == <<[reg |-> <<r, "lo">>, val |-> 0]>>

\* __PD_m5e_data_load and data_store once the queue has room, and the load's
\* delayed write.
SendAccess ==
    /\ Now("queue")
    /\ ~IsDcacheBlocked(wait.cid)
    /\ M5E_send_dcache_request(wait.reg, wait.cid)
    /\ IF wait.reg = NoReg
       THEN UNCHANGED <<moves, mem>>
       ELSE /\ moves' = [moves EXCEPT ![Attime(wait.lat)] = @ \o LoadMoves(wait.reg)]
            /\ mem' = [mem EXCEPT ![Flag(wait.reg)] = BUSY]
    /\ wait' = Go
    /\ UNCHANGED <<PD_pending, call, last_call, punted, phase, drained>>

\* An operation with source r finds it pending.
Use(r) ==
    /\ Now("go")
    /\ Busy(r)
    /\ ~Due(r)
    /\ wait' = [k |-> "operand", reg |-> r]
    /\ UNCHANGED <<qvars, mvars, phase, drained>>

OperandReady ==
    /\ Now("operand")
    /\ ~Busy(wait.reg)
    /\ wait' = Go
    /\ UNCHANGED <<qvars, mvars, phase, drained>>

\* A function returns: its registers may be freed once M5 owes nothing.
Return ==
    /\ Now("go")
    /\ wait' = [k |-> "epilogue"]
    /\ UNCHANGED <<qvars, mvars, phase, drained>>

Epilogue ==
    /\ Now("epilogue")
    /\ outstanding = 0
    /\ wait' = Go
    /\ UNCHANGED <<qvars, mvars, phase, drained>>

----------------------------------------------------------------------------
\* Time

\* What M5 may do in a tick is up to its caches.
Tick(done, taken) ==
    /\ M5E_advance_clock(done, taken)
    /\ phase' = "ready"

Ticks(D) ==
    \E done \in SUBSET D :
        \E taken \in [Cluster -> 0 .. MAXREQ] :
            /\ \A c \in Cluster : taken[c] <= Len(Waiting(c))
            /\ Tick(done, taken)

InFlight == UNION {inCache[c] : c \in Cluster}

MustStall ==
    \/ Now("queue") /\ IsDcacheBlocked(wait.cid)
    \/ Now("operand") /\ Busy(wait.reg)
    \/ Now("epilogue") /\ outstanding # 0

\* stall_one_cycle: M5's clock alone.
Stall ==
    /\ MustStall
    /\ Ticks(InFlight)
    /\ UNCHANGED <<qvars, wait, drained>>

\* One clock of aclock: the queue, then M5.
Aclock ==
    /\ Now("go")
    /\ PD_execute_instructions
    /\ Ticks(InFlight)
    /\ UNCHANGED <<wait, drained>>

\* update_ready_requests
UpdateReady ==
    /\ phase = "ready"
    /\ M5E_ready_loads
    /\ mem' = [c \in Cell |-> IF \E r \in ReadyRegs : c = Flag(r) THEN READY ELSE mem[c]]
    /\ phase' = "go"
    /\ UNCHANGED <<PD_pending, moves, call, last_call, punted, wait, drained>>

\* setjmp waits for every pending register with check_interlock, which moves the
\* action queue and not M5.
Setjmp(r) ==
    /\ Now("go")
    /\ Busy(r)
    /\ wait' = [k |-> "drain", reg |-> r, slot |-> PD_pending]
    /\ UNCHANGED <<qvars, mvars, phase, drained>>

Drain ==
    /\ Now("drain")
    /\ Busy(wait.reg)
    /\ PD_execute_instructions
    /\ drained' = (PD_pending' # wait.slot)
    /\ UNCHANGED <<mvars, wait, phase>>

\* The next pending register, or none is left.
DrainNext ==
    /\ Now("drain")
    /\ ~Busy(wait.reg)
    /\ IF \E r \in Reg : Busy(r)
       THEN \E r \in Reg :
                Busy(r) /\ wait' = [k |-> "drain", reg |-> r, slot |-> PD_pending]
       ELSE wait' = Go
    /\ UNCHANGED <<qvars, mvars, phase, drained>>

----------------------------------------------------------------------------
NextStalls ==
    \/ \E r \in Reg, v \in Val, lat \in Latency : Alu(r, v, lat)
    \/ \E r \in Reg \cup {NoReg}, c \in Cluster, lat \in Latency : DataAccess(r, c, lat)
    \/ SendAccess
    \/ \E r \in Reg : Use(r) \/ Setjmp(r)
    \/ OperandReady \/ Return \/ Epilogue
    \/ Stall \/ Aclock \/ UpdateReady
    \/ Drain \/ DrainNext

SpecStalls == InitStalls /\ [][NextStalls]_cvars

\* A tick in which cluster c's cache answers all it holds and takes all it is
\* offered.
Serve(c) ==
    /\ Stall
    /\ inCache'[c] \cap inCache[c] = {}
    /\ blocked'[c] = <<>>
    /\ ~refusing'[c]

\* The kernel keeps running; each cache serves now and then.
FairStalls ==
    /\ SpecStalls
    /\ WF_cvars(SendAccess) /\ WF_cvars(OperandReady) /\ WF_cvars(Epilogue)
    /\ WF_cvars(Stall) /\ WF_cvars(UpdateReady)
    /\ \A c \in Cluster : SF_cvars(Serve(c))

----------------------------------------------------------------------------
\* The kernel's and M5's variables stay in their types.
StallsTypeOK ==
    /\ wait \in {Go, [k |-> "epilogue"]}
         \cup [k : {"queue"}, reg : Reg \cup {NoReg}, cid : Cluster, lat : Latency]
         \cup [k : {"operand"}, reg : Reg]
         \cup [k : {"drain"}, reg : Reg, slot : Slot]
    /\ phase \in {"go", "ready"}
    /\ mem \in [Cell -> Word]
    /\ \A c \in Cluster :
         /\ Requests(Waiting(c)) \subseteq Request
         /\ inCache[c] \cup completed[c] \subseteq Request
    /\ nextReqId \in 0 .. MAXREQ
    /\ outstanding \in 0 .. MAXREQ

\* M5's count of outstanding requests, which the epilogue waits for, is the
\* number of requests whose completion Simu has not been told: none is counted
\* twice when a tick without a completion follows one with.
OutstandingExact == outstanding = Cardinality(AllUnfinished)

\* A cache gets the requests of its cluster in the order they were issued, also
\* when it refused some of them for a while.
InOrder ==
    \A c \in Cluster :
        /\ \A q \in inCache[c], p \in Requests(Waiting(c)) : q.id < p.id
        /\ \A i, j \in 1 .. Len(Waiting(c)) :
             i < j => Waiting(c)[i].id < Waiting(c)[j].id

\* A busy register is owed its release, by the queue or by a load, also when writes
\* and late loads of it overlap and both clear its one flag: a reader that stalls
\* on it has something to wait for.
BusyIsOwed ==
    \A r \in Reg : Busy(r) => Wakeups(r) # {} \/ \E q \in AllUnfinished : q.reg = r

\* Back pressure: while a cluster holds requests its cache refused, Simu issues no
\* more to it, so the queue that "assumes infinite request queues"
\* (m5e_cluster.cc) never holds more than one cycle's requests.
BackPressure == \A c \in Cluster : blocked[c] # <<>> => issued[c] = <<>>

\* check_interlock gets every pending register it waits for ("the reg file must
\* be in a consistent state before saving", PD_setjmp.c): its deadlock assertion
\* does not fire.
DrainCompletes == drained

\* A stall of the machine ends when the caches answer, although the action queue
\* stands still in the meantime.
StallsServed == wait.k \in {"queue", "operand", "epilogue"} ~> wait = Go
=============================================================================
