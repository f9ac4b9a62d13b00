---------------------------- MODULE EqualsWrites ----------------------------
(***************************************************************************)
(* What the action queue promises: EQUALS latency semantics.  A write with *)
(* latency n is seen exactly n cycles after its issue and no earlier, of   *)
(* two writes due in the same cycle the one issued later wins, a call is   *)
(* made exactly in its cycle, and a register's interlock is released when  *)
(* the write that took it lands.  There is no buffer here: only distances  *)
(* from now, 0 being the next cycle.                                       *)
(***************************************************************************)
EXTENDS Integers

CONSTANTS Reg, Val, Target, NoCall,
          NoWrite,  \* nothing due for the cell
          MAXLAT    \* the longest latency

VARIABLES
    word,   \* what each data word holds now
    due,    \* due[d][c]: what c receives at distance d
    owed,   \* owed[r]: cycles until r's interlock is released, 0 if free
    calls,  \* calls[d]: the call made at distance d
    made,   \* the last call made
    stopped \* the simulation was stopped by an ill-formed program

evars == <<word, due, owed, calls, made, stopped>>

Distance == 0 .. MAXLAT - 1
Data     == Reg \X {"lo", "hi"}

Init ==
    /\ word = [c \in Data |-> 0]
    /\ due = [d \in Distance |-> [c \in Data |-> NoWrite]]
    /\ owed = [r \in Reg |-> 0]
    /\ calls = [d \in Distance |-> NoCall]
    /\ made = NoCall
    /\ stopped = FALSE

\* Write the words of r named by the function ws, lat cycles from now.
Issue(r, ws, lat) ==
    /\ ~stopped
    /\ UNCHANGED <<stopped, made, calls, word>>
    /\ owed' = [owed EXCEPT ![r] = IF @ = 0 THEN lat ELSE @]
    /\ due' = [due EXCEPT ![lat - 1] =
                 [c \in Data |-> IF c[1] = r /\ c[2] \in DOMAIN ws
                                 THEN ws[c[2]] ELSE @[c]]]

Call(t, lat) ==
    /\ ~stopped
    /\ calls[lat - 1] = NoCall
    /\ calls' = [calls EXCEPT ![lat - 1] = t]
    /\ UNCHANGED <<made, stopped, word, owed, due>>

Clash(lat) ==
    /\ ~stopped
    /\ calls[lat - 1] # NoCall
    /\ stopped' = TRUE
    /\ UNCHANGED <<made, calls, word, owed, due>>

Cycle ==
    /\ ~stopped
    /\ owed' = [r \in Reg |-> IF owed[r] = 0 THEN 0 ELSE owed[r] - 1]
    /\ word' = LET now == due[0]
               IN  [c \in Data |-> IF now[c] = NoWrite THEN word[c] ELSE now[c]]
    /\ due' = LET old == due
              IN  [d \in Distance |->
                     IF d + 1 \in Distance THEN old[d + 1] ELSE [c \in Data |-> NoWrite]]
    /\ calls' = [d \in Distance |->
                 IF d + 1 \in Distance THEN calls[d + 1] ELSE NoCall]
    /\ made' = IF calls[0] = NoCall THEN made ELSE calls[0]
    /\ UNCHANGED stopped

Next ==
    \/ \E r \in Reg, v \in Val, lat \in 1 .. MAXLAT :
         Issue(r, [p \in {"lo"} |-> v], lat)
    \/ \E r \in Reg, v, w \in Val, lat \in 1 .. MAXLAT :
         Issue(r, [p \in {"lo", "hi"} |-> IF p = "lo" THEN v ELSE w], lat)
    \/ \E t \in Target, lat \in 1 .. MAXLAT : Call(t, lat)
    \/ \E lat \in 1 .. MAXLAT : Clash(lat)
    \/ Cycle

Spec == Init /\ [][Next]_evars
=============================================================================
