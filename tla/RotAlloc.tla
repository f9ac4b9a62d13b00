------------------------------ MODULE RotAlloc ------------------------------
(***************************************************************************)
(* elcor's rotating register allocator (elcor/src/RotReg) for a loop that  *)
(* the modulo scheduler has scheduled, with the defaults of the driver:    *)
(* best fit, open loop model, no peeling.  It gives every lifetime a       *)
(* location: the register its first instance is in.  A later instance is   *)
(* one register lower, a use after the register file has rotated w times   *)
(* names a register w higher.  When a file is too small, the driver        *)
(* schedules the loop again at the next interval.                          *)
(*                                                                         *)
(* A register is defined by one operation.  The order in which lifetimes   *)
(* are taken is a heuristic of elcor and left open.                        *)
(***************************************************************************)
EXTENDS ModuloSched

CONSTANT reg_max        \* rotating registers of each file

GPR == 1                \* the results of operations
PR == 2                 \* the staging predicate
Files == {GPR, PR}

ASSUME FileAssumption == reg_max \in [Files -> Nat \ {0}]

\* Values flow between operations along dependences, at the latency of the
\* result (Reg_flow::set_latency), which is at least a cycle in the machine
\* descriptions.
ASSUME FlowAssumption == \A l \in LOOPS :
    /\ l.flow \subseteq l.edges /\ l.liveout \subseteq Ops
    /\ \A e \in l.flow : e.src \in Ops /\ e.dst \in Ops /\ l.lat[e.src] <= e.lat
    /\ \A op \in Ops : l.lat[op] >= 1

VARIABLES
    file,       \* the file perform_allocation is at; PR + 1 when it is done
    life,       \* lifetimes of that file
    location    \* for each file, where its allocated lifetimes are

allocVars == <<file, life, location>>
rotVars == <<schedVars, allocVars>>

stage_count == esc + 1
Open == 0               \* the empty lifetime of the open loop model

\* A loop says which of its edges carry a value, and which values are live
\* after it.
FlowOf(s) == {e \in loop.flow : e.src = s}
Results == {s \in Ops : FlowOf(s) # {} \/ s \in loop.liveout}
Lives(f) == {Open} \cup (IF f = GPR THEN Results ELSE {Branch})

-----------------------------------------------------------------------------
\* Lifetimes (RR_lifetime).

Issue(op) == stime[op] - 1
Floor(x) == x \div ii
Ceil(x) == Ceiling(x, ii)
Least(x, y) == IF x <= y THEN x ELSE y

\* The branch sets the staging predicate of the next iteration.
base_evr(l) == IF l = Branch THEN -1 ELSE 0

\* Uses of l's value: when, relative to its definition's iteration, and how
\* many iterations later.
Uses(l) == IF l = Branch THEN {<<Issue(op) + ii, 1>> : op \in Ops}
           ELSE {<<Issue(e.dst) + e.omega * ii, e.omega>> : e \in FlowOf(l)}

Process_open_loop_data ==
    [start |-> 0, stop |-> 0, flow |-> -1, used |-> {}, omega |-> 0, alpha |-> 0,
     k_first |-> 0, k_last |-> stage_count, leading |-> FALSE, trailing |-> FALSE]

Process_input_data(l) ==
    LET used == {u[1] : u \in Uses(l)}
        issue == Issue(l)
        omega == Max({0} \cup {u[2] : u \in Uses(l)})
        alpha == IF l \in loop.liveout THEN 1 ELSE 0
        predicated == l # Branch
        earliest == IF predicated THEN -omega ELSE Least(-Floor(issue), -omega)
        latest == IF predicated THEN Larger(Ceil(ii - issue) - 1, 0) ELSE stage_count
        k_first == Larger(earliest, -Floor(Max(used \cup {issue})))
        k_last == Least(latest, stage_count - 1 - Floor(Min(used \cup {issue})))
    IN  [start |-> issue, stop |-> Max(used \cup {issue + loop.lat[l]}) + 1,
         flow |-> issue + loop.lat[l], used |-> used, omega |-> omega, alpha |-> alpha,
         k_first |-> k_first, k_last |-> k_last,
         leading |-> k_first < 0 /\ omega > 0,
         trailing |-> k_last >= 1 - alpha /\ alpha > 0]

Construct_lifetimes(f) == Tabulated([l \in Lives(f) |->
    IF l = Open THEN Process_open_loop_data ELSE Process_input_data(l)])

-----------------------------------------------------------------------------
\* Where two lifetimes may be (RR_file_data).

\* Faulty (see ModuloSched): only the lifetime within an iteration counts.
distWandOnly(a, b) == Ceil(life[a].stop - life[b].start)

\* How much higher than b a must be, to be out of its way.
dist(a, b) ==
    Max({Ceil(life[a].stop - life[b].start)}
        \cup (IF life[b].leading THEN {-life[a].k_first} ELSE {})
        \cup (IF life[a].trailing THEN {life[b].k_last + life[a].alpha} ELSE {}))

\* All operations have one staging predicate, so no two guards are disjoint.
Live_at_def(a, b, offset) ==
    \E use \in life[a].used : /\ life[a].start <= life[b].flow + offset
                              /\ life[b].start + offset <= use

Interference(a, b, loc) ==
    \/ a = b
    \/ \E l \in {a, b} : life[l].leading \/ life[l].trailing
    \/ Live_at_def(a, b, loc * ii)
    \/ Live_at_def(b, a, -loc * ii)

\* b may not be at loc, with a at 0.
Excludes(a, b, loc) == loc \in (1 - dist(b, a))..(dist(a, b) - 1) /\ Interference(a, b, loc)

forbidden_loc(at, sel, loc) == \E a \in DOMAIN at : Excludes(a, sel, loc - at[a])

\* Locations at, and sel at loc.
With(at, sel, loc) == [l \in DOMAIN at \cup {sel} |-> IF l = sel THEN loc ELSE at[l]]

\* Registers from the lowest to the highest one in use (RR_state).
Requirements(at) ==
    LET stop(l) == IF life[l].trailing THEN Larger(life[l].stop, (stage_count + 1) * ii) ELSE life[l].stop
        high(l) == IF life[l].trailing THEN at[l] + life[l].alpha - 1 ELSE at[l]
        start(l) == IF life[l].leading THEN Least(life[l].start, 0) ELSE life[l].start
        top == Max({high(l) + Ceil(stop(l)) - 1 : l \in DOMAIN at})
        bottom == Min({at[l] + Floor(start(l)) : l \in DOMAIN at})
    IN  top - bottom + 1

Count_forbidden_loc(at, sel, loc) ==
    Cardinality(UNION {{<<l, i>> : i \in {j \in (loc + 1 - dist(l, sel))..(loc + dist(sel, l) - 1) :
                                            ~forbidden_loc(at, l, j) /\ Interference(sel, l, j - loc)}}
                          : l \in DOMAIN life \ (DOMAIN at \cup {sel})})

Candidates(at, sel) ==
    {loc \in Min({at[l] - dist(sel, l) : l \in DOMAIN at})..Max({at[l] + dist(l, sel) : l \in DOMAIN at}) :
        ~forbidden_loc(at, sel, loc)}

\* Fewest registers, then fewest new forbidden locations, then the lowest.
Best_fit(at, sel) ==
    LET C == Candidates(at, sel)
        reg == Tabulated([loc \in C |-> Requirements(With(at, sel, loc))])
        T == {loc \in C : \A c \in C : reg[loc] <= reg[c]}
        added == Tabulated([loc \in T |-> Count_forbidden_loc(at, sel, loc)])
    IN  Min({loc \in T : \A c \in T : added[loc] <= added[c]})

-----------------------------------------------------------------------------
AllocInit == file = GPR /\ life = <<>> /\ location = [f \in Files |-> <<>>]

Place(sel, loc) == location' = [location EXCEPT ![file] = With(@, sel, loc)]

AllocateFirst(sel) ==
    /\ phase = "scheduled" /\ file \in Files /\ location[file] = <<>>
    /\ sel \in Lives(file)
    /\ life' = Construct_lifetimes(file)
    /\ Place(sel, 0)
    /\ UNCHANGED <<schedVars, file>>

AllocateNext(sel) ==
    /\ phase = "scheduled" /\ file \in Files /\ location[file] # <<>>
    /\ sel \in Lives(file) \ DOMAIN location[file]
    /\ Place(sel, Best_fit(location[file], sel))
    /\ UNCHANGED <<schedVars, file, life>>

AllPlaced == file \in Files /\ DOMAIN location[file] = Lives(file)

\* All locations move up, so that none is negative.
Rotated(at) == LET rotate_alloc == -Min({0} \cup {at[l] : l \in DOMAIN at})
               IN  [l \in DOMAIN at |-> at[l] + rotate_alloc]

FileAllocated ==
    /\ phase = "scheduled" /\ AllPlaced
    /\ Requirements(Rotated(location[file])) <= reg_max[file]
    /\ location' = [location EXCEPT ![file] = Rotated(@)]
    /\ file' = file + 1 /\ life' = <<>>
    /\ UNCHANGED schedVars

\* The driver goes on to the next interval.
AllocationFails ==
    /\ phase = "scheduled" /\ AllPlaced
    /\ Requirements(Rotated(location[file])) > reg_max[file]
    /\ ii' = ii + 1 /\ phase' = "schedule"
    /\ file' = GPR /\ life' = <<>> /\ location' = [f \in Files |-> <<>>]
    /\ UNCHANGED <<loop, searchVars, attemptVars, esc>>

Allocate ==
    \/ \E sel \in Nodes \cup {Open} : AllocateFirst(sel) \/ AllocateNext(sel)
    \/ FileAllocated \/ AllocationFails

\* Faulty: the staging predicate is taken as that of the same iteration.
UseRegUnbased(f, l, op, w) == (location[f][l] + Floor(Issue(op) + w * ii)) % reg_max[f]

\* Faulty: one stage more, as the code had it once (rr_file.cpp:1173).
ExitRegOneOn(f, l) == (location[f][l] + 1 - base_evr(l) + stage_count) % reg_max[f]

\* The registers operands are bound to (Commit_register_allocation): of the
\* definition, of a use w iterations later, of a value live in from w
\* iterations before, and of one live out of the last iteration.
DefReg(f, l) == (location[f][l] + Floor(Issue(l))) % reg_max[f]
UseReg(f, l, op, w) == (location[f][l] + Floor(Issue(op) + (w - base_evr(l)) * ii)) % reg_max[f]
EntryReg(f, l, w) == (location[f][l] + w - base_evr(l)) % reg_max[f]
ExitReg(f, l) == (location[f][l] + 1 - base_evr(l) + stage_count - 1) % reg_max[f]
=============================================================================
