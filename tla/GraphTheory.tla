---------------------------- MODULE GraphTheory -----------------------------
(***************************************************************************)
(* A graph theory with one reachability detector, under a SAT solver that  *)
(* decides, propagates, analyzes conflicts and backtracks                  *)
(* (src/monosat/graph/GraphTheory.h, ReachDetector.cpp, and cancelUntil,   *)
(* constructReason and enqueueLazy of src/monosat/core/Solver.cc).         *)
(*                                                                         *)
(* The solver's clauses are not part of the model: whatever they could     *)
(* make the solver do, decide, imply or find in conflict, may happen.  The *)
(* reachability algorithms are known by their contract: an update reports  *)
(* the nodes whose status is not the one of the update before it.          *)
(***************************************************************************)
EXTENDS GraphTrail, SequencesExt

CONSTANTS Node, Source,
          From, To,    \* the ends of an edge
          At,          \* the node of a property literal
          Units,       \* variables asserted true before the first call of solve
          Late,        \* the property literals declared between calls of solve
          LateLazy,    \* whether that is done with lazy backtracking, too
          MaxPostponed \* bound: literals of earlier levels than their place

ASSUME GraphTheoryAssumption ==
    /\ Source \in Node
    /\ From \in [Edge -> Node] /\ To \in [Edge -> Node]
    /\ At \in [Prop -> Node]
    /\ \A p, q \in Prop : At[p] = At[q] => p = q
    /\ IsFiniteSet(Units) /\ Units \subseteq Edge
    /\ Late \subseteq Prop /\ LateLazy \in BOOLEAN
    /\ MaxPostponed \in Nat

VARIABLES
    g,            \* the theory's assignment and graphs, see GraphTrail
    declared,     \* the property literals the detector knows
    lazyOption, lazyConflicts,  \* opt_lazy_backtrack, opt_lazy_conflicts
    lazyOn,       \* lazy_backtracking_enabled
    seenU, seenO, \* the status of a node at the last update of each algorithm
    skipU, skipO, \* the update was skipped in this propagation
    trail, level, \* the solver's trail and decision level
    queued,       \* the theory is in the solver's theory_queue
    phase,
    final,        \* everything is assigned, solveTheory has been called
    toReenqueue,  \* literals the solver kept while it backtracked
    solved, late, \* history: solve was called; what was declared after that
    clause,       \* the conflict or reason the theory built last
    bound         \* where on the trail the last explained literal is

options == <<lazyOption, lazyConflicts>>
history == <<solved, late>>
detector == <<seenU, seenO, skipU, skipO>>
solver == <<trail, level>>
answer == <<clause, bound, final>>
vars == <<g, declared, options, lazyOn, detector, solver, queued, phase,
          history, toReenqueue, answer>>

\* An entry of the solver's trail: var got val at level lev, while the solver
\* was at level at; by is the theory's marker, or "clause".
Entry == [var : Var, val : BOOLEAN, lev : 0..MaxLevel, at : 0..MaxLevel,
          by : {"clause", "under", "over"}]

SolverVars == {trail[i].var : i \in DOMAIN trail}
PositionOf(v) == CHOOSE i \in DOMAIN trail : trail[i].var = v
SolverValue(v) ==
    IF v \in SolverVars THEN Bool(trail[PositionOf(v)].val) ELSE "U"

NoClause == [implied |-> {}, lits |-> {}]

-----------------------------------------------------------------------------
(***************************************************************************)
(* Reachability, and what the algorithms say of it.                        *)
(***************************************************************************)
\* The nodes reached along edges of E: those in every set that has the source
\* and is left by no edge of E.
Reached(E) ==
    {n \in Node : \A S \in SUBSET Node :
        Source \in S /\ (\A e \in E : From[e] \in S => To[e] \in S) => n \in S}

Status(E) == [n \in Node |-> IF n \in Reached(E) THEN "R" ELSE "N"]

\* A path is a smallest set of edges that reaches the node.
Paths(E, n) ==
    LET reaching == {P \in SUBSET E : n \in Reached(P)}
    IN {P \in reaching : \A Q \in reaching : Q \subseteq P => Q = P}

\* The nodes from which n is reached along edges of E.
BackFrom(E, n) ==
    {m \in Node : \A S \in SUBSET Node :
        n \in S /\ (\A e \in E : To[e] \in S => From[e] \in S) => m \in S}

\* buildReachReason: the edges of a path, none when there is no path.  A
\* literal is a pair of a variable and the value that makes it true.
ReachReasons(h, n) ==
    IF n \in Reached(h.under)
      THEN {{<<e, FALSE>> : e \in P} : P \in Paths(h.under, n)}
      ELSE {{}}

\* Mutant of NonReachReason: the edges into the node only.
NonReachReason_shallow(h, n) ==
    {<<e, TRUE>> : e \in {d \in Edge : h.assigns[d] = "F" /\ To[d] = n}}

\* buildNonReachReason: the false edges into what leads to n.
NonReachReason(h, n) ==
    LET back == BackFrom({e \in Edge : h.assigns[e] # "F"}, n)
    IN {<<e, TRUE>> : e \in {d \in Edge : /\ h.assigns[d] = "F" /\ To[d] \in back
                                          /\ From[d] # To[d]}}

Explanations(h, p, reach) ==
    IF reach THEN ReachReasons(h, At[p]) ELSE {NonReachReason(h, At[p])}
-----------------------------------------------------------------------------
(***************************************************************************)
(* The calls of the user.                                                  *)
(***************************************************************************)
Init ==
    /\ declared = Prop \ Late
    /\ g = [EmptyTrail EXCEPT
               !.assigns = [v \in Var |-> IF v \in Units THEN "T" ELSE "U"],
               !.decisions = <<SetToSeq(Units)>>, !.under = Units,
               !.pos = Cardinality(declared), !.neg = Cardinality(declared)]
    /\ lazyOption \in BOOLEAN
    /\ lazyConflicts \in IF lazyOption THEN 0..2 ELSE {0}
    /\ lazyOn = FALSE
    /\ seenU = [n \in Node |-> "?"] /\ seenO = seenU
    /\ skipU = FALSE /\ skipO = FALSE
    /\ trail = [i \in 1..Cardinality(Units) |->
                 [var |-> SetToSeq(Units)[i], val |-> TRUE, lev |-> 0, at |-> 0,
                  by |-> "clause"]]
    /\ level = 0 /\ queued = TRUE
    /\ phase = "idle" /\ final = FALSE /\ toReenqueue = <<>>
    /\ solved = FALSE /\ late = {}
    /\ clause = NoClause /\ bound = 1

\* addLit: both algorithms start anew.
Declare(p) ==
    /\ phase = "idle" /\ p \in Late \ declared
    /\ lazyOn => LateLazy
    /\ declared' = declared \cup {p}
    /\ g' = [g EXCEPT !.pos = @ + 1, !.neg = @ + 1]
    /\ seenU' = [n \in Node |-> "?"] /\ seenO' = seenU'
    /\ queued' = TRUE /\ late' = IF solved THEN late \cup {p} ELSE late
    /\ UNCHANGED <<options, lazyOn, skipU, skipO, solver, phase, solved,
                   toReenqueue, answer>>

\* Mutant of MayBeLazy: literals not assigned yet do not matter.
MayBeLazy_unassigned(h) == ~(h.neg = 0 /\ h.pos = 0)

\* Lazy backtracking is for detectors all of whose literals agree, or are
\* not wanted in one sign.
MayBeLazy(h) == ~(h.neg > 0 /\ h.pos > 0)

\* What the solver has at level 0 is told again.
Retell(h, s) ==
    IF s = <<>> THEN h
    ELSE [RemoveFromTrail(h, Members(s)) EXCEPT !.decisions[Len(h.decisions)] = @ \o s]

\* solve: preprocess, then search.
Solve ==
    /\ phase = "idle" /\ phase' = "search"
    /\ lazyOn' = IF lazyOption THEN MayBeLazy(g) ELSE lazyOn
    /\ g' = Retell(g, [i \in DOMAIN trail |-> trail[i].var])
    /\ solved' = TRUE
    /\ UNCHANGED <<declared, options, detector, solver, queued, late, toReenqueue,
                   answer>>

EndSolve ==
    /\ phase \in {"search", "sat"} /\ level = 0 /\ phase' = "idle"
    /\ UNCHANGED <<g, declared, options, history, lazyOn, detector, solver, queued,
                   toReenqueue, answer>>

-----------------------------------------------------------------------------
(***************************************************************************)
(* The solver: every assignment is told to the theory at once.             *)
(***************************************************************************)
Known == Edge \cup declared

Assign(v, b, lev, at, by) ==
    /\ trail' = Append(trail, [var |-> v, val |-> b, lev |-> lev, at |-> at, by |-> by])
    /\ g' = EnqueueTheory(g, v, b, lev)
    /\ queued' = TRUE

\* A new level is opened when the theory has nothing left to do.
Decide(v, b) ==
    /\ phase = "search" /\ ~queued /\ level < MaxLevel
    /\ v \in Known \ SolverVars
    /\ level' = level + 1
    /\ Assign(v, b, level + 1, level + 1, "clause")
    /\ UNCHANGED <<declared, options, history, lazyOn, detector, phase, toReenqueue, answer>>

\* enqueueLazy may still postpone a literal to a place behind its level.
MayPostpone == Cardinality({i \in DOMAIN trail : trail[i].lev < trail[i].at}) < MaxPostponed

\* A clause implies a literal; by enqueueLazy, at an earlier level.
Imply(v, b, lev) ==
    /\ \/ phase = "search"
       \/ phase = "idle" /\ level = 0
    /\ v \in Known \ SolverVars /\ lev <= level
    /\ lev < level => MayPostpone
    /\ Assign(v, b, lev, level, "clause")
    /\ UNCHANGED <<declared, options, history, lazyOn, level, detector, phase,
                   toReenqueue, answer>>

\* enqueueLazy of a literal that is true already, without the theory.
MoveEarlier(i, lev) ==
    /\ phase = "search" /\ lev < trail[i].lev /\ MayPostpone
    /\ trail' = [trail EXCEPT ![i].lev = lev, ![i].by = "clause"]
    /\ UNCHANGED <<g, declared, options, history, lazyOn, level, detector, queued, phase,
                   toReenqueue, answer>>

ClauseConflict ==
    /\ phase = "search" /\ level > 0
    /\ phase' = "analyze" /\ clause' = NoClause /\ bound' = Len(trail) + 1
    /\ UNCHANGED <<g, declared, options, history, lazyOn, detector, solver, queued, final,
                   toReenqueue>>

\* cancelUntil.  Theories that backtrack lazily are not backtracked; they are
\* told of each literal taken back.  The theory_queue is cleared after that.
CancelUntil(lev) ==
    LET entries == Members(trail)
        undecided == Keep(trail, {r \in entries : r.at > lev /\ r.lev > lev})
    IN /\ trail' = Keep(trail, {r \in entries : r.at <= lev})
       /\ level' = lev /\ queued' = FALSE
       /\ toReenqueue' = Keep(trail, {r \in entries : r.at > lev /\ r.lev <= lev})
       /\ phase' = IF toReenqueue' = <<>> THEN "search" ELSE "reenqueue"
       /\ g' = IF lazyOn
                 THEN UndecideTheory(g, [i \in DOMAIN undecided |-> undecided[i].var])
                 ELSE BacktrackUntil(g, lev)
       /\ clause' = NoClause /\ bound' = 1 /\ final' = FALSE
       /\ UNCHANGED <<declared, options, history, lazyOn, detector>>

Restart == phase \in {"search", "sat"} /\ level > 0 /\ CancelUntil(0)

\* The literals of earlier levels are told again, one after the other.
Reenqueue(v, b) ==
    LET r == Head(toReenqueue)
    IN /\ phase = "reenqueue" /\ r.var = v /\ r.val = b
       /\ trail' = Append(trail, [r EXCEPT !.at = level])
       /\ g' = EnqueueTheory(g, v, b, r.lev)
       /\ queued' = TRUE
       /\ toReenqueue' = Tail(toReenqueue)
       /\ phase' = IF toReenqueue' = <<>> THEN "search" ELSE "reenqueue"
       /\ UNCHANGED <<declared, options, history, lazyOn, level, detector, answer>>

-----------------------------------------------------------------------------
(***************************************************************************)
(* Conflict analysis: literals of the theory are explained on the way back *)
(* along the trail; then the solver backtracks behind all of them.         *)
(***************************************************************************)
Explain(i) ==
    /\ phase = "analyze" /\ i < bound
    /\ trail[i].by # "clause" /\ trail[i].lev > 0
    /\ LET p == trail[i].var
           h == BacktrackBehind(g, p, trail[i].lev)
       IN /\ g' = h
          /\ \E why \in Explanations(h, p, trail[i].by = "under") :
                clause' = [implied |-> {<<p, trail[i].val>>}, lits |-> why]
    /\ trail' = [trail EXCEPT ![i].by = "clause"]
    /\ bound' = i /\ queued' = TRUE
    /\ UNCHANGED <<declared, options, history, lazyOn, level, detector, phase, final, toReenqueue>>

Floor == IF bound > Len(trail) THEN level ELSE trail[bound].lev

Backjump(lev) == phase = "analyze" /\ lev < Floor /\ CancelUntil(lev)

\* A conflict of level 0: from now on every call returns at once.
Fail ==
    /\ phase = "analyze" /\ level = 0
    /\ phase' = "unsat" /\ clause' = NoClause /\ bound' = 1 /\ final' = FALSE
    /\ UNCHANGED <<g, declared, options, history, lazyOn, detector, solver, queued, toReenqueue>>

Inconsistent == phase = "unsat" /\ UNCHANGED vars

-----------------------------------------------------------------------------
(***************************************************************************)
(* propagateTheory.                                                        *)
(***************************************************************************)
\* The solver takes the theory from its queue.  Lazy backtracking may be
\* switched on while the theory is at level 0.
Skip ==
    /\ phase = "search" /\ queued /\ ~g.requires
    /\ queued' = FALSE
    /\ UNCHANGED <<g, declared, options, history, lazyOn, detector, solver, phase,
                   toReenqueue, answer>>

Propagate ==
    /\ phase = "search" /\ queued /\ g.requires
    /\ queued' = FALSE /\ phase' = "update"
    /\ lazyOn' = \/ lazyOn
                 \/ lazyOption /\ TheoryLevel(g) = 0 /\ MayBeLazy(g)
    /\ UNCHANGED <<g, declared, options, history, detector, solver, toReenqueue, answer>>

\* setReachable: a node is looked at when its literal is not what was reported.
Reports(old, new, status, b) ==
    {p \in declared : /\ new[At[p]] = status /\ old[At[p]] # status
                      /\ g.assigns[p] # Bool(b)}

\* Mutant of NeedsUnder: an update is skipped while a literal is false.
NeedsUnder_both(h) == h.pos > 0 /\ h.neg > 0

\* An algorithm runs while some literal could still get its value from it.
NeedsUnder(h) == h.pos > 0
NeedsOver(h) == h.neg > 0

\* ReachDetector::propagate, up to the loop over the changed nodes.
Update ==
    /\ phase = "update" /\ phase' = "detect"
    /\ skipU' = ~NeedsUnder(g) /\ skipO' = ~NeedsOver(g)
    /\ seenU' = IF skipU' THEN seenU ELSE Status(g.under)
    /\ seenO' = IF skipO' THEN seenO ELSE Status(g.over)
    /\ g' = [g EXCEPT !.changed = @ \cup Reports(seenU, seenU', "R", TRUE)
                                    \cup Reports(seenO, seenO', "N", FALSE)]
    /\ UNCHANGED <<declared, options, history, lazyOn, solver, queued, toReenqueue, answer>>

\* What the algorithms say of p now: nothing, when what was reported is no
\* longer so.
Implied(p) ==
    CASE ~skipU /\ seenU[At[p]] = "R" -> "T"
      [] ~skipO /\ seenO[At[p]] = "N" /\ (skipU \/ seenU[At[p]] # "R") -> "F"
      [] OTHER -> "U"

Ignore(p) ==
    /\ phase = "detect" /\ p \in g.changed
    /\ Implied(p) \in {"U", g.assigns[p]}
    /\ g' = [g EXCEPT !.changed = @ \ {p}]
    /\ UNCHANGED <<declared, options, history, lazyOn, detector, solver, queued, phase,
                   toReenqueue, answer>>

\* enqueue: the solver tells the theory on its own, before the theory does.
Enqueue(p) ==
    /\ phase = "detect" /\ p \in g.changed
    /\ Implied(p) # "U" /\ g.assigns[p] = "U" /\ p \notin SolverVars
    /\ LET b == Implied(p) = "T"
       IN /\ trail' = Append(trail, [var |-> p, val |-> b, lev |-> level, at |-> level,
                                     by |-> IF b THEN "under" ELSE "over"])
          /\ g' = [EnqueueTheory(g, p, b, level) EXCEPT !.changed = @ \ {p}]
    /\ queued' = TRUE
    /\ UNCHANGED <<declared, options, history, lazyOn, level, detector, phase,
                   toReenqueue, answer>>

\* The literal is assigned the other way: a conflict, with its explanation.
Conflicts(p) ==
    LET b == Implied(p) = "T"
    IN {{<<p, b>>} \cup why : why \in Explanations(g, p, b)}

\* The variables of a conflict the solver does not have as the theory has them.
OnlyLazy(lits) == {l[1] : l \in {k \in lits : SolverValue(k[1]) # g.assigns[k[1]]}}

\* Mutant of IsLazyConflict: only the literal of the detector is looked at.
IsLazyConflict_prop(lits) ==
    lazyOn /\ g.lazy # <<>> /\ OnlyLazy(lits) \cap Prop # {}
IsLazyConflict(lits) == lazyOn /\ g.lazy # <<>> /\ OnlyLazy(lits) # {}

\* Such a conflict is not one of the solver: all of the lazy trail is undone,
\* or its variables in the conflict, or one of them, and propagation repeated.
LazyConflict(p) ==
    /\ phase = "detect" /\ p \in g.changed
    /\ Implied(p) # "U" /\ g.assigns[p] \notin {"U", Implied(p)}
    /\ \E lits \in Conflicts(p) :
          /\ IsLazyConflict(lits)
          /\ \/ /\ lazyConflicts = 0
                /\ g' = BacktrackUntil(g, TheoryLevel(g)) /\ queued' = TRUE
             \/ /\ lazyConflicts = 1
                /\ g' = Undo(g, OnlyLazy(lits)) /\ UNCHANGED queued
             \/ /\ lazyConflicts = 2
                /\ \E v \in OnlyLazy(lits) : g' = Undo(g, {v})
                /\ UNCHANGED queued
    /\ phase' = "update"
    /\ UNCHANGED <<declared, options, history, lazyOn, detector, solver, toReenqueue, answer>>

Conflict(p) ==
    /\ phase = "detect" /\ p \in g.changed
    /\ Implied(p) # "U" /\ g.assigns[p] \notin {"U", Implied(p)}
    /\ \E lits \in Conflicts(p) :
          /\ ~IsLazyConflict(lits)
          /\ clause' = [implied |-> {}, lits |-> lits]
    /\ bound' = Len(trail) + 1 /\ phase' = "analyze" /\ final' = FALSE
    /\ UNCHANGED <<g, declared, options, history, lazyOn, detector, solver, queued, toReenqueue>>

PropagateEnd ==
    /\ phase = "detect" /\ g.changed = {}
    /\ g' = [g EXCEPT !.requires = FALSE]
    /\ phase' = IF final /\ ~queued THEN "sat" ELSE "search"
    /\ final' = FALSE
    /\ UNCHANGED <<declared, options, history, lazyOn, detector, solver, queued,
                   toReenqueue, clause, bound>>

\* solveTheory, when nothing is left to decide; propagation is forced.
SolveTheory ==
    /\ phase = "search" /\ ~queued /\ Known \subseteq SolverVars
    /\ g' = [g EXCEPT !.requires = TRUE]
    /\ final' = TRUE /\ phase' = "update"
    /\ UNCHANGED <<declared, options, history, lazyOn, detector, solver, queued,
                   toReenqueue, clause, bound>>

-----------------------------------------------------------------------------
\* Steps the program takes on its own, and those somebody has to ask for.
TheoryStep ==
    \/ Update \/ PropagateEnd
    \/ \E p \in Prop : Ignore(p) \/ Enqueue(p) \/ LazyConflict(p) \/ Conflict(p)

Next ==
    \/ \E p \in Prop : Declare(p)
    \/ Solve \/ EndSolve
    \/ \E v \in Var, b \in BOOLEAN :
          Decide(v, b) \/ Reenqueue(v, b) \/ \E lev \in 0..level : Imply(v, b, lev)
    \/ \E i \in DOMAIN trail, lev \in 0..level : MoveEarlier(i, lev)
    \/ ClauseConflict \/ Restart
    \/ \E i \in DOMAIN trail : Explain(i)
    \/ \E lev \in 0..level : Backjump(lev)
    \/ Fail \/ Inconsistent
    \/ Skip \/ Propagate \/ SolveTheory \/ TheoryStep

Spec == Init /\ [][Next]_vars
FairSpec == Spec /\ WF_vars(TheoryStep)

-----------------------------------------------------------------------------
(***************************************************************************)
(* Properties.                                                             *)
(***************************************************************************)
\* The graphs are the theory's assignment (dbg_graphsUpToDate), lazily kept
\* and turned assignments included.
GraphsFollow ==
    /\ g.under = {e \in Edge : g.assigns[e] = "T"}
    /\ g.over = {e \in Edge : g.assigns[e] # "F"}

\* Between steps of the solver the theory has exactly its assignment on the
\* trail, and on the lazy trail only what the solver has not assigned; the
\* detector's counters count the declared literals that are not true, and those
\* that are not false.
InStep == phase \in {"idle", "search", "update", "detect", "sat"}
TheoryInStep ==
    InStep =>
      /\ UNION {Members(g.decisions[i]) : i \in DOMAIN g.decisions} = SolverVars
      /\ \A v \in SolverVars : g.assigns[v] = SolverValue(v)
      /\ Members(g.lazy) = {v \in Var : g.assigns[v] # "U"} \ SolverVars
      /\ g.pos = Cardinality({p \in declared : g.assigns[p] # "T"})
      /\ g.neg = Cardinality({p \in declared : g.assigns[p] # "F"})

\* What the solver may rely on when it goes on to decide: no property literal
\* contradicts the edges it assigned, and none is missing that they imply (the
\* checks at the end of ReachDetector::propagate), but for one declared after
\* the theory propagated level 0: it may wait until it is assigned, because
\* requiresPropagation is not set for it.
Forced(p) ==
    IF At[p] \in Reached({e \in Edge : SolverValue(e) = "T"}) THEN "T"
    ELSE IF At[p] \notin Reached({e \in Edge : SolverValue(e) # "F"}) THEN "F"
    ELSE "U"
PropagationComplete ==
    phase = "search" /\ ~queued =>
      \A p \in declared :
        Forced(p) # "U" => SolverValue(p) \in {Forced(p)} \cup (IF p \in late THEN {"U"} ELSE {})

\* When everything is assigned and the theory agrees, every property literal
\* says what holds in the graph of the true edges.
AnswersHold ==
    phase = "sat" => \A p \in declared : SolverValue(p) = Forced(p)

\* Every clause the theory gives the solver is false at the time, a reason
\* except for the literal it explains, by assignments made before that one.
ClausesFalse ==
    phase = "analyze" =>
      \A l \in clause.lits :
        \E i \in DOMAIN trail : i < bound /\ trail[i].var = l[1] /\ trail[i].val # l[2]

\* A literal the theory gave the solver follows from edges the solver had
\* assigned before, at levels no later than the literal's own: so the reason
\* that is built when somebody asks for it exists.
EnqueuedJustified ==
    \A i \in DOMAIN trail :
      LET before(b) == {trail[j].var : j \in {k \in 1..(i - 1) :
                           trail[k].val = b /\ trail[k].lev <= trail[i].lev}}
      IN /\ trail[i].by = "under" => At[trail[i].var] \in Reached(Edge \cap before(TRUE))
         /\ trail[i].by = "over" => At[trail[i].var] \notin Reached(Edge \ before(FALSE))

\* Every such clause holds in every graph.
ClausesValid ==
    \A E \in SUBSET Edge :
      clause # NoClause =>
        \E l \in clause.lits \cup clause.implied :
          IF l[1] \in Edge THEN (l[1] \in E) = l[2]
          ELSE (At[l[1]] \in Reached(E)) = l[2]

\* Propagation comes to an end, although a lazy conflict starts it again.
PropagationEnds == phase \in {"update", "detect"} ~> phase \notin {"update", "detect"}
=============================================================================
