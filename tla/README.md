# MonoSAT in TLA+

MonoSAT is a SAT solver modulo monotonic theories: a MiniSat-style CDCL core, theory solvers
for graphs, finite state machines, bit-vectors, pseudo-Boolean and at-most-one constraints,
and a library of incremental graph algorithms.  This directory models the parts whose
behaviour depends on the order in which things happen, checks them with TLC and proves the
central results with TLAPS.  Paths below are relative to `src/src/monosat/`.

MonoSAT is one sequential process.  Its hard behaviour is not parallelism but the order of
calls between parts that each keep their own copy of the same facts: the solver's trail and
each theory's trail, a graph and the algorithms that follow it, a clause and its watches, a
literal and a reason that is built only when it is asked for.

## Inventory

### Core solver: `core/Solver.{h,cc}`, `core/SolverTypes.h`

*State.*  The trail with its level marks, values, levels and reasons of variables, the
propagation head, the clause database with its watch lists, the assumptions, the theory
queue, clauses the theory gave too early (`clauses_to_add`), the final conflict.
*Operations.*  `newVar`, `addClause`, `addClauseSafely`, `addConflictClause`, `enqueue`,
`enqueueLazy`, `propagate`, `analyze`, `analyzeFinal`, `cancelUntil`, `simplify`, `reduceDB`,
`search`, `solve_`.
*Interactions.*  Calls every theory for each literal that is enqueued (`enqueueTheory`), taken
back (`backtrackUntil`, `undecideTheory`), for propagation, for reasons and for the last word
on a model; is called back by the theory in the middle of propagation.
*Hard.*  Unlike MiniSat it accepts literals that belong to an *earlier* level than the one it
stands at (`enqueueLazy`, `cancelUntil` keeps and re-enqueues them), clauses that are false
or unit when they are added, and reasons that are built after the fact and may show that a
literal belongs to an earlier level in the middle of conflict analysis.
*Correct when.*  Answers are right, cores are over the assumptions, every clause follows from
what was given, no clause is false when propagation ends, every learnt clause asserts, every
call returns.

### Theory interface and theories: `core/Theory.h`, `core/TheorySolver.h`

*Operations.*  `enqueueTheory`, `undecideTheory`, `propagateTheory`, `solveTheory`,
`buildReason`, `backtrackUntil`, `newDecisionLevel`.
*Correct when.*  A theory's assignment is the solver's whenever it is asked, reasons imply
what they explain, nothing is missed when everything is assigned.

### At-most-one theory: `amo/AMOTheory.h`

*State.*  Three fields: the variable that is true, one it is in conflict with, whether the
others have still to be made false.  No trail.
*Hard.*  Reasons and conflicts are built from the fields as they are now, not as they were;
the fields are kept by being told of every literal and its end in the right order, also of
the facts the theory was created after.
*Correct when.*  It behaves as an at-most-one constraint, completely, and its reasons hold.

### Graphs with a history: `dgl/DynamicGraph.h` and its followers

*State.*  Edges, weights, enabled edges; a counter of modifications, the list of changes with
the offset of its first retained entry, a mark "changed" for new nodes and edges, the
registered algorithms and the position each reported.
*Operations.*  `addNode`, `addEdge`, `enableEdge`, `disableEdge`, `setEdgeWeight`,
`invalidate`, `clearChanged`, `clearHistory` (three ways), `updateAlgorithmHistory`,
`undoEnableEdge`, `undoDisableEdge`, `rewindHistory`.
*Interactions.*  Algorithms (`PKTopologicalSort.h`, `SpiraPan.h`, `KohliTorr.h`,
`RamalReps.h`, others) replay the changes after their own position or scan the whole graph;
`clearHistory` calls back `update` of registered ones that lag.
*Hard.*  Whether to scan is decided from five counters and marks that others reset.
*Correct when.*  After `update` the algorithm works on exactly the enabled edges; it never
reads an entry that is gone and never writes beyond its arrays.

### Graph theory and detectors: `graph/`

*State.*  An under- and an over-approximate graph (and up to three more), a trail of its own
in linked lists with levels, the *lazy* trail of assignments that were taken back but left in
the graphs, per detector its algorithms and reason markers.
*Hard.*  Lazy backtracking, `backtrackUntil(Lit)` inside `buildReason`, one `clearChanged` for
all detectors whether or not they looked.
*Correct when.*  The graphs agree with the trail, a literal is implied only if every
completion of the assignment agrees, reasons hold although the graph has moved on.

### Shortest paths: `dgl/RamalReps.h`

*State.*  Distances, per node the number of tight edges into it, the nodes that changed, the
position in the history, the distance beyond which nothing counts.
*Operations.*  `update` with its replay of the history (`edgeInserted`, `AddEdge`, `RemoveEdge`,
the decremental and the incremental phase), `setMaxDistance`.
*Hard.*  The changes are replayed one by one, but on the graph as it is after all of them.
*Correct when.*  After `update` every distance is right, and every node whose status changed
since the one before has been reported to the detector.

### Preprocessing: `simp/SimpSolver.{h,cc}`

*State.*  The clauses with the queue of those still to be tried for subsumption, the heap of
variables to be tried for elimination, the variables that are gone, the stack of clauses they
were taken from, frozen variables.
*Operations.*  `addClause_`, `eliminate`, `backwardSubsumptionCheck`, `eliminateVar`,
`strengthenClause`, `removeClause`, `extendModel`, `solve_`.
*Hard.*  Elimination and subsumption give each other work; an interrupt drops what is queued;
more clauses and calls come after variables are gone; models must be extended in the reverse
order of elimination.
*Correct when.*  Solutions are preserved, models satisfy the clauses the *user* gave, the loop
ends.

### Optimization: `core/Optimize.cpp`

*State.*  The best model, per objective the values found so far, the assumptions that keep
earlier objectives at their best, limits on time.
*Operations.*  `optimize_and_solve`, `optimize_linear`, `optimize_binary`, the final check.
*Hard.*  A search that was cut off leaves room behind it, of which later searches may make
use; minimized and maximized objectives share every line, with the comparison turned.
*Correct when.*  What is called optimal is optimal in the order of the objectives, the best
model never gets worse, the call returns without an exception.

### Bit-vectors: `bv/BVTheorySolver.h`

*State.*  Per bit-vector a lower and an upper bound with the operation that is the cause of
each, and the bounds of level 0; one trail of literals *and* changes of bounds, with a position
on it up to which both hold; the bit-vectors still to be propagated (`altered_bvs`).
*Operations.*  `enqueueTheory`, `propagateTheory`, `buildReason`, `backtrackUntil`; per kind of
operation `updateApprox`, `propagate`, `analyzeReason`, `buildReason`.
*Interactions.*  An operation on one bit-vector marks others; a literal it enqueues comes back
through the solver as `enqueueTheory` before `enqueue` returns.
*Hard.*  Analysis moves the position back along the trail, explaining each bound from what was
known when it was made, and must bring it to the end again; causes are explained with the bounds
of today; a bound may be tightened in two steps, by an operation and by the bits.
*Correct when.*  No value that agrees with the literals is ever out of bounds, propagation misses
nothing and ends, reasons and conflicts hold for all values.

### The others

- `fsm/`: transitions enabled or not, strings accepted or generated, a third way of following
  a history (`fsm/alg/NFAAccept.h`).
- `pb/`: pseudo-Boolean constraints translated to clauses (from MiniSat+).
- `dgl/alg/`, `mtl/`: heaps, link-cut trees, vectors, maps.
- parsers, API, bindings, options, main program; `geometry/` is not maintained.

PROJECT.json lists all of them, with what is and what is not modelled.

## Modules

| Module | Models | State and actions |
|---|---|---|
| `DynamicGraph` | `dgl/DynamicGraph.h` | the fields of the class; one action per method that changes state |
| `GraphHistory` | an arbitrary client of it | every method in any order, `rewindHistory` turn by turn |
| `GraphHistoryProofs` | theorem about `GraphHistory` | |
| `EdgeSnapshot` | what a follower promises (abstract) | the view of an algorithm jumps from one whole graph to another |
| `EdgeMirror` | the followers, on top of `DynamicGraph` | per algorithm its position, marks, arrays; `Update`, `Clear` with its call-backs |
| `EdgeMirrorProofs` | theorems about `EdgeMirror` | |
| `Trail` | assignment stack of `core/Solver.cc` | operators on the solver's record: `Assign`, `EnqueueLazy`, `CancelUntil`, the theory's trail |
| `Clauses` | clause database, watches, `propagate`, every way to add a clause | operators on the same record |
| `Analysis` | `buildReason`, `analyze`, `analyzeFinal`, learning | operators on the same record |
| `Solver` | `search`, `solve_`, the theory inside `propagate` | `pc` is where search stands; one action per branch |
| `SatOracle` | what the solver promises its user (abstract) | clauses, assumptions, answer |
| `SolverProperties` | the properties of `Solver`, and its refinement of `SatOracle` | |
| `MCSolver` | the problems the solver is checked on | |
| `SolverLemmas` | lemmas about the operators of `Trail`, `Clauses` and `Analysis` | |
| `SolverProofs` | lemmas about the walk of `analyze`; the step lemmas and theorems about `Solver` | |
| `AtMostOne` | what an at-most-one theory promises (abstract) | values and a verdict |
| `AMOTheory` | `amo/AMOTheory.h` below the solver that drives it | the three fields, the theory's part of the trail, call by call |
| `AMOTheoryProofs` | theorems about `AMOTheory` | |
| `GraphTrail` | assignment and graphs of `graph/GraphTheory.h` | operators on the theory's record: `EnqueueTheory`, `BacktrackUntil`, `BacktrackBehind`, `UndecideTheory` |
| `GraphTheory` | the theory with a reachability detector, below the solver | the solver's trail beside the theory's; one action per call, `propagateTheory` node by node |
| `MCGraphTheory` | the graph it is checked on | |
| `GraphTheoryProofs` | lemmas about the operators of `GraphTrail`, and theorems about `GraphTheory`: its two trails, what it enqueues, its clauses, propagation complete, answers hold | |
| `ShortestPaths` | what a shortest path algorithm promises a detector (abstract) | graph, limit, distances of the last update, nodes it reported |
| `UnweightedRamalReps` | `dgl/RamalReps.h` | distances, tight edges, changes to replay, queues; a step is one turn of one of the algorithm's loops |
| `MCUnweightedRamalReps` | the graph it is checked on | |
| `Optimize` | `core/Optimize.cpp` above an abstract solver | `phase` is the call to the solver about to be made; one action per branch after it |
| `MCOptimize` | the objectives it is checked on | |
| `OptimizeProofs` | theorems about `Optimize` | |
| `BVBounds` | the trail of bounds in `bv/BVTheorySolver.h`, and `updateApproximations` | operators on the theory's record: `RewindTo`, `EnqueueTheory`, `BacktrackUntil`, `UpdateApproximations` |
| `BVAnalysis` | reasons and conflicts of bit-vectors | operators from an analysis to an analysis |
| `BVTheory` | `propagateTheory` and the operations' `propagate`, below the solver | the solver's trail beside the theory's; one action per call, `propagateTheory` bit-vector by bit-vector |
| `MCBVTheory` | the bit-vectors it is checked on | |
| `SimpSolver` | `simp/SimpSolver.cc` above an abstract search | clauses, queue, heap, stack of eliminated clauses; one action per turn of a loop of `eliminate` |
| `MCSimpSolver` | the problems it is checked on | |
| `SimpSolverProofs` | theorems about `SimpSolver` | |

`Trail`, `Clauses` and `Analysis` write the solver's methods as operators from a record to a
record, because the code composes them freely (`analyze` calls `buildReason`, which makes the
theory backtrack, adds a clause, which may call `cancelUntil`).  `Solver` turns them into
actions at the points where control may go more than one way.

*The theory in `Solver`* is any theory given by a set of clauses over its variables
(`Lemmas`).  It may report what follows at any time it is called, or, with `Eager = FALSE`,
only at the end; it may also give lemmas as clauses (`AsClause`).  Its own trail follows that
of `graph/GraphTheory.h`: filed by level, level raised when told, taken back by
`backtrackUntil`, and below the literal when a reason is built.  Lazy backtracking of the
graph theory is not part of it.

*`pc = "undefined"`* is reached where the code reads an element that does not exist (the last
entry of an empty `trail_lim`, the clause of `CRef_Undef`).  What a build does then is not
defined, so nothing is said of what follows; runs with that outcome report the state before.

*`AMOTheory` and the trail.*  A variable belongs to one theory (`setTheoryVar` exits
otherwise), so clauses of other theories never mention the variables of this one; and its own
reasons never move a literal to an earlier level, which is part of `ReasonsExplain` (true_var
is no fact unless the variable it explains is one too).  Therefore no variable of the theory
is ever enqueued lazily, and its part of the trail is chronological.  Everything else the
solver does, decisions, propagation, conflicts of any origin, restarts, repeated calls of
`solve`, is a choice of the environment.

*`GraphTheory`.*  The solver's clauses are not part of the model: decisions, implied literals at
any level up to the present one, conflicts and restarts are choices of the environment, and
only what the theory itself does with them is the code's.  The nodes reached are the
least set that has the source and that no edge leaves, for whatever algorithm finds them, and a
reason is any of the sets of edges that the code could return (any shortest-by-inclusion path; the
cut of false edges).  Filtering a list, as the code does in its loops, is the recursive function
`Keep` of `GraphTrail`.  The gap between an algorithm's update and
the loop over changed nodes is kept: `seenU`, `seenO` are the statuses of the last update.  The
statuses and the nodes reported are what `ShortestPaths` promises, which `UnweightedRamalReps`
is shown to implement.

*`UnweightedRamalReps`* keeps the order of the history and of the queues; adjacency lists are in
the order of edge numbers.

*`BVTheory`* uses the same solver as `GraphTheory`: its clauses are choices of the environment,
limited to the literals a problem lists in `free` until these are assigned.  A position on the
trail is the number of entries that hold, one more than `analysis_trail_pos`.  Bounds to be
explained are a set of `<<bit-vector, side, value>>`, for the code's lists sorted by value.
`refine_lbound` and `refine_ubound` are defined by the values that agree with the bits (compared
with the code for all inputs of up to six bits, by a small program outside this directory).
`phase = "error"`, which has no step, is where the code throws or asks the cause of a bound that
has none; the check for deadlock shows it is not reached.

*`Optimize`* gives the solver a set of solutions and lets it return any of those its assumptions
allow, report that there is none, or run out of time; bit-vector bounds at level 0 move as far
as the solver may find out.

*`SimpSolver`* takes clauses as sets of literals and queues as sets any member of which may be
next, so it covers every order of occurrence lists and of the heap.

## Runs

Every run finishes in less than three minutes on two workers.  Deadlock is checked in the runs
of the solver, where `Rest` is the only step between calls, so that a call in which nothing is
enabled would be found, and in `graph_theory`, `bv_theory`, `ramal_reps` and `optimize`.
Elsewhere the bounds end a behaviour; in `AMOTheory` also a conflict at level 0 does, in `SimpSolver` the user, who
need not call again.

| Run | Question | Instance |
|---|---|---|
| `graph_history` | Does the retained history still say what every edge's status is, whatever was cleared and undone? | 2 edges, 2 weights, 6 modifications, clear interval 2, rewinds of 2 |
| `edge_mirror` | Does an update leave every follower on exactly the enabled edges, within its arrays and the retained history? Does it implement `EdgeSnapshot`? | one algorithm of each protocol, 2 edges, 8 modifications, interval 2, all option values |
| `solver_search` | Is no conflict of a clause missed, do learnt clauses assert, does every clause follow from what was given? | 4 variables, 3 clauses given in any order, 3 lemmas, 2 calls |
| `solver_lazy_theory` | Are answers and cores right when the theory reports late and search restarts, are lazy reasons sound, and does every call return? | 3 variables, 2 clauses, 2 lemmas, 2 calls, 1 restart |
| `solver_added_clauses` | Do the two trails, the reasons and the clauses stay consistent when the theory adds clauses at any time? | 3 variables, 3 lemmas, of them two facts, added as clauses |
| `amo_theory` | Do the three fields suffice? Does the theory implement `AtMostOne`? | 3 variables, 3 levels, eager and not |
| `graph_theory` | With lazy backtracking in all its modes: do the graphs follow, is propagation complete, justified and finite, are reasons and conflicts false when given and valid? | 3 edges between 3 nodes (2 paths), one asserted; a literal declared between calls; 2 levels, 1 literal enqueued behind its level |
| `ramal_reps` | Are distances and counters right after any batch of changes, and is every change of status reported? | 4 nodes, 6 edges with a cycle, limits 2 and none, up to 3 changes between updates, history cleared or not, 3 ways of reporting |
| `optimize` | Is the answer optimal, is nothing thrown, does every call return? | 3 objectives (4, 2 and 2 values), all minimized, all maximized or the last one maximized, linear and binary, without limits or with limits on the call or each objective, as far as the final check is right for them (below); all sets of up to 3 solutions |
| `simp_solver` | Are solutions preserved, is nothing left to subsume, do models satisfy the user's clauses, does every call end? | 3 variables, 4 clauses, a theory, clause limit 1, one variable the user may freeze, 2 calls, interrupts anywhere |
| `bv_theory` | Do bounds lose no value, also in the middle of an analysis? Is propagation complete and finite? Are reasons and conflicts false when given and valid, models right? | bit-vectors of 2 bits; four problems: two bit-vectors compared with each other and with constants on 1 level, with less on 2 levels, a sum with two comparisons, one bit-vector with 1 literal enqueued behind its level |
| `bv_stale_reason` | Are reasons valid when an argument of a sum is compared with a bit-vector? (violated) | 4 bit-vectors of 2 bits, a sum, one comparison of two bit-vectors and two with constants, 1 level |

*Why the bounds are enough.*  Two edges and two algorithms allow one follower to lag behind
another over a change of another edge; eight modifications and an interval of two reach each
way of clearing twice.  The solver's problems were chosen so that every action fires: an
unsatisfiable set by way of the theory, an "exactly one" theory over assumptions that meet
and contradict it, facts given above level 0.  Three variables under an at-most-one
constraint give a true one, one in conflict and one between them; three levels let the
conflict be cut to each place.  In `graph_theory` a node is reached by an edge and by a path of
two, so that taking one edge back changes nothing, and one more does; one literal behind its
level is what it takes for the theory's trail and the solver's to be in different orders.  (A
larger instance, two property literals and one level, was checked once: 882,902 states.)
`ramal_reps` has room for a node that loses its last tight edge and gets another one in the same
batch.  Three solutions are what it takes for a search to be cut off between two better ones.
In `simp_solver` a variable can be eliminated, another after it that occurs in its clauses, and
a third be put back on the heap by subsumption (4 variables and 5 clauses were checked once:
829,805 states).  Two bits are what it takes for a bound to be refined by the bits in a second
entry of the trail, and for a bit to be forced by a bound; the second level is where bounds and
literals of one level are undone and those of another stay.  The problems of `bv_theory` keep sums
and comparisons of bit-vectors apart, as together they are what `bv_stale_reason` refutes.
The proofs do away with the bounds for the history and its
followers, the at-most-one theory, the graph theory under its solver, optimization and
preprocessing.

*What makes a property hard.*  Each passing property has a mutant of the code (an operator
beside the original in the module, named `<Operator>_<what is wrong>`) under which the same
run finds a violation.

### Fairness

`FairSpec` of `Solver` says that a call that runs goes on running:
`<>[]Running => []<><<Search>>_vars`.  The code is sequential, `search` is a loop without
waiting, so this is all there is to assume.  It is `WF_vars(Search)`: `Search` is enabled
exactly while a call runs, which the check for deadlock shows.  Nothing is assumed about
*which* step is taken: termination does not rest on fair decisions, only on learning, on
each clause being added once and on the bound on restarts, which in the code grows with the
conflicts of each round.

`FairSpec` of `BVTheory` says the same of its `propagateTheory`, written out: while `phase` is
"propagate" a `TheoryStep` is enabled, as the check for deadlock shows, and nothing else is; so weak
fairness is that infinitely often the theory does not propagate or takes a step.

`FairSpec` of `GraphTheory` is `WF_vars(TheoryStep)`: a call of `propagateTheory`, once begun, is
carried on, as it is a loop of one function.  The solver owes nothing.  `Optimize` has
`WF_vars(Step)`: the call goes on, and the solver below it returns (or is cut off).  `SimpSolver`
assumes the same of a call of `solve`, `Step` being enabled exactly while one is under way; that
an interrupt comes is never assumed.

## What the checks show

**The promise of the solver** (`AnswersRight`): `Solver` implements `SatOracle`: every model
satisfies the clauses, the theory and the assumptions; every final conflict is a set of
negated assumptions that cannot hold together.  `solver_lazy_theory`
checks it with a theory that may report at any time, at once included.  For a theory that adds clauses above level 0 the verdict stays right
(`RefutationsRight`, `ModelsRight`), the final conflict need not (below).

**Graph theory.**  With lazy backtracking the theory's graphs differ from the solver's
assignment, but never from the theory's own (`GraphsFollow`); what reaches the solver follows
from what the *solver* assigned (`EnqueuedJustified`, `ClausesFalse`), which is what
`isLazyConflict` is for; and starting propagation again after a lazy conflict comes to an end.

**Shortest paths.**  `UnweightedRamalReps` implements `ShortestPaths` when the limit is set before
the first update, as both detectors do, and is not raised later.

**Bit-vectors.**  Rewinding is exact: wherever an analysis stands no value is lost
(`BoundsSound`), and whatever it does the theory's state is afterwards the one that propagation
left (`UpToDate`).  Explanations hold for bits, comparisons and sums as long as no argument of a
sum is compared with another bit-vector.

**Preprocessing.**  Solutions are preserved over calls, interrupts and added clauses, and every
extended model satisfies what the user gave.

### Where the code and what it says of itself differ

`bv_stale_reason`, a defect of the code.  When a comparison of two bit-vectors is decided by
their bounds, `buildComparisonReasonBV` (`bv/BVTheorySolver.h:6319`) explains each bound as of
the moment the literal was assigned; it does not go back to where the bound was made, as
`buildComparisonReason` does.  A cause is then explained with the bounds that *others* have now.
For `AdditionArg` (`:3096`) that is unsound: with `s = a + b` of two bits, `a >= 1` gives `b <= 1`
from `s <= 2`.  When `a` has become 2 in between, the bound the explanation asks of `s` is
`1 + 2 = 3`, the largest value, so `addAnalysis` drops it.  The reason given for `b <= x` is `x0`
alone, which `a = 1, b = 2, s = 3, x = 1` refutes.  `buildReason` says that the approximations of
all bit-vectors concerned "need to be updated" after backtracking (`:5494`); the loop that would do
it is commented out.

### Met while modelling

Each of these was found by a run that is no longer kept, or by reading.

*Solver.*  All four need a theory that adds clauses or facts while the solver stands above
level 0, or a conflict clause of four or more literals.
- Two facts enqueued lazily make a clause false at level 0; `search` calls `analyze`, which
  cancels to level 0 and reads the last entry of an empty `trail_lim` (`core/Solver.cc:578`).
- The reason `analyzeFinal` has just built is empty, because its other literals have become
  facts; the clause of `CRef_Undef` is read (`:797`).
- A lazily enqueued fact above `trail_lim[0]` is taken for an assumption by `analyzeFinal`
  (`:792`), so that the final conflict is not one of the assumptions alone.
- A conflict clause is watched at two literals of early levels; after backjumping it becomes
  false again and is not visited, so search may decide past it (`:1653`).  The next propagation
  of the theory or the final check repairs it; it costs only time.  `NoMissedConflict` excepts
  such a clause, as long as it is part of a lemma the theory sees falsified.
- The level computed in `addClauseSafely` for an implied literal that is true already includes
  its own level (`:1492`, against the comment at `:1408`), so the literal is not moved down; a
  backjump is longer than needed.
- `propagateAssignment` sets a flag nothing reads and runs the whole search (`:2023`).
- `removeSatisfied` leaves false literals in clauses (`:1260`) while `simplify` recycles released
  variables: safe only as long as `releaseVar` has no caller.

*Graphs.*
- New edges are said to cause recomputation; an update after `clearChanged` replays instead, with
  arrays that are too small (`dgl/PKTopologicalSort.h:519`, `:541`).
- An algorithm of the protocol of `RamalReps` may register after history was cleared; its position
  is then below the offset (`dgl/DynamicGraph.h:535`; `InAdvance = FALSE` in `EdgeMirror`).
- `rewindHistory`, `undoEnableEdge` and `undoDisableEdge` have no live caller; `rewindHistory`
  passes over entries of weights without taking back their modification.
- BFS and DFS have `opt_inc_graph` fixed to false, so their incremental parts never run.
- `setMaxDistance` raised after nodes were cut off does not make them be looked at again
  (`dgl/RamalReps.h:871`): with `RaisingSpec` instead of `Spec`, `KeepsPromise` is violated.  No
  detector does it.

*Graph theory.*
- A literal declared between calls, in the sign that was not wanted so far, switches lazy
  backtracking off while assignments still wait on the lazy trail (`graph/GraphTheory.h:1745`).
  With `LateLazy = TRUE`, `EnqueuedJustified` is violated: a literal is given to the solver because
  of an edge the solver has taken back.  The theorems about the two trails assume
  `LateLazy = FALSE` for this reason.
- That the detector's counters are right under lazy backtracking rests on only edges being turned
  by hand (`Flip`): every property literal was assigned at level 0 by then and stays assigned
  (`Unanimous` in `GraphTheoryProofs`).
- A literal declared after the theory propagated level 0 is not propagated until something else
  is; harmless, `PropagationComplete` makes the exception.

*Optimization.*
- A search cut off while limits hold for the whole call leaves `max_values` of a later objective
  to maximize at the bound of level 0, and the final check throws (`core/Optimize.cpp:1608`).
- With an objective to minimize before one to maximize an improvement of the first is not
  recorded (`:1535`, `:1542`), and the assertions at `:1434` have the two directions swapped.
- The check of one objective's values against the others' expects the bounds the way an objective
  to minimize has them; with an objective to maximize before one to minimize it throws on right
  values (`core/Optimize.cpp:1535`).
- A repeated solve that is interrupted throws "instance has become unsat"; with
  `opt_optimization_init_solve` off "UNSAT" is thrown when no value was found.

*Preprocessing.*
- When preprocessing itself finds the problem unsatisfiable, `conflict` is still that of the call
  before (`simp/SimpSolver.cc:131`), although it is documented as being over the assumptions.
- An interrupt during preprocessing is cleared by `Solver::solve_` and so lost; clauses dropped
  from the queue by it are never looked at again.

*Bit-vectors.*
- A literal enqueued lazily while the theory has not opened its level yet stays on the theory's
  trail after backtracking, and `enqueueTheory` returns when it is told of it again (`:5652`);
  the bounds that came of it were taken back.  Level 0 is then not up to date, against
  `assert(dbg_uptodate())` (`:5281`, `:6159`).  `UpToDate` excepts it; answers stay right
  (`AnswersHold`), as a bit-vector is propagated again whenever one of its bits is assigned.
- `buildComparisonReasonBV` returns for two constant bit-vectors without bringing the position back
  to the end of the trail (`:6349`); whatever comes next does so.
- `backtrackUntil` calls `needsPropagation` (`:5295`), which is lost: `cancelUntil` empties the queue
  of theories after it.
- `OperationType` is kept in a signed field of five bits (`:119`), which cannot hold 16 and 17.
- `BitOp` shifts an `int` (`1 << i`, `:308`) while widths up to 63 are accepted.
- `newComparison` enters each operation twice into `operations` (`:187`, `:7820`), which costs time
  only.

## What is proved

The proof modules hold for every value of the constants: any sets of edges, weights,
algorithms, variables, nodes, clauses, objectives and solutions, any bound.  The assumptions are the named
ASSUMEs of the modules, which TLC evaluates in the runs, and three hypotheses of theorems:

- for the followers `InAdvance` (everything is declared before the first update), without which
  the property fails (`dgl/PKTopologicalSort.h:519`, above);
- for the graph theory under its solver `~LateLazy` (no literal declared between calls turns lazy
  backtracking off while something waits), without which `EnqueuedJustified` fails
  (`graph/GraphTheory.h:1745`, above).  Literals may still be declared between calls.
  `GraphsAlwaysFollow` does not need it;
- for `ChecksNeverThrow` the settings that the code's consistency checks are right for
  (`ChecksFit`), without which the code throws (`core/Optimize.cpp:1535`, `:1608`, above).  The settings
  of the run meet it.

### `GraphHistoryProofs`

`HistoryAlwaysExplains`: the newest retained entry about an edge says what its status is.  This
alone is not inductive, as undoing takes the newest entry away: `Alternate` says that the additions
and deletions of one edge take turns, so behind an entry taken away is the opposite one, which is
the status undone to.  What is cleared is a prefix, which neither part looks at (`DropKeeps`).

### `EdgeMirrorProofs`

`TypeCorrect`, `AlwaysSynced`, `AlwaysRetained`, `AlwaysRoom`, and `Refinement` of
`EdgeSnapshot`.  The inductive invariant `MirrorInv` relates each follower to the history: if
it will replay, its position lies in the retained part, its view differs from the graph only
in edges that the entries after its position mention, and the newest such entry agrees with the
graph.  `MirrorSynced` alone is not inductive: it says nothing of followers that lag.  The
harder steps are the three ways of clearing and the call-backs in the middle of them; the
invariant is stated for the followers "in charge", registered ones and, before solving,
those still to register.

### `AMOTheoryProofs`

`TypeCorrect`, `AlwaysUndecidedFirst` (an assertion of the code), `ReasonsAlwaysExplain`, and
`Refinement` of `AtMostOne`.  The invariant `IInv` has seven parts beside the types.  Its heart
is `Closed`: below every decision level a variable that is true has made all others false
*below that level*.  It is needed because `cancelUntil` empties the theory queue: only
because the level it returns to is closed is nothing lost.  `OrderInv` records the order in
which variables became true, so that `cancelUntil` meets the conflict before `true_var`;
`FieldInv` and `QueueInv` relate the three fields to the trail and to the calls still to come;
facts the theory was not told yet (`Fresh`) are the exception they make.  Each part has a
lemma with one step per action, `Settled` is the lemma that ends propagation: when nothing is
queued the constraint is propagated completely.

### `GraphTheoryProofs`

Its first half says what the operators of the theory's trail do, each once and for all callers: to the members and the
order of a list (`Keep`), to the graphs (`Follow`), to the lists of levels with the lazy one
(`Lists`: every assigned variable is in exactly one place, once) and to the detector's counters
(`Counts`), and what they leave marked for the detector (`Looked`, `Wakes`).  `Undoes`, `Sets`,
`Flips`, `Enqueues`, `BacktracksUntil`, `BacktracksBehind` state what an operation promises, and
the lemma of the operation that it keeps the promise.  That `Keep` is what it is for every list is
an induction; it goes over a set of numbers instead of a predicate (`NatSet`, from the least
element of a set), as no operator need then be passed to a theorem.

`GraphsAlwaysFollow`: the two graphs are at every moment those of the theory's own assignment.
The invariant adds to `GraphsFollow` the shape of the record (`Shape`).  It needs
no assumption on the solver: the graphs follow whatever it does, which is why `Flip`, where the
code turns an edge in the graphs by hand, is the step to look at.

`TheoryAlwaysInStep`: between calls the theory's assignment is the solver's, lazily or not.  The
invariant `StepInv` has four parts.  `TrailInv` is the solver's trail: in the order of the levels at
which entries were made, and a literal of the theory where it was put.  `SyncInv` relates it to the
theory's: without lazy backtracking level by level and in order (`InSync`), up to `Cut`, since during
an analysis the theory is backtracked along the trail, one reason at a time, and
`backtrackUntil` must meet it there; with lazy backtracking the variables are the same and the
levels need not be (`Loose`), those that wait to be told again (`AgainInv`) included.  `LazyInv`
is why that suffices: lazy backtracking is on only once every property literal was assigned at
level 0, all the same way (`Unanimous`), so none is ever undone.

`AlwaysJustified`: each literal the theory enqueued follows from the edges the solver had assigned
in front of it, at levels no later than its own, though the algorithms look at the theory's graphs, which
with lazy backtracking have edges the solver has not.  `DetectInv` says that what the algorithms saw
is still so while their reports are worked through.

`ClausesAlwaysFalse`, `ClausesAlwaysValid`: every reason and conflict is false when it is given,
its other literals assigned before the one it explains, and holds in all assignments.  Validity is
a lemma about graphs: a path of edges reaches its end in every graph that has them (`PathValid`),
and a set of nodes with all ways in cut off is reached in none that lacks them (`CutValid`).

`PropagationAlwaysComplete`: when the solver goes on to decide, it has every property literal that
its edges imply; `AnswersAlwaysHold`: an answer "sat" is right about all of them.  The invariant
`CompleteInv` (beside those above; TLC checked it on the instance first) follows
the way of a fact from the graphs to the solver: `Reported`, what an algorithm saw and nobody is
still to look at has its literal; `SkipInv`, an algorithm is skipped only when the counters show
that every literal it could report is assigned; `RequireInv`, while `requires_propagation` is down
nothing is missing; `LevelInv`, every level below the present one is complete.  The last is the
one a reader would not guess: `cancelUntil` empties the queue of theories, so that a theory that
was queued is forgotten, and only because each level was complete before the next was opened is
nothing lost by it.  `FinalInv` covers the final check. Literals declared between calls are the
exception the property itself makes.

### `OptimizeProofs`

`AlwaysAnswersRight`: what is called optimal is optimal in the order of the objectives, and "UNSAT"
is said only when there is no solution, for both searches, all limits and whatever the solver
below finds out.  `OptimalInv` says of the objectives done that the
assumptions leave them no choice but the best, and of the one at hand that the search has passed
nothing over, *unless a search was cut off*; then `foundOptimal` is given up.  `ModelInv` keeps the
model among the solutions that the assumptions allow, so that the next search has one to begin with.
`ChecksNeverThrow`: the recorded values stay within what the checks ask (`ValuesInv`).

### `SolverLemmas` and `SolverProofs`

`IInvAlways`: the invariant of search.  Everything else about the solver follows from it or is proved
along with it.  For every problem, every theory given by lemmas, any number of calls of `solve`,
any order of what the theory does in `propagateTheory` and any choice of what `reduceDB` removes.
Its parts, each there because a step would otherwise break another:

- `TrailOK`: the trail is the assignment, and a literal stands where its level begins or above, never below.
  It may stand far above it: literals are enqueued lazily, and `buildReason` lowers levels in
  the middle of an analysis.  That "below" cannot happen is what `cancelUntil` needs to keep and
  queue again what is of an earlier level.
- `ToldOK`, `Covered`: what the theory was told is assigned, filed no lower than its level and no
  higher than it stands, in the order of the trail; and it is everything there is, between calls up
  to level 0, while search runs up to the end of the trail.
- `DbOK`: clauses have two literals or more, none twice, and each watcher is one of the first two of a
  clause that is there.
- `CausesOK`: a reason is a clause that is there with the literal first, its others false earlier on the
  trail at no higher levels (`Because`); a marker of the theory stands for a lemma of which the same is so and
  whose literal stays where its level ends, so that the reason can be built from what the
  theory still knows; a literal without a reason above level 0 is the first of its level.
- `Repeated`: while `analyze` is to be repeated the theory no longer knows the literals of the level that
  it went back over.  It is not asked about them again, because the first walk has had all their
  reasons built (`Visitable`).  This is the part a reader would not guess; without it `Covered` is not
  inductive, and the exception in `TheoryInSync` is its trace in the properties.

Each operator has a lemma that says what it promises (`Steps`: the record it returns is good and follows
from the one it was given, and decides nothing; `Cancelled`, `Grows`, `ExplainedTo`, `MetTo`,
`WalkedTo`, `LearntTo`), each loop a lemma that gives it turn by turn (`TurnsExist`), each
action of `Solver` a step lemma.  From the invariant alone come `TheoryInSyncAlways`, `ReasonsValidAlways`,
`TheoryReasonsValidAlways` and `LearntAssertsAlways`.

`SoundAlways`: no assignment that satisfies the user's clauses and the theory is ever excluded
(`EntailedInv`: it satisfies every clause of the database, the delayed ones, the literals of level 0, and
the solver is consistent if there is one).  The step that needs an argument is `Learn`.  `Derives` is the
invariant of the walk: an assignment that makes a literal of the conflict true makes one of what was derived
so far true, resolving with reasons that are built as the walk meets them.  Then the clause is
minimised: what `litRedundant` drops rests, reason by reason, on literals that stay.
`RestsClosed` says that the search for what a literal rests on is done after as many turns as there
are variables (a set that still grows gets a variable each turn), and `LostBefore` that a dropped literal
made true without any that stays needs another such one earlier on the trail, so there is no first.

`RefutationsAreRight`: an answer "False" is right.  Either the solver has become inconsistent, which
`EntailedInv` excludes where there is a solution, or an assumption was false when its turn came.
`OnlyAssumed` says that then everything decided is an assumption, since no step but `Assume` and
`Decide` decides anything (`Undecided`) and `Decide` only above the last assumption; so a solution that makes
the assumptions true makes the whole trail true, reason by reason (`TrailAgrees`).

### `SimpSolverProofs`

`PreservedAlways`: at every moment of any number of calls, preprocessing cut off anywhere
included, the solutions of the user's clauses and of the clauses left are the same, seen from the
variables left.  `AnswersAreRight`: every answer of a call is right about the user's clauses, the
theories and the assumptions, eliminated variables included.  `NothingSubsumedAlways`: when `eliminate`
ends uninterrupted, no clause left subsumes or strengthens another, though each was looked at only
when it was queued or touched.  The one assumption is `SimpSolverAssumption`: clauses are over the
variables.  The invariant `IInv` has five parts beside the types, all of them needed:

- `Sound` relates the user's clauses (`given`), those left and the stack of eliminated ones: a solution
  of `given` is one of the clauses left, and one of the clauses left becomes one of `given` by
  working through `elimclauses` from its end, as `extendModel` does.  An elimination keeps it by
  the argument of resolution: when all resolvents hold, one of the two values of the variable
  satisfies the clauses it was taken from.
- `FrozenInv`: variables of theories and assumptions are never eliminated, so that theories
  and assumptions, of which `given` says nothing, survive too.
- `Tidy`: no clause left has an eliminated variable, nothing is queued that is gone.
- `CheckedInv`: assigned literals that the queue has passed have left all clauses.
- `QueueInv`: a clause that is neither queued nor touched has nothing left to
  subsume (`Looked`).  This is what an interrupt destroys, and why `NothingSubsumed` is about runs
  of `eliminate` that complete.

### Only model-checked

- Of the solver, `NoMissedConflict`, `AnswersRight` and `ModelsRight`.  That an answer "sat" is right
  rests on the first.  Without its second alternative it does not hold for every theory: a clause
  of four literals that `addConflictClause` attached while false altogether can become false again
  unnoticed (a theory of the one lemma 1 or 2 or 3 or 4 that reports late, and the clauses
  -5 or -3, -5 or -4, show it at depth 33), and only the theory, which must report its lemma
  again, then keeps search from a wrong model.  An inductive form has to say of every clause which
  of its watches may be false and passed, and why, for clauses of the user, of analysis and of the
  theory separately; this was not attempted.
- The bit-vector theory: its bounds and its analysis are folds over the trail.
- `UnweightedRamalReps`, whose queues are replayed by folds.
- The refinement of `UnweightedRamalReps` by the same token.
- Termination (`PropagationEnds`, the return of every call) and liveness in general, which is
  beyond TLAPS here, as is ENABLED and what a fold computes for every input.

## Not modelled

Sub-solvers (a solver used as a theory), decisions of theories, budgets, interrupts of the search
itself, garbage collection of clauses, activities and restart heuristics (choices are arbitrary
instead), released variables; in the graph theory the detectors other than `ReachDetector`, edges
over bit-vector weights, the cut graphs; in `Optimize` pseudo-Boolean objectives; of the bit-vectors
minimum and maximum, popcount,
multiplication, conditionals, inversion and unary encodings, equal bit-vectors, decisions,
theories over bit-vectors, and comparisons declared while searching; the components
the inventory calls "the others"; overflow of the modification counter (`int`, one step per
change).

## Plan

In this order.  Modules that get theorems keep their recursion in functions and folds.

1. The other operations of bit-vectors, as further kinds in `BVBounds` and `BVAnalysis`: the
   conditional and the minimum first, which also explain with the bounds of others.
2. `TopologicalSort`: the order kept by `PKTopologicalSort.h` under additions, against
   "there is a cycle"; the decremental shortcut of `Dijkstra.h` as a further follower.
3. `NFAAccept`, the encodings of `pb/`, the heap, as room allows.
4. Proofs: of the solver that propagation misses no conflict, and with it `AnswersRight`; of the
   bit-vector theory that `RewindTo` goes there and back, then `BoundsSound`.
