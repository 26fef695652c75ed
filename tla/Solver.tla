------------------------------- MODULE Solver -------------------------------
(***************************************************************************)
(* The search of the SAT solver with one theory attached                   *)
(* (src/monosat/core/Solver.cc): the user adds clauses and solves under    *)
(* assumptions, as often as wanted; search alternates between unit         *)
(* propagation, the theory, learning from conflicts and decisions.         *)
(*                                                                         *)
(* pc is where search stands; the theory runs inside propagate, one call   *)
(* of a method of the solver at a time.                                    *)
(***************************************************************************)
EXTENDS Analysis

CONSTANTS Problem,      \* the clauses the user may add, each once
          Lemmas,       \* the clauses that hold in the theory, a sequence
          AsClause,     \* the lemmas the theory adds as clauses while it propagates
          Eager,        \* the theory returns only when it has nothing to report
          Assumptions,  \* the assumption vectors the user may solve under
          MaxSolves, MaxRestarts

\* Clauses have no literal twice: sort() and the loop after it see to that.
ASSUME SolverAssumption ==
    /\ Problem \subseteq Seq(Lit) /\ Lemmas \in Seq(Seq(Lit)) /\ Assumptions \subseteq Seq(Lit)
    /\ \A ps \in Problem \cup Range(Lemmas) : \A i, j \in DOMAIN ps : ps[i] = ps[j] => i = j
    /\ \A k \in DOMAIN Lemmas : {VarOf(Lemmas[k][i]) : i \in DOMAIN Lemmas[k]} \subseteq TheoryVar
    /\ AsClause \subseteq DOMAIN Lemmas /\ Eager \in BOOLEAN
    /\ MaxSolves \in Nat /\ MaxRestarts \in Nat

VARIABLES
    core,            \* the fields of Trail and Clauses
    pc, in_simplify, \* where search is, and whether simplify called propagate
    confl,           \* the conflicting clause, or CRef_Undef
    assumptions,
    status, model, conflict,   \* what the last call of solve returned
    given, used,     \* history: clauses of the user, lemmas added as clauses
    asked,           \* history: the assumptions of the last call
    solves, restarts

result == <<status, model, conflict>>
call == <<assumptions, asked, solves>>
vars == <<core, pc, in_simplify, confl, assumptions, status, model, conflict,
          given, used, asked, solves, restarts>>

Init ==
    /\ core = [assigns |-> {}, level |-> [v \in Var |-> 0],
               reason |-> [v \in Var |-> CRef_Undef], trail |-> <<>>,
               trail_lim |-> <<>>, qhead |-> 0, told |-> <<>>,
               theory_level |-> 0,
               theory_queue |-> FALSE, ca |-> <<>>,
               watches |-> [p \in Lit |-> <<>>], delayed |-> <<>>,
               ok |-> TRUE, initialPropagate |-> TRUE]
    /\ pc = "idle" /\ in_simplify = FALSE /\ confl = CRef_Undef
    /\ assumptions = <<>>
    /\ status = "Undef" /\ model = {} /\ conflict = {}
    /\ given = {} /\ used = {} /\ asked = <<>> /\ solves = 0 /\ restarts = 0

-----------------------------------------------------------------------------
(***************************************************************************)
(* The user's calls.                                                       *)
(***************************************************************************)
AddClause(ps) ==
    /\ pc = "idle"
    /\ core' = AddClause_(CancelUntil(core, 0), ps)
    /\ given' = given \cup {ps}
    /\ UNCHANGED <<pc, in_simplify, confl, result, call, used, restarts>>

\* solve(assumps); propagateAssignment(assumps) runs the same search, because
\* nothing reads the flag it sets (only_propagate_assumptions).
Solve(assumps) ==
    /\ pc = "idle" /\ solves < MaxSolves
    /\ pc' = "solve_"
    /\ assumptions' = assumps /\ asked' = assumps
    /\ solves' = solves + 1
    /\ UNCHANGED <<core, in_simplify, confl, result, given, used, restarts>>

\* The end of solve_; only an empty conflict makes the solver inconsistent.
Return(answer, out) ==
    /\ pc' = "idle" /\ status' = answer /\ conflict' = out
    /\ assumptions' = <<>>
    /\ confl' = CRef_Undef /\ in_simplify' = FALSE
    /\ UNCHANGED <<given, used, asked, solves, restarts>>

Fail(c, out) ==
    /\ Return("False", out)
    /\ core' = [c EXCEPT !.ok = @ /\ out # {}]
    /\ model' = {}

\* solve_, up to search: the theory is told what is propagated already.
TellPropagated(c) == Fold(Tell, c, SubSeq(c.trail, 1, c.qhead))

Start ==
    /\ pc = "solve_" /\ core.ok
    /\ core' = TellPropagated(CancelUntil(core, 0))
    /\ pc' = "propagate" /\ restarts' = 0
    /\ model' = {} /\ conflict' = {} /\ status' = "Undef"
    /\ UNCHANGED <<in_simplify, confl, call, given, used>>

StartInconsistent ==
    /\ pc = "solve_" /\ ~core.ok
    /\ Fail(CancelUntil(core, 0), {})

-----------------------------------------------------------------------------
(***************************************************************************)
(* propagate.                                                              *)
(***************************************************************************)
\* Everything unit propagation gives, then, once after clauses were added,
\* all literals for the theory.
InitialTheories(c) ==
    IF c.initialPropagate /\ DecisionLevel(c) = 0
      THEN [TellPropagated(c) EXCEPT !.theory_queue = TRUE,
                                     !.initialPropagate = FALSE]
      ELSE c

\* The theory is taken from the queue as it is called.
CallTheory(c) == [c EXCEPT !.theory_queue = FALSE]

Propagate ==
    /\ pc = "propagate"
    /\ LET r == PropagateUnits(core)
           c == InitialTheories(r.c)
       IN /\ confl' = r.confl
          /\ IF c.theory_queue /\ r.confl = CRef_Undef
               THEN core' = CallTheory(c) /\ pc' = "theory"
               ELSE core' = c /\ pc' = "propagated"
    /\ UNCHANGED <<in_simplify, call, result, given, used, restarts>>

\* What the theory may do, by its own assignment.
Told == {r.lit : r \in Range(core.told)}
Falsified(k) == \A i \in DOMAIN Lemmas[k] : -Lemmas[k][i] \in Told
UnitFor(k, p) ==
    \A i \in DOMAIN Lemmas[k] : Lemmas[k][i] = p \/ -Lemmas[k][i] \in Told

\* enqueue(p, marker): p is a consequence of what the theory holds.
TheoryEnqueue(k, p) ==
    /\ pc = "theory" /\ p \in Range(Lemmas[k])
    /\ UnitFor(k, p) /\ IsUndef(core, p)
    /\ core' = UncheckedEnqueue(core, p, -k)
    /\ UNCHANGED <<pc, in_simplify, confl, call, result, given, used, restarts>>

\* addClauseSafely: any lemma, whatever its literals are.
TheoryAdd(k) ==
    /\ pc = "theory" /\ k \in AsClause \ used
    /\ core' = AddClauseSafely(core, Lemmas[k])
    /\ used' = used \cup {k}
    /\ UNCHANGED <<pc, in_simplify, confl, call, result, given, restarts>>

\* propagate goes on with the theory while nothing else is left to do.
Continue(c) ==
    IF c.qhead < Len(c.trail) THEN core' = c /\ pc' = "propagate"
    ELSE IF c.theory_queue THEN core' = CallTheory(c) /\ pc' = "theory"
    ELSE core' = c /\ pc' = "propagated"

TheoryReturn ==
    /\ pc = "theory"
    /\ Eager => \A k \in DOMAIN Lemmas :
                  /\ ~Falsified(k)
                  /\ \A p \in Range(Lemmas[k]) : UnitFor(k, p) => ~IsUndef(core, p)
    /\ Continue(core)
    /\ UNCHANGED <<in_simplify, confl, call, result, given, used, restarts>>

\* propagateTheory returns FALSE with a lemma that is false altogether.
TheoryConflict(k) ==
    /\ pc = "theory" /\ Falsified(k)
    /\ LET r == AddConflictClause(core, Lemmas[k], FALSE)
       IN /\ confl' = r.confl
          /\ IF r.fine THEN Continue(r.c)
             ELSE /\ core' = [r.c EXCEPT !.qhead = Len(r.c.trail)]
                  /\ pc' = "propagated"
    /\ UNCHANGED <<in_simplify, call, result, given, used, restarts>>

-----------------------------------------------------------------------------
(***************************************************************************)
(* search.                                                                 *)
(***************************************************************************)
InConflict == pc = "propagated" /\ ~in_simplify /\ (confl # CRef_Undef \/ ~core.ok)

LevelZeroConflict ==
    /\ InConflict /\ DecisionLevel(core) = 0
    /\ Fail(core, {})

\* analyze up to the restart it does when a level was corrected on the way.
\* Above level 0 the conflict may belong to level 0 all the same: then
\* trail_lim.last() is read from an empty vector, and nothing is said of what
\* follows.
Analyzed == Walk(CancelUntil(core, ConflictLevel(core, confl)), confl, Lemmas)

AnalyzeAtRoot ==
    /\ InConflict /\ DecisionLevel(core) > 0 /\ ConflictLevel(core, confl) = 0
    /\ core' = CancelUntil(core, 0) /\ pc' = "undefined"
    /\ UNCHANGED <<in_simplify, confl, call, result, given, used, restarts>>

AnalyzeAgain ==
    /\ InConflict /\ DecisionLevel(core) > 0 /\ ConflictLevel(core, confl) > 0
    /\ Analyzed.missed
    /\ core' = Analyzed.c
    /\ UNCHANGED <<pc, in_simplify, confl, call, result, given, used, restarts>>

Learn ==
    /\ InConflict /\ DecisionLevel(core) > 0 /\ ConflictLevel(core, confl) > 0
    /\ ~Analyzed.missed
    /\ core' = Learnt(Analyzed.c, LearntClause(Analyzed))
    /\ pc' = "propagate" /\ confl' = CRef_Undef
    /\ UNCHANGED <<in_simplify, call, result, given, used, restarts>>

Quiet == pc = "propagated" /\ ~in_simplify /\ confl = CRef_Undef /\ core.ok

\* addDelayedClauses, the last clause first.
AddDelayed ==
    /\ Quiet /\ core.delayed # <<>>
    /\ LET r == AddConflictClause(core, Last(core.delayed), TRUE)
       IN /\ core' = [r.c EXCEPT !.delayed = Front(@)]
          /\ confl' = r.confl
    /\ UNCHANGED <<pc, in_simplify, call, result, given, used, restarts>>

\* The bound on conflicts is reached: search again, from level 0.
Restart ==
    /\ Quiet /\ core.delayed = <<>> /\ restarts < MaxRestarts
    /\ core' = CancelUntil(core, 0)
    /\ pc' = "propagate" /\ restarts' = restarts + 1
    /\ UNCHANGED <<in_simplify, confl, call, result, given, used>>

\* At level 0 simplify propagates, and may then drop the satisfied clauses.
CallSimplify ==
    /\ Quiet /\ core.delayed = <<>> /\ DecisionLevel(core) = 0
    /\ in_simplify' = TRUE /\ pc' = "propagate"
    /\ UNCHANGED <<core, confl, call, result, given, used, restarts>>

SimplifyFails ==
    /\ pc = "propagated" /\ in_simplify
    /\ confl # CRef_Undef \/ ~core.ok
    /\ Fail(core, {})

Simplify ==
    /\ pc = "propagated" /\ in_simplify /\ confl = CRef_Undef /\ core.ok
    /\ core' \in {core, RemoveSatisfied(core)}
    /\ pc' = "reduce" /\ in_simplify' = FALSE
    /\ UNCHANGED <<confl, call, result, given, used, restarts>>

\* reduceDB: learnt clauses of more than two literals that are no reason.
ReduceDB ==
    /\ \/ pc = "reduce"
       \/ Quiet /\ core.delayed = <<>> /\ DecisionLevel(core) > 0
    /\ \E R \in SUBSET {cr \in Live(core) : core.ca[cr].learnt
                           /\ Len(core.ca[cr].lits) > 2 /\ ~Locked(core, cr)} :
         core' = RemoveClauses(core, R)
    /\ pc' = "decide"
    /\ UNCHANGED <<in_simplify, confl, call, result, given, used, restarts>>

\* The assumptions that are true already get a level each, without a literal.
PendingAssumptions ==
    {i \in DOMAIN assumptions : i > DecisionLevel(core)}
FirstOpen ==
    LET open == {i \in PendingAssumptions : ~IsTrue(core, assumptions[i])}
    IN IF open = {} THEN Len(assumptions) + 1
       ELSE CHOOSE i \in open : \A j \in open : i <= j
Dummies(n) ==
    LET level(c, i) == NewDecisionLevel(c)
    IN Fold(level, core, [i \in 1..n |-> i])
AtAssumptions ==
    IF PendingAssumptions = {} THEN core
    ELSE Dummies(FirstOpen - 1 - DecisionLevel(core))

DecideOn(c, p) == UncheckedEnqueue(NewDecisionLevel(c), p, CRef_Undef)

AssumptionRefuted ==
    /\ pc = "decide" /\ PendingAssumptions # {} /\ FirstOpen <= Len(assumptions)
    /\ IsFalse(core, assumptions[FirstOpen])
FinalAnalysis == AnalyzeFinal(AtAssumptions, -assumptions[FirstOpen], Lemmas)

AssumptionFalse ==
    /\ AssumptionRefuted /\ ~FinalAnalysis.ub
    /\ Fail(FinalAnalysis.c, FinalAnalysis.out)

\* The clause of CRef_Undef is read: nothing is said of what follows.
AssumptionFalseUndefined ==
    /\ AssumptionRefuted /\ FinalAnalysis.ub
    /\ core' = FinalAnalysis.c /\ pc' = "undefined"
    /\ UNCHANGED <<in_simplify, confl, call, result, given, used, restarts>>

Assume ==
    /\ pc = "decide" /\ PendingAssumptions # {} /\ FirstOpen <= Len(assumptions)
    /\ IsUndef(core, assumptions[FirstOpen])
    /\ core' = DecideOn(AtAssumptions, assumptions[FirstOpen])
    /\ pc' = "propagate"
    /\ UNCHANGED <<in_simplify, confl, call, result, given, used, restarts>>

\* The last assumptions were true already: propagate before the first decision.
AssumptionsTrue ==
    /\ pc = "decide" /\ PendingAssumptions # {} /\ FirstOpen > Len(assumptions)
    /\ core' = AtAssumptions /\ pc' = "propagate"
    /\ UNCHANGED <<in_simplify, confl, call, result, given, used, restarts>>

\* pickBranchLit and the saved phase: any unassigned variable, either sign.
Decide(p) ==
    /\ pc = "decide" /\ PendingAssumptions = {} /\ IsUndef(core, p)
    /\ core' = DecideOn(core, p) /\ pc' = "propagate"
    /\ UNCHANGED <<in_simplify, confl, call, result, given, used, restarts>>

Full == pc = "decide" /\ PendingAssumptions = {} /\ \A v \in Var : ~IsUndef(core, v)

\* Everything is assigned: solveTheory has the last word.
SolveTheoryConflict(k) ==
    /\ Full /\ Falsified(k)
    /\ LET r == AddConflictClause(NewDecisionLevel(core), Lemmas[k], FALSE)
       IN core' = r.c /\ confl' = r.confl
          /\ pc' = IF r.fine THEN "propagate" ELSE "propagated"
    /\ UNCHANGED <<in_simplify, call, result, given, used, restarts>>

\* A literal was enqueued and not propagated since: search goes back to do so.
SolveTheoryPending ==
    /\ Full /\ \A k \in DOMAIN Lemmas : ~Falsified(k)
    /\ core.qhead < Len(core.trail)
    /\ core' = NewDecisionLevel(core) /\ pc' = "propagate"
    /\ UNCHANGED <<in_simplify, confl, call, result, given, used, restarts>>

ModelFound ==
    /\ Full /\ \A k \in DOMAIN Lemmas : ~Falsified(k)
    /\ core.qhead = Len(core.trail)
    /\ Return("True", {})
    /\ core' = NewDecisionLevel(core) /\ model' = core.assigns
   

Search ==
    \/ Start \/ StartInconsistent
    \/ Propagate \/ TheoryReturn
    \/ \E k \in DOMAIN Lemmas :
         \/ TheoryAdd(k) \/ TheoryConflict(k) \/ SolveTheoryConflict(k)
         \/ \E p \in Range(Lemmas[k]) : TheoryEnqueue(k, p)
    \/ LevelZeroConflict \/ AnalyzeAtRoot \/ AnalyzeAgain \/ Learn
    \/ AddDelayed \/ Restart \/ CallSimplify \/ SimplifyFails \/ Simplify
    \/ ReduceDB
    \/ AssumptionFalse \/ AssumptionFalseUndefined \/ Assume \/ AssumptionsTrue
    \/ \E p \in Lit : Decide(p)
    \/ SolveTheoryPending \/ ModelFound

\* Between calls, and after undefined behaviour, nothing need happen; search
\* itself can always go on.
Rest == pc \in {"idle", "undefined"} /\ UNCHANGED vars

Next ==
    \/ \E ps \in Problem \ given : AddClause(ps)
    \/ \E assumps \in Assumptions : Solve(assumps)
    \/ Search
    \/ Rest

Spec == Init /\ [][Next]_vars

\* A call that runs goes on running (WF_vars(Search): Search is enabled exactly
\* while a call runs, which is what the check for deadlock shows).
Running == pc \notin {"idle", "undefined"}
FairSpec == Spec /\ (<>[]Running => []<><<Search>>_vars)
=============================================================================
