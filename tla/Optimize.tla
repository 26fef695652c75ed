------------------------------ MODULE Optimize ------------------------------
(***************************************************************************)
(* Optimization of bit-vectors over a solver                               *)
(* (src/monosat/core/Optimize.cpp): optimize_and_solve and its linear and  *)
(* binary searches.  The solver is known by its contract: asked for a      *)
(* solution under assumptions it returns any, reports that there is none,  *)
(* or gives up.  A solution is the tuple of the objectives' values; in a   *)
(* complete assignment the bounds of a bit-vector coincide, so that the    *)
(* suggested midpoint never lies beyond the real one.                      *)
(***************************************************************************)
EXTENDS Integers, Sequences

CONSTANTS
    Top,        \* the largest value of each objective that its width admits,
                \* the most important one first
    Instances,  \* sets of solutions
    Settings    \* directions (maximize), opt_optimization_search_type,
                \* opt_limit_optimization_time_per_arg, whether calls are limited

Objective == DOMAIN Top

ASSUME OptimizeAssumption ==
    /\ Top \in Seq(Nat)
    /\ \A F \in Instances : \A t \in F : \A j \in Objective : t[j] \in 0..Top[j]
    /\ \A s \in Settings :
          /\ s.maximize \in [Objective -> BOOLEAN] /\ s.search \in {"linear", "binary"}
          /\ s.perArg \in BOOLEAN /\ s.limited \in BOOLEAN

VARIABLES
    solutions, setting,
    known,        \* the bounds of each bit-vector at level 0
    phase, current,
    value, bound, \* max_val and min_val of the binary search
    model, kept,  \* the solver's assignment, last_satisfying_assign
    assume,       \* pairs: this objective, at least as good as that value
    mins, maxs,   \* min_values, max_values
    best,         \* best_model
    hitCutoff, foundOptimal, answer

instance == <<solutions, setting>>
searching == <<value, bound, kept>>
values == <<mins, maxs>>
outcome == <<best, hitCutoff, foundOptimal, answer>>
vars == <<instance, known, phase, current, searching, model, assume, values, outcome>>

\* lt: a is better than b.
Better(a, b, invert) == IF invert THEN a > b ELSE a < b
Maximize(j) == setting.maximize[j]
BestValue(j, lo, hi, invert) == IF invert THEN hi[j] ELSE lo[j]

\* The solutions under assumptions.
Allowed(A) ==
    {t \in solutions : \A a \in A : ~Better(a[2], t[a[1]], Maximize(a[1]))}

-----------------------------------------------------------------------------
Init ==
    /\ solutions \in Instances /\ setting \in Settings
    /\ known = [j \in Objective |-> [under |-> 0, over |-> Top[j]]]
    /\ phase = "start" /\ current = 1
    /\ value = 0 /\ bound = 0
    /\ model = <<>> /\ kept = <<>> /\ assume = {}
    /\ mins = [j \in Objective |-> 0] /\ maxs = mins
    /\ best = <<>> /\ hitCutoff = FALSE /\ foundOptimal = TRUE /\ answer = "none"

\* The solver learns facts: bounds that hold in all solutions.
LearnBounds(j) ==
    /\ phase # "done"
    /\ \E lo, hi \in known[j].under..known[j].over :
          /\ lo <= hi /\ \A t \in solutions : lo <= t[j] /\ t[j] <= hi
          /\ known' = [known EXCEPT ![j] = [under |-> lo, over |-> hi]]
    /\ UNCHANGED <<instance, phase, current, searching, model, assume, values, outcome>>

\* The first call, with the objectives free.
InitialSolve ==
    /\ phase = "start" /\ phase' = "objective"
    /\ \E t \in solutions : model' = t /\ best' = t
    /\ mins' = [j \in Objective |-> IF Maximize(j) THEN known[j].under ELSE known[j].over]
    /\ maxs' = [j \in Objective |-> IF Maximize(j) THEN known[j].over ELSE known[j].under]
    /\ UNCHANGED <<instance, known, current, searching, assume, hitCutoff, foundOptimal,
                   answer>>

InitialUnsat ==
    /\ phase = "start" /\ solutions = {}
    /\ phase' = "done" /\ answer' = "unsat"
    /\ UNCHANGED <<instance, known, current, searching, model, assume, values, best,
                   hitCutoff, foundOptimal>>

InitialCutoff ==
    /\ phase = "start" /\ setting.limited
    /\ phase' = "done" /\ answer' = "undef" /\ foundOptimal' = FALSE
    /\ UNCHANGED <<instance, known, current, searching, model, assume, values, best,
                   hitCutoff>>

-----------------------------------------------------------------------------
(***************************************************************************)
(* optimize_linear_bv and optimize_binary_bv.                              *)
(***************************************************************************)
LevelZero(j) == IF Maximize(j) THEN known[j].over ELSE known[j].under

BeginSearch ==
    /\ phase = "objective" /\ current \in Objective /\ ~hitCutoff
    /\ phase' = "search"
    /\ value' = model[current] /\ bound' = LevelZero(current) /\ kept' = model
    /\ UNCHANGED <<instance, known, current, model, assume, values, outcome>>

\* Integer division rounds down.
MidPoint(min, max, invert) ==
    IF ~invert THEN min + (max - min) \div 2
    ELSE LET mid == max + (min - max) \div 2 IN IF mid = max THEN min ELSE mid

\* The value that is tried next.
Tested ==
    IF setting.search = "binary" THEN MidPoint(bound, value, Maximize(current))
    ELSE IF Maximize(current) THEN value + 1 ELSE value - 1

Goal == IF setting.search = "binary" THEN bound ELSE LevelZero(current)
Open == phase = "search" /\ Better(Goal, value, Maximize(current)) /\ ~hitCutoff

Improve ==
    /\ Open
    /\ \E t \in Allowed(assume \cup {<<current, Tested>>}) :
          /\ model' = t /\ kept' = t /\ value' = t[current]
          /\ bound' = IF Better(bound, t[current], Maximize(current)) THEN bound
                      ELSE t[current]
    /\ UNCHANGED <<instance, known, phase, current, assume, values, outcome>>

\* Mutant of Narrowed: the bound may stay where it is.
Narrowed_stuck(v, invert) == v

\* Mutant of Narrowed: one value is left out.
Narrowed_tooFar(v, invert) == IF invert THEN v - 2 ELSE v + 2

Narrowed(v, invert) == IF invert THEN v - 1 ELSE v + 1

\* No solution, or none in time.  The solver is set back to the last one; a
\* linear search is over.
GiveUp(cut) ==
    /\ Open
    /\ IF cut THEN setting.limited ELSE Allowed(assume \cup {<<current, Tested>>}) = {}
    /\ hitCutoff' = cut /\ model' = kept
    /\ IF setting.search = "binary"
         THEN bound' = Narrowed(Tested, Maximize(current)) /\ UNCHANGED phase
         ELSE phase' = "closing" /\ UNCHANGED bound
    /\ UNCHANGED <<instance, known, current, value, kept, assume, values, best,
                   foundOptimal, answer>>

-----------------------------------------------------------------------------
(***************************************************************************)
(* optimize_and_solve, behind a search.                                    *)
(***************************************************************************)
\* The best value of an objective before the current one; the direction is
\* that of the current one.
Earlier == 1..(current - 1)
OldValue(j) == BestValue(j, mins, maxs, Maximize(current))
Inconsistent == \E j \in Earlier : Better(OldValue(j), model[j], Maximize(current))

\* When a search that was cut off had left room, an earlier objective may have
\* got better, and must stay so.
Improved == {j \in Earlier : Better(model[j], OldValue(j), Maximize(j))}

EndSearch ==
    /\ \/ phase = "closing"
       \/ phase = "search" /\ ~Better(Goal, value, Maximize(current))
       \/ phase = "search" /\ hitCutoff
    /\ IF Inconsistent THEN phase' = "done" /\ answer' = "throw"
       ELSE phase' = "objective" /\ UNCHANGED answer
    /\ assume' = assume \cup {<<current, value>>} \cup {<<j, model[j]>> : j \in Improved}
    /\ mins' = [j \in Objective |->
                  IF Maximize(j) THEN mins[j]
                  ELSE IF j = current THEN value
                  ELSE IF j \in Improved THEN model[j] ELSE mins[j]]
    /\ maxs' = [j \in Objective |->
                  IF ~Maximize(j) THEN maxs[j]
                  ELSE IF j = current THEN value
                  ELSE IF j \in Improved THEN model[j] ELSE maxs[j]]
    /\ best' = model /\ current' = current + 1
    /\ foundOptimal' = (foundOptimal /\ ~hitCutoff)
    /\ hitCutoff' = (hitCutoff /\ ~setting.perArg)
    /\ UNCHANGED <<instance, known, searching, model>>

\* opt_check_solution: the best model is solved for again, and the values of
\* all objectives compared with the best ones, also those never searched for.
CheckSolution ==
    /\ phase = "objective" /\ (current \notin Objective \/ hitCutoff)
    /\ phase' = "done" /\ model' = best
    /\ answer' = IF \E j \in Objective :
                      Better(BestValue(j, mins, maxs, Maximize(j)), best[j], Maximize(j))
                   THEN "throw" ELSE "sat"
    /\ UNCHANGED <<instance, known, current, searching, assume, values, best, hitCutoff,
                   foundOptimal>>

Finished == phase = "done" /\ UNCHANGED vars

Step ==
    \/ InitialSolve \/ InitialUnsat \/ InitialCutoff
    \/ BeginSearch \/ Improve \/ GiveUp(TRUE) \/ GiveUp(FALSE)
    \/ EndSearch \/ CheckSolution

Next == Step \/ Finished \/ \E j \in Objective : LearnBounds(j)

\* One thread; a call of the solver returns.
Spec == Init /\ [][Next]_vars /\ WF_vars(Step)

-----------------------------------------------------------------------------
(***************************************************************************)
(* Properties.                                                             *)
(***************************************************************************)
\* The order of the goals is lexicographic (Optimize.h).
Precedes(s, t) ==
    \E j \in Objective : /\ Better(s[j], t[j], Maximize(j))
                         /\ \A k \in 1..(j - 1) : s[k] = t[k]

\* The answer is right: no solution when there is none; a solution otherwise,
\* and when it is said to be optimal, no other one precedes it.
AnswerRight ==
    /\ answer = "unsat" => solutions = {}
    /\ answer = "sat" => /\ best \in solutions
                         /\ foundOptimal => ~\E t \in solutions : Precedes(t, best)
    /\ answer = "undef" => ~foundOptimal

\* Neither the consistency checks between objectives nor the one at the end
\* ever fail: they throw.
NeverThrows == answer # "throw"

\* Every call returns, with an answer.
Returns == <>(phase = "done" /\ NeverThrows)
=============================================================================
