------------------------------ MODULE BVTheory ------------------------------
(***************************************************************************)
(* The bit-vector theory (src/monosat/bv/BVTheorySolver.h) under a SAT     *)
(* solver: bits, comparisons with constants and between bit-vectors, and   *)
(* additions, propagated over bounds.                                      *)
(*                                                                         *)
(* As in GraphTheory the solver's clauses are not part of the model:       *)
(* whatever they could make the solver do may happen.                      *)
(***************************************************************************)
EXTENDS BVAnalysis

VARIABLES
    t,           \* the theory, see BVBounds
    queued,      \* the theory is in the solver's theory_queue
    phase,
    final,       \* everything is assigned, solveTheory has been called
    toReenqueue, \* literals the solver kept while it backtracked
    clause,      \* the conflict or reason the theory built last
    bound        \* where on the trail the last explained literal is

answer == <<clause, bound, final>>
vars == <<problem, trail, level, t, queued, phase, toReenqueue, answer>>

NoClause == [implied |-> {}, lits |-> {}]

-----------------------------------------------------------------------------
(***************************************************************************)
(* propagate, for each kind of operation.  x is an analysis with what the  *)
(* theory enqueued, and whether it has found a conflict.                   *)
(***************************************************************************)
\* enqueue: the solver tells the theory at once.
Enqueue(x, v, val, k) ==
    [x EXCEPT !.t = EnqueueTheory(@, v, val, level),
              !.implied = Append(@, [var |-> v, val |-> val, lev |-> level, at |-> level, by |-> k,
                                   late |-> FALSE])]

Conflict(x) == [x EXCEPT !.conflict = TRUE]

\* Mutant of Alter: whether it is wanted or not.
Alter_always(x, b, wanted) == [x EXCEPT !.t = AddAlteredBV(@, b)]

Alter(x, b, wanted) == IF wanted THEN [x EXCEPT !.t = AddAlteredBV(@, b)] ELSE x

\* The high bits of b that have this value are too many for its bound.
BitConflict(x, b, i, value, rel, to) ==
    Conflict(BuildComparisonReason(AddLiterals(x, HighBits(x.t, b, i, value)), rel, b, to))

\* One bit, the higher ones done: least and largest are the sums so far.
PropagateBit(y, k, i) ==
    LET b == Operations[k].bv
        n == y.x.t.bounds[b]
        val == y.x.t.assigns[<<b, i>>]
    IN IF y.x.conflict THEN y
       ELSE IF val = "T"
         THEN IF y.least + 2^i > n.over
                THEN [y EXCEPT !.x = BitConflict(@, b, i, "T", "leq", n.over)]
              ELSE [y EXCEPT !.least = @ + 2^i]
       ELSE IF val = "F"
         THEN IF y.largest - 2^i < n.under
                THEN [y EXCEPT !.x = BitConflict(@, b, i, "F", "geq", n.under)]
              ELSE [y EXCEPT !.largest = @ - 2^i]
       ELSE IF y.largest - 2^i < n.under
         THEN [y EXCEPT !.x = Enqueue(@, <<b, i>>, TRUE, k), !.least = @ + 2^i]
       ELSE IF y.least + 2^i > n.over
         THEN [y EXCEPT !.x = Enqueue(@, <<b, i>>, FALSE, k), !.largest = @ - 2^i]
       ELSE y

\* All bits, and then the bounds again.
Updated(x, u) == [x EXCEPT !.t = u, !.done = Len(u.trail) = Len(x.t.trail)]
UpdateBounds(x, b) == IF x.conflict THEN x ELSE Updated(x, UpdateApproximations(x.t, b))
BitRound(x, k) ==
    LET b == Operations[k].bv
        n == x.t.bounds[b]
    IN IF x.conflict \/ x.done THEN x
       ELSE IF n.under > n.over
         THEN Conflict(AnalyzeValues(x, <<<<"geq", b, n.under>>, <<"leq", b, n.over>>>>))
       ELSE UpdateBounds(FoldLeft(LAMBDA y, i : PropagateBit(y, k, i),
                                  [x |-> x, least |-> 0, largest |-> Top],
                                  [i \in 1..Width |-> Width - i]).x, b)

\* BitOp: as long as the bits refine the bounds.
PropagateBits(x, k) ==
    [FoldLeft(LAMBDA y, i : BitRound(y, k), [x EXCEPT !.done = FALSE], [i \in 1..(2 * Top + 1) |-> i])
       EXCEPT !.done = FALSE]

\* What one bound of b says of a comparison: its literal, or nothing.
Forced(o, rel, upper, n, m) ==
    CASE upper /\ IsLess(rel) /\ Compare(rel, n.over, m.under) -> "T"
      [] upper /\ ~IsLess(rel) /\ ~Compare(rel, n.over, m.under) -> "F"
      [] ~upper /\ ~IsLess(rel) /\ Compare(rel, n.under, m.over) -> "T"
      [] ~upper /\ IsLess(rel) /\ ~Compare(rel, n.under, m.over) -> "F"
      [] OTHER -> "U"

ComparisonReason(x, k, rel) ==
    LET o == Operations[k]
    IN IF o.kind = "const" THEN BuildComparisonReason(x, rel, o.bv, o.to)
       ELSE BuildComparisonReasonBV(x, rel, o.bv, o.other)

\* ComparisonOp and ComparisonBVOp, for the upper or the lower bound.  When the
\* literal is false, the comparison is the negated one.
PropagateComparison(x, k, upper) ==
    LET o == Operations[k]
        rel == Relation(x.t, o)
        forced == Forced(o, rel, upper, x.t.bounds[o.bv], ComparedTo(x.t, o))
    IN IF x.conflict THEN x
       ELSE IF x.t.assigns[o.lit] = "U" /\ forced # "U" THEN Enqueue(x, o.lit, forced = "T", k)
       ELSE IF forced = "F" THEN Conflict(ComparisonReason(AddLiterals(x, {o.lit}), k, Negated(rel)))
       ELSE x

\* ComparisonBVOp: the other bit-vector may have to follow; rel is the relation
\* before this one was propagated.
Follow(x, o, rel, upper) ==
    LET n == x.t.bounds[o.bv]
        m == x.t.bounds[o.other]
    IN IF x.conflict THEN x
       ELSE Alter(x, o.other,
              /\ x.t.assigns[o.lit] = Bool(rel = o.rel)
              /\ IsLess(rel) = upper
              /\ IF upper THEN ~Compare(rel, n.under, m.under) ELSE ~Compare(rel, n.over, m.over))
PropagateCompare(x, k, upper) ==
    Follow(PropagateComparison(x, k, upper), Operations[k], Relation(x.t, Operations[k]), upper)

Tightens(r, n) == r.under > n.under \/ r.over < n.over

\* Addition.
PropagateSum(x, k) ==
    LET o == Operations[k]
        a == o.args[1]
        b == o.args[2]
        B(c) == x.t.bounds[c]
        s == B(o.bv)
        r == SumBounds(x.t, o)
        left(c) == [under |-> AtLeast(s.under - B(c).over, 0),
                    over |-> AtLeast(s.over - B(c).under, 0)]
    IN IF s.under > r.over
         THEN Conflict(AnalyzeValues(x,
                <<<<"gt", o.bv, r.over>>, <<"leq", a, B(a).over>>, <<"leq", b, B(b).over>>>>))
       ELSE IF s.over < r.under
         THEN Conflict(AnalyzeValues(x,
                <<<<"lt", o.bv, r.under>>, <<"geq", a, B(a).under>>, <<"geq", b, B(b).under>>>>))
       ELSE Alter(Alter(x, a, Tightens(left(b), B(a))), b, Tightens(left(a), B(b)))

\* AdditionArg.
PropagateArg(x, k) ==
    LET o == Operations[k]
        B(c) == x.t.bounds[c]
        n == B(o.bv)
        s == B(o.sum)
        m == B(o.other)
        r == ArgBounds(x.t, o)
        whole == [under |-> AtMost(n.under + m.under, Top), over |-> AtMost(n.over + m.over, Top)]
        left == [under |-> AtLeast(s.under - n.over, 0), over |-> AtLeast(s.over - n.under, 0)]
        why == IF n.under > s.over - m.under
                 THEN <<<<"leq", o.sum, s.over>>, <<"geq", o.other, m.under>>,
                        <<"gt", o.bv, s.over - m.under>>>>
                 ELSE <<<<"geq", o.sum, s.under>>, <<"leq", o.other, m.over>>,
                        <<"lt", o.bv, s.under - m.over>>>>
    IN IF n.under > r.over \/ n.over < r.under THEN Conflict(AnalyzeValues(x, why))
       ELSE Alter(Alter(x, o.sum, Tightens(whole, s)), o.other, Tightens(left, m))

PropagateOperation(x, k) ==
    LET o == Operations[k]
    IN IF x.conflict THEN x
       ELSE CASE o.kind = "bits" -> PropagateBits(x, k)
              [] o.kind = "compare" -> PropagateCompare(PropagateCompare(x, k, TRUE), k, FALSE)
              [] o.kind = "sum" -> PropagateSum(x, k)
              [] o.kind = "arg" -> PropagateArg(x, k)

\* All that propagateTheory does for one bit-vector.
PropagateAll(u, b) ==
    LET x == Start(u) @@ [conflict |-> FALSE, implied |-> <<>>, done |-> FALSE]
    IN FoldLeft(LAMBDA y, k : PropagateComparison(y, k, FALSE),
         FoldLeft(LAMBDA y, k : PropagateComparison(y, k, TRUE),
           FoldLeft(PropagateOperation, x, OperationIDs(b)), Compares(b)), Reverse(Compares(b)))

-----------------------------------------------------------------------------
(***************************************************************************)
(* The solver: every assignment is told to the theory at once.             *)
(***************************************************************************)
Init ==
    /\ problem \in DOMAIN Problems
    /\ trail = <<>> /\ level = 0 /\ t = Declared /\ queued = TRUE
    /\ phase = "search" /\ final = FALSE /\ toReenqueue = <<>>
    /\ clause = NoClause /\ bound = 1

Assign(v, b, lev, at) ==
    /\ trail' = Append(trail, [var |-> v, val |-> b, lev |-> lev, at |-> at, by |-> None,
                               late |-> lev < at])
    /\ t' = EnqueueTheory(t, v, b, lev)
    /\ queued' = TRUE

Before(v, w) == v[1] < w[1] \/ (v[1] = w[1] /\ v[2] < w[2])

\* The literals the solver has a reason of its own to assign; the others come
\* in order when these are assigned.
Implicable ==
    LET open(F) == \E p \in F : p[1] \notin SolverVars
        F == SelectSeq(Problems[problem].free, open)
        left == Var \ SolverVars
    IN IF F # <<>> THEN {p \in F[1] : p[1] \in left}
       ELSE {v \in left : \A w \in left : w = v \/ Before(v, w)} \X BOOLEAN

\* A new level is opened when the theory has nothing left to do; the decision
\* itself is an assignment like any other.
NewDecisionLevel ==
    /\ phase = "search" /\ ~queued /\ level < Problems[problem].levels
    /\ level' = level + 1
    /\ UNCHANGED <<problem, trail, t, queued, phase, toReenqueue, answer>>

MayPostpone == Cardinality({i \in DOMAIN trail : trail[i].lev < trail[i].at}) < Problems[problem].postponed

\* A clause implies a literal; by enqueueLazy, at an earlier level.
Imply(v, b, lev) ==
    /\ phase = "search" /\ <<v, b>> \in Implicable
    /\ lev <= level /\ (lev < level => MayPostpone)
    /\ Assign(v, b, lev, level)
    /\ UNCHANGED <<problem, level, phase, toReenqueue, answer>>

ClauseConflict ==
    /\ phase = "search" /\ level > 0
    /\ phase' = "analyze" /\ clause' = NoClause /\ bound' = Len(trail) + 1
    /\ UNCHANGED <<problem, trail, level, t, queued, final, toReenqueue>>

\* cancelUntil; the theory_queue is cleared after the theory has backtracked.
CancelUntil(lev) ==
    LET kept(r) == r.at <= lev
        again(r) == r.at > lev /\ r.lev <= lev
    IN /\ trail' = SelectSeq(trail, kept) /\ level' = lev /\ queued' = FALSE
       /\ toReenqueue' = SelectSeq(trail, again)
       /\ phase' = IF toReenqueue' = <<>> THEN "search" ELSE "reenqueue"
       /\ t' = BacktrackUntil(t, lev)
       /\ clause' = NoClause /\ bound' = 1 /\ final' = FALSE
       /\ UNCHANGED problem

Restart == phase = "search" /\ level > 0 /\ CancelUntil(0)

\* The solver returns, and may be called again.
EndSolve == phase = "sat" /\ CancelUntil(0)

Reenqueue ==
    LET r == Head(toReenqueue)
    IN /\ phase = "reenqueue"
       /\ trail' = Append(trail, [r EXCEPT !.at = level])
       /\ t' = EnqueueTheory(t, r.var, r.val, r.lev)
       /\ queued' = TRUE
       /\ toReenqueue' = Tail(toReenqueue)
       /\ phase' = IF toReenqueue' = <<>> THEN "search" ELSE "reenqueue"
       /\ UNCHANGED <<problem, level, answer>>

\* Conflict analysis asks for the reasons of the theory's literals, on the way
\* back along the trail.  (The solver keeps the clause and does not ask again;
\* here it may.)
Explain(i) ==
    /\ phase = "analyze" /\ i < bound
    /\ trail[i].by # None /\ trail[i].lev > 0
    /\ \E x \in {BuildReason(t, trail[i].var, trail[i].by)} :
          /\ t' = x.t
          /\ clause' = [implied |-> {<<trail[i].var, trail[i].val>>}, lits |-> x.lits]
          /\ phase' = IF x.error THEN "error" ELSE "analyze"
    /\ bound' = i
    /\ UNCHANGED <<problem, trail, level, queued, final, toReenqueue>>

Floor == IF bound > Len(trail) THEN level ELSE trail[bound].lev

Backjump(lev) == phase = "analyze" /\ lev < Floor /\ CancelUntil(lev)

\* A conflict of level 0: from now on every call returns at once.
Fail ==
    /\ phase = "analyze" /\ level = 0 /\ phase' = "unsat"
    /\ UNCHANGED <<problem, trail, level, t, queued, toReenqueue, answer>>

Inconsistent == phase = "unsat" /\ UNCHANGED vars

-----------------------------------------------------------------------------
(***************************************************************************)
(* propagateTheory.                                                        *)
(***************************************************************************)
Skip ==
    /\ phase = "search" /\ queued /\ ~t.requires
    /\ queued' = FALSE
    /\ UNCHANGED <<problem, trail, level, t, phase, toReenqueue, answer>>

\* What propagateTheory does first.
Begun(u) == NewDecisionLevels(AtEnd(u), level)

Propagate ==
    /\ phase = "search" /\ queued /\ t.requires
    /\ queued' = FALSE /\ phase' = "propagate" /\ t' = Begun(t)
    /\ UNCHANGED <<problem, trail, level, toReenqueue, answer>>

\* The bit-vector on the top of altered_bvs.
PropagateTop ==
    LET b == Last(t.altered)
        changed(u) == Len(u.trail) > Len(t.trail) \/ b \in t.needs
    IN /\ phase = "propagate" /\ t.altered # <<>>
       /\ \E u \in {UpdateApproximations(t, b)} :
            IF changed(u)
              THEN \E x \in {PropagateAll(u, b)} :
                     /\ trail' = trail \o x.implied
                     /\ queued' = (queued \/ x.implied # <<>>)
                     /\ t' = IF x.conflict THEN x.t
                             ELSE [x.t EXCEPT !.altered = Front(@), !.needs = @ \ {b}]
                     /\ clause' = IF x.conflict THEN [implied |-> {}, lits |-> x.lits] ELSE clause
                     /\ bound' = IF x.conflict THEN Len(trail') + 1 ELSE bound
                     /\ phase' = CASE x.error -> "error" [] x.conflict -> "analyze" [] OTHER -> phase
            ELSE /\ t' = [u EXCEPT !.altered = Front(@)]
                 /\ UNCHANGED <<trail, queued, clause, bound, phase>>
       /\ UNCHANGED <<problem, level, final, toReenqueue>>

PropagateEnd ==
    /\ phase = "propagate" /\ t.altered = <<>>
    /\ t' = [t EXCEPT !.requires = FALSE]
    /\ phase' = IF final /\ ~queued THEN "sat" ELSE "search"
    /\ final' = FALSE
    /\ UNCHANGED <<problem, trail, level, queued, toReenqueue, clause, bound>>

\* solveTheory, when nothing is left to decide; propagation is forced.
SolveTheory ==
    /\ phase = "search" /\ ~queued /\ Var \subseteq SolverVars
    /\ t' = [Begun(t) EXCEPT !.requires = TRUE]
    /\ final' = TRUE /\ phase' = "propagate"
    /\ UNCHANGED <<problem, trail, level, queued, toReenqueue, clause, bound>>

TheoryStep == PropagateTop \/ PropagateEnd

Next ==
    \/ \E v \in Var, b \in BOOLEAN, lev \in 0..level : Imply(v, b, lev)
    \/ NewDecisionLevel \/ ClauseConflict \/ Restart \/ EndSolve \/ Reenqueue
    \/ \E i \in DOMAIN trail : Explain(i)
    \/ \E lev \in 0..level : Backjump(lev)
    \/ Fail \/ Inconsistent
    \/ Skip \/ Propagate \/ SolveTheory \/ TheoryStep

Spec == Init /\ [][Next]_vars

\* Weak fairness of TheoryStep: as long as the theory propagates it is enabled, and
\* nothing else is.
Fairness == []<>(phase # "propagate") \/ []<><<phase = "propagate">>_vars
FairSpec == Spec /\ Fairness

-----------------------------------------------------------------------------
(***************************************************************************)
(* Properties.                                                             *)
(***************************************************************************)
\* The values bit-vectors can have: sums are exact.
ModelsOf ==
    [p \in DOMAIN Problems |->
      {m \in [1..Problems[p].bvs -> 0..Top] :
         \A k \in DOMAIN Problems[p].operations :
           LET o == Problems[p].operations[k]
           IN o.kind = "sum" => m[o.bv] = m[o.args[1]] + m[o.args[2]]}]
Models == ModelsOf[problem]

Holds(m, v) ==
    IF v[1] # 0 THEN Bit(m[v[1]], v[2]) = 1
    ELSE LET o == Operations[OperationOf(v)]
         IN Compare(o.rel, m[o.bv], IF o.kind = "const" THEN o.to ELSE m[o.other])

\* The bounds lose no value: whatever agrees with the literals on the theory's
\* trail lies within them, also while an analysis has rewound them.
BoundsSound ==
    \A m \in Models :
      (\A v \in Var : t.assigns[v] \in {"U", Bool(Holds(m, v))})
        => \A b \in BV : m[b] \in t.bounds[b].under..t.bounds[b].over

\* When the theory has propagated, doing it again changes nothing: its bounds
\* are those the literals give, and every literal is assigned that they decide
\* (dbg_uptodate).  A literal that was assigned late, to an earlier level than the
\* solver's, is excepted: it may stay on the theory's trail when the bounds that
\* came of it are taken back, and enqueueTheory returns when it is told again.
UpToDate ==
    phase \in {"search", "sat"} /\ ~t.requires /\ (\A i \in DOMAIN trail : ~trail[i].late) =>
      \A u \in {Begun(t)}, b \in BV :
        /\ UpdateApproximations(u, b) = u
        /\ \A x \in {PropagateAll(u, b)} : ~x.conflict /\ x.implied = <<>> /\ x.t.altered = <<>>

\* When everything is assigned and the theory agrees, the literals are those of
\* values that make all operations true.
AnswersHold == phase = "sat" => \E m \in Models : \A p \in Range(trail) : Holds(m, p.var) = p.val

\* Every clause the theory gives the solver is false at the time, a reason
\* except for the literal it explains, by assignments made before that one.
ClausesFalse ==
    phase = "analyze" =>
      \A l \in clause.lits :
        \E i \in DOMAIN trail : i < bound /\ trail[i].var = l[1] /\ trail[i].val # l[2]

\* Every such clause holds, whatever the values of the bit-vectors are that
\* agree with the literals of level 0.
ClausesValid ==
    clause # NoClause =>
      \A m \in Models :
        (\A p \in Range(trail) : p.lev = 0 => Holds(m, p.var) = p.val)
          => \E l \in clause.lits \cup clause.implied : Holds(m, l[1]) = l[2]

\* Propagation comes to an end.
PropagationEnds == phase = "propagate" ~> phase # "propagate"
=============================================================================
