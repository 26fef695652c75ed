------------------------------ MODULE Clauses ------------------------------
(***************************************************************************)
(* The clause database of the SAT solver and everything that adds to it:   *)
(* clauses of the user, conflict and reason clauses of the theory, clauses *)
(* the theory adds while the solver searches; and unit propagation over    *)
(* two watched literals.  Clauses given by the environment are sorted and  *)
(* free of duplicates, as sort() and the loops after it leave them.        *)
(***************************************************************************)
EXTENDS Trail

\* ca[cr] is a clause; a freed one has no literals.  A watcher holds a clause
\* and its blocker.  delayed is clauses_to_add.
ClauseFields ==
    [ca : Seq([lits : Seq(Lit), learnt : BOOLEAN]),
     watches : [Lit -> Seq([cref : Nat, blocker : Lit])],
     delayed : Seq(Seq(Lit)), ok : BOOLEAN, initialPropagate : BOOLEAN]

Live(c) == {cr \in DOMAIN c.ca : c.ca[cr].lits # <<>>}
Lits(c, cr) == Range(c.ca[cr].lits)

AttachClause(c, cr) ==
    LET lits == c.ca[cr].lits
        w(q) == [cref |-> cr, blocker |-> q]
        watched == [c.watches EXCEPT ![-lits[1]] = Append(@, w(lits[2])),
                                     ![-lits[2]] = Append(@, w(lits[1]))]
    IN [c EXCEPT !.watches = watched]

\* ca.alloc followed by attachClause; the new clause is the last one.
NewClause(c, lits, learnt) ==
    AttachClause([c EXCEPT !.ca = Append(@, [lits |-> lits, learnt |-> learnt])],
                 Len(c.ca) + 1)

-----------------------------------------------------------------------------
(***************************************************************************)
(* propagate: one literal of the trail.                                    *)
(***************************************************************************)
Swap(s, i, j) == [s EXCEPT ![i] = s[j], ![j] = s[i]]

\* The places where another literal to watch is found; the first is taken.
NewWatch(c, lits) == {k \in 3..Len(lits) : ~IsFalse(c, lits[k])}

\* Mutant of VisitWatcher: the clause is not added to the list of its new watch.
VisitWatcher_unmoved(p, a, w) ==
    IF a.confl # CRef_Undef \/ IsTrue(a.c, w.blocker)
      THEN [a EXCEPT !.keep = Append(@, w)]
    ELSE
    LET old == a.c.ca[w.cref].lits
        lits == IF old[1] = -p THEN Swap(old, 1, 2) ELSE old
        first == lits[1]
        nw == [cref |-> w.cref, blocker |-> first]
        c1 == [a.c EXCEPT !.ca[w.cref].lits = lits]
        found == NewWatch(a.c, lits)
        k == CHOOSE i \in found : \A j \in found : i <= j
    IN  CASE first # w.blocker /\ IsTrue(a.c, first) ->
               [a EXCEPT !.c = c1, !.keep = Append(@, nw)]
          [] found # {} /\ ~(first # w.blocker /\ IsTrue(a.c, first)) ->
               [a EXCEPT !.c = [c1 EXCEPT
                   !.ca[w.cref].lits = Swap(lits, 2, k)]]
          [] OTHER ->
               IF IsFalse(a.c, first)
                 THEN [a EXCEPT !.c = [c1 EXCEPT !.qhead = Len(c1.trail)],
                                !.keep = Append(@, nw),
                                !.confl = w.cref]
                 ELSE [a EXCEPT !.c = UncheckedEnqueue(c1, first, w.cref),
                                !.keep = Append(@, nw)]

\* One watcher of the literal p that became true.  a holds the solver, the
\* watchers kept so far, and the conflict if there is one.
VisitWatcher(p, a, w) ==
    IF a.confl # CRef_Undef \/ IsTrue(a.c, w.blocker)
      THEN [a EXCEPT !.keep = Append(@, w)]
    ELSE
    LET old == a.c.ca[w.cref].lits
        lits == IF old[1] = -p THEN Swap(old, 1, 2) ELSE old
        first == lits[1]
        nw == [cref |-> w.cref, blocker |-> first]
        c1 == [a.c EXCEPT !.ca[w.cref].lits = lits]
        found == NewWatch(a.c, lits)
        k == CHOOSE i \in found : \A j \in found : i <= j
    IN  CASE first # w.blocker /\ IsTrue(a.c, first) ->
               [a EXCEPT !.c = c1, !.keep = Append(@, nw)]
          [] found # {} /\ ~(first # w.blocker /\ IsTrue(a.c, first)) ->
               [a EXCEPT !.c = [c1 EXCEPT
                   !.ca[w.cref].lits = Swap(lits, 2, k),
                   !.watches[-lits[k]] = Append(@, nw)]]
          [] OTHER ->
               IF IsFalse(a.c, first)
                 THEN [a EXCEPT !.c = [c1 EXCEPT !.qhead = Len(c1.trail)],
                                !.keep = Append(@, nw),
                                !.confl = w.cref]
                 ELSE [a EXCEPT !.c = UncheckedEnqueue(c1, first, w.cref),
                                !.keep = Append(@, nw)]

PropagateLit(c) ==
    LET p == c.trail[c.qhead + 1]
        visit(a, w) == VisitWatcher(p, a, w)
        a == Fold(visit,
                  [c |-> [c EXCEPT !.qhead = @ + 1], keep |-> <<>>,
                   confl |-> CRef_Undef],
                  c.watches[p])
    IN [c |-> [a.c EXCEPT !.watches[p] = a.keep], confl |-> a.confl]

\* propagate(false): every literal of the queue, without the theory.
PropagateUnits(c) ==
    LET turn(r, i) == IF r.confl # CRef_Undef \/ r.c.qhead >= Len(r.c.trail)
                        THEN r ELSE PropagateLit(r.c)
    IN Fold(turn, [c |-> c, confl |-> CRef_Undef], [i \in 1..NVars |-> i])

-----------------------------------------------------------------------------
(***************************************************************************)
(* Adding clauses.                                                         *)
(***************************************************************************)
\* Mutant of FalseAtRoot: a false literal of any level is dropped.
FalseAtRoot_any(c, p) == IsFalse(c, p)

\* Level-0 facts: a clause may be dropped for one, or lose one.
FalseAtRoot(c, p) == IsFalse(c, p) /\ LevelOf(c, p) = 0
SatisfiedAtRoot(c, ps) ==
    \E i \in DOMAIN ps : IsTrue(c, ps[i]) /\ LevelOf(c, ps[i]) = 0
WithoutRoot(c, ps) ==
    Keep(ps, {p \in Range(ps) : ~FalseAtRoot(c, p)})

Falses(c, ps) == {i \in DOMAIN ps : IsFalse(c, ps[i])}
NotFalse(c, ps) == DOMAIN ps \ Falses(c, ps)
AssignedLevels(c, ps) ==
    {LevelOf(c, ps[i]) : i \in {j \in DOMAIN ps : ~IsUndef(c, ps[j])}}
MaxLevel(c, ps) ==
    LET ls == AssignedLevels(c, ps) \cup {0}
    IN CHOOSE l \in ls : \A m \in ls : m <= l

\* The first two literals that are not false are moved to the watched places.
\* Of a clause that is false altogether the order stays as it is.
Watched(c, ps) ==
    LET nf == NotFalse(c, ps)
        n1 == CHOOSE i \in nf : \A j \in nf : i <= j
        n2 == CHOOSE i \in nf \ {n1} : \A j \in nf \ {n1} : i <= j
    IN CASE nf = {} -> ps
         [] Cardinality(nf) = 1 -> Swap(ps, 1, n1)
         [] OTHER -> IF n1 = 2 THEN Swap(ps, 1, n2)
                     ELSE Swap(Swap(ps, 1, n1), 2, n2)

\* addClause_, at level 0: a unit is propagated at once, but not to the theory.
AddClause_(c, given) ==
    LET c0 == [c EXCEPT !.initialPropagate = TRUE]
        ps == WithoutRoot(c, given)
    IN CASE ~c.ok -> c
         [] c.ok /\ SatisfiedAtRoot(c, given) -> c0
         [] c.ok /\ ~SatisfiedAtRoot(c, given) /\ Len(ps) = 0 ->
              [c0 EXCEPT !.ok = FALSE]
         [] c.ok /\ ~SatisfiedAtRoot(c, given) /\ Len(ps) = 1 ->
              LET r == PropagateUnits(UncheckedEnqueue(c0, ps[1], CRef_Undef))
              IN [r.c EXCEPT !.ok = r.confl = CRef_Undef]
         [] OTHER -> NewClause(c0, ps, FALSE)

\* addClauseSafely: at level 0 the clause is added; above, one that is unit
\* now is attached now, and any other waits for addDelayedClauses.
AddClauseSafely(c, given) ==
    LET ps == WithoutRoot(c, given)
        unit == Cardinality(Falses(c, ps)) = Len(ps) - 1
        lits == Watched(c, ps)
        now == DecisionLevel(c) > 0 /\ ~SatisfiedAtRoot(c, given)
        d == NewClause(c, lits, FALSE)
    IN CASE DecisionLevel(c) = 0 -> AddClause_(c, given)
         [] DecisionLevel(c) > 0 /\ SatisfiedAtRoot(c, given) -> c
         [] now /\ unit /\ Len(ps) = 1 -> EnqueueLazy(c, ps[1], 0, CRef_Undef)
         [] now /\ unit /\ Len(ps) > 1 ->
              EnqueueLazy(d, lits[1], MaxLevel(c, ps), Len(d.ca))
         [] OTHER -> [c EXCEPT !.delayed = Append(@, ps)]

\* addConflictClause: what the theory says is in conflict, and the clauses
\* that had to wait.  fine is what the method returns.
AddConflictClause(c, given, permanent) ==
    LET ps == WithoutRoot(c, given)
        out(d, confl, fine) == [c |-> d, confl |-> confl, fine |-> fine]
        nf == NotFalse(c, ps)
        unit == Cardinality(nf) = 1 /\ \A i \in nf : IsUndef(c, ps[i])
        d == NewClause(c, Watched(c, ps), ~permanent)
        cr == Len(d.ca)
        root == CancelUntil(c, 0)
    IN CASE SatisfiedAtRoot(c, given) -> out(c, CRef_Undef, TRUE)
         [] ~SatisfiedAtRoot(c, given) /\ Len(ps) = 0 ->
              out([root EXCEPT !.ok = FALSE], CRef_Undef, FALSE)
         [] ~SatisfiedAtRoot(c, given) /\ Len(ps) = 1 ->
              (CASE IsFalse(root, ps[1]) ->
                      out([root EXCEPT !.ok = FALSE], CRef_Undef, FALSE)
                 [] IsUndef(root, ps[1]) ->
                      out(UncheckedEnqueue(root, ps[1], CRef_Undef),
                          CRef_Undef, TRUE)
                 [] OTHER -> out(root, CRef_Undef, TRUE))
         [] OTHER ->
              (CASE nf = {} -> out(d, cr, FALSE)
                 [] unit ->
                      out(UncheckedEnqueue(CancelUntil(d, MaxLevel(c, ps)),
                                           d.ca[cr].lits[1], cr),
                          CRef_Undef, TRUE)
                 [] OTHER -> out(d, CRef_Undef, TRUE))

\* constructReason with attachReasonClause: the clause the theory gives for
\* p, p first.  What is left of it becomes the reason of p; if only p is
\* left, p belongs to level 0.
ConstructReason(c, p, given) ==
    LET ps == WithoutRoot(c, given)
        d == NewClause(c, ps, FALSE)
    IN CASE SatisfiedAtRoot(c, given) ->
              [c EXCEPT !.reason[VarOf(p)] = CRef_Undef]
         [] ~SatisfiedAtRoot(c, given) /\ Len(ps) = 1 ->
              [EnqueueLazy(c, p, 0, CRef_Undef)
                  EXCEPT !.reason[VarOf(p)] = CRef_Undef]
         [] OTHER -> [d EXCEPT !.reason[VarOf(p)] = Len(d.ca)]

-----------------------------------------------------------------------------
(***************************************************************************)
(* Removing clauses.                                                       *)
(***************************************************************************)
\* Mutant of Locked: a clause may go although it is a reason.
Locked_never(c, cr) == FALSE
Locked(c, cr) ==
    LET first == c.ca[cr].lits[1]
    IN IsTrue(c, first) /\ ReasonOf(c, first) = cr

\* removeClause of every clause of R.  Their watchers go at the head of the
\* next propagate (watches.cleanAll), before anything looks at them.
RemoveClauses(c, R) ==
    LET heads == {VarOf(c.ca[cr].lits[1]) : cr \in {r \in R : Locked(c, r)}}
        others(ws) == Keep(ws, {w \in Range(ws) : w.cref \notin R})
    IN [c EXCEPT
          !.reason = [v \in Var |-> IF v \in heads THEN CRef_Undef ELSE @[v]],
          !.watches = [p \in Lit |-> others(@[p])],
          !.ca = [cr \in DOMAIN @ |->
                    IF cr \in R THEN [@[cr] EXCEPT !.lits = <<>>] ELSE @[cr]]]

Satisfied(c, cr) == \E p \in Lits(c, cr) : IsTrue(c, p)

RemoveSatisfied(c) == RemoveClauses(c, {cr \in Live(c) : Satisfied(c, cr)})
=============================================================================
