------------------------------ MODULE Analysis ------------------------------
(***************************************************************************)
(* Conflict analysis (src/monosat/core/Solver.cc): analyze derives a       *)
(* learnt clause from a conflicting one, analyzeFinal expresses a false    *)
(* assumption in terms of the other assumptions.  Both build the reasons   *)
(* of the theory's literals as they meet them, and building one may move   *)
(* its literal to level 0.                                                 *)
(*                                                                         *)
(* lemmas is the theory: it gives the reason of the literals it enqueued   *)
(* from its k-th lemma, and such a literal has reason -k until it is built.*)
(***************************************************************************)
EXTENDS Clauses

IsTheoryCause(cause) == cause < 0
IsClause(cause) == cause > 0

\* buildReason: p, then the rest of the lemma.
LemmaReason(lemma, p) ==
    <<p>> \o Keep(lemma, Range(lemma) \ {p})

\* To build it the theory takes back what it was told after p.
TheoryRewind(c, p) ==
    LET at == CHOOSE i \in DOMAIN c.told : c.told[i].lit = p
    IN [c EXCEPT !.told = SubSeq(@, 1, at), !.theory_level = c.told[at].at,
                 !.theory_queue = TRUE]

\* The solver once p, if it is the theory's, has a reason built for it.
Explained(c, p, lemmas) ==
    IF IsTheoryCause(ReasonOf(c, p))
      THEN ConstructReason(TheoryRewind(c, p), p,
                           LemmaReason(lemmas[-ReasonOf(c, p)], p))
      ELSE c

-----------------------------------------------------------------------------
(***************************************************************************)
(* analyze.  The walk goes down the trail to the last decision.  seen are  *)
(* the variables met, pathC counts those of the decision level still to be *)
(* visited, out is out_learnt from its second place on, and asserting the  *)
(* literal that goes into the first; done when pathC is down to zero.      *)
(***************************************************************************)
ConflictLevel(c, cr) ==
    LET ls == {LevelOf(c, p) : p \in Lits(c, cr)} \cup {0}
    IN CHOOSE l \in ls : \A m \in ls : m <= l

\* Mutant of Meet: literals of an earlier level are forgotten.
Meet_forgets(a, q) ==
    IF VarOf(q) \in a.seen \/ LevelOf(a.c, q) = 0 THEN a
    ELSE IF LevelOf(a.c, q) >= DecisionLevel(a.c)
           THEN [a EXCEPT !.seen = @ \cup {VarOf(q)}, !.pathC = @ + 1]
           ELSE [a EXCEPT !.seen = @ \cup {VarOf(q)}]

\* One literal of a clause of the derivation.
Meet(a, q) ==
    IF VarOf(q) \in a.seen \/ LevelOf(a.c, q) = 0 THEN a
    ELSE IF LevelOf(a.c, q) >= DecisionLevel(a.c)
           THEN [a EXCEPT !.seen = @ \cup {VarOf(q)}, !.pathC = @ + 1]
           ELSE [a EXCEPT !.seen = @ \cup {VarOf(q)}, !.out = Append(@, q)]

\* What resolving with the reason of p adds; without one, p itself stays.
Resolve(a, p) ==
    IF ReasonOf(a.c, p) = CRef_Undef
      THEN [a EXCEPT !.out = Append(@, -p)]
      ELSE Fold(Meet, a, Tail(a.c.ca[ReasonOf(a.c, p)].lits))

\* p was thought to be of the decision level, and its reason says otherwise.
Relevelled(a, p) ==
    [a EXCEPT !.out = IF LevelOf(a.c, p) > 0 THEN Append(@, -p) ELSE @,
              !.seen = @ \ {VarOf(p)},
              !.pathC = @ - 1, !.missed = TRUE,
              !.asserting = -p, !.done = a.pathC = 1]

Visit(lemmas, a, p) ==
    IF a.done \/ VarOf(p) \notin a.seen \/ LevelOf(a.c, p) < DecisionLevel(a.c)
      THEN a
    ELSE LET b == [a EXCEPT !.c = Explained(a.c, p, lemmas)]
             next == [b EXCEPT !.seen = @ \ {VarOf(p)}, !.pathC = @ - 1,
                               !.asserting = -p, !.done = a.pathC = 1]
         IN IF LevelOf(b.c, p) < DecisionLevel(b.c) THEN Relevelled(b, p)
            ELSE IF next.done THEN next ELSE Resolve(next, p)

\* The analysis from the conflict cr, after cancelUntil.
Walk(c, cr, lemmas) ==
    LET start == Fold(Meet,
            [c |-> c, seen |-> {}, pathC |-> 0, out |-> <<>>, asserting |-> 0,
             missed |-> FALSE, done |-> FALSE], c.ca[cr].lits)
        level == SubSeq(c.trail, Last(c.trail_lim) + 1, Len(c.trail))
    IN Fold(LAMBDA a, p : Visit(lemmas, a, p), start, Reverse(level))

\* litRedundant: the literals q rests on are in the clause already, or are
\* consequences of such literals at levels that occur in it.
RestsOn(c, seen, V) ==
    V \cup UNION {{VarOf(r) : r \in {s \in Range(Tail(c.ca[c.reason[v]].lits)) :
                                       VarOf(s) \notin seen /\ LevelOf(c, s) > 0}} :
                  v \in {u \in V : IsClause(c.reason[u])}}
LitRedundant(c, q, seen, levels) ==
    LET grow(V, i) == RestsOn(c, seen, V)
        all == Fold(grow, {VarOf(q)}, [i \in 1..NVars |-> i])
    IN \A v \in all : IsClause(c.reason[v])
                      /\ (v = VarOf(q) \/ c.level[v] \in levels)

Minimised(a) ==
    LET levels == {LevelOf(a.c, q) : q \in Range(a.out)}
        needed == {q \in Range(a.out) : ~LitRedundant(a.c, q, a.seen, levels)}
    IN Keep(a.out, needed)

\* The first literal of the highest level goes first: it is to be watched.
HighestFirst(c, rest) ==
    LET top == {i \in DOMAIN rest :
                  \A j \in DOMAIN rest : LevelOf(c, rest[j]) <= LevelOf(c, rest[i])}
    IN IF rest = <<>> THEN rest
       ELSE Swap(rest, 1, CHOOSE i \in top : \A j \in top : i <= j)

\* Mutant of LearntClause: the literal of the highest level is left where it is.
LearntClause_unsorted(a) == <<a.asserting>> \o Minimised(a)
LearntClause(a) == <<a.asserting>> \o HighestFirst(a.c, Minimised(a))

BacktrackLevel(c, learnt) ==
    IF Len(learnt) = 1 THEN 0 ELSE LevelOf(c, learnt[2])

\* Mutant of Learnt: the learnt clause is forgotten at once.
Learnt_forgotten(c, learnt) == CancelUntil(c, BacktrackLevel(c, learnt))

\* What search does with the learnt clause.
Learnt(c, learnt) ==
    LET d == CancelUntil(c, BacktrackLevel(c, learnt))
        e == NewClause(d, learnt, TRUE)
    IN IF Len(learnt) = 1 THEN UncheckedEnqueue(d, learnt[1], CRef_Undef)
       ELSE UncheckedEnqueue(e, learnt[1], Len(e.ca))

-----------------------------------------------------------------------------
(***************************************************************************)
(* analyzeFinal(p): p is the negation of the assumption that is false.     *)
(* ub becomes TRUE when the clause of CRef_Undef is read.                  *)
(***************************************************************************)
\* Mutant of VisitFinal: a reason is not followed.
VisitFinal_shallow(lemmas, a, p) ==
    IF VarOf(p) \notin a.seen THEN a
    ELSE [a EXCEPT !.out = @ \cup {-p}, !.seen = @ \ {VarOf(p)}]

VisitFinal(lemmas, a, p) ==
    LET b == [a EXCEPT !.c = Explained(a.c, p, lemmas), !.seen = @ \ {VarOf(p)}]
        cr == ReasonOf(b.c, p)
        rest == {q \in Range(Tail(b.c.ca[cr].lits)) : LevelOf(b.c, q) > 0}
    IN CASE VarOf(p) \notin a.seen -> a
         [] VarOf(p) \in a.seen /\ ReasonOf(a.c, p) = CRef_Undef ->
              [b EXCEPT !.out = @ \cup {-p}]
         [] VarOf(p) \in a.seen /\ ReasonOf(a.c, p) # CRef_Undef
              /\ cr = CRef_Undef -> [b EXCEPT !.ub = TRUE]
         [] OTHER -> [b EXCEPT !.seen = (@ \cup {VarOf(q) : q \in rest}) \ {VarOf(p)}]

AnalyzeFinal(c, p, lemmas) ==
    LET start == [c |-> c, seen |-> {VarOf(p)}, out |-> {p}, ub |-> FALSE]
        above == SubSeq(c.trail, c.trail_lim[1] + 1, Len(c.trail))
    IN IF DecisionLevel(c) = 0 THEN start
       ELSE Fold(LAMBDA a, q : VisitFinal(lemmas, a, q), start, Reverse(above))
=============================================================================
