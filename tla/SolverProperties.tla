-------------------------- MODULE SolverProperties --------------------------
(***************************************************************************)
(* What makes the search correct.                                          *)
(***************************************************************************)
EXTENDS Solver

-----------------------------------------------------------------------------
Position(p) == CHOOSE i \in DOMAIN core.trail : core.trail[i] = p
LevelAt(i) == Cardinality({l \in DOMAIN core.trail_lim : core.trail_lim[l] < i})

\* While search runs the theory's assignment is the solver's, through lazy
\* literals, restarts, the theory's own backtracking when it builds reasons, and
\* what cancelUntil queues again; and a literal is filed no lower than its level
\* and no higher than it stands.
TheoryInSync ==
    Running /\ pc # "solve_" /\ ~InConflict =>
        /\ Told = {p \in core.assigns : HasTheory(p)}
        /\ \A r \in Range(core.told) :
             LevelOf(core, r.lit) <= r.at /\ r.at <= LevelAt(Position(r.lit))

\* The clause that is the reason of a literal has it first, and its other
\* literals false, earlier on the trail and at no higher level: what analyze
\* walks along.  It is never a clause that was freed.
ReasonsValid ==
    \A p \in core.assigns : IsClause(ReasonOf(core, p)) =>
        LET cr == ReasonOf(core, p)
            rest == Range(Tail(core.ca[cr].lits))
        IN /\ cr \in Live(core) /\ Head(core.ca[cr].lits) = p
           /\ \A q \in rest : /\ IsFalse(core, q)
                              /\ Position(-q) < Position(p)
                              /\ LevelOf(core, q) <= LevelOf(core, p)

\* A theory marker is the reason of a literal only while the rest of its lemma
\* is false, and was so before it: buildReason gives a clause that implies it.
TheoryReasonsValid ==
    \A p \in core.assigns : IsTheoryCause(ReasonOf(core, p)) =>
        \A q \in Range(Lemmas[-ReasonOf(core, p)]) \ {p} :
            IsFalse(core, q) /\ Position(-q) < Position(p)

\* When propagate is done without a conflict, no clause is false but one within
\* a lemma that is, which the theory has yet to report again.  A clause that is
\* attached while all its literals are false keeps their order, so that its two
\* watches may be false, and passed, once search is back at a lower level.
NoMissedConflict ==
    pc \in {"reduce", "decide"} /\ core.qhead = Len(core.trail) =>
        \A cr \in Live(core) :
            \/ \E p \in Lits(core, cr) : ~IsFalse(core, p)
            \/ \E k \in DOMAIN Lemmas :
                 Lits(core, cr) \subseteq Range(Lemmas[k]) /\ Falsified(k)

\* Every clause of the database and every literal of level 0 follows from the
\* user's clauses and the theory.
Sound ==
    LET M == {{IF f[v] THEN v ELSE -v : v \in Var} : f \in [Var -> BOOLEAN]}
        facts == {Range(ps) : ps \in given} \cup {Range(Lemmas[k]) : k \in DOMAIN Lemmas}
        entailed == {Lits(core, cr) : cr \in Live(core)}
                    \cup {{p} : p \in {q \in core.assigns : LevelOf(core, q) = 0}}
    IN \A m \in M : (\A C \in facts : m \cap C # {}) => \A C \in entailed : m \cap C # {}

\* A learnt clause makes search go on: the first literal is unassigned after
\* backjumping and all others are false ("bad learnt clause" is the error).
LearntAsserts ==
    InConflict /\ DecisionLevel(core) > 0 /\ ConflictLevel(core, confl) > 0
      /\ ~Analyzed.missed =>
        LET learnt == LearntClause(Analyzed)
            c == CancelUntil(Analyzed.c, BacktrackLevel(Analyzed.c, learnt))
        IN /\ Analyzed.done
           /\ IsUndef(c, learnt[1])
           /\ \A i \in 2..Len(learnt) : IsFalse(c, learnt[i])

-----------------------------------------------------------------------------
\* The solver implements the oracle.
Oracle == INSTANCE SatOracle WITH
    Vars <- Var,
    Theory <- {Range(Lemmas[k]) : k \in DOMAIN Lemmas},
    Clauses <- {Range(ps) : ps \in Problem},
    clauses <- {Range(ps) : ps \in given},
    assumed <- Range(asked),
    status <- IF pc # "idle" THEN "solving"
              ELSE IF solves = 0 THEN "idle" ELSE status,
    answer <- IF pc # "idle" THEN {}
              ELSE IF status = "True" THEN model ELSE {-p : p \in conflict}

\* Every answer is right: a model satisfies the clauses, the theory and the
\* assumptions; a conflict holds only negated assumptions, and those cannot
\* be satisfied together.
AnswersRight == Oracle!Spec

\* The verdict alone, where a conflict may hold more than it should: "False"
\* is only said when the clauses, the theory and the assumptions have no model,
\* and "True" comes with one.
Facts == {Range(ps) : ps \in given} \cup {Range(Lemmas[k]) : k \in DOMAIN Lemmas}
           \cup Oracle!Units(Range(asked))
Returns(answer) == pc # "idle" /\ pc' = "idle" /\ status' = answer
RefutationsRight == [][Returns("False") => Oracle!Entails(Facts, {})]_vars
ModelsRight ==
    [][Returns("True") => model' \in Oracle!Models /\ Oracle!Satisfies(model', Facts)]_vars

\* Every call of solve returns.
Terminates == pc # "idle" ~> pc = "idle"
=============================================================================
