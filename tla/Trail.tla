------------------------------- MODULE Trail -------------------------------
(***************************************************************************)
(* The assignment stack of the SAT solver (src/monosat/core/Solver.cc):    *)
(* literals are enqueued at the present decision level, or lazily at an    *)
(* earlier one, and taken back by cancelUntil.  The theory keeps an        *)
(* assignment of its own, which the solver tells it about.                 *)
(*                                                                         *)
(* Operators take the solver's state as a record c and return the next     *)
(* one, because every method of the solver composes several of them.       *)
(***************************************************************************)
EXTENDS Integers, Sequences, FiniteSets, SequencesExt

CONSTANTS NVars,      \* the variables are 1..NVars
          TheoryVar   \* those that belong to the theory

ASSUME TrailAssumption == NVars \in Nat \ {0} /\ TheoryVar \subseteq 1..NVars

Var == 1..NVars
Lit == Var \cup {-v : v \in Var}
VarOf(p) == IF p > 0 THEN p ELSE -p
HasTheory(p) == VarOf(p) \in TheoryVar

\* assigns holds the true literals.  A literal of the trail may belong to an
\* earlier level than its place says.  told is the theory's own trail: its
\* literals with the levels they are filed under, which go up; theory_level is
\* the theory's own level.
TrailFields ==
    [assigns : SUBSET Lit, level : [Var -> Nat], reason : [Var -> Int],
     trail : Seq(Lit), trail_lim : Seq(Nat), qhead : Nat,
     told : Seq([lit : Lit, at : Nat]), theory_level : Nat,
     theory_queue : BOOLEAN]

IsTrue(c, p) == p \in c.assigns
IsFalse(c, p) == -p \in c.assigns
IsUndef(c, p) == ~IsTrue(c, p) /\ ~IsFalse(c, p)
LevelOf(c, p) == c.level[VarOf(p)]
ReasonOf(c, p) == c.reason[VarOf(p)]
DecisionLevel(c) == Len(c.trail_lim)

CRef_Undef == 0

\* One element after the other; the elements that are in S.
Fold(Op(_, _), base, s) ==
    LET a[i \in 0..Len(s)] == IF i = 0 THEN base ELSE Op(a[i - 1], s[i])
    IN a[Len(s)]
Keep(s, S) ==
    LET add(q, x) == IF x \in S THEN Append(q, x) ELSE q IN Fold(add, <<>>, s)

-----------------------------------------------------------------------------
\* enqueueTheory: the theory goes up to the literal's level and files it there,
\* anew if it holds it already; the theory's level may lag behind the solver's.
Tell(c, p) ==
    LET lev == IF LevelOf(c, p) > c.theory_level THEN LevelOf(c, p)
               ELSE c.theory_level
        others == {r \in Range(c.told) : r.lit # p}
    IN IF ~HasTheory(p) THEN c
       ELSE [c EXCEPT !.theory_level = lev,
                      !.told = Append(Keep(@, others), [lit |-> p, at |-> lev])]

TellAndQueue(c, p) ==
    IF HasTheory(p) THEN [Tell(c, p) EXCEPT !.theory_queue = TRUE] ELSE c

Assign(c, p, lev, from) ==
    [c EXCEPT !.assigns = (@ \ {-p}) \cup {p},
              !.level[VarOf(p)] = lev,
              !.reason[VarOf(p)] = from,
              !.trail = Append(@, p)]

UncheckedEnqueue(c, p, from) ==
    TellAndQueue(Assign(c, p, DecisionLevel(c), from), p)

\* enqueueLazy: a true literal moves to an earlier level, an unassigned one
\* is assigned there, at the end of the trail all the same.
EnqueueLazy(c, p, lev, from) ==
    CASE IsTrue(c, p) /\ lev < LevelOf(c, p) ->
           [c EXCEPT !.level[VarOf(p)] = lev, !.reason[VarOf(p)] = from]
      [] IsUndef(c, p) -> TellAndQueue(Assign(c, p, lev, from), p)
      [] OTHER -> c

NewDecisionLevel(c) == [c EXCEPT !.trail_lim = Append(@, Len(c.trail))]

\* Mutant of TheoryBacktrack: one level too few is taken back.
TheoryBacktrack_one(told, lev) ==
    Keep(told, {r \in Range(told) : r.at <= lev + 1})

\* Theory::backtrackUntil.
TheoryBacktrack(told, lev) ==
    Keep(told, {r \in Range(told) : r.at <= lev})

\* Mutant of Reenqueue: the literals of earlier levels are not told again.
Reenqueue_untold(c, p) == [c EXCEPT !.trail = Append(@, p)]
Reenqueue(c, p) == TellAndQueue([c EXCEPT !.trail = Append(@, p)], p)

\* Propagation starts again from the end of the level returned to.
QueueHead(c, lev) == c.trail_lim[lev + 1]

\* cancelUntil: the theory backtracks, then the trail is cut; literals that
\* belong to lev or below are kept, behind the cut, to be propagated again.
CancelUntil(c, lev) ==
    IF DecisionLevel(c) <= lev THEN c
    ELSE
    LET start == c.trail_lim[lev + 1]
        cut == SubSeq(c.trail, start + 1, Len(c.trail))
        stays == {p \in Range(cut) : LevelOf(c, p) <= lev}
        back == [c EXCEPT
            !.assigns = @ \ (Range(cut) \ stays),
            !.trail = SubSeq(@, 1, start),
            !.trail_lim = SubSeq(@, 1, lev),
            !.qhead = QueueHead(c, lev),
            !.told = TheoryBacktrack(@, lev),
            !.theory_level = IF @ > lev THEN lev ELSE @,
            !.theory_queue = FALSE]
    IN Fold(Reenqueue, back, Keep(cut, stays))
=============================================================================
