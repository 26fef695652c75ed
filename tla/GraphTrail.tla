----------------------------- MODULE GraphTrail -----------------------------
(***************************************************************************)
(* The assignment a graph theory keeps for itself                          *)
(* (src/monosat/graph/GraphTheory.h): its own trail, filed by level, the   *)
(* lazy trail of assignments the solver has taken back and the theory has  *)
(* not, and the two graphs that follow it, g_under with the edges known to *)
(* be there and g_over with the edges not known to be absent.              *)
(*                                                                         *)
(* Operators take the theory's state as a record g and return the next     *)
(* one.  Variables are the edges and the property literals of one          *)
(* detector, one per node.  The circular lists of the code are sequences.  *)
(***************************************************************************)
EXTENDS Integers, Sequences, FiniteSets

CONSTANTS Edge,    \* the edge variables
          Prop,    \* the property literals: "this node is reachable"
          MaxLevel \* bound: the decision levels of the solver

ASSUME GraphTrailAssumption ==
    Edge \cap Prop = {} /\ IsFiniteSet(Prop) /\ MaxLevel \in Nat

Var == Edge \cup Prop
Value == {"T", "F", "U"}
Bool(b) == IF b THEN "T" ELSE "F"

\* decisions[i + 1] lists the variables of level i, as long as the level is
\* open; pos and neg are the detector's unassigned_positives and _negatives.
TrailFields ==
    [assigns : [Var -> Value], decisions : Seq(Seq(Var)), lazy : Seq(Var),
     under : SUBSET Edge, over : SUBSET Edge,
     pos : Int, neg : Int, changed : SUBSET Prop, requires : BOOLEAN]

EmptyTrail ==
    [assigns |-> [v \in Var |-> "U"], decisions |-> <<>>, lazy |-> <<>>,
     under |-> {}, over |-> Edge,
     pos |-> 0, neg |-> 0, changed |-> {}, requires |-> TRUE]

TheoryLevel(g) == Len(g.decisions) - 1
Members(s) == {s[i] : i \in DOMAIN s}

\* The elements of s that are in S, in their order.
Keep(s, S) ==
    LET kept[i \in 0..Len(s)] ==
          IF i = 0 THEN <<>>
          ELSE IF s[i] \in S THEN Append(kept[i - 1], s[i]) ELSE kept[i - 1]
    IN kept[Len(s)]

Without(s, S) == Keep(s, Members(s) \ S)

\* removeFromTrail, for every variable of S.
RemoveFromTrail(g, S) ==
    [g EXCEPT !.lazy = Without(@, S),
              !.decisions = [i \in DOMAIN @ |-> Without(@[i], S)]]

\* appendToTrail at the theory's level, after newDecisionLevel up to lev.
AppendToTrail(g, v, lev) ==
    LET top == IF lev > TheoryLevel(g) THEN lev + 1 ELSE Len(g.decisions)
        list(i) == IF i \in DOMAIN g.decisions THEN g.decisions[i] ELSE <<>>
    IN [g EXCEPT !.decisions = [i \in 1..top |->
                     IF i = top THEN Append(list(i), v) ELSE list(i)]]

-----------------------------------------------------------------------------
\* Mutant of UndoEdges: an edge assigned false stays out of g_over.
UndoEdges_keepOut(g, S) ==
    [g EXCEPT !.under = @ \ {e \in S : g.assigns[e] # "F"}]

UndoEdges(g, S) ==
    [g EXCEPT !.under = @ \ {e \in S : g.assigns[e] # "F"},
              !.over = @ \cup {e \in S \cap Edge : g.assigns[e] = "F"}]

\* Mutant of UndoProps: the node is not looked at again.
UndoProps_silent(g, S) ==
    [g EXCEPT !.pos = @ + Cardinality({p \in S \cap Prop : g.assigns[p] # "F"}),
              !.neg = @ + Cardinality({p \in S \cap Prop : g.assigns[p] = "F"})]

\* Detector::unassign; the node's status must be reported anew.
UndoProps(g, S) ==
    [g EXCEPT !.pos = @ + Cardinality({p \in S \cap Prop : g.assigns[p] # "F"}),
              !.neg = @ + Cardinality({p \in S \cap Prop : g.assigns[p] = "F"}),
              !.changed = @ \cup (S \cap Prop)]

\* backtrackAssign, for every variable of S; an undone one leaves its trail.
Undo(g, S) ==
    RemoveFromTrail(
      [UndoProps(UndoEdges(g, S), S) EXCEPT
         !.assigns = [v \in Var |-> IF v \in S THEN "U" ELSE @[v]]], S)

\* The variables backtrackUntil(lev) undoes: all of the lazy trail, and the
\* levels above lev.
Above(g, lev) ==
    UNION {Members(g.decisions[i]) : i \in {j \in DOMAIN g.decisions : j > lev + 1}}

\* Mutant of Undone: the lazy trail survives.
Undone_keepsLazy(g, lev) == Above(g, lev)
Undone(g, lev) == Members(g.lazy) \cup Above(g, lev)

\* backtrackUntil(int).
BacktrackUntil(g, lev) ==
    LET h == Undo(g, Undone(g, lev))
    IN [h EXCEPT
         !.decisions = SubSeq(@, 1, IF lev + 1 < Len(@) THEN lev + 1 ELSE Len(@)),
         !.requires = @ \/ Undone(g, lev) # {}]

\* What is behind v in its list; all of the list when v is not in it.
Behind(s, v) == {s[i] : i \in {j \in DOMAIN s : \A k \in j..Len(s) : s[k] # v}}

\* backtrackUntil(Lit): to just after v was assigned; lev is the level the
\* solver gives v.
BacktrackBehind(g, v, lev) ==
    LET h == IF v \in Members(g.lazy) THEN g ELSE BacktrackUntil(g, lev)
        list == IF v \in Members(g.lazy) THEN g.lazy
                ELSE IF h.decisions = <<>> THEN <<>>
                ELSE h.decisions[Len(h.decisions)]
    IN [Undo(h, Behind(list, v)) EXCEPT !.requires = TRUE]

-----------------------------------------------------------------------------
\* The theory holds v with the opposite value, lazily: it is turned in the
\* graphs by hand, and the detector is told to unassign the new literal.
Flip(g, v, b) ==
    RemoveFromTrail(
      [g EXCEPT !.assigns[v] = "U",
                !.under = IF b THEN @ ELSE @ \ {v},
                !.over = IF b /\ v \in Edge THEN @ \cup {v} ELSE @,
                !.pos = IF v \in Prop /\ b THEN @ + 1 ELSE @,
                !.neg = IF v \in Prop /\ ~b THEN @ + 1 ELSE @,
                !.changed = @ \cup ({v} \cap Prop)], {v})

SetValue(g, v, b) ==
    [g EXCEPT !.assigns[v] = Bool(b),
              !.under = IF v \in Edge /\ b THEN @ \cup {v} ELSE @,
              !.over = IF v \in Edge /\ ~b THEN @ \ {v} ELSE @,
              !.pos = IF v \in Prop /\ b THEN @ - 1 ELSE @,
              !.neg = IF v \in Prop /\ ~b THEN @ - 1 ELSE @,
              !.requires = TRUE]

\* enqueueTheory: v got value b at level lev of the solver.  A value the theory
\* holds already only moves to the end of its trail.
EnqueueTheory(g, v, b, lev) ==
    CASE g.assigns[v] = Bool(b) ->
           AppendToTrail(RemoveFromTrail(g, {v}), v, lev)
      [] g.assigns[v] = "U" ->
           AppendToTrail(SetValue(g, v, b), v, lev)
      [] OTHER ->
           AppendToTrail(SetValue(Flip(g, v, b), v, b), v, lev)

\* Mutant of UndecideTheory: the lazy trail is left as it is.
UndecideTheory_dropped(g, s) == RemoveFromTrail(g, Members(s))

\* undecideTheory with lazy backtracking, for the variables the solver takes
\* back, last one first: each goes to the head of the lazy trail.
UndecideTheory(g, s) ==
    [RemoveFromTrail(g, Members(s)) EXCEPT !.lazy = s \o @]
=============================================================================
