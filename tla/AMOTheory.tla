----------------------------- MODULE AMOTheory -----------------------------
(***************************************************************************)
(* The at-most-one theory (src/monosat/amo/AMOTheory.h) below the solver   *)
(* that drives it.  It keeps three fields only: the first variable it was  *)
(* told to be true, a second one if there is a conflict, and whether the   *)
(* others have still to be made false.  Everything else, the reasons it    *)
(* gives included, rests on the order in which the solver tells it of      *)
(* literals and takes them back, and that order is modelled call by call.  *)
(*                                                                         *)
(* Of the solver's trail only the theory's variables are kept.  A clause   *)
(* that other theories add never mentions them (a variable belongs to one  *)
(* theory), so none is enqueued lazily and the trail is chronological.     *)
(***************************************************************************)
EXTENDS Integers, Sequences, FiniteSets

CONSTANTS Amo,        \* amo, the variables of which one may be true
          NoVar,      \* var_Undef
          MaxLevel    \* bound: the highest decision level

ASSUME AMOAssumption == NoVar \notin Amo /\ MaxLevel \in Nat

VARIABLES
    eager,               \* opt_amo_eager_prop, which never changes
    value,               \* assigns, of the theory's variables
    trail, trail_lim,    \* the solver's, counting these variables only
    by_amo,              \* the variables whose reason is assign_false_reason
    queued,              \* in_theory_queue
    initialPropagate,    \* the theory was not told of the facts yet
    untold,              \* the loop that tells it of facts: what is left
    todo,                \* the loop over amo: the variables left to make false
    cut,                 \* the level cancelUntil goes to, or -1
    pending,             \* propagateTheory returned a conflict
    true_var, conflict_var, needs_propagation   \* the theory's fields

assignment == <<value, trail, by_amo>>
queue == <<queued, initialPropagate>>
loops == <<untold, todo, cut>>
fields == <<true_var, conflict_var, needs_propagation>>
vars == <<eager, value, trail, trail_lim, by_amo, queued, initialPropagate,
          untold, todo, cut, pending, true_var, conflict_var, needs_propagation>>

TypeOK ==
    /\ eager \in BOOLEAN /\ queued \in BOOLEAN /\ initialPropagate \in BOOLEAN
    /\ pending \in BOOLEAN /\ needs_propagation \in BOOLEAN
    /\ value \in [Amo -> {"undef", "true", "false"}]
    /\ trail \in Seq(Amo) /\ trail_lim \in Seq(Nat) /\ untold \in Seq(Amo)
    /\ by_amo \subseteq Amo /\ todo \subseteq Amo /\ cut \in Nat \cup {-1}
    /\ true_var \in Amo \cup {NoVar} /\ conflict_var \in Amo \cup {NoVar}

DecisionLevel == Len(trail_lim)

\* The theory is created at level 0.  Some of its variables may be facts of
\* the solver by then; it was told of none.
Init ==
    /\ eager \in BOOLEAN
    /\ value \in [Amo -> {"undef", "true", "false"}]
    /\ trail \in UNION {[1..n -> Amo] : n \in 0..Cardinality(Amo)}
    /\ \A i, j \in DOMAIN trail : trail[i] = trail[j] => i = j
    /\ \A v \in Amo : value[v] # "undef" <=> \E i \in DOMAIN trail : trail[i] = v
    /\ trail_lim = <<>> /\ by_amo = {} /\ queued = FALSE
    /\ initialPropagate = TRUE
    /\ untold = <<>> /\ todo = {} /\ cut = -1 /\ pending = FALSE
    /\ true_var = NoVar /\ conflict_var = NoVar /\ needs_propagation = FALSE

\* No loop runs, and the solver has no conflict of the theory to handle.
Idle == untold = <<>> /\ todo = {} /\ cut = -1 /\ ~pending

-----------------------------------------------------------------------------
(***************************************************************************)
(* The solver tells the theory of a literal, and takes it back.            *)
(***************************************************************************)
\* enqueueTheory.  When told eagerly, the theory makes the others false at once.
EnqueueTheory(v, b) ==
    \/ /\ b = "true" /\ conflict_var = NoVar /\ true_var = NoVar
       /\ true_var' = v /\ UNCHANGED conflict_var
       /\ IF eager THEN todo' = Amo \ {v} /\ UNCHANGED needs_propagation
          ELSE needs_propagation' = TRUE /\ UNCHANGED todo
    \/ /\ b = "true" /\ conflict_var = NoVar /\ true_var \notin {NoVar, v}
       /\ conflict_var' = v /\ UNCHANGED <<true_var, needs_propagation, todo>>
    \/ /\ b # "true" \/ conflict_var # NoVar \/ true_var = v
       /\ UNCHANGED <<fields, todo>>

UncheckedEnqueue(v, b) ==
    /\ value' = [value EXCEPT ![v] = b]
    /\ trail' = Append(trail, v)
    /\ queued' = TRUE

\* A decision, or a consequence of other clauses and theories.
Assign(v, b) ==
    /\ Idle /\ value[v] = "undef"
    /\ UncheckedEnqueue(v, b) /\ EnqueueTheory(v, b)
    /\ UNCHANGED <<eager, trail_lim, by_amo, initialPropagate, untold, cut, pending>>

\* One turn of the theory's loop: enqueue of a variable that is assigned
\* already does nothing, and what it returns is not looked at.
Falsify(v) ==
    /\ v \in todo /\ todo' = todo \ {v}
    /\ \/ /\ value[v] = "undef"
          /\ UncheckedEnqueue(v, "false") /\ by_amo' = by_amo \cup {v}
       \/ /\ value[v] # "undef"
          /\ UNCHANGED <<assignment, queued>>
    /\ UNCHANGED <<eager, trail_lim, initialPropagate, untold, cut, pending, fields>>

\* propagate, once after the theory was created, and solve_, at every call,
\* tell the theory what holds at level 0.
TellFacts ==
    /\ Idle /\ DecisionLevel = 0 /\ initialPropagate
    /\ untold' = trail /\ queued' = TRUE /\ initialPropagate' = FALSE
    /\ UNCHANGED <<eager, assignment, trail_lim, todo, cut, pending, fields>>

TellAgain(n) ==
    /\ Idle /\ DecisionLevel = 0
    /\ untold' = SubSeq(trail, 1, n)
    /\ UNCHANGED <<eager, assignment, trail_lim, queue, todo, cut, pending, fields>>

Tell ==
    /\ untold # <<>> /\ todo = {}
    /\ EnqueueTheory(Head(untold), value[Head(untold)])
    /\ untold' = Tail(untold)
    /\ UNCHANGED <<eager, assignment, trail_lim, queue, cut, pending>>

-----------------------------------------------------------------------------
(***************************************************************************)
(* The theory propagates.  search calls it as long as it is queued, and    *)
(* once more when everything is assigned.                                  *)
(***************************************************************************)
Called == Idle /\ (queued \/ \A v \in Amo : value[v] # "undef")

PropagateTheory ==
    /\ Called /\ queued' = FALSE
    /\ conflict_var = NoVar /\ true_var # NoVar /\ needs_propagation
    /\ needs_propagation' = FALSE /\ todo' = Amo \ {true_var}
    /\ UNCHANGED <<eager, assignment, trail_lim, initialPropagate, untold, cut,
                   pending, true_var, conflict_var>>

PropagateTheoryNothing ==
    /\ Called /\ queued' = FALSE
    /\ conflict_var = NoVar /\ (true_var = NoVar \/ ~needs_propagation)
    /\ UNCHANGED <<eager, assignment, trail_lim, initialPropagate, loops, pending,
                   fields>>

\* The conflict is the clause ~conflict_var \/ ~true_var.
PropagateTheoryConflict ==
    /\ Called /\ queued' = FALSE
    /\ conflict_var # NoVar
    /\ pending' = TRUE /\ needs_propagation' = FALSE
    /\ UNCHANGED <<eager, assignment, trail_lim, initialPropagate, loops, true_var,
                   conflict_var>>

-----------------------------------------------------------------------------
(***************************************************************************)
(* Decision levels.  search opens one only when propagation is complete;   *)
(* cancelUntil is called for conflicts of every origin, and for restarts.  *)
(***************************************************************************)
NewDecisionLevel ==
    /\ Idle /\ ~queued /\ ~initialPropagate /\ DecisionLevel < MaxLevel
    /\ trail_lim' = Append(trail_lim, Len(trail))
    /\ UNCHANGED <<eager, assignment, queue, loops, pending, fields>>

\* After a conflict of the theory, the levels above one of its literals go.
CancelUntil(lev) ==
    /\ untold = <<>> /\ todo = {} /\ cut = -1 /\ lev < DecisionLevel
    /\ pending => \E i \in DOMAIN trail : /\ i > trail_lim[lev + 1]
                                          /\ trail[i] \in {true_var, conflict_var}
    /\ cut' = lev /\ pending' = FALSE
    /\ UNCHANGED <<eager, assignment, trail_lim, queue, untold, todo, fields>>

\* Mutants of UndecideTheory: a field outlives its variable, or goes too early.
UndecideTheory_keepsTrue(v) ==
    /\ needs_propagation' = (needs_propagation /\ v # true_var)
    /\ conflict_var' = IF v = conflict_var THEN NoVar ELSE conflict_var
    /\ UNCHANGED true_var
UndecideTheory_keepsConflict(v) ==
    /\ true_var' = IF v = true_var THEN NoVar ELSE true_var
    /\ needs_propagation' = (needs_propagation /\ v # true_var)
    /\ UNCHANGED conflict_var
UndecideTheory_any(v) ==
    /\ true_var' = NoVar /\ needs_propagation' = FALSE
    /\ conflict_var' = IF v = conflict_var THEN NoVar ELSE conflict_var

UndecideTheory(v) ==
    /\ true_var' = IF v = true_var THEN NoVar ELSE true_var
    /\ needs_propagation' = (needs_propagation /\ v # true_var)
    /\ conflict_var' = IF v = conflict_var THEN NoVar ELSE conflict_var

\* cancelUntil goes down the trail, then clears the theory queue.
Cutting == cut # -1 /\ Len(trail) > trail_lim[cut + 1]
Newest == trail[Len(trail)]

Undo ==
    /\ Cutting
    /\ UndecideTheory(Newest)
    /\ value' = [value EXCEPT ![Newest] = "undef"]
    /\ trail' = SubSeq(trail, 1, Len(trail) - 1)
    /\ by_amo' = by_amo \ {Newest}
    /\ UNCHANGED <<eager, trail_lim, queue, loops, pending>>

CutDone ==
    /\ cut # -1 /\ Len(trail) = trail_lim[cut + 1]
    /\ trail_lim' = SubSeq(trail_lim, 1, cut)
    /\ queued' = FALSE /\ cut' = -1
    /\ UNCHANGED <<eager, assignment, initialPropagate, untold, todo, pending, fields>>

-----------------------------------------------------------------------------
Next ==
    \/ \E v \in Amo, b \in {"true", "false"} : Assign(v, b)
    \/ \E v \in Amo : Falsify(v)
    \/ TellFacts \/ Tell \/ \E n \in 1..Len(trail) : TellAgain(n)
    \/ PropagateTheory \/ PropagateTheoryNothing \/ PropagateTheoryConflict
    \/ NewDecisionLevel
    \/ \E lev \in 0..(DecisionLevel - 1) : CancelUntil(lev)
    \/ Undo \/ CutDone

Spec == Init /\ [][Next]_vars

-----------------------------------------------------------------------------
\* undecideTheory's assertion: when true_var is taken back, the variable it
\* was in conflict with has been taken back before.  The one that goes on
\* would name var_Undef in the next conflict.
ConflictUndecidedFirst == Cutting /\ Newest = true_var => conflict_var = NoVar

\* buildReason explains a variable by whatever true_var is when it is asked:
\* that is still the variable, true and earlier on the trail, for which the
\* theory made it false.  It is not a fact of level 0 unless the variable is one
\* too (of facts no reason is asked), so the variable never changes its level.
Root == IF trail_lim = <<>> THEN Len(trail) ELSE trail_lim[1]
ReasonsExplain ==
    \A i \in DOMAIN trail : trail[i] \in by_amo =>
        /\ true_var \in Amo /\ value[true_var] = "true" /\ value[trail[i]] = "false"
        /\ \E k \in DOMAIN trail :
              trail[k] = true_var /\ ((Root < k /\ k < i) \/ (k <= Root /\ i <= Root))

\* The theory keeps its promise: what it implies follows, its conflicts are
\* real, and propagation never ends with a consequence or a conflict missed.
Promise == INSTANCE AtMostOne WITH
    Vars <- Amo,
    value <- value,
    verdict <- IF pending THEN "conflict"
               ELSE IF Idle /\ ~queued /\ ~initialPropagate THEN "settled" ELSE "open"
KeepsPromise == Promise!Spec
=============================================================================
