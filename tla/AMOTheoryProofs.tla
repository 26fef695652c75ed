-------------------------- MODULE AMOTheoryProofs --------------------------
(***************************************************************************)
(* Proofs about AMOTheory, for every set of variables, every bound  *)
(* on the decision level and both ways of propagating.                     *)
(***************************************************************************)
EXTENDS AMOTheory, TLAPS

(***************************************************************************)
(* The inductive invariant.  Its heart is Closed: below every decision     *)
(* level the constraint was propagated completely, so that a variable that *)
(* is true there has made all others false there, and cancelUntil returns  *)
(* to a state in which the theory has nothing left to do.                  *)
(***************************************************************************)
Closed(n) ==
    \A i \in DOMAIN trail : i <= n /\ value[trail[i]] = "true" =>
        \A u \in Amo \ {trail[i]} :
            value[u] = "false" /\ \E j \in DOMAIN trail : j <= n /\ trail[j] = u

\* The levels cancelUntil does not take away.
Kept == {l \in DOMAIN trail_lim : cut = -1 \/ l <= cut + 1}

TrailInv ==
    /\ \A i, j \in DOMAIN trail : trail[i] = trail[j] => i = j
    /\ \A v \in Amo : value[v] # "undef" <=> \E i \in DOMAIN trail : trail[i] = v
    /\ \A v \in by_amo : value[v] # "undef"
    /\ \A l \in Kept : trail_lim[l] <= Len(trail)
    /\ \A l, m \in DOMAIN trail_lim : l <= m => trail_lim[l] <= trail_lim[m]

LevelsClosed == \A l \in Kept : Closed(trail_lim[l])

\* One loop runs at a time.
LoopInv ==
    /\ todo # {} => cut = -1 /\ ~pending /\ true_var \in Amo /\ true_var \notin todo
    /\ untold # <<>> => cut = -1 /\ ~pending /\ trail_lim = <<>>
    /\ cut # -1 => cut < Len(trail_lim) /\ ~pending
    /\ initialPropagate => trail_lim = <<>>

\* A fact the theory need not know yet.
Fresh(v) == initialPropagate \/ (queued /\ \E i \in DOMAIN untold : untold[i] = v)

FieldInv ==
    /\ true_var \in Amo => value[true_var] = "true"
    /\ conflict_var \in Amo => /\ true_var \in Amo /\ conflict_var # true_var
                               /\ value[conflict_var] = "true"
    /\ \A v \in Amo : value[v] = "true" /\ ~Fresh(v) =>
         v = true_var \/ conflict_var \in Amo
    /\ pending => conflict_var \in Amo

\* What waits to be propagated is in the queue.
QueueInv ==
    /\ needs_propagation => true_var \in Amo /\ (cut = -1 => queued \/ initialPropagate)
    /\ conflict_var \in Amo /\ cut = -1 => queued \/ initialPropagate \/ pending
    /\ cut = -1 /\ true_var \in Amo /\ ~needs_propagation /\ conflict_var \notin Amo =>
         \A u \in Amo \ {true_var} : u \in todo \/ value[u] # "undef"

\* Above level 0, what is true before conflict_var is true_var alone, and what
\* waits to be propagated belongs to the newest level.
OrderInv ==
    trail_lim # <<>> =>
        /\ \A c \in DOMAIN trail : trail[c] = conflict_var =>
             /\ \A i \in DOMAIN trail :
                   i < c /\ value[trail[i]] = "true" => trail[i] = true_var
             /\ \E k \in DOMAIN trail : k < c /\ trail[k] = true_var
        /\ needs_propagation =>
             \A k \in DOMAIN trail, l \in DOMAIN trail_lim :
                trail[k] = true_var => trail_lim[l] < k

IInv ==
    /\ TypeOK /\ TrailInv /\ LevelsClosed /\ LoopInv /\ FieldInv /\ QueueInv
    /\ OrderInv /\ ReasonsExplain

(***************************************************************************)
(* Type correctness.                                                       *)
(***************************************************************************)
LEMMA InitTypeOK == Init => TypeOK
  <1> SUFFICES ASSUME Init PROVE TypeOK
    OBVIOUS
  <1>1. trail \in Seq(Amo)
    BY DEF Init
  <1>2. trail_lim \in Seq(Nat) /\ untold \in Seq(Amo) /\ cut \in Nat \cup {-1}
    BY DEF Init
  <1>3. value \in [Amo -> {"undef", "true", "false"}] /\ eager \in BOOLEAN
    BY DEF Init
  <1>4. /\ by_amo \subseteq Amo /\ todo \subseteq Amo
        /\ queued \in BOOLEAN /\ initialPropagate \in BOOLEAN
        /\ pending \in BOOLEAN /\ needs_propagation \in BOOLEAN
        /\ true_var \in Amo \cup {NoVar} /\ conflict_var \in Amo \cup {NoVar}
    BY Zenon DEF Init
  <1> QED BY <1>1, <1>2, <1>3, <1>4 DEF TypeOK

\* What every action does that tells the theory of a literal.
LEMMA EnqueueTheoryType ==
  ASSUME TypeOK, NEW v \in Amo, NEW b, EnqueueTheory(v, b)
  PROVE  /\ true_var' \in Amo \cup {NoVar} /\ conflict_var' \in Amo \cup {NoVar}
         /\ needs_propagation' \in BOOLEAN /\ todo' \subseteq Amo
  BY DEF TypeOK, EnqueueTheory, fields

\* uncheckedEnqueue puts a variable of the constraint on the trail.
LEMMA UncheckedEnqueueType ==
  ASSUME TypeOK, NEW v \in Amo, NEW b \in {"true", "false"}, UncheckedEnqueue(v, b)
  PROVE  /\ value' \in [Amo -> {"undef", "true", "false"}]
         /\ trail' \in Seq(Amo) /\ queued' \in BOOLEAN
  BY DEF TypeOK, UncheckedEnqueue

\* What the steps do to the trail: a variable more at its end, one less, or a
\* decision level more or some less.
LEMMA EnqueueFacts ==
  ASSUME TypeOK, NEW v \in Amo, trail' = Append(trail, v)
  PROVE  /\ DOMAIN trail = 1..Len(trail) /\ DOMAIN trail' = 1..(Len(trail) + 1)
         /\ Len(trail) \in Nat /\ Len(trail') = Len(trail) + 1
         /\ \A i \in DOMAIN trail : trail'[i] = trail[i]
         /\ trail'[Len(trail) + 1] = v
  BY DEF TypeOK

\* Undoing takes the newest entry.
LEMMA UndoFacts ==
  ASSUME TypeOK, LoopInv, Undo
  PROVE  /\ cut \in Nat /\ cut + 1 \in DOMAIN trail_lim /\ trail_lim[cut + 1] \in Nat
         /\ Len(trail) \in Nat /\ trail_lim[cut + 1] < Len(trail)
         /\ DOMAIN trail = 1..Len(trail)
         /\ Newest \in Amo /\ trail[Len(trail)] = Newest
         /\ trail' \in Seq(Amo) /\ Len(trail') = Len(trail) - 1
         /\ DOMAIN trail' = 1..(Len(trail) - 1)
         /\ \A i \in DOMAIN trail' : trail'[i] = trail[i]
  <1>1. cut \in Nat /\ cut + 1 \in DOMAIN trail_lim
    BY DEF TypeOK, LoopInv, Undo, Cutting
  <1>2. trail_lim[cut + 1] \in Nat
    BY <1>1 DEF TypeOK
  <1>3. Len(trail) \in Nat /\ trail_lim[cut + 1] < Len(trail)
        /\ DOMAIN trail = 1..Len(trail)
    BY <1>2 DEF TypeOK, Undo, Cutting
  <1>4. Newest \in Amo
    BY <1>2, <1>3 DEF TypeOK, Newest
  <1>5. trail' \in Seq(Amo) /\ Len(trail') = Len(trail) - 1
        /\ \A i \in 1..(Len(trail) - 1) : trail'[i] = trail[i]
    BY <1>2, <1>3 DEF TypeOK, Undo
  <1>6. DOMAIN trail' = 1..(Len(trail) - 1)
    BY <1>5
  <1> QED BY <1>1, <1>2, <1>3, <1>4, <1>5, <1>6 DEF Newest

\* A new decision level begins where the trail ends.
LEMMA NewLevelFacts ==
  ASSUME TypeOK, NewDecisionLevel
  PROVE  /\ DOMAIN trail_lim = 1..Len(trail_lim) /\ Len(trail_lim) \in Nat
         /\ DOMAIN trail_lim' = 1..(Len(trail_lim) + 1)
         /\ Len(trail_lim') = Len(trail_lim) + 1
         /\ \A l \in DOMAIN trail_lim : trail_lim'[l] = trail_lim[l]
         /\ trail_lim'[Len(trail_lim) + 1] = Len(trail)
         /\ trail_lim' # <<>>
  BY DEF TypeOK, NewDecisionLevel

\* Backtracking ends with the levels below the one it went to.
LEMMA CutDoneFacts ==
  ASSUME TypeOK, LoopInv, CutDone
  PROVE  /\ cut \in Nat /\ cut < Len(trail_lim) /\ cut + 1 \in DOMAIN trail_lim
         /\ trail_lim' \in Seq(Nat) /\ Len(trail_lim') = cut
         /\ DOMAIN trail_lim = 1..Len(trail_lim)
         /\ DOMAIN trail_lim' = 1..cut
         /\ \A l \in DOMAIN trail_lim' : trail_lim'[l] = trail_lim[l]
         /\ trail_lim # <<>>
  <1>1. cut \in Nat /\ cut < Len(trail_lim) /\ cut + 1 \in DOMAIN trail_lim
    BY DEF TypeOK, LoopInv, CutDone
  <1>2. trail_lim' \in Seq(Nat) /\ Len(trail_lim') = cut
        /\ \A l \in 1..cut : trail_lim'[l] = trail_lim[l]
    BY <1>1 DEF TypeOK, CutDone
  <1> QED BY <1>1, <1>2 DEF TypeOK

\* Every step keeps the types,
LEMMA NextTypeOK == TypeOK /\ LoopInv /\ [Next]_vars => TypeOK'
  <1> SUFFICES ASSUME TypeOK, LoopInv, [Next]_vars PROVE TypeOK'
    OBVIOUS
  <1> USE DEF assignment, queue, loops, fields
  <1>1. ASSUME NEW v \in Amo, NEW b \in {"true", "false"}, Assign(v, b) PROVE TypeOK'
    BY <1>1, EnqueueTheoryType, UncheckedEnqueueType DEF Assign, TypeOK
  <1>2. ASSUME NEW v \in Amo, Falsify(v) PROVE TypeOK'
    <2>1. CASE value[v] = "undef"
      BY <1>2, <2>1, UncheckedEnqueueType DEF Falsify, TypeOK
    <2>2. CASE value[v] # "undef"
      BY <1>2, <2>2 DEF Falsify, TypeOK
    <2> QED BY <2>1, <2>2
  <1>3. CASE TellFacts
    BY <1>3 DEF TellFacts, TypeOK
  <1>4. CASE Tell
    <2>1. Head(untold) \in Amo /\ Tail(untold) \in Seq(Amo)
      BY <1>4 DEF Tell, TypeOK
    <2> QED BY <1>4, <2>1, EnqueueTheoryType DEF Tell, TypeOK
  <1>5. ASSUME NEW n \in 1..Len(trail), TellAgain(n) PROVE TypeOK'
    <2>1. SubSeq(trail, 1, n) \in Seq(Amo)
      BY DEF TypeOK
    <2> QED BY <1>5, <2>1 DEF TellAgain, TypeOK
  <1>6. CASE PropagateTheory
    BY <1>6 DEF PropagateTheory, TypeOK
  <1>7. CASE PropagateTheoryNothing
    BY <1>7 DEF PropagateTheoryNothing, TypeOK
  <1>8. CASE PropagateTheoryConflict
    BY <1>8 DEF PropagateTheoryConflict, TypeOK
  <1>9. CASE NewDecisionLevel
    BY <1>9 DEF NewDecisionLevel, TypeOK
  <1>10. ASSUME NEW lev \in 0..(DecisionLevel - 1), CancelUntil(lev) PROVE TypeOK'
    <2>1. lev \in Nat
      BY DEF TypeOK, DecisionLevel
    <2> QED BY <1>10, <2>1 DEF CancelUntil, TypeOK
  <1>11. CASE Undo
    <2> QED BY <1>11, UndoFacts DEF Undo, UndecideTheory, TypeOK
  <1>12. CASE CutDone
    <2>1. SubSeq(trail_lim, 1, cut) \in Seq(Nat)
      BY <1>12, CutDoneFacts DEF TypeOK
    <2> QED BY <1>12, <2>1 DEF CutDone, TypeOK
  <1>13. CASE UNCHANGED vars
    BY <1>13 DEF vars, TypeOK
  <1> QED BY <1>1, <1>2, <1>3, <1>4, <1>5, <1>6, <1>7, <1>8, <1>9, <1>10, <1>11,
             <1>12, <1>13 DEF Next

(***************************************************************************)
(* The trail and its levels.  A step enqueues a variable, changes nothing  *)
(* of the trail, or is a step of the decision levels.                      *)
(***************************************************************************)
Enqueues(v, b) ==
    /\ cut = -1 /\ value[v] = "undef" /\ UncheckedEnqueue(v, b)
    /\ by_amo' \subseteq by_amo \cup {v} /\ UNCHANGED <<trail_lim, cut>>
TrailStays == UNCHANGED <<value, trail, by_amo, trail_lim, cut>>

\* and is one of these moves of the trail.
LEMMA Moves ==
  ASSUME LoopInv, [Next]_vars
  PROVE  \/ \E v \in Amo, b \in {"true", "false"} : Enqueues(v, b)
         \/ TrailStays \/ NewDecisionLevel \/ Undo \/ CutDone
         \/ \E lev \in 0..(DecisionLevel - 1) : CancelUntil(lev)
  <1> USE DEF assignment, queue, loops, fields, TrailStays, Enqueues
  <1>1. ASSUME NEW v \in Amo, NEW b \in {"true", "false"}, Assign(v, b)
        PROVE  Enqueues(v, b)
    BY <1>1 DEF Assign, Idle
  <1>2. ASSUME NEW v \in Amo, Falsify(v) PROVE Enqueues(v, "false") \/ TrailStays
    BY <1>2 DEF Falsify, LoopInv
  <1>3. TellFacts \/ Tell \/ (\E n \in 1..Len(trail) : TellAgain(n)) => TrailStays
    BY DEF TellFacts, Tell, TellAgain
  <1>4. PropagateTheory \/ PropagateTheoryNothing \/ PropagateTheoryConflict
        => TrailStays
    BY DEF PropagateTheory, PropagateTheoryNothing, PropagateTheoryConflict
  <1>5. UNCHANGED vars => TrailStays
    BY DEF vars
  <1> QED BY <1>1, <1>2, <1>3, <1>4, <1>5 DEF Next

\* The trail stays in order,
LEMMA NextTrailInv == TypeOK /\ LoopInv /\ TrailInv /\ [Next]_vars => TrailInv'
  <1> SUFFICES ASSUME TypeOK, LoopInv, TrailInv, [Next]_vars PROVE TrailInv'
    OBVIOUS
  <1> USE DEF assignment, queue, loops, fields
  <1>1. ASSUME NEW v \in Amo, NEW b \in {"true", "false"}, Enqueues(v, b)
        PROVE  TrailInv'
    <2>1. /\ DOMAIN trail = 1..Len(trail) /\ DOMAIN trail' = 1..(Len(trail) + 1)
          /\ Len(trail) \in Nat /\ Len(trail') = Len(trail) + 1
          /\ \A i \in DOMAIN trail : trail'[i] = trail[i]
          /\ trail'[Len(trail) + 1] = v
      BY <1>1, EnqueueFacts DEF Enqueues, UncheckedEnqueue
    <2>2. \A i \in DOMAIN trail : trail[i] # v
      BY <1>1 DEF Enqueues, TrailInv
    <2>3. \A i, j \in DOMAIN trail' : trail'[i] = trail'[j] => i = j
      BY <2>1, <2>2 DEF TrailInv
    <2>4. value' = [value EXCEPT ![v] = b] /\ value \in [Amo -> {"undef", "true", "false"}]
      BY <1>1 DEF Enqueues, UncheckedEnqueue, TypeOK
    <2>5. ASSUME NEW w \in Amo
          PROVE  value'[w] # "undef" <=> \E i \in DOMAIN trail' : trail'[i] = w
      <3>1. CASE w = v
        BY <2>1, <2>4, <3>1
      <3>2. CASE w # v
        <4>1. value'[w] = value[w]
          BY <2>4, <3>2
        <4>2. (\E i \in DOMAIN trail' : trail'[i] = w)
              <=> (\E i \in DOMAIN trail : trail[i] = w)
          BY <2>1, <3>2
        <4> QED BY <4>1, <4>2 DEF TrailInv
      <3> QED BY <3>1, <3>2
    <2>6. \A w \in by_amo' : value'[w] # "undef"
      BY <1>1, <2>4 DEF Enqueues, TrailInv, TypeOK
    <2>7. \A l \in Kept' : trail_lim'[l] <= Len(trail')
      <3>1. Kept' = Kept /\ trail_lim' = trail_lim
        BY <1>1 DEF Enqueues, Kept
      <3>2. \A l \in Kept : trail_lim[l] \in Nat /\ trail_lim[l] <= Len(trail)
        BY DEF Kept, TypeOK, TrailInv
      <3> QED BY <2>1, <3>1, <3>2
    <2>8. \A l, m \in DOMAIN trail_lim' : l <= m => trail_lim'[l] <= trail_lim'[m]
      BY <1>1 DEF Enqueues, TrailInv
    <2> QED BY <2>3, <2>5, <2>6, <2>7, <2>8 DEF TrailInv
  <1>2. CASE TrailStays
    BY <1>2 DEF TrailStays, TrailInv, Kept
  <1>3. CASE NewDecisionLevel
    <2>1. \A l \in DOMAIN trail_lim' : trail_lim'[l] <= Len(trail)
      <3>1. \A l \in DOMAIN trail_lim : trail_lim[l] <= Len(trail)
        BY <1>3 DEF NewDecisionLevel, Idle, TrailInv, Kept
      <3> QED BY <1>3, <3>1, NewLevelFacts DEF TypeOK
    <2>2. \A l, m \in DOMAIN trail_lim' : l <= m => trail_lim'[l] <= trail_lim'[m]
      <3> SUFFICES ASSUME NEW l \in DOMAIN trail_lim', NEW m \in DOMAIN trail_lim', l <= m
                   PROVE  trail_lim'[l] <= trail_lim'[m]
        OBVIOUS
      <3>1. CASE m = Len(trail_lim) + 1
        BY <1>3, <2>1, <3>1, NewLevelFacts
      <3>2. CASE m # Len(trail_lim) + 1
        BY <1>3, <3>2, NewLevelFacts DEF TrailInv
      <3> QED BY <3>1, <3>2
    <2> QED BY <1>3, <2>1, <2>2 DEF NewDecisionLevel, TrailInv, Kept
  <1>4. ASSUME NEW lev \in 0..(DecisionLevel - 1), CancelUntil(lev) PROVE TrailInv'
    BY <1>4 DEF CancelUntil, TrailInv, Kept
  <1>5. CASE Undo
    <2>1. \A i, j \in DOMAIN trail' : trail'[i] = trail'[j] => i = j
      BY <1>5, UndoFacts DEF TrailInv
    <2>2. value' = [value EXCEPT ![Newest] = "undef"]
          /\ value \in [Amo -> {"undef", "true", "false"}]
      BY <1>5 DEF Undo, TypeOK
    <2>3. \A i \in DOMAIN trail' : trail'[i] # Newest
      BY <1>5, UndoFacts DEF TrailInv
    <2>4. ASSUME NEW w \in Amo
          PROVE  value'[w] # "undef" <=> \E i \in DOMAIN trail' : trail'[i] = w
      <3>1. CASE w = Newest
        BY <2>2, <2>3, <3>1
      <3>2. CASE w # Newest
        <4>1. value'[w] = value[w]
          BY <2>2, <3>2
        <4>2. (\E i \in DOMAIN trail' : trail'[i] = w)
              <=> (\E i \in DOMAIN trail : trail[i] = w)
          BY <1>5, <3>2, UndoFacts
        <4> QED BY <4>1, <4>2 DEF TrailInv
      <3> QED BY <3>1, <3>2
    <2>5. \A w \in by_amo' : value'[w] # "undef"
      BY <1>5, <2>2 DEF Undo, TrailInv, TypeOK
    <2>6. \A l \in Kept' : trail_lim'[l] <= Len(trail')
      <3>1. Kept' = Kept /\ trail_lim' = trail_lim
        BY <1>5 DEF Undo, Kept
      <3>2. \A l \in Kept : l \in DOMAIN trail_lim /\ l <= cut + 1
        BY <1>5, UndoFacts DEF Kept
      <3>3. \A l \in Kept : trail_lim[l] \in Nat /\ trail_lim[l] <= trail_lim[cut + 1]
        BY <1>5, <3>2, UndoFacts DEF TrailInv, TypeOK
      <3> QED BY <1>5, <3>1, <3>3, UndoFacts
    <2> QED BY <1>5, <2>1, <2>4, <2>5, <2>6 DEF Undo, TrailInv
  <1>6. CASE CutDone
    <2>1. DOMAIN trail_lim' \subseteq Kept
      BY <1>6, CutDoneFacts DEF Kept
    <2>2. \A l \in DOMAIN trail_lim' : trail_lim'[l] = trail_lim[l]
      BY <1>6, CutDoneFacts
    <2>3. \A l \in Kept' : trail_lim'[l] <= Len(trail')
      BY <1>6, <2>1, <2>2 DEF CutDone, TrailInv, Kept
    <2>4. \A l, m \in DOMAIN trail_lim' : l <= m => trail_lim'[l] <= trail_lim'[m]
      BY <2>1, <2>2 DEF TrailInv, Kept
    <2> QED BY <1>6, <2>3, <2>4 DEF CutDone, TrailInv
  <1> QED BY <1>1, <1>2, <1>3, <1>4, <1>5, <1>6, Moves

(***************************************************************************)
(* One loop at a time.                                                     *)
(***************************************************************************)
LEMMA NextLoopInv == TypeOK /\ LoopInv /\ [Next]_vars => LoopInv'
  <1> SUFFICES ASSUME TypeOK, LoopInv, [Next]_vars PROVE LoopInv'
    OBVIOUS
  <1> USE AMOAssumption DEF assignment, queue, loops, fields
  <1>1. ASSUME NEW v \in Amo, NEW b \in {"true", "false"}, Assign(v, b)
        PROVE  LoopInv'
    BY <1>1 DEF Assign, Idle, EnqueueTheory, LoopInv
  <1>2. ASSUME NEW v \in Amo, Falsify(v) PROVE LoopInv'
    BY <1>2 DEF Falsify, LoopInv
  <1>3. CASE TellFacts
    BY <1>3 DEF TellFacts, Idle, DecisionLevel, TypeOK, LoopInv
  <1>4. CASE Tell
    <2>1. Head(untold) \in Amo
      BY <1>4 DEF Tell, TypeOK
    <2> QED BY <1>4, <2>1 DEF Tell, EnqueueTheory, LoopInv
  <1>5. ASSUME NEW n \in 1..Len(trail), TellAgain(n) PROVE LoopInv'
    BY <1>5 DEF TellAgain, Idle, DecisionLevel, TypeOK, LoopInv
  <1>6. CASE PropagateTheory
    BY <1>6 DEF PropagateTheory, Called, Idle, TypeOK, LoopInv
  <1>7. CASE PropagateTheoryNothing
    BY <1>7 DEF PropagateTheoryNothing, LoopInv
  <1>8. CASE PropagateTheoryConflict
    BY <1>8 DEF PropagateTheoryConflict, Called, Idle, LoopInv
  <1>9. CASE NewDecisionLevel
    BY <1>9 DEF NewDecisionLevel, Idle, LoopInv
  <1>10. ASSUME NEW lev \in 0..(DecisionLevel - 1), CancelUntil(lev) PROVE LoopInv'
    <2>1. lev < Len(trail_lim)
      BY <1>10 DEF CancelUntil, DecisionLevel
    <2> QED BY <1>10, <2>1 DEF CancelUntil, LoopInv
  <1>11. CASE Undo
    BY <1>11 DEF Undo, Cutting, LoopInv
  <1>12. CASE CutDone
    BY <1>12, CutDoneFacts DEF CutDone, LoopInv
  <1>13. CASE UNCHANGED vars
    BY <1>13 DEF vars, LoopInv
  <1> QED BY <1>1, <1>2, <1>3, <1>4, <1>5, <1>6, <1>7, <1>8, <1>9, <1>10, <1>11,
             <1>12, <1>13 DEF Next

(***************************************************************************)
(* When propagation is over nothing is left to say; so every level that is *)
(* opened is closed.                                                       *)
(***************************************************************************)
LEMMA Settled ==
  ASSUME TypeOK, TrailInv, FieldInv, QueueInv, Idle, ~queued, ~initialPropagate
  PROVE  /\ conflict_var = NoVar /\ ~needs_propagation /\ Promise!Complete
         /\ Closed(Len(trail))
  <1>1. conflict_var = NoVar /\ ~needs_propagation
    BY DEF QueueInv, Idle, TypeOK
  <1>2. ASSUME NEW u \in Amo, NEW w \in Amo, u # w, value[u] = "true"
        PROVE  value[w] = "false"
    <2>1. \A x \in Amo : value[x] = "true" => x = true_var
      BY <1>1, AMOAssumption DEF FieldInv, Fresh
    <2>2. value[w] # "undef"
      BY <1>1, <1>2, <2>1, AMOAssumption DEF QueueInv, Idle
    <2>3. value[w] \in {"undef", "true", "false"}
      BY DEF TypeOK
    <2> QED BY <1>2, <2>1, <2>2, <2>3
  <1>3. \A i \in DOMAIN trail : trail[i] \in Amo /\ i <= Len(trail)
    BY DEF TypeOK
  <1>4. Closed(Len(trail))
    BY <1>2, <1>3 DEF Closed, TrailInv
  <1> QED BY <1>1, <1>2, <1>4 DEF Promise!Complete

\* its levels stay closed,
LEMMA NextLevelsClosed ==
  TypeOK /\ LoopInv /\ TrailInv /\ FieldInv /\ QueueInv /\ LevelsClosed /\ [Next]_vars
    => LevelsClosed'
  <1> SUFFICES ASSUME TypeOK, LoopInv, TrailInv, FieldInv, QueueInv, LevelsClosed,
                      [Next]_vars
               PROVE  LevelsClosed'
    OBVIOUS
  <1> USE DEF assignment, queue, loops, fields
  <1>0. \A l \in Kept : trail_lim[l] \in Nat /\ trail_lim[l] <= Len(trail)
    BY DEF Kept, TypeOK, TrailInv
  <1>1. ASSUME NEW v \in Amo, NEW b \in {"true", "false"}, Enqueues(v, b)
        PROVE  LevelsClosed'
    <2>1. /\ DOMAIN trail = 1..Len(trail) /\ DOMAIN trail' = 1..(Len(trail) + 1)
          /\ Len(trail) \in Nat
          /\ \A i \in DOMAIN trail : trail'[i] = trail[i] /\ trail[i] \in Amo
      BY <1>1, EnqueueFacts DEF Enqueues, UncheckedEnqueue, TypeOK
    <2>2. \A i \in DOMAIN trail : trail[i] # v
      BY <1>1 DEF Enqueues, TrailInv
    <2>3. \A w \in Amo \ {v} : value'[w] = value[w]
      BY <1>1 DEF Enqueues, UncheckedEnqueue, TypeOK
    <2>4. Kept' = Kept /\ trail_lim' = trail_lim /\ value[v] = "undef"
      BY <1>1 DEF Enqueues, Kept
    <2>5. ASSUME NEW n \in Nat, n <= Len(trail), Closed(n) PROVE Closed(n)'
      <3>1. ASSUME NEW i \in DOMAIN trail', i <= n, value'[trail'[i]] = "true",
                   NEW u \in Amo \ {trail'[i]}
            PROVE  value'[u] = "false" /\ \E j \in DOMAIN trail' : j <= n /\ trail'[j] = u
        <4>1. i \in DOMAIN trail /\ trail'[i] = trail[i]
          BY <2>1, <2>5, <3>1
        <4>2. value[trail[i]] = "true"
          BY <2>1, <2>2, <2>3, <3>1, <4>1
        <4>3. value[u] = "false" /\ \E j \in DOMAIN trail : j <= n /\ trail[j] = u
          BY <2>5, <3>1, <4>1, <4>2 DEF Closed
        <4> QED BY <2>1, <2>3, <2>4, <4>3
      <3> QED BY <3>1 DEF Closed
    <2> QED BY <1>0, <2>4, <2>5 DEF LevelsClosed
  <1>2. CASE TrailStays
    BY <1>2 DEF TrailStays, LevelsClosed, Kept, Closed
  <1>3. CASE NewDecisionLevel
    <2>1. Closed(Len(trail))
      BY <1>3, Settled DEF NewDecisionLevel
    <2>2. Kept = DOMAIN trail_lim
      BY <1>3 DEF NewDecisionLevel, Idle, Kept
    <2>3. \A l \in DOMAIN trail_lim' : Closed(trail_lim'[l])
      BY <1>3, <2>1, <2>2, NewLevelFacts DEF LevelsClosed
    <2> QED BY <1>3, <2>3 DEF NewDecisionLevel, LevelsClosed, Kept, Closed
  <1>4. ASSUME NEW lev \in 0..(DecisionLevel - 1), CancelUntil(lev) PROVE LevelsClosed'
    BY <1>4 DEF CancelUntil, LevelsClosed, Kept, Closed
  <1>5. CASE Undo
    <2>1. \A w \in Amo \ {Newest} : value'[w] = value[w]
      BY <1>5 DEF Undo, TypeOK
    <2>2. \A i \in DOMAIN trail' : trail[i] # Newest /\ trail[i] \in Amo
      BY <1>5, UndoFacts DEF TrailInv, TypeOK
    <2>3. Kept' = Kept /\ trail_lim' = trail_lim
      BY <1>5 DEF Undo, Kept
    <2>4. \A l \in Kept : trail_lim[l] < Len(trail)
      <3>1. \A l \in Kept : l \in DOMAIN trail_lim /\ l <= cut + 1
        BY <1>5, UndoFacts DEF Kept
      <3>2. \A l \in Kept : trail_lim[l] \in Nat /\ trail_lim[l] <= trail_lim[cut + 1]
        BY <1>5, <3>1, UndoFacts DEF TrailInv, TypeOK
      <3> QED BY <1>5, <3>2, UndoFacts
    <2>5. ASSUME NEW n \in Nat, n < Len(trail), Closed(n) PROVE Closed(n)'
      <3>1. ASSUME NEW i \in DOMAIN trail', i <= n, value'[trail'[i]] = "true",
                   NEW u \in Amo \ {trail'[i]}
            PROVE  value'[u] = "false" /\ \E j \in DOMAIN trail' : j <= n /\ trail'[j] = u
        <4>1. i \in DOMAIN trail /\ trail'[i] = trail[i] /\ value[trail[i]] = "true"
          BY <1>5, <2>1, <2>2, <3>1, UndoFacts
        <4>2. value[u] = "false"
          BY <2>5, <3>1, <4>1 DEF Closed
        <4>3. PICK j \in DOMAIN trail : j <= n /\ trail[j] = u
          BY <2>5, <3>1, <4>1 DEF Closed
        <4>4. j \in DOMAIN trail' /\ trail'[j] = u
          BY <1>5, <2>5, <4>3, UndoFacts
        <4>5. u # Newest
          BY <1>5, <2>2, <4>3, <4>4
        <4> QED BY <2>1, <4>2, <4>3, <4>4, <4>5
      <3> QED BY <3>1 DEF Closed
    <2> QED BY <1>0, <2>3, <2>4, <2>5 DEF LevelsClosed
  <1>6. CASE CutDone
    <2>1. DOMAIN trail_lim' \subseteq Kept
      BY <1>6, CutDoneFacts DEF Kept
    <2>2. \A l \in DOMAIN trail_lim' : Closed(trail_lim'[l])
      BY <1>6, <2>1, CutDoneFacts DEF LevelsClosed
    <2>3. Kept' \subseteq DOMAIN trail_lim' /\ UNCHANGED <<trail, value>>
      BY <1>6 DEF CutDone, Kept
    <2>4. ASSUME NEW l \in Kept' PROVE Closed(trail_lim[l])'
      <3>1. Closed(trail_lim'[l])
        BY <2>2, <2>3
      <3> QED BY <2>3, <3>1 DEF Closed
    <2> QED BY <2>4 DEF LevelsClosed
  <1> QED BY <1>1, <1>2, <1>3, <1>4, <1>5, <1>6, Moves

(***************************************************************************)
(* The fields.                                                             *)
(***************************************************************************)
\* What cancelUntil meets: a variable in conflict goes before true_var.
LEMMA Undoing ==
  ASSUME TypeOK, LoopInv, TrailInv, FieldInv, OrderInv, Undo
  PROVE  /\ trail_lim # <<>> /\ untold = <<>> /\ todo = {} /\ ~pending
         /\ \A w \in Amo \ {Newest} : value'[w] = value[w]
         /\ value'[Newest] = "undef"
         /\ \A i \in DOMAIN trail' : trail[i] # Newest /\ trail[i] \in Amo
         /\ conflict_var \in Amo => Newest # true_var
         /\ conflict_var = Newest =>
              \A w \in Amo \ {Newest} : value[w] = "true" => w = true_var
  <1>1. /\ trail_lim # <<>> /\ untold = <<>> /\ todo = {} /\ ~pending
    BY UndoFacts DEF Undo, Cutting, LoopInv, TypeOK
  <1>2. /\ \A w \in Amo \ {Newest} : value'[w] = value[w]
        /\ value'[Newest] = "undef"
    BY UndoFacts DEF Undo, TypeOK
  <1>3. \A i \in DOMAIN trail' : trail[i] # Newest /\ trail[i] \in Amo
    BY UndoFacts DEF TrailInv, TypeOK
  <1>4. ASSUME conflict_var \in Amo PROVE Newest # true_var
    <2>1. PICK c \in DOMAIN trail : trail[c] = conflict_var
      BY <1>4 DEF FieldInv, TrailInv
    <2>2. PICK k \in DOMAIN trail : k < c /\ trail[k] = true_var
      BY <1>1, <2>1 DEF OrderInv
    <2>3. k # Len(trail) /\ Len(trail) \in DOMAIN trail
      BY <2>1, <2>2, UndoFacts
    <2> QED BY <2>2, <2>3, UndoFacts DEF TrailInv
  <1>5. ASSUME conflict_var = Newest, NEW w \in Amo \ {Newest}, value[w] = "true"
        PROVE  w = true_var
    <2>1. PICK i \in DOMAIN trail : trail[i] = w
      BY <1>5 DEF TrailInv
    <2>2. i < Len(trail) /\ Len(trail) \in DOMAIN trail
      BY <1>5, <2>1, UndoFacts
    <2> QED BY <1>1, <1>5, <2>1, <2>2, UndoFacts DEF OrderInv
  <1> QED BY <1>1, <1>2, <1>3, <1>4, <1>5

\* and the fields of the theory stay those of its trail.
LEMMA NextFieldInv ==
  TypeOK /\ LoopInv /\ TrailInv /\ FieldInv /\ OrderInv /\ [Next]_vars => FieldInv'
  <1> SUFFICES ASSUME TypeOK, LoopInv, TrailInv, FieldInv, OrderInv, [Next]_vars
               PROVE  FieldInv'
    OBVIOUS
  <1> USE AMOAssumption DEF assignment, queue, loops, fields
  <1>1. ASSUME NEW v \in Amo, NEW b \in {"true", "false"}, Assign(v, b)
        PROVE  FieldInv'
    <2>1. /\ value[v] = "undef" /\ value'[v] = b
          /\ \A w \in Amo \ {v} : value'[w] = value[w]
      BY <1>1 DEF Assign, UncheckedEnqueue, TypeOK
    <2>2. v # true_var /\ v # conflict_var /\ ~pending
      BY <1>1, <2>1 DEF FieldInv, Assign, Idle
    <2>3. \A w : Fresh(w)' <=> initialPropagate
      BY <1>1 DEF Assign, Idle, Fresh
    <2>4. \A w : Fresh(w) <=> initialPropagate
      BY <1>1 DEF Assign, Idle, Fresh
    <2>5. UNCHANGED pending /\ EnqueueTheory(v, b)
      BY <1>1 DEF Assign
    <2>6. CASE b = "true" /\ conflict_var = NoVar /\ true_var = NoVar
      BY <2>1, <2>2, <2>3, <2>4, <2>5, <2>6 DEF EnqueueTheory, FieldInv
    <2>7. CASE b = "true" /\ conflict_var = NoVar /\ true_var # NoVar
      BY <2>1, <2>2, <2>3, <2>4, <2>5, <2>7 DEF EnqueueTheory, FieldInv, TypeOK
    <2>8. CASE b # "true" \/ conflict_var # NoVar
      <3>1. UNCHANGED <<true_var, conflict_var>>
        BY <2>2, <2>5, <2>8 DEF EnqueueTheory
      <3> QED BY <2>1, <2>2, <2>3, <2>4, <2>5, <2>8, <3>1 DEF FieldInv, TypeOK
    <2> QED BY <2>6, <2>7, <2>8
  <1>2. ASSUME NEW v \in Amo, Falsify(v) PROVE FieldInv'
    <2>1. CASE value[v] # "undef"
      BY <1>2, <2>1 DEF Falsify, FieldInv, Fresh
    <2>2. CASE value[v] = "undef"
      <3>1. /\ value'[v] = "false"
            /\ \A w \in Amo \ {v} : value'[w] = value[w]
        BY <1>2, <2>2 DEF Falsify, UncheckedEnqueue, TypeOK
      <3>2. \A w : Fresh(w) => Fresh(w)'
        BY <1>2, <2>2 DEF Falsify, UncheckedEnqueue, Fresh
      <3>3. UNCHANGED <<pending, true_var, conflict_var>>
        BY <1>2 DEF Falsify
      <3> QED BY <2>2, <3>1, <3>2, <3>3 DEF FieldInv
    <2> QED BY <2>1, <2>2
  <1>3. CASE TellFacts
    <2>1. ASSUME NEW w \in Amo, value[w] = "true" PROVE Fresh(w)'
      BY <1>3, <2>1 DEF TellFacts, TrailInv, Fresh
    <2> QED BY <1>3, <2>1 DEF TellFacts, FieldInv
  <1>4. CASE Tell
    <2> DEFINE h == Head(untold)
    <2>1. h \in Amo
      BY <1>4 DEF Tell, TypeOK
    <2>2. ASSUME NEW w \in Amo \ {h}, Fresh(w) PROVE Fresh(w)'
      <3>1. CASE initialPropagate
        BY <1>4, <3>1 DEF Tell, Fresh
      <3>2. CASE queued /\ \E i \in DOMAIN untold : untold[i] = w
        <4>1. PICK i \in DOMAIN untold : untold[i] = w
          BY <3>2
        <4>2. i # 1 /\ i \in 2..Len(untold)
          BY <1>4, <4>1 DEF TypeOK, Tell
        <4>3. i - 1 \in DOMAIN untold' /\ untold'[i - 1] = w
          BY <1>4, <4>1, <4>2 DEF TypeOK, Tell
        <4> QED BY <1>4, <3>2, <4>3 DEF Fresh, Tell
      <3> QED BY <2>2, <3>1, <3>2 DEF Fresh
    <2>3. UNCHANGED <<value, pending>> /\ EnqueueTheory(h, value[h]) /\ ~pending
      BY <1>4 DEF Tell, LoopInv
    <2> HIDE DEF h
    <2>4. CASE value[h] = "true" /\ conflict_var = NoVar /\ true_var = NoVar
      BY <2>1, <2>2, <2>3, <2>4 DEF EnqueueTheory, FieldInv
    <2>5. CASE value[h] = "true" /\ conflict_var = NoVar /\ true_var \notin {NoVar, h}
      BY <2>1, <2>2, <2>3, <2>5 DEF EnqueueTheory, FieldInv, TypeOK
    <2>6. CASE value[h] # "true" \/ conflict_var # NoVar \/ true_var = h
      <3>1. UNCHANGED <<true_var, conflict_var>>
        BY <2>1, <2>3, <2>6 DEF EnqueueTheory
      <3> QED BY <2>1, <2>2, <2>3, <2>6, <3>1 DEF FieldInv, TypeOK
    <2> QED BY <2>4, <2>5, <2>6
  <1>5. ASSUME NEW n \in 1..Len(trail), TellAgain(n) PROVE FieldInv'
    <2>1. \A w : Fresh(w) => Fresh(w)'
      BY <1>5 DEF TellAgain, Idle, Fresh
    <2> QED BY <1>5, <2>1 DEF TellAgain, FieldInv
  <1>6. CASE PropagateTheory
    BY <1>6 DEF PropagateTheory, Called, Idle, FieldInv, Fresh
  <1>7. CASE PropagateTheoryNothing
    BY <1>7 DEF PropagateTheoryNothing, Called, Idle, FieldInv, Fresh
  <1>8. CASE PropagateTheoryConflict
    BY <1>8 DEF PropagateTheoryConflict, Called, Idle, FieldInv, Fresh, TypeOK
  <1>9. CASE NewDecisionLevel
    BY <1>9 DEF NewDecisionLevel, FieldInv, Fresh
  <1>10. ASSUME NEW lev \in 0..(DecisionLevel - 1), CancelUntil(lev) PROVE FieldInv'
    BY <1>10 DEF CancelUntil, FieldInv, Fresh
  <1>11. CASE Undo
    <2>1. /\ true_var' = IF Newest = true_var THEN NoVar ELSE true_var
          /\ conflict_var' = IF Newest = conflict_var THEN NoVar ELSE conflict_var
          /\ UNCHANGED <<queue, loops, pending>>
      BY <1>11 DEF Undo, UndecideTheory
    <2>2. \A w : Fresh(w) <=> Fresh(w)'
      BY <2>1 DEF Fresh
    <2> QED BY <1>11, <2>1, <2>2, Undoing, UndoFacts DEF FieldInv, TypeOK
  <1>12. CASE CutDone
    <2>1. untold = <<>>
      BY <1>12 DEF CutDone, LoopInv
    <2> QED BY <1>12, <2>1 DEF CutDone, FieldInv, Fresh
  <1>13. CASE UNCHANGED vars
    BY <1>13 DEF vars, FieldInv, Fresh
  <1> QED BY <1>1, <1>2, <1>3, <1>4, <1>5, <1>6, <1>7, <1>8, <1>9, <1>10, <1>11,
             <1>12, <1>13 DEF Next

(***************************************************************************)
(* The queue.  When cancelUntil clears it nothing can be waiting, because  *)
(* the level it returns to is closed.                                      *)
(***************************************************************************)
LEMMA NextQueueInv ==
  TypeOK /\ LoopInv /\ TrailInv /\ LevelsClosed /\ FieldInv /\ OrderInv /\ QueueInv
    /\ [Next]_vars => QueueInv'
  <1> SUFFICES ASSUME TypeOK, LoopInv, TrailInv, LevelsClosed, FieldInv, OrderInv,
                      QueueInv, [Next]_vars
               PROVE  QueueInv'
    OBVIOUS
  <1> USE AMOAssumption DEF assignment, queue, loops, fields
  <1>1. ASSUME NEW v \in Amo, NEW b \in {"true", "false"}, Assign(v, b)
        PROVE  QueueInv'
    <2>1. queued' /\ \A w \in Amo : value[w] # "undef" => value'[w] # "undef"
      BY <1>1 DEF Assign, UncheckedEnqueue, TypeOK
    <2> QED BY <1>1, <2>1 DEF Assign, EnqueueTheory, QueueInv, TypeOK
  <1>2. ASSUME NEW v \in Amo, Falsify(v) PROVE QueueInv'
    <2>1. value'[v] # "undef" /\ \A w \in Amo : value[w] # "undef" => value'[w] # "undef"
      BY <1>2 DEF Falsify, UncheckedEnqueue, TypeOK
    <2>2. queued => queued'
      BY <1>2 DEF Falsify, UncheckedEnqueue
    <2> QED BY <1>2, <2>1, <2>2 DEF Falsify, QueueInv
  <1>3. CASE TellFacts
    BY <1>3 DEF TellFacts, QueueInv
  <1>4. CASE Tell
    <2> DEFINE h == Head(untold)
    <2>1. h \in Amo /\ 1 \in DOMAIN untold /\ untold[1] = h
      BY <1>4 DEF Tell, TypeOK
    <2>2. EnqueueTheory(h, value[h]) /\ UNCHANGED <<value, queue, cut, pending>>
          /\ ~pending /\ cut = -1 /\ todo = {}
      BY <1>4 DEF Tell, LoopInv
    <2> HIDE DEF h
    <2>3. CASE value[h] = "true" /\ conflict_var = NoVar /\ true_var # h
      <3>1. queued \/ initialPropagate
        BY <2>1, <2>3 DEF FieldInv, Fresh
      <3> QED BY <2>1, <2>2, <2>3, <3>1 DEF EnqueueTheory, QueueInv, TypeOK
    <2>4. CASE value[h] # "true" \/ conflict_var # NoVar \/ true_var = h
      <3>1. UNCHANGED <<true_var, conflict_var, needs_propagation, todo>>
        BY <2>1, <2>2, <2>4 DEF EnqueueTheory
      <3> QED BY <2>2, <3>1 DEF QueueInv
    <2> QED BY <2>3, <2>4
  <1>5. ASSUME NEW n \in 1..Len(trail), TellAgain(n) PROVE QueueInv'
    BY <1>5 DEF TellAgain, QueueInv
  <1>6. CASE PropagateTheory
    BY <1>6 DEF PropagateTheory, QueueInv
  <1>7. CASE PropagateTheoryNothing
    BY <1>7 DEF PropagateTheoryNothing, QueueInv
  <1>8. CASE PropagateTheoryConflict
    BY <1>8 DEF PropagateTheoryConflict, QueueInv, TypeOK
  <1>9. CASE NewDecisionLevel
    BY <1>9 DEF NewDecisionLevel, QueueInv
  <1>10. ASSUME NEW lev \in 0..(DecisionLevel - 1), CancelUntil(lev) PROVE QueueInv'
    BY <1>10 DEF CancelUntil, QueueInv
  <1>11. CASE Undo
    BY <1>11 DEF Undo, Cutting, UndecideTheory, QueueInv, TypeOK
  <1>12. CASE CutDone
    <2>1. cut + 1 \in Kept /\ trail_lim[cut + 1] = Len(trail) /\ trail_lim # <<>>
      <3>1. cut + 1 \in DOMAIN trail_lim /\ trail_lim # <<>> /\ cut + 1 <= cut + 1
        BY <1>12, CutDoneFacts
      <3> QED BY <1>12, <3>1 DEF CutDone, Kept
    <2>2. \A i \in DOMAIN trail : i <= Len(trail) /\ i \in Nat
      BY DEF TypeOK
    <2>3. ASSUME NEW w \in Amo, value[w] = "true", NEW u \in Amo \ {w}
          PROVE  value[u] = "false"
      <3>1. PICK i \in DOMAIN trail : trail[i] = w
        BY <2>3 DEF TrailInv
      <3> QED BY <2>1, <2>2, <2>3, <3>1 DEF LevelsClosed, Closed
    <2>4. conflict_var \notin Amo
      BY <2>3 DEF FieldInv
    <2>5. ~needs_propagation
      <3> SUFFICES ASSUME needs_propagation PROVE FALSE
        OBVIOUS
      <3>1. PICK k \in DOMAIN trail : trail[k] = true_var
        BY DEF QueueInv, FieldInv, TrailInv
      <3>2. Len(trail) < k
        BY <1>12, <2>1, <3>1, CutDoneFacts DEF OrderInv
      <3>3. Len(trail) \in Nat
        BY DEF TypeOK
      <3> QED BY <2>2, <3>1, <3>2, <3>3
    <2>6. UNCHANGED <<value, fields>>
      BY <1>12 DEF CutDone
    <2> QED BY <2>3, <2>4, <2>5, <2>6 DEF QueueInv, FieldInv
  <1>13. CASE UNCHANGED vars
    BY <1>13 DEF vars, QueueInv
  <1> QED BY <1>1, <1>2, <1>3, <1>4, <1>5, <1>6, <1>7, <1>8, <1>9, <1>10, <1>11,
             <1>12, <1>13 DEF Next

(***************************************************************************)
(* The order in which variables became true.                               *)
(***************************************************************************)
LEMMA NextOrderInv ==
  TypeOK /\ LoopInv /\ TrailInv /\ FieldInv /\ QueueInv /\ OrderInv /\ [Next]_vars
    => OrderInv'
  <1> SUFFICES ASSUME TypeOK, LoopInv, TrailInv, FieldInv, QueueInv, OrderInv,
                      [Next]_vars, trail_lim' # <<>>
               PROVE  OrderInv'
    BY DEF OrderInv
  <1> USE AMOAssumption DEF assignment, queue, loops, fields
  \* A variable more on the trail, of which the fields take no notice.
  <1>0. ASSUME NEW v \in Amo, NEW b, Enqueues(v, b),
               UNCHANGED <<true_var, conflict_var, needs_propagation>>
        PROVE  OrderInv'
    <2>1. /\ DOMAIN trail = 1..Len(trail) /\ DOMAIN trail' = 1..(Len(trail) + 1)
          /\ Len(trail) \in Nat
          /\ \A i \in DOMAIN trail : trail'[i] = trail[i] /\ trail[i] \in Amo
          /\ trail'[Len(trail) + 1] = v
      BY <1>0, EnqueueFacts DEF Enqueues, UncheckedEnqueue, TypeOK
    <2>2. /\ \A w \in Amo \ {v} : value'[w] = value[w]
          /\ \A i \in DOMAIN trail : trail[i] # v
          /\ trail_lim' = trail_lim
      BY <1>0 DEF Enqueues, UncheckedEnqueue, TrailInv, TypeOK
    <2>3. v # true_var /\ v # conflict_var
      BY <1>0 DEF FieldInv, Enqueues
    <2>4. ASSUME NEW c \in DOMAIN trail', trail'[c] = conflict_var
          PROVE  /\ \A i \in DOMAIN trail' :
                       i < c /\ value'[trail'[i]] = "true" => trail'[i] = true_var
                 /\ \E k \in DOMAIN trail' : k < c /\ trail'[k] = true_var
      <3>1. c \in DOMAIN trail /\ trail[c] = conflict_var
        BY <2>1, <2>3, <2>4
      <3>2. \A i \in DOMAIN trail' : i < c => i \in DOMAIN trail
        BY <2>1, <3>1
      <3> QED BY <2>1, <2>2, <3>1, <3>2 DEF OrderInv
    <2>5. ASSUME needs_propagation, NEW k \in DOMAIN trail', NEW l \in DOMAIN trail_lim,
                 trail'[k] = true_var
          PROVE  trail_lim[l] < k
      <3>1. k \in DOMAIN trail /\ trail[k] = true_var
        BY <2>1, <2>3, <2>5
      <3> QED BY <2>2, <2>5, <3>1 DEF OrderInv
    <2> QED BY <1>0, <2>2, <2>4, <2>5 DEF OrderInv
  <1>1. ASSUME NEW v \in Amo, NEW b \in {"true", "false"}, Assign(v, b)
        PROVE  OrderInv'
    <2>0. Enqueues(v, b) /\ trail_lim # <<>> /\ cut = -1 /\ EnqueueTheory(v, b)
      BY <1>1 DEF Assign, Enqueues, Idle
    <2>1. /\ DOMAIN trail = 1..Len(trail) /\ DOMAIN trail' = 1..(Len(trail) + 1)
          /\ Len(trail) \in Nat
          /\ \A i \in DOMAIN trail : trail'[i] = trail[i] /\ trail[i] \in Amo
          /\ trail'[Len(trail) + 1] = v
      BY <2>0, EnqueueFacts DEF Enqueues, UncheckedEnqueue, TypeOK
    <2>2. /\ \A w \in Amo \ {v} : value'[w] = value[w]
          /\ \A i \in DOMAIN trail : trail[i] # v
          /\ trail_lim' = trail_lim
      BY <2>0 DEF Enqueues, UncheckedEnqueue, TrailInv, TypeOK
    <2>3. v # true_var
      BY <2>0 DEF FieldInv, Enqueues
    <2>4. \A w \in Amo : value[w] = "true" => w = true_var \/ conflict_var \in Amo
      BY <1>1, <2>0 DEF FieldInv, Fresh, LoopInv, Assign, Idle
    <2>5. CASE b = "true" /\ conflict_var = NoVar /\ true_var = NoVar
      <3>1. true_var' = v /\ conflict_var' = NoVar
        BY <2>0, <2>5 DEF EnqueueTheory
      <3>2. \A c \in DOMAIN trail' : trail'[c] # conflict_var'
        BY <2>1, <3>1
      <3>3. \A k \in DOMAIN trail' : trail'[k] = v => k = Len(trail) + 1
        BY <2>1, <2>2
      <3>4. \A l \in DOMAIN trail_lim : trail_lim[l] \in Nat /\ trail_lim[l] <= Len(trail)
        BY <2>0 DEF TrailInv, Kept, TypeOK
      <3> QED BY <2>1, <2>2, <3>1, <3>2, <3>3, <3>4 DEF OrderInv
    <2>6. CASE b = "true" /\ conflict_var = NoVar /\ true_var # NoVar
      <3>1. conflict_var' = v /\ UNCHANGED <<true_var, needs_propagation>>
        BY <2>0, <2>3, <2>6 DEF EnqueueTheory
      <3>2. PICK p \in DOMAIN trail : trail[p] = true_var
        BY <2>6 DEF FieldInv, TrailInv, TypeOK
      <3>3. ASSUME NEW c \in DOMAIN trail', trail'[c] = v
            PROVE  /\ \A i \in DOMAIN trail' :
                         i < c /\ value'[trail'[i]] = "true" => trail'[i] = true_var
                   /\ \E k \in DOMAIN trail' : k < c /\ trail'[k] = true_var
        <4>1. c = Len(trail) + 1
          BY <2>1, <2>2, <3>3
        <4>2. \A i \in DOMAIN trail' : i < c => i \in DOMAIN trail
          BY <2>1, <4>1
        <4>3. p \in DOMAIN trail' /\ p < c /\ trail'[p] = true_var
          BY <2>1, <3>2, <4>1
        <4> QED BY <2>1, <2>2, <2>4, <2>6, <4>2, <4>3
      <3>4. ASSUME needs_propagation, NEW k \in DOMAIN trail', NEW l \in DOMAIN trail_lim,
                   trail'[k] = true_var
            PROVE  trail_lim[l] < k
        <4>1. k \in DOMAIN trail /\ trail[k] = true_var
          BY <2>1, <2>3, <3>4
        <4> QED BY <2>0, <3>4, <4>1 DEF OrderInv
      <3> QED BY <2>2, <3>1, <3>3, <3>4 DEF OrderInv
    <2>7. CASE b # "true" \/ conflict_var # NoVar
      <3>1. UNCHANGED <<true_var, conflict_var, needs_propagation>>
        BY <2>0, <2>3, <2>7 DEF EnqueueTheory
      <3> QED BY <1>0, <2>0, <3>1
    <2> QED BY <2>5, <2>6, <2>7
  <1>2. ASSUME NEW v \in Amo, Falsify(v) PROVE OrderInv'
    <2>1. CASE value[v] = "undef"
      <3>1. Enqueues(v, "false")
        BY <1>2, <2>1 DEF Falsify, Enqueues, LoopInv
      <3> QED BY <1>0, <1>2, <3>1 DEF Falsify
    <2>2. CASE value[v] # "undef"
      BY <1>2, <2>2 DEF Falsify, OrderInv
    <2> QED BY <2>1, <2>2
  <1>3. CASE TellFacts
    BY <1>3 DEF TellFacts, DecisionLevel, TypeOK
  <1>4. CASE Tell
    BY <1>4 DEF Tell, LoopInv
  <1>5. ASSUME NEW n \in 1..Len(trail), TellAgain(n) PROVE OrderInv'
    BY <1>5 DEF TellAgain, DecisionLevel, TypeOK
  <1>6. CASE PropagateTheory
    BY <1>6 DEF PropagateTheory, OrderInv
  <1>7. CASE PropagateTheoryNothing
    BY <1>7 DEF PropagateTheoryNothing, OrderInv
  <1>8. CASE PropagateTheoryConflict
    BY <1>8 DEF PropagateTheoryConflict, OrderInv
  <1>9. CASE NewDecisionLevel
    <2>1. conflict_var = NoVar /\ ~needs_propagation
      BY <1>9, Settled DEF NewDecisionLevel
    <2>2. \A c \in DOMAIN trail : trail[c] # NoVar
      BY DEF TypeOK
    <2> QED BY <1>9, <2>1, <2>2 DEF NewDecisionLevel, OrderInv
  <1>10. ASSUME NEW lev \in 0..(DecisionLevel - 1), CancelUntil(lev) PROVE OrderInv'
    BY <1>10 DEF CancelUntil, OrderInv
  <1>11. CASE Undo
    <2>1. /\ true_var' = IF Newest = true_var THEN NoVar ELSE true_var
          /\ conflict_var' = IF Newest = conflict_var THEN NoVar ELSE conflict_var
          /\ needs_propagation' = (needs_propagation /\ Newest # true_var)
          /\ trail_lim' = trail_lim
      BY <1>11 DEF Undo, UndecideTheory
    <2>2. ASSUME NEW c \in DOMAIN trail', trail'[c] = conflict_var'
          PROVE  /\ \A i \in DOMAIN trail' :
                       i < c /\ value'[trail'[i]] = "true" => trail'[i] = true_var'
                 /\ \E k \in DOMAIN trail' : k < c /\ trail'[k] = true_var'
      <3>1. c \in DOMAIN trail /\ trail[c] = conflict_var /\ conflict_var \in Amo
        BY <1>11, <2>1, <2>2, Undoing, UndoFacts
      <3>2. true_var' = true_var
        BY <1>11, <2>1, <3>1, Undoing
      <3>3. \A i \in DOMAIN trail' : i \in DOMAIN trail /\ trail'[i] = trail[i]
                                    /\ value'[trail[i]] = value[trail[i]]
        BY <1>11, Undoing, UndoFacts
      <3>4. \A k \in DOMAIN trail : k < c => k \in DOMAIN trail'
        BY <1>11, <2>2, UndoFacts
      <3> QED BY <1>11, <3>1, <3>2, <3>3, <3>4, Undoing DEF OrderInv
    <2>3. ASSUME needs_propagation', NEW k \in DOMAIN trail', NEW l \in DOMAIN trail_lim,
                 trail'[k] = true_var'
          PROVE  trail_lim[l] < k
      <3>1. needs_propagation /\ true_var' = true_var
        BY <2>1, <2>3
      <3>2. k \in DOMAIN trail /\ trail[k] = true_var /\ trail_lim # <<>>
        BY <1>11, <2>3, <3>1, Undoing, UndoFacts
      <3> QED BY <3>1, <3>2 DEF OrderInv
    <2> QED BY <2>1, <2>2, <2>3 DEF OrderInv
  <1>12. CASE CutDone
    <2>1. /\ \A l \in DOMAIN trail_lim' : l \in DOMAIN trail_lim /\ trail_lim'[l] = trail_lim[l]
          /\ trail_lim # <<>>
      BY <1>12, CutDoneFacts
    <2>2. UNCHANGED <<trail, value, true_var, conflict_var, needs_propagation>>
      BY <1>12 DEF CutDone
    <2> QED BY <2>1, <2>2 DEF OrderInv
  <1>13. CASE UNCHANGED vars
    BY <1>13 DEF vars, OrderInv
  <1> QED BY <1>1, <1>2, <1>3, <1>4, <1>5, <1>6, <1>7, <1>8, <1>9, <1>10, <1>11,
             <1>12, <1>13 DEF Next

(***************************************************************************)
(* The reasons.                                                            *)
(***************************************************************************)
LEMMA NextReasonsExplain ==
  TypeOK /\ LoopInv /\ TrailInv /\ LevelsClosed /\ FieldInv /\ OrderInv
    /\ ReasonsExplain /\ [Next]_vars => ReasonsExplain'
  <1> SUFFICES ASSUME TypeOK, LoopInv, TrailInv, LevelsClosed, FieldInv, OrderInv,
                      ReasonsExplain, [Next]_vars
               PROVE  ReasonsExplain'
    OBVIOUS
  <1> USE AMOAssumption DEF assignment, queue, loops, fields
  <1> DEFINE Explained(i) ==
        /\ true_var \in Amo /\ value[true_var] = "true" /\ value[trail[i]] = "false"
        /\ \E k \in DOMAIN trail :
              trail[k] = true_var /\ ((Root < k /\ k < i) \/ (k <= Root /\ i <= Root))
  \* A variable more on the trail, while true_var stays.
  <1>0. ASSUME NEW v \in Amo, NEW b \in {"true", "false"}, Enqueues(v, b),
               true_var' = true_var,
               v \in by_amo' =>
                 /\ true_var \in Amo /\ v # true_var /\ b = "false"
                 /\ trail_lim # <<>> =>
                       \A k \in DOMAIN trail : trail[k] = true_var => Root < k
        PROVE  ReasonsExplain'
    <2>1. /\ DOMAIN trail = 1..Len(trail) /\ DOMAIN trail' = 1..(Len(trail) + 1)
          /\ Len(trail) \in Nat /\ Len(trail') = Len(trail) + 1
          /\ \A i \in DOMAIN trail : trail'[i] = trail[i] /\ trail[i] \in Amo
          /\ trail'[Len(trail) + 1] = v
      BY <1>0, EnqueueFacts DEF Enqueues, UncheckedEnqueue, TypeOK
    <2>2. /\ value'[v] = b /\ \A w \in Amo \ {v} : value'[w] = value[w]
          /\ \A i \in DOMAIN trail : trail[i] # v
          /\ trail_lim' = trail_lim
      BY <1>0 DEF Enqueues, UncheckedEnqueue, TrailInv, TypeOK
    <2>3. /\ Root \in Nat /\ Root' \in Nat
          /\ trail_lim = <<>> => Root = Len(trail) /\ Root' = Len(trail) + 1
          /\ trail_lim # <<>> => Root' = Root
      <3>1. CASE trail_lim = <<>>
        BY <2>1, <2>2, <3>1 DEF Root
      <3>2. CASE trail_lim # <<>>
        <4>1. trail_lim[1] \in Nat
          BY <3>2 DEF TypeOK
        <4> QED BY <2>2, <3>2, <4>1 DEF Root
      <3> QED BY <3>1, <3>2
    <2>4. ASSUME NEW i \in DOMAIN trail', trail'[i] \in by_amo'
          PROVE  /\ true_var' \in Amo /\ value'[true_var'] = "true"
                 /\ value'[trail'[i]] = "false"
                 /\ \E k \in DOMAIN trail' : /\ trail'[k] = true_var'
                      /\ ((Root' < k /\ k < i) \/ (k <= Root' /\ i <= Root'))
      <3>1. CASE i = Len(trail) + 1
        <4>1. /\ true_var \in Amo /\ v # true_var /\ b = "false"
              /\ trail_lim # <<>> =>
                    \A k \in DOMAIN trail : trail[k] = true_var => Root < k
          <5>1. v \in by_amo'
            BY <2>1, <2>4, <3>1
          <5> QED BY <1>0, <5>1
        <4>2. PICK k \in DOMAIN trail : trail[k] = true_var
          BY <4>1 DEF FieldInv, TrailInv
        <4>3. k \in DOMAIN trail' /\ trail'[k] = true_var
              /\ ((Root' < k /\ k < i) \/ (k <= Root' /\ i <= Root'))
          BY <2>1, <2>3, <3>1, <4>1, <4>2
        <4> QED BY <1>0, <2>1, <2>2, <3>1, <4>1, <4>3 DEF FieldInv
      <3>2. CASE i # Len(trail) + 1
        <4>1. i \in DOMAIN trail /\ trail'[i] = trail[i] /\ trail[i] # v
          BY <2>1, <2>2, <3>2
        <4>2. trail[i] \in by_amo
          BY <1>0, <2>4, <4>1 DEF Enqueues
        <4>3. Explained(i)
          BY <4>1, <4>2 DEF ReasonsExplain
        <4>4. PICK k \in DOMAIN trail :
                 trail[k] = true_var /\ ((Root < k /\ k < i) \/ (k <= Root /\ i <= Root))
          BY <4>3
        <4>5. k \in DOMAIN trail' /\ trail'[k] = true_var
              /\ ((Root' < k /\ k < i) \/ (k <= Root' /\ i <= Root'))
          <5>1. k \in Nat /\ i \in Nat /\ k <= Len(trail) /\ i <= Len(trail)
            BY <2>1, <4>1
          <5>2. (Root' < k /\ k < i) \/ (k <= Root' /\ i <= Root')
            <6>1. CASE trail_lim = <<>>
              BY <2>1, <2>3, <5>1, <6>1
            <6>2. CASE trail_lim # <<>>
              BY <2>3, <4>4, <6>2
            <6> QED BY <6>1, <6>2
          <5> QED BY <2>1, <4>4, <5>2
        <4> QED BY <1>0, <2>1, <2>2, <4>1, <4>3, <4>4, <4>5
      <3> QED BY <3>1, <3>2
    <2> QED BY <2>4 DEF ReasonsExplain
  <1> HIDE DEF Explained
  <1>1. ASSUME NEW v \in Amo, NEW b \in {"true", "false"}, Assign(v, b)
        PROVE  ReasonsExplain'
    <2>1. Enqueues(v, b) /\ by_amo' = by_amo /\ value[v] = "undef"
      BY <1>1 DEF Assign, Enqueues, Idle
    <2>2. v \notin by_amo'
      BY <2>1 DEF TrailInv
    <2>3. CASE true_var' = true_var
      BY <1>0, <2>1, <2>2, <2>3
    <2>4. CASE true_var' # true_var
      <3>1. true_var = NoVar
        BY <1>1, <2>4 DEF Assign, EnqueueTheory
      <3>2. \A i \in DOMAIN trail : trail[i] \notin by_amo
        BY <3>1 DEF ReasonsExplain
      <3>3. \A i \in DOMAIN trail' : trail'[i] = v \/ (i \in DOMAIN trail /\ trail'[i] = trail[i])
        BY <2>1, EnqueueFacts DEF Enqueues, UncheckedEnqueue
      <3> QED BY <2>1, <2>2, <3>2, <3>3 DEF ReasonsExplain
    <2> QED BY <2>3, <2>4
  <1>2. ASSUME NEW v \in Amo, Falsify(v) PROVE ReasonsExplain'
    <2>1. CASE value[v] = "undef"
      <3>1. /\ Enqueues(v, "false") /\ true_var' = true_var /\ cut = -1
            /\ true_var \in Amo /\ v # true_var
        BY <1>2, <2>1 DEF Falsify, Enqueues, LoopInv
      <3>2. ASSUME trail_lim # <<>>, NEW k \in DOMAIN trail, trail[k] = true_var
            PROVE  Root < k
        <4>1. 1 \in Kept /\ trail_lim[1] = Root /\ Root \in Nat
          BY <3>1, <3>2 DEF Kept, Root, TypeOK
        <4>2. k \in Nat
          BY DEF TypeOK
        <4>3. ~(k <= Root)
          BY <2>1, <3>1, <3>2, <4>1 DEF LevelsClosed, Closed, FieldInv
        <4> QED BY <4>1, <4>2, <4>3
      <3> QED BY <1>0, <3>1, <3>2
    <2>2. CASE value[v] # "undef"
      BY <1>2, <2>2 DEF Falsify, ReasonsExplain, Root
    <2> QED BY <2>1, <2>2
  <1>3. CASE TellFacts
    BY <1>3 DEF TellFacts, ReasonsExplain, Root
  <1>4. CASE Tell
    BY <1>4 DEF Tell, EnqueueTheory, ReasonsExplain, Root
  <1>5. ASSUME NEW n \in 1..Len(trail), TellAgain(n) PROVE ReasonsExplain'
    BY <1>5 DEF TellAgain, ReasonsExplain, Root
  <1>6. CASE PropagateTheory
    BY <1>6 DEF PropagateTheory, ReasonsExplain, Root
  <1>7. CASE PropagateTheoryNothing
    BY <1>7 DEF PropagateTheoryNothing, ReasonsExplain, Root
  <1>8. CASE PropagateTheoryConflict
    BY <1>8 DEF PropagateTheoryConflict, ReasonsExplain, Root
  <1>9. CASE NewDecisionLevel
    <2>1. Root' = Root
      <3>1. CASE trail_lim = <<>>
        BY <1>9, <3>1, NewLevelFacts DEF Root, NewDecisionLevel
      <3>2. CASE trail_lim # <<>>
        BY <1>9, <3>2, NewLevelFacts DEF Root, TypeOK
      <3> QED BY <3>1, <3>2
    <2> QED BY <1>9, <2>1 DEF NewDecisionLevel, ReasonsExplain
  <1>10. ASSUME NEW lev \in 0..(DecisionLevel - 1), CancelUntil(lev)
         PROVE  ReasonsExplain'
    BY <1>10 DEF CancelUntil, ReasonsExplain, Root
  <1>11. CASE Undo
    <2>1. /\ Root' = Root /\ Root = trail_lim[1] /\ Root \in Nat /\ Root < Len(trail)
      <3>1. 1 \in DOMAIN trail_lim /\ 1 <= cut + 1 /\ trail_lim # <<>>
        BY <1>11, UndoFacts, Undoing DEF TypeOK
      <3>2. trail_lim[1] \in Nat /\ trail_lim[1] <= trail_lim[cut + 1]
        BY <1>11, <3>1, UndoFacts DEF TrailInv, TypeOK
      <3>3. trail_lim' = trail_lim
        BY <1>11 DEF Undo
      <3> QED BY <1>11, <3>1, <3>2, <3>3, UndoFacts DEF Root
    <2>2. ASSUME NEW i \in DOMAIN trail', trail'[i] \in by_amo'
          PROVE  /\ true_var' \in Amo /\ value'[true_var'] = "true"
                 /\ value'[trail'[i]] = "false"
                 /\ \E k \in DOMAIN trail' : /\ trail'[k] = true_var'
                      /\ ((Root < k /\ k < i) \/ (k <= Root /\ i <= Root))
      <3>1. i \in DOMAIN trail /\ trail'[i] = trail[i] /\ trail[i] \in by_amo
        BY <1>11, <2>2, UndoFacts DEF Undo
      <3>2. Explained(i)
        BY <3>1 DEF ReasonsExplain, Explained
      <3>3. PICK k \in DOMAIN trail :
               trail[k] = true_var /\ ((Root < k /\ k < i) \/ (k <= Root /\ i <= Root))
        BY <3>2 DEF Explained
      <3>4. k \in DOMAIN trail' /\ trail'[k] = true_var
        BY <1>11, <2>1, <2>2, <3>3, UndoFacts
      <3>5. true_var' = true_var /\ true_var \in Amo \ {Newest}
        BY <1>11, <3>2, <3>3, <3>4, Undoing DEF Undo, UndecideTheory, Explained
      <3> QED BY <1>11, <2>2, <3>1, <3>2, <3>3, <3>4, <3>5, Undoing DEF Explained
    <2> QED BY <2>1, <2>2 DEF ReasonsExplain
  <1>12. CASE CutDone
    <2>1. Root' = Root
      <3>1. CASE cut = 0
        <4>1. trail_lim' = <<>> /\ Root = Len(trail)
          BY <1>12, <3>1, CutDoneFacts DEF CutDone, Root
        <4> QED BY <1>12, <4>1 DEF CutDone, Root
      <3>2. CASE cut # 0
        <4>1. 1 \in DOMAIN trail_lim' /\ trail_lim'[1] = trail_lim[1] /\ trail_lim' # <<>>
          BY <1>12, <3>2, CutDoneFacts
        <4> QED BY <1>12, <4>1, CutDoneFacts DEF Root
      <3> QED BY <3>1, <3>2
    <2> QED BY <1>12, <2>1 DEF CutDone, ReasonsExplain
  <1>13. CASE UNCHANGED vars
    BY <1>13 DEF vars, ReasonsExplain, Root
  <1> QED BY <1>1, <1>2, <1>3, <1>4, <1>5, <1>6, <1>7, <1>8, <1>9, <1>10, <1>11,
             <1>12, <1>13 DEF Next

(***************************************************************************)
(* The theorems.                                                           *)
(***************************************************************************)
LEMMA InitIInv == Init => IInv
  <1> SUFFICES ASSUME Init PROVE IInv
    OBVIOUS
  <1>1. TypeOK
    BY InitTypeOK
  <1>2. TrailInv /\ LevelsClosed
    BY DEF Init, TrailInv, LevelsClosed, Kept
  <1>3. LoopInv /\ OrderInv
    BY DEF Init, LoopInv, OrderInv
  <1>4. FieldInv /\ QueueInv
    BY AMOAssumption DEF Init, FieldInv, QueueInv, Fresh
  <1>5. ReasonsExplain
    BY DEF Init, ReasonsExplain
  <1> QED BY <1>1, <1>2, <1>3, <1>4, <1>5 DEF IInv

\* All parts of the invariant are kept together,
LEMMA NextIInv == IInv /\ [Next]_vars => IInv'
  BY NextTypeOK, NextLoopInv, NextTrailInv, NextLevelsClosed, NextFieldInv, NextQueueInv,
     NextOrderInv, NextReasonsExplain DEF IInv

\* so it holds always.
LEMMA Invariant == Spec => []IInv
  BY InitIInv, NextIInv, PTL DEF Spec

\* Every reachable state of the theory and its part of the trail is well typed.
THEOREM TypeCorrect == Spec => []TypeOK
  <1>1. IInv => TypeOK
    BY DEF IInv
  <1> QED BY <1>1, Invariant, PTL

\* undecideTheory's assertion holds: a variable in conflict is taken back before
\* the one it is in conflict with.
THEOREM AlwaysUndecidedFirst == Spec => []ConflictUndecidedFirst
  <1>1. IInv => ConflictUndecidedFirst
    <2> SUFFICES ASSUME IInv, Cutting, Newest = true_var, conflict_var # NoVar
                 PROVE  FALSE
      BY DEF ConflictUndecidedFirst
    <2>1. /\ trail_lim # <<>> /\ trail_lim[cut + 1] \in Nat
          /\ trail_lim[cut + 1] < Len(trail) /\ Len(trail) \in Nat
      BY DEF IInv, TypeOK, LoopInv, Cutting
    <2>2. conflict_var \in Amo
      BY DEF IInv, TypeOK
    <2>3. PICK c \in DOMAIN trail : trail[c] = conflict_var
      BY <2>2 DEF IInv, FieldInv, TrailInv
    <2>4. PICK k \in DOMAIN trail : k < c /\ trail[k] = true_var
      BY <2>1, <2>3 DEF IInv, OrderInv
    <2>5. DOMAIN trail = 1..Len(trail)
      BY DEF IInv, TypeOK
    <2>6. k # Len(trail) /\ Len(trail) \in DOMAIN trail
      BY <2>1, <2>3, <2>4, <2>5
    <2> QED BY <2>4, <2>6 DEF IInv, TrailInv, Newest
  <1> QED BY <1>1, Invariant, PTL

\* Whenever buildReason is asked, the reason it builds from true_var explains the
\* variable: true_var became true before the theory made the variable false.
THEOREM ReasonsAlwaysExplain == Spec => []ReasonsExplain
  <1>1. IInv => ReasonsExplain
    BY DEF IInv
  <1> QED BY <1>1, Invariant, PTL

\* A step that changes no value leaves the promise kept: the verdict it ends in
\* is one the values allow.
LEMMA VerdictAllowed ==
  ASSUME IInv', UNCHANGED value PROVE Promise!Next
  <1>1. CASE pending'
    <2>1. Promise!TwoTrue'
      BY <1>1 DEF IInv, FieldInv, Promise!TwoTrue
    <2> QED BY <1>1, <2>1 DEF Promise!Next, Promise!Refute, Promise!TwoTrue
  <1>2. CASE ~pending' /\ Idle' /\ ~queued' /\ ~initialPropagate'
    <2>1. Promise!Complete'
      BY <1>2, Settled, PTL DEF IInv
    <2> QED BY <1>2, <2>1 DEF Promise!Next, Promise!Settle, Promise!Complete
  <1>3. CASE ~pending' /\ ~(Idle' /\ ~queued' /\ ~initialPropagate')
    BY <1>3 DEF Promise!Next, Promise!Reopen
  <1> QED BY <1>1, <1>2, <1>3

\* A step is one the abstract constraint allows.
LEMMA StepsKeepPromise == IInv /\ IInv' /\ [Next]_vars => Promise!Next
  <1> SUFFICES ASSUME IInv, IInv', [Next]_vars PROVE Promise!Next
    OBVIOUS
  <1> USE DEF assignment, queue, loops, fields
  <1>1. ASSUME NEW v \in Amo, NEW b \in {"true", "false"}, Assign(v, b)
        PROVE  Promise!Next
    <2>1. /\ ~pending /\ ~pending' /\ queued' /\ value[v] = "undef"
          /\ value' = [value EXCEPT ![v] = b]
      BY <1>1 DEF Assign, UncheckedEnqueue, Idle
    <2>2. Promise!Give(v, b)
      BY <2>1 DEF Promise!Give
    <2> QED BY <2>2 DEF Promise!Next
  <1>2. ASSUME NEW v \in Amo, Falsify(v), value[v] = "undef" PROVE Promise!Next
    <2>1. /\ ~pending' /\ queued' /\ value' = [value EXCEPT ![v] = "false"]
          /\ true_var \in Amo \ {v} /\ value[true_var] = "true"
      BY <1>2 DEF Falsify, UncheckedEnqueue, IInv, LoopInv, FieldInv
    <2>2. Promise!Imply(v)
      BY <1>2, <2>1 DEF Promise!Imply
    <2> QED BY <2>2 DEF Promise!Next
  <1>3. CASE Undo
    <2>1. /\ ~pending' /\ ~Idle' /\ Newest \in Amo /\ value[Newest] # "undef"
          /\ value' = [value EXCEPT ![Newest] = "undef"]
      BY <1>3, UndoFacts, Undoing DEF IInv, Undo, Cutting, Idle, TrailInv
    <2>2. Promise!TakeBack(Newest)
      BY <2>1 DEF Promise!TakeBack
    <2> QED BY <2>1, <2>2 DEF Promise!Next
  <1>4. ASSUME NEW v \in Amo, Falsify(v), value[v] # "undef" PROVE UNCHANGED value
    BY <1>4 DEF Falsify
  <1>5. TellFacts \/ Tell \/ (\E n \in 1..Len(trail) : TellAgain(n)) => UNCHANGED value
    BY DEF TellFacts, Tell, TellAgain
  <1>6. PropagateTheory \/ PropagateTheoryNothing \/ PropagateTheoryConflict
        => UNCHANGED value
    BY DEF PropagateTheory, PropagateTheoryNothing, PropagateTheoryConflict
  <1>7. NewDecisionLevel \/ CutDone \/ UNCHANGED vars
          \/ (\E lev \in 0..(DecisionLevel - 1) : CancelUntil(lev)) => UNCHANGED value
    BY DEF NewDecisionLevel, CutDone, CancelUntil, vars
  <1> QED BY <1>1, <1>2, <1>3, <1>4, <1>5, <1>6, <1>7, VerdictAllowed DEF Next

\* Below the solver, whatever it assigns, takes back and in whatever order, the
\* theory is an at-most-one theory: complete whenever propagation ends.
THEOREM Refinement == Spec => KeepsPromise
  <1>1. Init => Promise!Init
    BY DEF Init, Promise!Init
  <1> QED BY <1>1, StepsKeepPromise, NextIInv, Invariant, PTL
          DEF Spec, KeepsPromise, Promise!Spec
=============================================================================
