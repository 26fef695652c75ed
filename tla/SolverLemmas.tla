---------------------------- MODULE SolverLemmas ----------------------------
(***************************************************************************)
(* Lemmas about the operators of Trail, Clauses and Analysis: what each    *)
(* promises of the trail, the clauses and the state of an analysis.        *)
(***************************************************************************)
EXTENDS Analysis, TLAPS, WellFoundedInduction, NaturalsInduction, FiniteSetTheorems,
        SequenceTheorems

-----------------------------------------------------------------------------
(***************************************************************************)
(* Literals.                                                               *)
(***************************************************************************)
LEMMA LitFacts ==
    ASSUME NEW p \in Lit
    PROVE  /\ p \in Int /\ -p \in Lit /\ -(-p) = p /\ p # -p /\ p # 0
           /\ VarOf(p) \in Var /\ VarOf(-p) = VarOf(p) /\ (HasTheory(-p) <=> HasTheory(p))
           /\ \A q \in Lit : VarOf(q) = VarOf(p) => q = p \/ q = -p
  <1>1. p \in Int /\ -p \in Lit /\ -(-p) = p /\ p # -p /\ p # 0 /\ VarOf(p) \in Var
    BY TrailAssumption DEF Lit, Var, VarOf
  <1>2. VarOf(-p) = VarOf(p)
    BY <1>1 DEF VarOf
  <1>3. \A q \in Lit : VarOf(q) = VarOf(p) => q = p \/ q = -p
    BY TrailAssumption DEF Lit, Var, VarOf
  <1> QED BY <1>1, <1>2, <1>3 DEF HasTheory

LEMMA VarFinite == IsFiniteSet(Var) /\ Cardinality(Var) = NVars
  BY FS_Interval, TrailAssumption, 1 \in Int DEF Var

-----------------------------------------------------------------------------
(***************************************************************************)
(* Induction over the natural numbers, for sets of them.                   *)
(***************************************************************************)
LEMMA Smallest ==
    ASSUME NEW T, T \subseteq Nat, T # {}
    PROVE  \E n \in T : \A m \in T : n <= m
  <1>1. PICK n \in T : \A m \in T : ~(<<m, n>> \in OpToRel(<, Nat))
    BY NatLessThanWellFounded, WFMin
  <1>2. \A m \in T : ~(m < n)
    BY <1>1 DEF OpToRel
  <1>3. \A m \in T : m \in Nat
    OBVIOUS
  <1>4. \A m \in T : n <= m
    BY <1>2, <1>3
  <1> QED BY <1>4

\* A set with zero that has every successor has all of them.
LEMMA NatSet ==
    ASSUME NEW S, 0 \in S, \A n \in Nat : n \in S => n + 1 \in S
    PROVE  \A n \in Nat : n \in S
  <1> SUFFICES ASSUME Nat \ S # {} PROVE FALSE
    OBVIOUS
  <1>1. PICK n \in Nat \ S : \A m \in Nat \ S : n <= m
    BY Smallest
  <1> QED BY <1>1, n - 1 \in Nat, n # 0

\* The same up to a bound.
LEMMA UpTo ==
    ASSUME NEW n \in Nat, NEW S, 0 \in S, \A i \in 1..n : i - 1 \in S => i \in S
    PROVE  \A i \in 0..n : i \in S
  <1> DEFINE R == {i \in Nat : i <= n => i \in S}
  <1>1. 0 \in R
    OBVIOUS
  <1>2. ASSUME NEW i \in Nat, i \in R PROVE i + 1 \in R
    BY <1>2, (i + 1) - 1 = i
  <1> HIDE DEF R
  <1>3. \A i \in Nat : i \in R
    BY <1>1, <1>2, NatSet
  <1> QED BY <1>3 DEF R

-----------------------------------------------------------------------------
(***************************************************************************)
(* The loops of the solver, one element after the other.                   *)
(***************************************************************************)
Turn(kind, data, a, x) ==
    CASE kind = "keep" -> (IF x \in data THEN Append(a, x) ELSE a)
      [] kind = "tell" -> Tell(a, x)
      [] kind = "reenqueue" -> Reenqueue(a, x)
      [] kind = "watcher" -> VisitWatcher(data, a, x)
      [] kind = "unit" -> (IF a.confl # CRef_Undef \/ a.c.qhead >= Len(a.c.trail)
                           THEN a ELSE PropagateLit(a.c))
      [] kind = "meet" -> Meet(a, x)
      [] kind = "visit" -> Visit(data, a, x)
      [] kind = "grow" -> RestsOn(data[1], data[2], a)
      [] kind = "final" -> VisitFinal(data, a, x)
      [] OTHER -> NewDecisionLevel(a)

Turns(f, kind, data, b, s, n) ==
    f = [i \in 0..n |-> IF i = 0 THEN b ELSE Turn(kind, data, f[i - 1], s[i])]

\* The loops, by name.
TellAll(c, s) == Fold(Tell, c, s)
RequeueAll(c, s) == Fold(Reenqueue, c, s)
MeetAll(a, s) == Fold(Meet, a, s)
VisitAll(lemmas, a, s) == Fold(LAMBDA x, y : Visit(lemmas, x, y), a, s)
FinalAll(lemmas, a, s) == Fold(LAMBDA x, y : VisitFinal(lemmas, x, y), a, s)
WatcherAll(p, a, s) == Fold(LAMBDA x, w : VisitWatcher(p, x, w), a, s)

\* The function that defines a loop exists.
LEMMA TurnsExist ==
    ASSUME NEW kind, NEW data, NEW b, NEW s
    PROVE  \A n \in Nat : \E f : Turns(f, kind, data, b, s, n)
  <1> DEFINE T(a, x) == Turn(kind, data, a, x)
             G == {n \in Nat : \E f : f = [i \in 0..n |-> IF i = 0 THEN b ELSE T(f[i - 1], s[i])]}
  <1> HIDE DEF T
  <1>1. 0 \in G
    <2> DEFINE f == [i \in 0..0 |-> b]
    <2>1. f = [i \in 0..0 |-> IF i = 0 THEN b ELSE T(f[i - 1], s[i])]
      OBVIOUS
    <2> HIDE DEF f
    <2> QED BY <2>1
  <1>2. ASSUME NEW n \in Nat, n \in G PROVE n + 1 \in G
    <2>1. PICK f : f = [i \in 0..n |-> IF i = 0 THEN b ELSE T(f[i - 1], s[i])]
      BY <1>2
    <2> DEFINE h == [i \in 0..(n + 1) |-> IF i = n + 1 THEN T(f[n], s[i]) ELSE f[i]]
    <2>2. ASSUME NEW i \in 0..(n + 1)
          PROVE  h[i] = IF i = 0 THEN b ELSE T(h[i - 1], s[i])
      <3>1. CASE i = 0
        BY <2>1, <3>1, 0 \in 0..n, 0 # n + 1
      <3>2. CASE i # 0 /\ i # n + 1
        <4>1. i \in 0..n /\ i - 1 \in 0..n /\ i - 1 # n + 1 /\ i - 1 \in 0..(n + 1)
          BY <3>2
        <4>2. h[i] = f[i] /\ h[i - 1] = f[i - 1]
          BY <3>2, <4>1
        <4>3. f[i] = IF i = 0 THEN b ELSE T(f[i - 1], s[i])
          BY <2>1, <4>1
        <4> HIDE DEF h
        <4> QED BY <3>2, <4>2, <4>3
      <3>3. CASE i = n + 1
        <4>1. i - 1 = n /\ n \in 0..(n + 1) /\ n # n + 1 /\ i # 0
          BY <3>3
        <4> QED BY <3>3, <4>1
      <3> QED BY <3>1, <3>2, <3>3
    <2>3. h = [i \in 0..(n + 1) |-> h[i]]
      OBVIOUS
    <2> HIDE DEF h
    <2>4. h = [i \in 0..(n + 1) |-> IF i = 0 THEN b ELSE T(h[i - 1], s[i])]
      BY <2>2, <2>3
    <2> QED BY <2>4
  <1> HIDE DEF G
  <1>3. \A n \in Nat : n \in G
    BY <1>1, <1>2, NatSet
  <1> QED BY <1>3 DEF G, T, Turns

LEMMA KeepTurns ==
    ASSUME NEW T, NEW s \in Seq(T), NEW S
    PROVE  \E f : /\ f[0] = <<>> /\ Keep(s, S) = f[Len(s)]
                  /\ \A i \in 1..Len(s) : f[i] = IF s[i] \in S THEN Append(f[i - 1], s[i]) ELSE f[i - 1]
  <1> DEFINE B(f) == f = [i \in 0..Len(s) |-> IF i = 0 THEN <<>> ELSE IF s[i] \in S THEN Append(f[i - 1], s[i]) ELSE f[i - 1]]
             k == CHOOSE f : B(f)
  <1>1. Len(s) \in Nat
    OBVIOUS
  <1>2. PICK f : Turns(f, "keep", S, <<>>, s, Len(s))
    BY <1>1, TurnsExist
  <1>3. B(f)
    BY <1>2 DEF Turns, Turn
  <1>4. B(k)
    BY <1>3
  <1>5. Keep(s, S) = k[Len(s)]
    BY DEF Fold, Keep
  <1> HIDE DEF k
  <1>6. k[0] = <<>>
    BY <1>1, <1>4, 0 \in 0..Len(s)
  <1>7. ASSUME NEW i \in 1..Len(s) PROVE k[i] = IF s[i] \in S THEN Append(k[i - 1], s[i]) ELSE k[i - 1]
    BY <1>1, <1>4, i \in 0..Len(s), i # 0
  <1> QED BY <1>5, <1>6, <1>7

LEMMA ToldTurns ==
    ASSUME NEW T, NEW s \in Seq(T), NEW c
    PROVE  \E f : /\ f[0] = c /\ TellAll(c, s) = f[Len(s)]
                  /\ \A i \in 1..Len(s) : f[i] = Tell(f[i - 1], s[i])
  <1> DEFINE B(f) == f = [i \in 0..Len(s) |-> IF i = 0 THEN c ELSE Tell(f[i - 1], s[i])]
             k == CHOOSE f : B(f)
  <1>1. Len(s) \in Nat
    OBVIOUS
  <1>2. PICK f : Turns(f, "tell", 0, c, s, Len(s))
    BY <1>1, TurnsExist
  <1>3. B(f)
    BY <1>2 DEF Turns, Turn
  <1>4. B(k)
    BY <1>3
  <1>5. TellAll(c, s) = k[Len(s)]
    BY DEF TellAll, Fold
  <1> HIDE DEF k
  <1>6. k[0] = c
    BY <1>1, <1>4, 0 \in 0..Len(s)
  <1>7. ASSUME NEW i \in 1..Len(s) PROVE k[i] = Tell(k[i - 1], s[i])
    BY <1>1, <1>4, i \in 0..Len(s), i # 0
  <1> QED BY <1>5, <1>6, <1>7

LEMMA ReenqueueTurns ==
    ASSUME NEW T, NEW s \in Seq(T), NEW c
    PROVE  \E f : /\ f[0] = c /\ RequeueAll(c, s) = f[Len(s)]
                  /\ \A i \in 1..Len(s) : f[i] = Reenqueue(f[i - 1], s[i])
  <1> DEFINE B(f) == f = [i \in 0..Len(s) |-> IF i = 0 THEN c ELSE Reenqueue(f[i - 1], s[i])]
             k == CHOOSE f : B(f)
  <1>1. Len(s) \in Nat
    OBVIOUS
  <1>2. PICK f : Turns(f, "reenqueue", 0, c, s, Len(s))
    BY <1>1, TurnsExist
  <1>3. B(f)
    BY <1>2 DEF Turns, Turn
  <1>4. B(k)
    BY <1>3
  <1>5. RequeueAll(c, s) = k[Len(s)]
    BY DEF RequeueAll, Fold
  <1> HIDE DEF k
  <1>6. k[0] = c
    BY <1>1, <1>4, 0 \in 0..Len(s)
  <1>7. ASSUME NEW i \in 1..Len(s) PROVE k[i] = Reenqueue(k[i - 1], s[i])
    BY <1>1, <1>4, i \in 0..Len(s), i # 0
  <1> QED BY <1>5, <1>6, <1>7

LEMMA MeetTurns ==
    ASSUME NEW T, NEW s \in Seq(T), NEW a
    PROVE  \E f : /\ f[0] = a /\ MeetAll(a, s) = f[Len(s)]
                  /\ \A i \in 1..Len(s) : f[i] = Meet(f[i - 1], s[i])
  <1> DEFINE B(f) == f = [i \in 0..Len(s) |-> IF i = 0 THEN a ELSE Meet(f[i - 1], s[i])]
             k == CHOOSE f : B(f)
  <1>1. Len(s) \in Nat
    OBVIOUS
  <1>2. PICK f : Turns(f, "meet", 0, a, s, Len(s))
    BY <1>1, TurnsExist
  <1>3. B(f)
    BY <1>2 DEF Turns, Turn
  <1>4. B(k)
    BY <1>3
  <1>5. MeetAll(a, s) = k[Len(s)]
    BY DEF MeetAll, Fold
  <1> HIDE DEF k
  <1>6. k[0] = a
    BY <1>1, <1>4, 0 \in 0..Len(s)
  <1>7. ASSUME NEW i \in 1..Len(s) PROVE k[i] = Meet(k[i - 1], s[i])
    BY <1>1, <1>4, i \in 0..Len(s), i # 0
  <1> QED BY <1>5, <1>6, <1>7

LEMMA VisitTurns ==
    ASSUME NEW T, NEW s \in Seq(T), NEW lemmas, NEW a
    PROVE  \E f : /\ f[0] = a /\ VisitAll(lemmas, a, s) = f[Len(s)]
                  /\ \A i \in 1..Len(s) : f[i] = Visit(lemmas, f[i - 1], s[i])
  <1> DEFINE B(f) == f = [i \in 0..Len(s) |-> IF i = 0 THEN a ELSE Visit(lemmas, f[i - 1], s[i])]
             k == CHOOSE f : B(f)
  <1>1. Len(s) \in Nat
    OBVIOUS
  <1>2. PICK f : Turns(f, "visit", lemmas, a, s, Len(s))
    BY <1>1, TurnsExist
  <1>3. B(f)
    BY <1>2 DEF Turns, Turn
  <1>4. B(k)
    BY <1>3
  <1>5. VisitAll(lemmas, a, s) = k[Len(s)]
    BY DEF VisitAll, Fold
  <1> HIDE DEF k
  <1>6. k[0] = a
    BY <1>1, <1>4, 0 \in 0..Len(s)
  <1>7. ASSUME NEW i \in 1..Len(s) PROVE k[i] = Visit(lemmas, k[i - 1], s[i])
    BY <1>1, <1>4, i \in 0..Len(s), i # 0
  <1> QED BY <1>5, <1>6, <1>7

LEMMA FinalTurns ==
    ASSUME NEW T, NEW s \in Seq(T), NEW lemmas, NEW a
    PROVE  \E f : /\ f[0] = a /\ FinalAll(lemmas, a, s) = f[Len(s)]
                  /\ \A i \in 1..Len(s) : f[i] = VisitFinal(lemmas, f[i - 1], s[i])
  <1> DEFINE B(f) == f = [i \in 0..Len(s) |-> IF i = 0 THEN a ELSE VisitFinal(lemmas, f[i - 1], s[i])]
             k == CHOOSE f : B(f)
  <1>1. Len(s) \in Nat
    OBVIOUS
  <1>2. PICK f : Turns(f, "final", lemmas, a, s, Len(s))
    BY <1>1, TurnsExist
  <1>3. B(f)
    BY <1>2 DEF Turns, Turn
  <1>4. B(k)
    BY <1>3
  <1>5. FinalAll(lemmas, a, s) = k[Len(s)]
    BY DEF FinalAll, Fold
  <1> HIDE DEF k
  <1>6. k[0] = a
    BY <1>1, <1>4, 0 \in 0..Len(s)
  <1>7. ASSUME NEW i \in 1..Len(s) PROVE k[i] = VisitFinal(lemmas, k[i - 1], s[i])
    BY <1>1, <1>4, i \in 0..Len(s), i # 0
  <1> QED BY <1>5, <1>6, <1>7

LEMMA WatcherTurns ==
    ASSUME NEW T, NEW s \in Seq(T), NEW p, NEW a
    PROVE  \E f : /\ f[0] = a /\ WatcherAll(p, a, s) = f[Len(s)]
                  /\ \A i \in 1..Len(s) : f[i] = VisitWatcher(p, f[i - 1], s[i])
  <1> DEFINE B(f) == f = [i \in 0..Len(s) |-> IF i = 0 THEN a ELSE VisitWatcher(p, f[i - 1], s[i])]
             k == CHOOSE f : B(f)
  <1>1. Len(s) \in Nat
    OBVIOUS
  <1>2. PICK f : Turns(f, "watcher", p, a, s, Len(s))
    BY <1>1, TurnsExist
  <1>3. B(f)
    BY <1>2 DEF Turns, Turn
  <1>4. B(k)
    BY <1>3
  <1>5. WatcherAll(p, a, s) = k[Len(s)]
    BY DEF WatcherAll, Fold
  <1> HIDE DEF k
  <1>6. k[0] = a
    BY <1>1, <1>4, 0 \in 0..Len(s)
  <1>7. ASSUME NEW i \in 1..Len(s) PROVE k[i] = VisitWatcher(p, k[i - 1], s[i])
    BY <1>1, <1>4, i \in 0..Len(s), i # 0
  <1> QED BY <1>5, <1>6, <1>7

-----------------------------------------------------------------------------
(***************************************************************************)
(* Sequences.                                                              *)
(***************************************************************************)
Distinct(s) == \A i, j \in DOMAIN s : s[i] = s[j] => i = j

\* e takes the places of q to those, in the first n of s, of the elements in S.
Embeds(e, q, s, S, n) ==
    /\ e \in [1..Len(q) -> 1..n]
    /\ \A j \in 1..Len(q) : q[j] = s[e[j]] /\ q[j] \in S
    /\ \A j, l \in 1..Len(q) : j < l => e[j] < e[l]
    /\ \A m \in 1..n : s[m] \in S => \E j \in 1..Len(q) : e[j] = m

LEMMA RangeFacts ==
    ASSUME NEW T, NEW s \in Seq(T)
    PROVE  /\ Len(s) \in Nat /\ DOMAIN s = 1..Len(s) /\ Range(s) \subseteq T
           /\ \A x : x \in Range(s) <=> \E i \in 1..Len(s) : s[i] = x
           /\ \A i \in 1..Len(s) : s[i] \in Range(s) /\ s[i] \in T
  BY DEF Range

LEMMA KeepStep ==
    ASSUME NEW T, NEW s \in Seq(T), NEW S, NEW n \in 1..Len(s),
           NEW q \in Seq(T), NEW e, Embeds(e, q, s, S, n - 1), s[n] \in S
    PROVE  /\ Append(q, s[n]) \in Seq(T)
           /\ \E g : Embeds(g, Append(q, s[n]), s, S, n)
  <1> DEFINE k == Len(q)
             r == Append(q, s[n])
             g == [j \in 1..(k + 1) |-> IF j = k + 1 THEN n ELSE e[j]]
  <1>1. s[n] \in T /\ k \in Nat /\ n \in Nat /\ n >= 1
    BY RangeFacts
  <1>2. r \in Seq(T) /\ Len(r) = k + 1 /\ r[k + 1] = s[n] /\ \A j \in 1..k : r[j] = q[j]
    BY <1>1
  <1>3. \A j \in 1..k : e[j] \in 1..(n - 1) /\ q[j] = s[e[j]] /\ q[j] \in S
    BY DEF Embeds
  <1> HIDE DEF r
  <1>4. \A j \in 1..(k + 1) : j = k + 1 \/ j \in 1..k
    BY <1>1
  <1>5. \A j \in 1..k : g[j] = e[j]
    BY <1>1
  <1>6. g[k + 1] = n
    BY <1>1
  <1>7. g \in [1..(k + 1) -> 1..n]
    <2>1. ASSUME NEW j \in 1..(k + 1) PROVE (IF j = k + 1 THEN n ELSE e[j]) \in 1..n
      BY <1>1, <1>3, <1>4
    <2> QED BY <2>1
  <1> HIDE DEF g
  <1>8. ASSUME NEW j \in 1..(k + 1) PROVE r[j] = s[g[j]] /\ r[j] \in S
    BY <1>2, <1>3, <1>4, <1>5, <1>6
  <1>9. ASSUME NEW j \in 1..(k + 1), NEW l \in 1..(k + 1), j < l PROVE g[j] < g[l]
    <2>1. j \in 1..k
      BY <1>1, <1>9
    <2>2. CASE l \in 1..k
      BY <1>5, <1>9, <2>1, <2>2 DEF Embeds
    <2>3. CASE l = k + 1
      <3>1. e[j] \in 1..(n - 1)
        BY <1>3, <2>1
      <3> QED BY <1>1, <1>5, <1>6, <2>1, <2>3, <3>1
    <2> QED BY <1>4, <2>2, <2>3
  <1>10. ASSUME NEW m \in 1..n, s[m] \in S PROVE \E j \in 1..(k + 1) : g[j] = m
    <2>1. CASE m = n
      BY <1>1, <1>6, <2>1
    <2>2. CASE m # n
      <3>1. m \in 1..(n - 1)
        BY <1>1, <2>2
      <3>2. PICK j \in 1..k : e[j] = m
        BY <1>10, <3>1 DEF Embeds
      <3> QED BY <1>1, <1>5, <3>2
    <2> QED BY <2>1, <2>2
  <1>11. Embeds(g, r, s, S, n)
    BY <1>2, <1>7, <1>8, <1>9, <1>10 DEF Embeds
  <1> QED BY <1>2, <1>11 DEF r

LEMMA KeepEmbeds ==
    ASSUME NEW T, NEW s \in Seq(T), NEW S
    PROVE  Keep(s, S) \in Seq(T) /\ \E e : Embeds(e, Keep(s, S), s, S, Len(s))
  <1> DEFINE n == Len(s)
  <1>1. n \in Nat
    OBVIOUS
  <1>2. PICK f : /\ f[0] = <<>> /\ Keep(s, S) = f[n]
                 /\ \A i \in 1..n : f[i] = IF s[i] \in S THEN Append(f[i - 1], s[i]) ELSE f[i - 1]
    BY KeepTurns
  <1> DEFINE R == {i \in 0..n : f[i] \in Seq(T) /\ \E e : Embeds(e, f[i], s, S, i)}
  <1>3. 0 \in R
    <2> DEFINE e0 == [j \in 1..0 |-> 1]
    <2>1. f[0] \in Seq(T) /\ Len(f[0]) = 0
      BY <1>2
    <2>2. Embeds(e0, f[0], s, S, 0)
      BY <2>1 DEF Embeds
    <2> QED BY <1>1, <2>1, <2>2
  <1>4. ASSUME NEW i \in 1..n, i - 1 \in R PROVE i \in R
    <2>1. f[i - 1] \in Seq(T) /\ i \in 0..n
      BY <1>4
    <2>2. PICK e : Embeds(e, f[i - 1], s, S, i - 1)
      BY <1>4
    <2>3. CASE s[i] \in S
      <3>1. f[i] = Append(f[i - 1], s[i])
        BY <1>2, <2>3
      <3>2. Append(f[i - 1], s[i]) \in Seq(T) /\ \E g : Embeds(g, Append(f[i - 1], s[i]), s, S, i)
        BY <2>1, <2>2, <2>3, KeepStep
      <3> QED BY <2>1, <3>1, <3>2
    <2>4. CASE s[i] \notin S
      <3>1. f[i] = f[i - 1]
        BY <1>2, <2>4
      <3>2. \A m \in 1..i : s[m] \in S => m \in 1..(i - 1)
        BY <2>4
      <3>3. \A m \in 1..(i - 1) : m \in 1..i
        OBVIOUS
      <3>4. Embeds(e, f[i], s, S, i)
        BY <2>2, <3>1, <3>2, <3>3 DEF Embeds
      <3> QED BY <2>1, <3>1, <3>4
    <2> QED BY <2>3, <2>4
  <1> HIDE DEF R
  <1>5. \A i \in 0..n : i \in R
    <2> HIDE DEF n
    <2> QED BY <1>1, <1>3, <1>4, UpTo
  <1>6. n \in R
    BY <1>1, <1>5
  <1> QED BY <1>2, <1>6 DEF R

LEMMA KeepFacts ==
    ASSUME NEW T, NEW s \in Seq(T), NEW S
    PROVE  /\ Keep(s, S) \in Seq(T) /\ Len(Keep(s, S)) \in Nat
           /\ Range(Keep(s, S)) = Range(s) \cap S
           /\ Distinct(s) => Distinct(Keep(s, S))
           /\ s # <<>> /\ s[1] \in S => Len(Keep(s, S)) >= 1 /\ Keep(s, S)[1] = s[1]
  <1> DEFINE q == Keep(s, S)
             k == Len(q)
             n == Len(s)
  <1>1. q \in Seq(T) /\ k \in Nat /\ n \in Nat /\ DOMAIN q = 1..k /\ DOMAIN s = 1..n
    BY KeepEmbeds
  <1>2. PICK e : Embeds(e, q, s, S, n)
    BY KeepEmbeds
  <1> HIDE DEF q
  <1>3. /\ \A j \in 1..k : e[j] \in 1..n
        /\ \A j \in 1..k : q[j] = s[e[j]] /\ q[j] \in S
        /\ \A j, l \in 1..k : j < l => e[j] < e[l]
        /\ \A m \in 1..n : s[m] \in S => \E j \in 1..k : e[j] = m
    BY <1>2 DEF Embeds
  <1>4. ASSUME NEW x \in Range(q) PROVE x \in Range(s) \cap S
    <2>1. PICK j \in 1..k : q[j] = x
      BY <1>1, RangeFacts
    <2> QED BY <1>1, <1>3, <2>1, RangeFacts
  <1>5. ASSUME NEW x \in Range(s), x \in S PROVE x \in Range(q)
    <2>1. PICK m \in 1..n : s[m] = x
      BY RangeFacts
    <2>2. PICK j \in 1..k : e[j] = m
      BY <1>3, <1>5, <2>1
    <2> QED BY <1>1, <1>3, <2>1, <2>2, RangeFacts
  <1>6. ASSUME Distinct(s) PROVE Distinct(q)
    <2> SUFFICES ASSUME NEW i \in 1..k, NEW j \in 1..k, q[i] = q[j] PROVE i = j
      BY <1>1 DEF Distinct
    <2>1. e[i] = e[j]
      BY <1>1, <1>3, <1>6 DEF Distinct
    <2>2. e[i] \in Int /\ e[j] \in Int /\ i \in Int /\ j \in Int
      BY <1>3
    <2>3. ~(i < j) /\ ~(j < i)
      BY <1>3, <2>1, <2>2
    <2> QED BY <2>2, <2>3
  <1>7. ASSUME s # <<>>, s[1] \in S PROVE k >= 1 /\ q[1] = s[1]
    <2>1. 1 \in 1..n
      BY <1>7
    <2>2. PICK j \in 1..k : e[j] = 1
      BY <1>3, <1>7, <2>1
    <2>3. k >= 1 /\ 1 \in 1..k
      BY <1>1, <2>2
    <2>4. e[1] \in 1..n
      BY <1>3, <2>3
    <2>5. j = 1
      <3>1. CASE 1 < j
        BY <1>3, <2>2, <2>3, <2>4, <3>1
      <3> QED BY <2>2, <3>1
    <2> QED BY <1>3, <2>2, <2>3, <2>5
  <1>8. Range(q) = Range(s) \cap S
    BY <1>4, <1>5
  <1> QED BY <1>1, <1>6, <1>7, <1>8 DEF q

LEMMA AppendFacts ==
    ASSUME NEW T, NEW s \in Seq(T), NEW x \in T
    PROVE  /\ Append(s, x) \in Seq(T) /\ Len(Append(s, x)) = Len(s) + 1
           /\ Append(s, x)[Len(s) + 1] = x
           /\ \A i \in 1..Len(s) : Append(s, x)[i] = s[i]
           /\ Range(Append(s, x)) = Range(s) \cup {x}
           /\ Distinct(s) /\ x \notin Range(s) => Distinct(Append(s, x))
  <1> DEFINE t == Append(s, x)
             n == Len(s)
  <1>1. /\ t \in Seq(T) /\ Len(t) = n + 1 /\ n \in Nat /\ t[n + 1] = x
        /\ \A i \in 1..n : t[i] = s[i]
    OBVIOUS
  <1>2. DOMAIN s = 1..n /\ DOMAIN t = 1..(n + 1)
    OBVIOUS
  <1> HIDE DEF t
  <1>3. \A i \in 1..(n + 1) : i = n + 1 \/ i \in 1..n
    BY <1>1
  <1>4. \A i \in 1..n : i \in 1..(n + 1)
    BY <1>1
  <1>5. Range(t) = Range(s) \cup {x}
    <2>1. n + 1 \in 1..(n + 1)
      BY <1>1
    <2> QED BY <1>1, <1>2, <1>3, <1>4, <2>1 DEF Range
  <1>6. Distinct(s) /\ x \notin Range(s) => Distinct(t)
    BY <1>1, <1>2, <1>3 DEF Distinct, Range
  <1> QED BY <1>1, <1>5, <1>6 DEF t

LEMMA SubFacts ==
    ASSUME NEW T, NEW s \in Seq(T), NEW m \in Nat, NEW n \in Nat, m <= n, n <= Len(s)
    PROVE  /\ SubSeq(s, m + 1, n) \in Seq(T) /\ Len(SubSeq(s, m + 1, n)) = n - m
           /\ \A i \in 1..(n - m) : SubSeq(s, m + 1, n)[i] = s[m + i]
  <1>1. \A i \in (m + 1)..n : s[i] \in T
    OBVIOUS
  <1> QED BY <1>1

LEMMA PrefixFacts ==
    ASSUME NEW T, NEW s \in Seq(T), NEW n \in Nat, n <= Len(s)
    PROVE  /\ SubSeq(s, 1, n) \in Seq(T) /\ Len(SubSeq(s, 1, n)) = n
           /\ \A i \in 1..n : SubSeq(s, 1, n)[i] = s[i]
  OBVIOUS

LEMMA ConcatFacts ==
    ASSUME NEW T, NEW s \in Seq(T), NEW r \in Seq(T)
    PROVE  /\ s \o r \in Seq(T) /\ Len(s \o r) = Len(s) + Len(r)
           /\ \A i \in 1..Len(s) : (s \o r)[i] = s[i]
           /\ \A i \in 1..Len(r) : (s \o r)[Len(s) + i] = r[i]
  OBVIOUS

LEMMA TailFacts ==
    ASSUME NEW T, NEW s \in Seq(T), Len(s) >= 1
    PROVE  /\ Tail(s) \in Seq(T) /\ Len(Tail(s)) = Len(s) - 1
           /\ \A i \in 1..(Len(s) - 1) : Tail(s)[i] = s[i + 1]
           /\ Range(s) = {s[1]} \cup Range(Tail(s))
           /\ Distinct(s) => Distinct(Tail(s)) /\ s[1] \notin Range(Tail(s))
  <1> DEFINE t == Tail(s)
             n == Len(s)
  <1>1. /\ t \in Seq(T) /\ Len(t) = n - 1 /\ \A i \in 1..(n - 1) : t[i] = s[i + 1]
        /\ n \in Nat /\ n >= 1 /\ DOMAIN s = 1..n /\ DOMAIN t = 1..(n - 1)
    OBVIOUS
  <1> HIDE DEF t
  <1>2. \A i \in 1..n : i = 1 \/ (i - 1 \in 1..(n - 1) /\ (i - 1) + 1 = i)
    BY <1>1
  <1>3. \A i \in 1..(n - 1) : i + 1 \in 1..n /\ i + 1 # 1 /\ i \in Int
    BY <1>1
  <1>4. 1 \in 1..n
    BY <1>1
  <1>5. ASSUME NEW x \in Range(s) PROVE x = s[1] \/ x \in Range(t)
    <2>1. PICK i \in 1..n : s[i] = x
      BY <1>1, <1>5 DEF Range
    <2>2. CASE i = 1
      BY <2>1, <2>2
    <2>3. CASE i # 1
      <3>1. i - 1 \in 1..(n - 1) /\ t[i - 1] = x
        BY <1>1, <1>2, <2>1, <2>3
      <3> QED BY <1>1, <3>1 DEF Range
    <2> QED BY <2>2, <2>3
  <1>6. \A x \in Range(t) : x \in Range(s)
    BY <1>1, <1>3 DEF Range
  <1>7. Range(s) = {s[1]} \cup Range(t)
    <2>1. s[1] \in Range(s)
      BY <1>1, <1>4 DEF Range
    <2> QED BY <1>5, <1>6, <2>1
  <1>8. ASSUME Distinct(s) PROVE Distinct(t) /\ s[1] \notin Range(t)
    <2>1. ASSUME NEW i \in 1..(n - 1) PROVE t[i] # s[1]
      <3>1. i + 1 \in 1..n /\ i + 1 # 1 /\ t[i] = s[i + 1]
        BY <1>1, <1>3
      <3> QED BY <1>1, <1>4, <1>8, <3>1 DEF Distinct
    <2>2. ASSUME NEW i \in 1..(n - 1), NEW j \in 1..(n - 1), t[i] = t[j] PROVE i = j
      <3>1. s[i + 1] = s[j + 1] /\ i + 1 \in 1..n /\ j + 1 \in 1..n
        BY <1>1, <1>3, <2>2
      <3>2. i + 1 = j + 1
        BY <1>1, <1>8, <3>1 DEF Distinct
      <3> QED BY <3>2
    <2> QED BY <1>1, <2>1, <2>2 DEF Distinct, Range
  <1> QED BY <1>1, <1>7, <1>8 DEF t

LEMMA ReverseFacts ==
    ASSUME NEW T, NEW s \in Seq(T)
    PROVE  /\ Reverse(s) \in Seq(T) /\ Len(Reverse(s)) = Len(s)
           /\ \A i \in 1..Len(s) : Reverse(s)[i] = s[(Len(s) - i) + 1]
  <1> DEFINE n == Len(s)
  <1>1. n \in Nat /\ \A i \in 1..n : s[(n - i) + 1] \in T
    OBVIOUS
  <1>2. Reverse(s) = [i \in 1..n |-> s[(n - i) + 1]]
    BY DEF Reverse
  <1>3. [i \in 1..n |-> s[(n - i) + 1]] \in [1..n -> T]
    BY <1>1
  <1> QED BY <1>1, <1>2, <1>3

LEMMA SwapFacts ==
    ASSUME NEW T, NEW s \in Seq(T), NEW i \in 1..Len(s), NEW j \in 1..Len(s)
    PROVE  /\ Swap(s, i, j) \in Seq(T) /\ Len(Swap(s, i, j)) = Len(s)
           /\ Swap(s, i, j)[i] = s[j] /\ Swap(s, i, j)[j] = s[i]
           /\ \A k \in 1..Len(s) : k # i /\ k # j => Swap(s, i, j)[k] = s[k]
           /\ Range(Swap(s, i, j)) = Range(s)
           /\ Distinct(s) => Distinct(Swap(s, i, j))
  <1> DEFINE n == Len(s)
             w == Swap(s, i, j)
  <1>1. n \in Nat /\ DOMAIN s = 1..n /\ \A k \in 1..n : s[k] \in T
    OBVIOUS
  <1>2. /\ DOMAIN w = 1..n /\ w[i] = s[j] /\ w[j] = s[i]
        /\ \A k \in 1..n : k # i /\ k # j => w[k] = s[k]
    BY <1>1 DEF Swap
  <1>3. w \in Seq(T) /\ Len(w) = n
    BY <1>1 DEF Swap
  <1> HIDE DEF w
  <1>4. Range(w) = Range(s)
    <2>1. ASSUME NEW x \in Range(w) PROVE x \in Range(s)
      BY <1>1, <1>2, <2>1 DEF Range
    <2>2. ASSUME NEW x \in Range(s) PROVE x \in Range(w)
      BY <1>1, <1>2, <2>2 DEF Range
    <2> QED BY <2>1, <2>2
  <1>5. Distinct(s) => Distinct(w)
    BY <1>1, <1>2 DEF Distinct
  <1> QED BY <1>2, <1>3, <1>4, <1>5 DEF w

-----------------------------------------------------------------------------
(***************************************************************************)
(* The trail and the theory's copy of it.                                  *)
(***************************************************************************)
ToldEntry == [lit : Lit, at : Nat]
Core ==
    [assigns : SUBSET Lit, level : [Var -> Nat], reason : [Var -> Int],
     trail : Seq(Lit), trail_lim : Seq(Nat), qhead : Nat,
     told : Seq(ToldEntry), theory_level : Nat, theory_queue : BOOLEAN,
     ca : Seq([lits : Seq(Lit), learnt : BOOLEAN]),
     watches : [Lit -> Seq([cref : Nat, blocker : Lit])],
     delayed : Seq(Seq(Lit)), ok : BOOLEAN, initialPropagate : BOOLEAN]

\* Levels begin at their places; what is behind none of them is of a lower one.
LimitsOK(c) ==
    /\ \A l \in 1..DecisionLevel(c) : c.trail_lim[l] <= Len(c.trail)
    /\ \A l, k \in 1..DecisionLevel(c) : l <= k => c.trail_lim[l] <= c.trail_lim[k]
TrailOK(c) ==
    /\ Distinct(c.trail) /\ c.assigns = Range(c.trail)
    /\ \A p \in c.assigns : -p \notin c.assigns
    /\ LimitsOK(c)
    /\ \A i \in 1..Len(c.trail) :
         /\ LevelOf(c, c.trail[i]) <= DecisionLevel(c)
         /\ \A l \in 1..DecisionLevel(c) : i <= c.trail_lim[l] => LevelOf(c, c.trail[i]) < l
    /\ c.qhead <= Len(c.trail)

\* One entry of the theory's trail, and two.
HeldAt(c, x) ==
    /\ x.lit \in c.assigns /\ HasTheory(x.lit)
    /\ LevelOf(c, x.lit) <= x.at /\ x.at <= c.theory_level
    /\ \A n \in 1..Len(c.trail), l \in 1..DecisionLevel(c) :
         c.trail[n] = x.lit /\ n <= c.trail_lim[l] => x.at < l
InOrder(c, x, y) ==
    /\ x.at <= y.at /\ x.lit # y.lit
    /\ \A m, n \in 1..Len(c.trail) :
         y.at > 0 /\ c.trail[m] = x.lit /\ c.trail[n] = y.lit => m < n

\* The theory's trail, what it holds of p left aside.
ToldBut(c, p) ==
    /\ c.theory_level <= DecisionLevel(c)
    /\ \A i \in 1..Len(c.told) : c.told[i].lit # p => HeldAt(c, c.told[i])
    /\ \A i, j \in 1..Len(c.told) :
         i < j /\ c.told[i].lit # p /\ c.told[j].lit # p => InOrder(c, c.told[i], c.told[j])
ToldOK(c) == ToldBut(c, 0)

Held(c) == {r.lit : r \in Range(c.told)}
Covered(c, k) == \A n \in 1..k : HasTheory(c.trail[n]) => c.trail[n] \in Held(c)

LEMMA CoreFields ==
    ASSUME NEW c \in Core
    PROVE  /\ c.assigns \subseteq Lit /\ c.level \in [Var -> Nat] /\ c.reason \in [Var -> Int]
           /\ c.trail \in Seq(Lit) /\ Len(c.trail) \in Nat /\ c.trail_lim \in Seq(Nat)
           /\ DecisionLevel(c) \in Nat /\ c.qhead \in Nat
           /\ c.told \in Seq(ToldEntry) /\ Len(c.told) \in Nat /\ c.theory_level \in Nat
           /\ c.theory_queue \in BOOLEAN
           /\ c.ca \in Seq([lits : Seq(Lit), learnt : BOOLEAN])
           /\ c.watches \in [Lit -> Seq([cref : Nat, blocker : Lit])]
           /\ c.delayed \in Seq(Seq(Lit)) /\ c.ok \in BOOLEAN /\ c.initialPropagate \in BOOLEAN
           /\ \A i \in 1..Len(c.trail) : c.trail[i] \in Lit
           /\ \A i \in 1..DecisionLevel(c) : c.trail_lim[i] \in Nat
           /\ \A p \in Lit : LevelOf(c, p) \in Nat /\ ReasonOf(c, p) \in Int
           /\ \A p \in Lit : LevelOf(c, -p) = LevelOf(c, p) /\ ReasonOf(c, -p) = ReasonOf(c, p)
  <1>1. /\ c.assigns \subseteq Lit /\ c.level \in [Var -> Nat] /\ c.reason \in [Var -> Int]
        /\ c.trail \in Seq(Lit) /\ c.trail_lim \in Seq(Nat) /\ c.qhead \in Nat
        /\ c.told \in Seq(ToldEntry) /\ c.theory_level \in Nat
        /\ c.theory_queue \in BOOLEAN
        /\ c.ca \in Seq([lits : Seq(Lit), learnt : BOOLEAN])
        /\ c.watches \in [Lit -> Seq([cref : Nat, blocker : Lit])]
        /\ c.delayed \in Seq(Seq(Lit)) /\ c.ok \in BOOLEAN /\ c.initialPropagate \in BOOLEAN
    BY DEF Core
  <1>2. Len(c.trail) \in Nat /\ Len(c.told) \in Nat /\ Len(c.trail_lim) \in Nat
    BY <1>1
  <1>3. /\ \A i \in 1..Len(c.trail) : c.trail[i] \in Lit
        /\ \A i \in 1..Len(c.trail_lim) : c.trail_lim[i] \in Nat
    BY <1>1
  <1>4. ASSUME NEW p \in Lit
        PROVE  /\ LevelOf(c, p) \in Nat /\ ReasonOf(c, p) \in Int
               /\ LevelOf(c, -p) = LevelOf(c, p) /\ ReasonOf(c, -p) = ReasonOf(c, p)
    BY <1>1, LitFacts DEF LevelOf, ReasonOf
  <1> QED BY <1>1, <1>2, <1>3, <1>4 DEF DecisionLevel

\* Where the two trails are the same.
SameTrail(c, d) ==
    /\ d.assigns = c.assigns /\ d.level = c.level /\ d.trail = c.trail
    /\ d.trail_lim = c.trail_lim

LEMMA HeldFrame ==
    ASSUME NEW c \in Core, NEW d \in Core, SameTrail(c, d), c.theory_level <= d.theory_level,
           NEW x \in ToldEntry, HeldAt(c, x)
    PROVE  HeldAt(d, x)
  <1>1. c.theory_level \in Nat /\ d.theory_level \in Nat /\ x.at \in Nat
    BY CoreFields DEF ToldEntry
  <1> QED BY <1>1 DEF HeldAt, SameTrail, LevelOf, DecisionLevel

LEMMA OrderFrame ==
    ASSUME NEW c, NEW d, d.trail = c.trail, NEW x, NEW y, InOrder(c, x, y)
    PROVE  InOrder(d, x, y)
  BY DEF InOrder

LEMMA HeldFacts ==
    ASSUME NEW c \in Core
    PROVE  /\ \A p : p \in Held(c) <=> \E i \in 1..Len(c.told) : c.told[i].lit = p
           /\ \A i \in 1..Len(c.told) : c.told[i] \in ToldEntry /\ c.told[i].lit \in Lit
                                        /\ c.told[i].at \in Nat
  <1>1. c.told \in Seq(ToldEntry)
    BY CoreFields
  <1>2. \A x : x \in Range(c.told) <=> \E i \in 1..Len(c.told) : c.told[i] = x
    BY <1>1, RangeFacts
  <1>3. \A i \in 1..Len(c.told) : c.told[i] \in ToldEntry
    BY <1>1
  <1> QED BY <1>2, <1>3 DEF Held, ToldEntry

LEMMA TellKeeps ==
    ASSUME NEW c \in Core, NEW p \in Lit, ToldBut(c, p), Distinct(c.trail),
           p \in c.assigns, LevelOf(c, p) <= DecisionLevel(c),
           \/ DecisionLevel(c) = 0
           \/ /\ Len(c.trail) >= 1 /\ c.trail[Len(c.trail)] = p
              /\ \A l \in 1..DecisionLevel(c) : c.trail_lim[l] < Len(c.trail),
           HasTheory(p) \/ p \notin Held(c)
    PROVE  /\ Tell(c, p) \in Core /\ ToldOK(Tell(c, p))
           /\ Tell(c, p) = [c EXCEPT !.told = Tell(c, p).told,
                                     !.theory_level = Tell(c, p).theory_level]
           /\ SameTrail(c, Tell(c, p))
           /\ Held(Tell(c, p)) = IF HasTheory(p) THEN Held(c) \cup {p} ELSE Held(c)
           /\ c.theory_level <= Tell(c, p).theory_level
  <1>1. /\ LevelOf(c, p) \in Nat /\ c.theory_level \in Nat /\ c.told \in Seq(ToldEntry)
        /\ DecisionLevel(c) \in Nat /\ Len(c.trail) \in Nat /\ Len(c.told) \in Nat
        /\ DOMAIN c.trail = 1..Len(c.trail)
    BY CoreFields
  <1>2. CASE ~HasTheory(p)
    <2>1. Tell(c, p) = c
      BY <1>2 DEF Tell
    <2>2. \A i \in 1..Len(c.told) : c.told[i].lit # p
      BY <1>2, HeldFacts
    <2>3. c = [c EXCEPT !.told = c.told, !.theory_level = c.theory_level]
      BY DEF Core
    <2>4. ToldOK(c)
      BY <2>2 DEF ToldOK, ToldBut
    <2>5. SameTrail(c, c) /\ c.theory_level <= c.theory_level
      BY <1>1 DEF SameTrail
    <2> QED BY <1>2, <2>1, <2>3, <2>4, <2>5
  <1>3. CASE HasTheory(p)
    <2> DEFINE lev == IF LevelOf(c, p) > c.theory_level THEN LevelOf(c, p) ELSE c.theory_level
               others == {r \in Range(c.told) : r.lit # p}
               x == [lit |-> p, at |-> lev]
               q == Keep(c.told, others)
               t == Append(q, x)
               k == Len(q)
               d == [c EXCEPT !.theory_level = lev, !.told = t]
    <2>1. Tell(c, p) = d
      BY <1>3 DEF Tell
    <2>2. lev \in Nat /\ LevelOf(c, p) <= lev /\ c.theory_level <= lev /\ lev <= DecisionLevel(c)
      BY <1>1 DEF ToldBut
    <2> HIDE DEF lev
    <2>3. x \in ToldEntry /\ x.lit = p /\ x.at = lev
      BY <2>2 DEF ToldEntry
    <2> HIDE DEF x
    <2>4. /\ q \in Seq(ToldEntry) /\ Range(q) = Range(c.told) \cap others /\ k \in Nat
          /\ \E e : Embeds(e, q, c.told, others, Len(c.told))
      <3> HIDE DEF others
      <3>1. q \in Seq(ToldEntry) /\ Range(q) = Range(c.told) \cap others /\ k \in Nat
        BY <1>1, KeepFacts
      <3>2. \E e : Embeds(e, q, c.told, others, Len(c.told))
        BY <1>1, KeepEmbeds
      <3> QED BY <3>1, <3>2
    <2>5. PICK e : Embeds(e, q, c.told, others, Len(c.told))
      BY <2>4
    <2>6. /\ \A i \in 1..k : e[i] \in 1..Len(c.told) /\ q[i] = c.told[e[i]] /\ q[i] \in others
          /\ \A i, j \in 1..k : i < j => e[i] < e[j]
      BY <2>5 DEF Embeds
    <2> HIDE DEF q
    <2>7. /\ t \in Seq(ToldEntry) /\ Len(t) = k + 1 /\ t[k + 1] = x /\ Range(t) = Range(q) \cup {x}
          /\ \A i \in 1..k : t[i] = q[i]
      BY <2>3, <2>4, AppendFacts
    <2> HIDE DEF t
    <2>8. /\ d \in Core /\ d.told = t /\ d.theory_level = lev /\ SameTrail(c, d)
          /\ d = [c EXCEPT !.told = d.told, !.theory_level = d.theory_level]
          /\ DecisionLevel(d) = DecisionLevel(c) /\ \A r : LevelOf(d, r) = LevelOf(c, r)
      BY <2>2, <2>7 DEF Core, SameTrail, DecisionLevel, LevelOf
    <2> HIDE DEF d
    <2>9. Held(d) = Held(c) \cup {p}
      <3>1. ASSUME NEW y \in Held(d) PROVE y \in Held(c) \cup {p}
        BY <2>3, <2>4, <2>7, <2>8 DEF Held
      <3>2. ASSUME NEW y \in Held(c) PROVE y \in Held(d)
        <4>1. PICK r \in Range(c.told) : r.lit = y
          BY DEF Held
        <4>2. CASE y = p
          BY <2>3, <2>7, <2>8, <4>2 DEF Held
        <4>3. CASE y # p
          BY <2>4, <2>7, <2>8, <4>1, <4>3 DEF Held
        <4> QED BY <4>2, <4>3
      <3>3. p \in Held(d)
        BY <2>3, <2>7, <2>8 DEF Held
      <3> QED BY <3>1, <3>2, <3>3
    <2>10. ASSUME NEW n \in 1..Len(d.trail), NEW l \in 1..DecisionLevel(d),
                  d.trail[n] = p, n <= d.trail_lim[l]
           PROVE  lev < l
      <3>1. d.trail = c.trail /\ d.trail_lim = c.trail_lim /\ DecisionLevel(c) # 0
        BY <1>1, <2>8 DEF SameTrail
      <3>2. n = Len(c.trail)
        BY <1>1, <2>10, <3>1 DEF Distinct
      <3>3. c.trail_lim[l] < Len(c.trail) /\ c.trail_lim[l] \in Nat
        BY <2>8, <3>1, CoreFields
      <3> QED BY <1>1, <2>10, <3>1, <3>2, <3>3
    <2>11. HeldAt(d, x)
      BY <1>3, <2>2, <2>3, <2>8, <2>10 DEF HeldAt, SameTrail
    <2>12. ASSUME NEW i \in 1..k
           PROVE  HeldAt(d, t[i]) /\ InOrder(d, t[i], x) /\ t[i] \in ToldEntry
      <3>1. e[i] \in 1..Len(c.told) /\ t[i] = c.told[e[i]] /\ t[i].lit # p
        BY <2>6, <2>7
      <3>2. t[i] \in ToldEntry /\ HeldAt(c, t[i])
        BY <3>1, HeldFacts DEF ToldBut
      <3>3. HeldAt(d, t[i])
        BY <2>2, <2>8, <3>2, HeldFrame
      <3>4. t[i].at <= x.at
        BY <2>3, <2>8, <3>3 DEF HeldAt
      <3>5. ASSUME NEW m \in 1..Len(d.trail), NEW n \in 1..Len(d.trail),
                   x.at > 0, d.trail[m] = t[i].lit, d.trail[n] = x.lit
            PROVE  m < n
        <4>1. DecisionLevel(c) # 0 /\ d.trail = c.trail
          BY <1>1, <2>2, <2>3, <2>8, <3>5 DEF SameTrail
        <4>0. Len(c.trail) \in 1..Len(c.trail) /\ c.trail[Len(c.trail)] = p
          BY <1>1, <4>1
        <4>2. n = Len(c.trail)
          BY <1>1, <2>3, <3>5, <4>0, <4>1 DEF Distinct
        <4>3. m # n
          BY <2>3, <3>1, <3>5
        <4> QED BY <1>1, <4>1, <4>2, <4>3
      <3> QED BY <2>3, <3>1, <3>2, <3>3, <3>4, <3>5 DEF InOrder
    <2>13. ASSUME NEW i \in 1..Len(d.told), NEW j \in 1..Len(d.told), i < j
           PROVE  InOrder(d, d.told[i], d.told[j])
      <3>1. i \in 1..k
        BY <2>4, <2>7, <2>8, <2>13
      <3>2. CASE j = k + 1
        BY <2>7, <2>8, <2>12, <3>1, <3>2
      <3>3. CASE j # k + 1
        <4>1. j \in 1..k
          BY <2>4, <2>7, <2>8, <3>3
        <4>2. /\ e[i] \in 1..Len(c.told) /\ t[i] = c.told[e[i]] /\ t[i].lit # p
              /\ e[j] \in 1..Len(c.told) /\ t[j] = c.told[e[j]] /\ t[j].lit # p /\ e[i] < e[j]
          BY <2>6, <2>7, <2>13, <3>1, <4>1
        <4>3. InOrder(c, t[i], t[j])
          BY <4>2 DEF ToldBut
        <4> QED BY <2>8, <4>3, OrderFrame DEF SameTrail
      <3> QED BY <3>2, <3>3
    <2>14. \A i \in 1..Len(d.told) : HeldAt(d, d.told[i])
      <3> TAKE i \in 1..Len(d.told)
      <3>1. i = k + 1 \/ i \in 1..k
        BY <2>4, <2>7, <2>8
      <3> QED BY <2>7, <2>8, <2>11, <2>12, <3>1
    <2>15. ToldOK(d)
      BY <2>2, <2>8, <2>13, <2>14 DEF ToldOK, ToldBut
    <2> QED BY <1>3, <2>1, <2>2, <2>8, <2>9, <2>15
  <1> QED BY <1>2, <1>3

-----------------------------------------------------------------------------
(***************************************************************************)
(* Reasons and the clause database.                                        *)
(***************************************************************************)
\* The literals of C are false by assignments before the i-th, at no higher levels.
Because(c, i, C) ==
    \A q \in C : \E j \in 1..(i - 1) :
        c.trail[j] = -q /\ LevelOf(c, c.trail[j]) <= LevelOf(c, c.trail[i])
ByClause(c, i, cr) ==
    /\ cr \in Live(c) /\ c.ca[cr].lits[1] = c.trail[i]
    /\ Because(c, i, Lits(c, cr) \ {c.trail[i]})
ByLemma(c, i, lemma) ==
    /\ c.trail[i] \in Range(lemma)
    /\ Because(c, i, Range(lemma) \ {c.trail[i]})
\* A literal without a reason, above level 0, is the decision of its level.
Decision(c, i) ==
    LET l == LevelOf(c, c.trail[i])
    IN l > 0 => /\ i = c.trail_lim[l] + 1
                /\ l < DecisionLevel(c) => i <= c.trail_lim[l + 1]

\* A literal of the theory stays where its level ends.
InPlace(c, i) ==
    LET l == LevelOf(c, c.trail[i])
    IN l < DecisionLevel(c) => i <= c.trail_lim[l + 1]

CauseOK(c, lemmas, i) ==
    LET r == ReasonOf(c, c.trail[i])
    IN /\ r > 0 => ByClause(c, i, r)
       /\ r < 0 => -r \in DOMAIN lemmas /\ ByLemma(c, i, lemmas[-r]) /\ InPlace(c, i)
       /\ r = 0 => Decision(c, i)
CausesOK(c, lemmas) == \A i \in 1..Len(c.trail) : CauseOK(c, lemmas, i)

LemmasOK(lemmas) ==
    lemmas \in Seq(Seq(Lit)) /\ \A k \in DOMAIN lemmas : Distinct(lemmas[k])

\* A freed clause has no literals.  ws are the watchers of p.
ClauseOK(lits) == lits = <<>> \/ (Len(lits) >= 2 /\ Distinct(lits))
Watches(ca, p, w) ==
    /\ w.cref \in DOMAIN ca /\ ca[w.cref].lits # <<>>
    /\ -p = ca[w.cref].lits[1] \/ -p = ca[w.cref].lits[2]
WatchOK(ca, p, ws) ==
    /\ \A i \in 1..Len(ws) : Watches(ca, p, ws[i])
    /\ \A i, j \in 1..Len(ws) : ws[i].cref = ws[j].cref => i = j
DbOK(c) ==
    /\ \A cr \in DOMAIN c.ca : ClauseOK(c.ca[cr].lits)
    /\ \A p \in Lit : WatchOK(c.ca, p, c.watches[p])
    /\ \A i \in DOMAIN c.delayed : Distinct(c.delayed[i])

Good(c, lemmas) ==
    c \in Core /\ TrailOK(c) /\ ToldOK(c) /\ DbOK(c) /\ CausesOK(c, lemmas)

\* The assignment m is one that c does not exclude.
Agrees(m, c) ==
    /\ c.ok
    /\ \A cr \in Live(c) : m \cap Lits(c, cr) # {}
    /\ \A i \in DOMAIN c.delayed : m \cap Range(c.delayed[i]) # {}
    /\ \A p \in c.assigns : LevelOf(c, p) = 0 => p \in m
Total == {m \in SUBSET Lit : \A p \in Lit : p \in m <=> -p \notin m}

SameDb(c, d) == d.ca = c.ca /\ d.watches = c.watches /\ d.delayed = c.delayed

LEMMA DbFrame ==
    ASSUME NEW c, NEW d, SameDb(c, d), DbOK(c)
    PROVE  DbOK(d)
  BY DEF SameDb, DbOK

LEMMA BecauseFrame ==
    ASSUME NEW c, NEW d, NEW i \in Nat \ {0}, NEW C, Because(c, i, C),
           \A j \in 1..i : d.trail[j] = c.trail[j],
           \A j \in 1..i : LevelOf(d, c.trail[j]) = LevelOf(c, c.trail[j])
    PROVE  Because(d, i, C)
  <1> SUFFICES ASSUME NEW q \in C
               PROVE  \E j \in 1..(i - 1) :
                        d.trail[j] = -q /\ LevelOf(d, d.trail[j]) <= LevelOf(d, d.trail[i])
    BY DEF Because
  <1>1. PICK j \in 1..(i - 1) : c.trail[j] = -q /\ LevelOf(c, c.trail[j]) <= LevelOf(c, c.trail[i])
    BY DEF Because
  <1>2. j \in 1..i /\ i \in 1..i
    OBVIOUS
  <1>3. d.trail[j] = c.trail[j] /\ d.trail[i] = c.trail[i]
    BY <1>2
  <1>4. LevelOf(d, c.trail[j]) = LevelOf(c, c.trail[j]) /\ LevelOf(d, c.trail[i]) = LevelOf(c, c.trail[i])
    BY <1>2
  <1> QED BY <1>1, <1>3, <1>4

\* What the cause of the i-th literal depends on.
LEMMA CauseFrame ==
    ASSUME NEW c \in Core, NEW d \in Core, NEW lemmas, NEW i \in 1..Len(c.trail),
           CauseOK(c, lemmas, i),
           \A j \in 1..i : d.trail[j] = c.trail[j],
           \A j \in 1..i : LevelOf(d, c.trail[j]) = LevelOf(c, c.trail[j]),
           LevelOf(c, c.trail[i]) <= DecisionLevel(c),
           ReasonOf(d, c.trail[i]) = ReasonOf(c, c.trail[i]),
           DecisionLevel(d) >= DecisionLevel(c),
           \A l \in 1..DecisionLevel(c) : d.trail_lim[l] = c.trail_lim[l],
           DecisionLevel(d) > DecisionLevel(c) => d.trail_lim[DecisionLevel(c) + 1] >= i,
           ReasonOf(c, c.trail[i]) \in Live(c) =>
             /\ ReasonOf(c, c.trail[i]) \in Live(d)
             /\ d.ca[ReasonOf(c, c.trail[i])].lits[1] = c.ca[ReasonOf(c, c.trail[i])].lits[1]
             /\ Lits(d, ReasonOf(c, c.trail[i])) = Lits(c, ReasonOf(c, c.trail[i]))
    PROVE  CauseOK(d, lemmas, i)
  <1> DEFINE p == c.trail[i]
             r == ReasonOf(c, p)
  <1>1. /\ i \in Nat \ {0} /\ i \in 1..i /\ p \in Lit /\ LevelOf(c, p) \in Nat
        /\ DecisionLevel(c) \in Nat /\ DecisionLevel(d) \in Nat
    <2>1. Len(c.trail) \in Nat /\ p \in Lit /\ DecisionLevel(c) \in Nat
      BY CoreFields
    <2>2. DecisionLevel(d) \in Nat /\ LevelOf(c, p) \in Nat
      BY <2>1, CoreFields
    <2>3. i \in Nat \ {0} /\ i \in 1..i
      BY <2>1
    <2> QED BY <2>1, <2>2, <2>3
  <1>2. d.trail[i] = p /\ LevelOf(d, p) = LevelOf(c, p) /\ ReasonOf(d, d.trail[i]) = r
    BY <1>1
  <1>3. \A C : Because(c, i, C) => Because(d, i, C)
    BY <1>1, BecauseFrame
  <1>4. r > 0 => ByClause(d, i, r)
    <2> SUFFICES ASSUME r > 0 PROVE ByClause(d, i, r)
      OBVIOUS
    <2>1. ByClause(c, i, r)
      BY DEF CauseOK
    <2> QED BY <1>2, <1>3, <2>1 DEF ByClause
  <1>5. r < 0 => -r \in DOMAIN lemmas /\ ByLemma(d, i, lemmas[-r])
    BY <1>2, <1>3 DEF CauseOK, ByLemma
  <1>6. r = 0 => Decision(d, i)
    <2> SUFFICES ASSUME r = 0, LevelOf(d, p) > 0
                 PROVE  /\ i = d.trail_lim[LevelOf(d, p)] + 1
                        /\ LevelOf(d, p) < DecisionLevel(d) => i <= d.trail_lim[LevelOf(d, p) + 1]
      BY <1>2 DEF Decision
    <2> DEFINE l == LevelOf(c, p)
    <2>1. i = c.trail_lim[l] + 1 /\ (l < DecisionLevel(c) => i <= c.trail_lim[l + 1])
      BY <1>2 DEF CauseOK, Decision
    <2>2. l \in 1..DecisionLevel(c) /\ LevelOf(d, p) = l
      BY <1>1, <1>2
    <2> HIDE DEF l
    <2>3. CASE l < DecisionLevel(c)
      <3>1. l + 1 \in 1..DecisionLevel(c)
        BY <1>1, <2>2, <2>3
      <3> QED BY <2>1, <2>2, <2>3, <3>1
    <2>4. CASE l = DecisionLevel(c)
      <3>1. CASE DecisionLevel(d) > DecisionLevel(c)
        <4>1. d.trail_lim[l + 1] >= i /\ d.trail_lim[l + 1] \in Nat
          <5>1. l + 1 \in 1..DecisionLevel(d)
            BY <1>1, <2>2, <2>4, <3>1
          <5> QED BY <2>4, <3>1, <5>1, CoreFields
        <4> QED BY <1>1, <2>1, <2>2, <4>1
      <3>2. CASE DecisionLevel(d) = DecisionLevel(c)
        BY <1>1, <2>1, <2>2, <2>4, <3>2
      <3> QED BY <1>1, <3>1, <3>2
    <2> QED BY <1>1, <2>2, <2>3, <2>4
  <1>7. InPlace(c, i) => InPlace(d, i)
    <2> SUFFICES ASSUME InPlace(c, i), LevelOf(d, p) < DecisionLevel(d)
                 PROVE  i <= d.trail_lim[LevelOf(d, p) + 1]
      BY <1>2 DEF InPlace
    <2> DEFINE l == LevelOf(c, p)
    <2>1. l < DecisionLevel(c) => i <= c.trail_lim[l + 1]
      BY DEF InPlace
    <2>2. l \in 0..DecisionLevel(c) /\ LevelOf(d, p) = l
      BY <1>1, <1>2
    <2> HIDE DEF l
    <2>3. CASE l < DecisionLevel(c)
      <3>1. l + 1 \in 1..DecisionLevel(c)
        BY <1>1, <2>2, <2>3
      <3> QED BY <2>1, <2>2, <2>3, <3>1
    <2>4. CASE l = DecisionLevel(c)
      <3>1. l + 1 \in 1..DecisionLevel(d) /\ DecisionLevel(d) > DecisionLevel(c)
        BY <1>1, <2>2, <2>4
      <3>2. d.trail_lim[l + 1] >= i /\ d.trail_lim[l + 1] \in Nat
        BY <2>4, <3>1, CoreFields
      <3> QED BY <1>1, <2>2, <3>2
    <2> QED BY <1>1, <2>2, <2>3, <2>4
  <1> QED BY <1>2, <1>4, <1>5, <1>6, <1>7 DEF CauseOK

-----------------------------------------------------------------------------
(***************************************************************************)
(* Enqueueing.                                                             *)
(***************************************************************************)
LEMMA AssignedFacts ==
    ASSUME NEW c \in Core, TrailOK(c)
    PROVE  /\ \A p : p \in c.assigns <=> \E i \in 1..Len(c.trail) : c.trail[i] = p
           /\ \A i, j \in 1..Len(c.trail) : c.trail[i] = c.trail[j] => i = j
           /\ \A i, j \in 1..Len(c.trail) : VarOf(c.trail[i]) = VarOf(c.trail[j]) => i = j
           /\ \A i \in 1..Len(c.trail) : /\ c.trail[i] \in c.assigns /\ c.trail[i] \in Lit
                                         /\ LevelOf(c, c.trail[i]) \in 0..DecisionLevel(c)
           /\ \A p \in c.assigns : p \in Lit /\ LevelOf(c, p) \in 0..DecisionLevel(c) /\ -p \notin c.assigns
  <1>1. /\ c.trail \in Seq(Lit) /\ DOMAIN c.trail = 1..Len(c.trail)
        /\ c.assigns \subseteq Lit /\ DecisionLevel(c) \in Nat
        /\ \A p \in Lit : LevelOf(c, p) \in Nat
    BY CoreFields
  <1>2. \A p : p \in c.assigns <=> \E i \in 1..Len(c.trail) : c.trail[i] = p
    BY <1>1, RangeFacts DEF TrailOK
  <1>3. \A i, j \in 1..Len(c.trail) : c.trail[i] = c.trail[j] => i = j
    BY <1>1 DEF TrailOK, Distinct
  <1>4. ASSUME NEW i \in 1..Len(c.trail)
        PROVE  /\ c.trail[i] \in c.assigns /\ c.trail[i] \in Lit
               /\ LevelOf(c, c.trail[i]) \in 0..DecisionLevel(c)
    <2>1. c.trail[i] \in c.assigns /\ c.trail[i] \in Lit /\ LevelOf(c, c.trail[i]) <= DecisionLevel(c)
      BY <1>1, <1>2 DEF TrailOK
    <2> QED BY <1>1, <2>1
  <1>5. ASSUME NEW p \in c.assigns PROVE p \in Lit /\ LevelOf(c, p) \in 0..DecisionLevel(c) /\ -p \notin c.assigns
    BY <1>2, <1>4 DEF TrailOK
  <1>6. ASSUME NEW i \in 1..Len(c.trail), NEW j \in 1..Len(c.trail), VarOf(c.trail[i]) = VarOf(c.trail[j])
        PROVE  i = j
    <2>1. c.trail[i] = c.trail[j] \/ c.trail[i] = -c.trail[j]
      BY <1>4, <1>6, LitFacts
    <2> QED BY <1>3, <1>4, <1>5, <2>1
  <1> QED BY <1>2, <1>3, <1>4, <1>5, <1>6

Enqueued(c, p, lev, from) == TellAndQueue(Assign(c, p, lev, from), p)

EnqueuedAs(c, p, lev, from, d) ==
    /\ d \in Core /\ ToldOK(d)
    /\ d.assigns = c.assigns \cup {p}
    /\ d.level = [c.level EXCEPT ![VarOf(p)] = lev]
    /\ d.reason = [c.reason EXCEPT ![VarOf(p)] = from]
    /\ d.trail = Append(c.trail, p) /\ d.trail_lim = c.trail_lim
    /\ d.qhead = c.qhead /\ SameDb(c, d) /\ d.ok = c.ok
    /\ d.initialPropagate = c.initialPropagate
    /\ Held(d) = IF HasTheory(p) THEN Held(c) \cup {p} ELSE Held(c)

LEMMA EnqueuedFields ==
    ASSUME NEW c \in Core, TrailOK(c), ToldOK(c), NEW p \in Lit, IsUndef(c, p),
           NEW lev \in Nat, lev <= DecisionLevel(c), NEW from \in Int
    PROVE  EnqueuedAs(c, p, lev, from, Enqueued(c, p, lev, from))
  <1> DEFINE e == Assign(c, p, lev, from)
             d == Enqueued(c, p, lev, from)
             n == Len(c.trail)
  <1>1. /\ n \in Nat /\ c.trail \in Seq(Lit) /\ c.assigns \subseteq Lit
        /\ VarOf(p) \in Var /\ DecisionLevel(c) \in Nat /\ c.theory_level \in Nat
        /\ p \notin c.assigns /\ -p \notin c.assigns
        /\ c.level \in [Var -> Nat] /\ c.reason \in [Var -> Int]
    BY CoreFields, LitFacts DEF IsUndef, IsTrue, IsFalse
  <1>2. /\ Append(c.trail, p) \in Seq(Lit) /\ Len(Append(c.trail, p)) = n + 1
        /\ Append(c.trail, p)[n + 1] = p /\ \A i \in 1..n : Append(c.trail, p)[i] = c.trail[i]
        /\ Distinct(Append(c.trail, p))
    <2>1. p \notin Range(c.trail) /\ Distinct(c.trail)
      BY <1>1 DEF TrailOK
    <2> QED BY <1>1, <2>1, AppendFacts
  <1>3. /\ e \in Core /\ e.assigns = c.assigns \cup {p}
        /\ e.level = [c.level EXCEPT ![VarOf(p)] = lev]
        /\ e.reason = [c.reason EXCEPT ![VarOf(p)] = from]
        /\ e.trail = Append(c.trail, p) /\ e.trail_lim = c.trail_lim
        /\ e.qhead = c.qhead /\ SameDb(c, e) /\ e.ok = c.ok
        /\ e.initialPropagate = c.initialPropagate
        /\ e.told = c.told /\ e.theory_level = c.theory_level
    <2>1. (c.assigns \ {-p}) \cup {p} = c.assigns \cup {p} /\ c.assigns \cup {p} \subseteq Lit
      BY <1>1
    <2>2. [c.level EXCEPT ![VarOf(p)] = lev] \in [Var -> Nat] /\ [c.reason EXCEPT ![VarOf(p)] = from] \in [Var -> Int]
      BY <1>1
    <2>3. e = [c EXCEPT !.assigns = c.assigns \cup {p}, !.level = [c.level EXCEPT ![VarOf(p)] = lev],
                        !.reason = [c.reason EXCEPT ![VarOf(p)] = from], !.trail = Append(c.trail, p)]
      BY <2>1 DEF Assign
    <2> HIDE DEF e
    <2> QED BY <1>2, <2>1, <2>2, <2>3 DEF Core, SameDb
  <1> HIDE DEF e
  <1>4. /\ DecisionLevel(e) = DecisionLevel(c) /\ LevelOf(e, p) = lev /\ Held(e) = Held(c)
        /\ \A q \in c.assigns : LevelOf(e, q) = LevelOf(c, q)
    <2>1. ASSUME NEW q \in c.assigns PROVE VarOf(q) # VarOf(p) /\ VarOf(q) \in Var
      BY <1>1, LitFacts
    <2> QED BY <1>1, <1>3, <2>1 DEF DecisionLevel, LevelOf, Held
  <1>5. \A m \in 1..Len(e.trail) : e.trail[m] # p => m \in 1..n /\ e.trail[m] = c.trail[m]
    <2> TAKE m \in 1..Len(e.trail)
    <2> HAVE e.trail[m] # p
    <2>1. m # n + 1 /\ m \in 1..(n + 1)
      BY <1>2, <1>3
    <2>2. m \in 1..n
      BY <1>1, <2>1
    <2> QED BY <1>2, <1>3, <2>2
  <1>6. \A i \in 1..Len(c.told) : c.told[i].lit # 0 /\ HeldAt(c, c.told[i]) /\ c.told[i].lit # p
    <2> TAKE i \in 1..Len(c.told)
    <2>1. c.told[i].lit # 0
      BY HeldFacts, LitFacts
    <2>2. HeldAt(c, c.told[i])
      BY <2>1 DEF ToldOK, ToldBut
    <2> QED BY <1>1, <2>1, <2>2 DEF HeldAt
  <1>7. ASSUME NEW i \in 1..Len(e.told) PROVE HeldAt(e, e.told[i])
    <2>1. HeldAt(c, c.told[i]) /\ c.told[i].lit # p /\ e.told[i] = c.told[i]
      BY <1>3, <1>6
    <2> QED BY <1>3, <1>4, <1>5, <2>1 DEF HeldAt
  <1>8. ASSUME NEW i \in 1..Len(e.told), NEW j \in 1..Len(e.told), i < j
        PROVE  InOrder(e, e.told[i], e.told[j])
    <2>1. InOrder(c, c.told[i], c.told[j])
      BY <1>3, <1>6, <1>8 DEF ToldOK, ToldBut
    <2>2. c.told[i].lit # p /\ c.told[j].lit # p
      BY <1>3, <1>6
    <2>3. e.told = c.told
      BY <1>3
    <2>4. ASSUME NEW m \in 1..Len(e.trail), NEW k \in 1..Len(e.trail),
                 c.told[j].at > 0, e.trail[m] = c.told[i].lit, e.trail[k] = c.told[j].lit
          PROVE  m < k
      <3>1. m \in 1..n /\ k \in 1..n /\ c.trail[m] = c.told[i].lit /\ c.trail[k] = c.told[j].lit
        BY <1>5, <2>2, <2>4
      <3> QED BY <2>1, <2>4, <3>1 DEF InOrder
    <2> QED BY <2>1, <2>3, <2>4 DEF InOrder
  <1>9. ToldBut(e, p)
    BY <1>3, <1>4, <1>7, <1>8 DEF ToldBut, ToldOK
  <1>10. /\ Distinct(e.trail) /\ p \in e.assigns /\ LevelOf(e, p) <= DecisionLevel(e)
         /\ Len(e.trail) >= 1 /\ e.trail[Len(e.trail)] = p
         /\ \A l \in 1..DecisionLevel(e) : e.trail_lim[l] < Len(e.trail)
         /\ p \notin Held(e)
    <2>1. \A l \in 1..DecisionLevel(c) : c.trail_lim[l] \in Nat /\ c.trail_lim[l] <= n
      BY CoreFields DEF TrailOK, LimitsOK
    <2>2. p \notin Held(c)
      BY <1>6, HeldFacts
    <2>3. \A l \in 1..DecisionLevel(e) : e.trail_lim[l] < Len(e.trail)
      BY <1>1, <1>2, <1>3, <1>4, <2>1
    <2> QED BY <1>1, <1>2, <1>3, <1>4, <2>2, <2>3
  <1> DEFINE t == Tell(e, p)
  <1>11. /\ t \in Core /\ ToldOK(t) /\ SameTrail(e, t)
         /\ t = [e EXCEPT !.told = t.told, !.theory_level = t.theory_level]
         /\ Held(t) = IF HasTheory(p) THEN Held(e) \cup {p} ELSE Held(e)
    BY <1>3, <1>9, <1>10, TellKeeps
  <1>12. /\ t.reason = e.reason /\ t.qhead = e.qhead /\ SameDb(e, t) /\ t.ok = e.ok
         /\ t.initialPropagate = e.initialPropagate
    BY <1>3, <1>11 DEF Core, SameDb
  <1>13. CASE HasTheory(p)
    <2>1. d = [t EXCEPT !.theory_queue = TRUE]
      BY <1>13 DEF Enqueued, TellAndQueue, e
    <2> HIDE DEF t, d
    <2>2. /\ d \in Core /\ SameTrail(t, d) /\ d.told = t.told /\ d.theory_level = t.theory_level
          /\ d.reason = t.reason /\ d.qhead = t.qhead /\ SameDb(t, d) /\ d.ok = t.ok
          /\ d.initialPropagate = t.initialPropagate
      BY <1>11, <2>1 DEF Core, SameTrail, SameDb
    <2>3. Held(d) = Held(t)
      BY <2>2 DEF Held
    <2>4. ToldOK(d)
      BY <1>11, <2>2 DEF ToldOK, ToldBut, HeldAt, InOrder, SameTrail, LevelOf, DecisionLevel
    <2>5. EnqueuedAs(c, p, lev, from, d)
      BY <1>3, <1>4, <1>11, <1>12, <1>13, <2>2, <2>3, <2>4 DEF SameTrail, SameDb, EnqueuedAs
    <2> QED BY <2>5 DEF d
  <1>14. CASE ~HasTheory(p)
    <2>1. d = e
      BY <1>14 DEF Enqueued, TellAndQueue, e
    <2>2. ToldOK(e)
      BY <1>3, <1>6, <1>9 DEF ToldOK, ToldBut
    <2> HIDE DEF d
    <2>3. EnqueuedAs(c, p, lev, from, e)
      BY <1>3, <1>4, <1>14, <2>2 DEF EnqueuedAs
    <2> QED BY <2>1, <2>3 DEF d
  <1> QED BY <1>13, <1>14

-----------------------------------------------------------------------------
\* The literals of C are false, at levels up to lev.
FalseAt(c, C, lev) == \A q \in C : -q \in c.assigns /\ LevelOf(c, -q) <= lev

\* What from must be, as the reason of p at level lev.
CauseFor(c, lemmas, p, lev, from) ==
    /\ from > 0 => /\ from \in Live(c) /\ c.ca[from].lits[1] = p
                   /\ FalseAt(c, Lits(c, from) \ {p}, lev)
    /\ from < 0 => /\ -from \in DOMAIN lemmas /\ p \in Range(lemmas[-from])
                   /\ FalseAt(c, Range(lemmas[-from]) \ {p}, lev) /\ lev = DecisionLevel(c)
    /\ from = 0 /\ lev > 0 => lev = DecisionLevel(c) /\ Len(c.trail) = c.trail_lim[lev]

LEMMA EnqueuedGood ==
    ASSUME NEW c \in Core, NEW lemmas, Good(c, lemmas), NEW p \in Lit, IsUndef(c, p),
           NEW lev \in Nat, lev <= DecisionLevel(c), NEW from \in Int,
           CauseFor(c, lemmas, p, lev, from)
    PROVE  LET d == Enqueued(c, p, lev, from)
           IN /\ Good(d, lemmas)
              /\ d.assigns = c.assigns \cup {p} /\ SameDb(c, d) /\ d.qhead = c.qhead /\ d.ok = c.ok
              /\ d.trail_lim = c.trail_lim /\ d.initialPropagate = c.initialPropagate
              /\ Held(d) = IF HasTheory(p) THEN Held(c) \cup {p} ELSE Held(c)
              /\ LevelOf(d, p) = lev /\ ReasonOf(d, p) = from
              /\ \A q \in c.assigns : LevelOf(d, q) = LevelOf(c, q) /\ ReasonOf(d, q) = ReasonOf(c, q)
              /\ \A i \in 1..Len(c.trail) : d.trail[i] = c.trail[i]
              /\ Len(d.trail) = Len(c.trail) + 1 /\ d.trail[Len(c.trail) + 1] = p
  <1> DEFINE d == Enqueued(c, p, lev, from)
             n == Len(c.trail)
  <1>0. TrailOK(c) /\ ToldOK(c) /\ DbOK(c) /\ CausesOK(c, lemmas)
    BY DEF Good
  <1>1. /\ d \in Core /\ ToldOK(d)
        /\ d.assigns = c.assigns \cup {p}
        /\ d.level = [c.level EXCEPT ![VarOf(p)] = lev]
        /\ d.reason = [c.reason EXCEPT ![VarOf(p)] = from]
        /\ d.trail = Append(c.trail, p) /\ d.trail_lim = c.trail_lim
        /\ d.qhead = c.qhead /\ SameDb(c, d) /\ d.ok = c.ok
        /\ d.initialPropagate = c.initialPropagate
        /\ Held(d) = IF HasTheory(p) THEN Held(c) \cup {p} ELSE Held(c)
    <2>1. EnqueuedAs(c, p, lev, from, d)
      BY <1>0, EnqueuedFields
    <2> HIDE DEF d
    <2> QED BY <2>1 DEF EnqueuedAs
  <1> HIDE DEF d
  <1>2. /\ n \in Nat /\ c.trail \in Seq(Lit) /\ c.assigns \subseteq Lit
        /\ VarOf(p) \in Var /\ DecisionLevel(c) \in Nat /\ DecisionLevel(d) = DecisionLevel(c)
        /\ p \notin c.assigns /\ -p \notin c.assigns /\ c.qhead \in Nat
        /\ c.level \in [Var -> Nat] /\ c.reason \in [Var -> Int] /\ -p \in Lit
    BY <1>1, CoreFields, LitFacts DEF IsUndef, IsTrue, IsFalse, DecisionLevel
  <1>3. /\ Len(d.trail) = n + 1 /\ d.trail[n + 1] = p /\ \A i \in 1..n : d.trail[i] = c.trail[i]
        /\ Range(d.trail) = Range(c.trail) \cup {p} /\ Distinct(d.trail)
    <2>1. p \notin Range(c.trail) /\ Distinct(c.trail)
      BY <1>0, <1>2 DEF TrailOK
    <2> QED BY <1>1, <1>2, <2>1, AppendFacts
  <1>4. LevelOf(d, p) = lev /\ ReasonOf(d, p) = from
    BY <1>1, <1>2 DEF LevelOf, ReasonOf
  <1>5. ASSUME NEW q \in c.assigns
        PROVE  LevelOf(d, q) = LevelOf(c, q) /\ ReasonOf(d, q) = ReasonOf(c, q)
    <2>1. VarOf(q) # VarOf(p) /\ VarOf(q) \in Var
      BY <1>2, LitFacts
    <2> QED BY <1>1, <1>2, <2>1 DEF LevelOf, ReasonOf
  <1>6. \A i \in 1..(n + 1) : i = n + 1 \/ i \in 1..n
    BY <1>2
  <1>7. \A i \in 1..n : c.trail[i] \in c.assigns /\ LevelOf(d, c.trail[i]) = LevelOf(c, c.trail[i])
                        /\ ReasonOf(d, c.trail[i]) = ReasonOf(c, c.trail[i])
    BY <1>0, <1>5, AssignedFacts
  <1>8. TrailOK(d)
    <2>1. d.assigns = Range(d.trail)
      BY <1>0, <1>1, <1>3 DEF TrailOK
    <2>2. \A q \in d.assigns : -q \notin d.assigns
      <3> SUFFICES ASSUME NEW q \in d.assigns, -q \in d.assigns PROVE FALSE
        OBVIOUS
      <3>1. q \in Lit /\ -(-q) = q /\ -(-p) = p /\ p # -p
        BY <1>1, <1>2, LitFacts
      <3>2. CASE q = p
        BY <1>1, <1>2, <3>1, <3>2
      <3>3. CASE -q = p
        BY <1>1, <1>2, <3>1, <3>3
      <3>4. CASE q # p /\ -q # p
        BY <1>0, <1>1, <3>4 DEF TrailOK
      <3> QED BY <3>2, <3>3, <3>4
    <2>3. \A l \in 1..DecisionLevel(c) : c.trail_lim[l] \in Nat /\ c.trail_lim[l] <= n
      BY <1>0, CoreFields DEF TrailOK, LimitsOK
    <2>4. LimitsOK(d)
      <3>1. \A l \in 1..DecisionLevel(c) : c.trail_lim[l] <= n + 1
        BY <1>2, <2>3
      <3> QED BY <1>0, <1>1, <1>2, <1>3, <3>1 DEF TrailOK, LimitsOK
    <2>5. ASSUME NEW i \in 1..(n + 1)
          PROVE  /\ LevelOf(d, d.trail[i]) <= DecisionLevel(d)
                 /\ \A l \in 1..DecisionLevel(d) : i <= d.trail_lim[l] => LevelOf(d, d.trail[i]) < l
      <3>1. CASE i = n + 1
        <4>1. \A l \in 1..DecisionLevel(c) : ~(n + 1 <= c.trail_lim[l])
          BY <1>2, <2>3
        <4> QED BY <1>1, <1>2, <1>3, <1>4, <3>1, <4>1
      <3>2. CASE i \in 1..n
        BY <1>0, <1>1, <1>2, <1>3, <1>7, <3>2 DEF TrailOK
      <3> QED BY <1>6, <3>1, <3>2
    <2>6. d.qhead <= Len(d.trail)
      BY <1>0, <1>1, <1>2, <1>3 DEF TrailOK
    <2> QED BY <1>3, <2>1, <2>2, <2>4, <2>5, <2>6 DEF TrailOK
  <1>9. DbOK(d)
    BY <1>0, <1>1, DbFrame
  <1>10. ASSUME NEW i \in 1..n PROVE CauseOK(d, lemmas, i)
    <2>1. \A j \in 1..i : j \in 1..n
      BY <1>2
    <2>2. /\ \A j \in 1..i : d.trail[j] = c.trail[j]
          /\ \A j \in 1..i : LevelOf(d, c.trail[j]) = LevelOf(c, c.trail[j])
      BY <1>3, <1>7, <2>1
    <2>3. LevelOf(c, c.trail[i]) <= DecisionLevel(c) /\ CauseOK(c, lemmas, i)
      BY <1>0 DEF TrailOK, CausesOK
    <2>4. Live(d) = Live(c) /\ d.ca = c.ca /\ \A cr : Lits(d, cr) = Lits(c, cr)
      BY <1>1 DEF SameDb, Live, Lits
    <2>5. /\ DecisionLevel(d) >= DecisionLevel(c) /\ ~(DecisionLevel(d) > DecisionLevel(c))
          /\ \A l \in 1..DecisionLevel(c) : d.trail_lim[l] = c.trail_lim[l]
      BY <1>1, <1>2
    <2>6. ReasonOf(d, c.trail[i]) = ReasonOf(c, c.trail[i])
      BY <1>7
    <2> QED BY <1>1, <2>2, <2>3, <2>4, <2>5, <2>6, CauseFrame
  <1>11. CauseOK(d, lemmas, n + 1)
    <2>1. ASSUME NEW C, FalseAt(c, C, lev) PROVE Because(d, n + 1, C)
      <3> SUFFICES ASSUME NEW q \in C
                   PROVE  \E j \in 1..n : d.trail[j] = -q /\ LevelOf(d, d.trail[j]) <= LevelOf(d, d.trail[n + 1])
        BY <1>2 DEF Because
      <3>1. -q \in c.assigns /\ LevelOf(c, -q) <= lev
        BY <2>1 DEF FalseAt
      <3>2. PICK j \in 1..n : c.trail[j] = -q
        BY <1>0, <3>1, AssignedFacts
      <3> QED BY <1>3, <1>4, <1>5, <3>1, <3>2
    <2>2. Live(d) = Live(c) /\ d.ca = c.ca /\ \A cr : Lits(d, cr) = Lits(c, cr)
      BY <1>1 DEF SameDb, Live, Lits
    <2>3. from > 0 => ByClause(d, n + 1, from)
      BY <1>3, <2>1, <2>2 DEF CauseFor, ByClause
    <2>4. from < 0 => -from \in DOMAIN lemmas /\ ByLemma(d, n + 1, lemmas[-from])
      BY <1>3, <2>1 DEF CauseFor, ByLemma
    <2>5. from = 0 => Decision(d, n + 1)
      <3> SUFFICES ASSUME from = 0, lev > 0
                   PROVE  n + 1 = d.trail_lim[lev] + 1 /\ ~(lev < DecisionLevel(d))
        BY <1>3, <1>4 DEF Decision
      <3> QED BY <1>1, <1>2 DEF CauseFor
    <2>6. from < 0 => InPlace(d, n + 1)
      <3> SUFFICES ASSUME from < 0 PROVE ~(lev < DecisionLevel(d))
        BY <1>3, <1>4 DEF InPlace
      <3> QED BY <1>1, <1>2 DEF CauseFor
    <2> QED BY <1>3, <1>4, <2>3, <2>4, <2>5, <2>6 DEF CauseOK
  <1>12. CausesOK(d, lemmas)
    BY <1>3, <1>6, <1>10, <1>11 DEF CausesOK
  <1> QED BY <1>1, <1>3, <1>4, <1>5, <1>8, <1>9, <1>12 DEF Good, d

-----------------------------------------------------------------------------
(***************************************************************************)
(* What one method makes of the solver, at the level it stands at or below.*)
(***************************************************************************)
\* d decides nothing that c has not.
NoDecision(c, d) ==
    \A p \in d.assigns : ReasonOf(d, p) = 0 /\ LevelOf(d, p) > 0 =>
        p \in c.assigns /\ ReasonOf(c, p) = 0 /\ LevelOf(c, p) = LevelOf(d, p)

\* d excludes no more of the assignments in M.
Follows(c, d, M) == \A m \in M : Agrees(m, c) => Agrees(m, d)

\* d is c with more on its trail, all of it told to the theory.
Extends(c, d) ==
    /\ d.trail_lim = c.trail_lim /\ Len(c.trail) <= Len(d.trail) /\ Held(c) \subseteq Held(d)
    /\ \A i \in 1..Len(c.trail) : d.trail[i] = c.trail[i]
    /\ \A p \in c.assigns : LevelOf(d, p) = LevelOf(c, p)
    /\ \A i \in (Len(c.trail) + 1)..Len(d.trail) :
         HasTheory(d.trail[i]) => d.trail[i] \in Held(d)

LEMMA ExtendsTwice ==
    ASSUME NEW b \in Core, NEW c \in Core, NEW d \in Core, Extends(b, c), Extends(c, d),
           TrailOK(b), TrailOK(c)
    PROVE  Extends(b, d)
  <1>1. Len(b.trail) \in Nat /\ Len(c.trail) \in Nat /\ Len(d.trail) \in Nat
    BY CoreFields
  <1>2. \A i \in 1..Len(b.trail) : i \in 1..Len(c.trail)
    BY <1>1 DEF Extends
  <1>3. \A p \in b.assigns : p \in c.assigns
    <2> TAKE p \in b.assigns
    <2>1. PICK i \in 1..Len(b.trail) : b.trail[i] = p
      BY AssignedFacts
    <2>2. i \in 1..Len(c.trail) /\ c.trail[i] = p
      BY <1>2, <2>1 DEF Extends
    <2> QED BY <2>2, AssignedFacts
  <1>4. ASSUME NEW i \in (Len(b.trail) + 1)..Len(d.trail), HasTheory(d.trail[i])
        PROVE  d.trail[i] \in Held(d)
    <2>1. CASE i <= Len(c.trail)
      <3>1. i \in 1..Len(c.trail) /\ i \in (Len(b.trail) + 1)..Len(c.trail)
        BY <1>1, <2>1
      <3> QED BY <1>4, <3>1 DEF Extends
    <2>2. CASE ~(i <= Len(c.trail))
      <3>1. i \in (Len(c.trail) + 1)..Len(d.trail)
        BY <1>1, <2>2
      <3> QED BY <1>4, <3>1 DEF Extends
    <2> QED BY <2>1, <2>2
  <1>5. Len(b.trail) <= Len(d.trail)
    BY <1>1 DEF Extends
  <1> QED BY <1>2, <1>3, <1>4, <1>5 DEF Extends

LEMMA ExtendsCovered ==
    ASSUME NEW c \in Core, NEW d \in Core, Extends(c, d)
    PROVE  /\ Covered(c, Len(c.trail)) => Covered(d, Len(d.trail))
           /\ \A k \in 0..Len(c.trail) : Covered(c, k) => Covered(d, k)
  <1>1. Len(c.trail) \in Nat /\ Len(d.trail) \in Nat
    BY CoreFields
  <1>2. ASSUME NEW k \in 0..Len(c.trail), Covered(c, k) PROVE Covered(d, k)
    <2>1. \A n \in 1..k : n \in 1..Len(c.trail)
      BY <1>1
    <2> QED BY <1>2, <2>1 DEF Covered, Extends
  <1>3. ASSUME Covered(c, Len(c.trail)) PROVE Covered(d, Len(d.trail))
    <2> SUFFICES ASSUME NEW n \in 1..Len(d.trail), HasTheory(d.trail[n])
                 PROVE  d.trail[n] \in Held(d)
      BY DEF Covered
    <2>1. CASE n \in 1..Len(c.trail)
      BY <1>3, <2>1 DEF Covered, Extends
    <2>2. CASE n \in (Len(c.trail) + 1)..Len(d.trail)
      BY <2>2 DEF Extends
    <2> QED BY <1>1, <2>1, <2>2
  <1> QED BY <1>2, <1>3

\* Enqueueing a literal that is true whenever what is known is.
CanEnqueue(c, lemmas, p, lev, from, M) ==
    /\ c \in Core /\ Good(c, lemmas) /\ p \in Lit /\ IsUndef(c, p)
    /\ lev \in Nat /\ lev <= DecisionLevel(c) /\ from \in Int
    /\ CauseFor(c, lemmas, p, lev, from)
    /\ lev = 0 => \A m \in M : Agrees(m, c) => p \in m
EnqueuedTo(c, lemmas, p, lev, from, M, d) ==
    /\ d \in Core /\ Good(d, lemmas) /\ Follows(c, d, M) /\ Extends(c, d)
    /\ from # 0 \/ lev = 0 => NoDecision(c, d)
    /\ d.assigns = c.assigns \cup {p} /\ SameDb(c, d) /\ d.qhead = c.qhead
    /\ d.ok = c.ok /\ d.initialPropagate = c.initialPropagate
    /\ LevelOf(d, p) = lev /\ ReasonOf(d, p) = from
    /\ Len(d.trail) = Len(c.trail) + 1 /\ d.trail[Len(c.trail) + 1] = p
    /\ \A q \in c.assigns : LevelOf(d, q) = LevelOf(c, q) /\ ReasonOf(d, q) = ReasonOf(c, q)
LEMMA EnqueuedStep ==
    ASSUME NEW c, NEW lemmas, NEW p, NEW lev, NEW from, NEW M,
           CanEnqueue(c, lemmas, p, lev, from, M)
    PROVE  EnqueuedTo(c, lemmas, p, lev, from, M, Enqueued(c, p, lev, from))
  <1>0. /\ c \in Core /\ Good(c, lemmas) /\ p \in Lit /\ IsUndef(c, p)
        /\ lev \in Nat /\ lev <= DecisionLevel(c) /\ from \in Int
        /\ CauseFor(c, lemmas, p, lev, from)
        /\ lev = 0 => \A m \in M : Agrees(m, c) => p \in m
    BY DEF CanEnqueue
  <1> USE <1>0
  <1> DEFINE d == Enqueued(c, p, lev, from)
  <1>1. /\ Good(d, lemmas)
        /\ d.assigns = c.assigns \cup {p} /\ SameDb(c, d) /\ d.qhead = c.qhead /\ d.ok = c.ok
        /\ d.trail_lim = c.trail_lim /\ d.initialPropagate = c.initialPropagate
        /\ Held(d) = IF HasTheory(p) THEN Held(c) \cup {p} ELSE Held(c)
        /\ LevelOf(d, p) = lev /\ ReasonOf(d, p) = from
        /\ \A q \in c.assigns : LevelOf(d, q) = LevelOf(c, q) /\ ReasonOf(d, q) = ReasonOf(c, q)
        /\ \A i \in 1..Len(c.trail) : d.trail[i] = c.trail[i]
        /\ Len(d.trail) = Len(c.trail) + 1 /\ d.trail[Len(c.trail) + 1] = p
    BY EnqueuedGood
  <1> HIDE DEF d
  <1>2. Len(c.trail) \in Nat
    BY CoreFields
  <1>3. Follows(c, d, M)
    <2> SUFFICES ASSUME NEW m \in M, Agrees(m, c) PROVE Agrees(m, d)
      BY DEF Follows
    <2>1. \A q \in d.assigns : LevelOf(d, q) = 0 => q \in m
      BY <1>1 DEF Agrees
    <2>2. Live(d) = Live(c) /\ d.delayed = c.delayed /\ \A cr : Lits(d, cr) = Lits(c, cr)
      BY <1>1 DEF SameDb, Live, Lits
    <2> QED BY <1>1, <2>1, <2>2 DEF Agrees
  <1>4. Extends(c, d)
    <2>1. \A i \in (Len(c.trail) + 1)..Len(d.trail) : i = Len(c.trail) + 1
      BY <1>1, <1>2
    <2>2. Held(c) \subseteq Held(d) /\ (HasTheory(p) => p \in Held(d))
      BY <1>1
    <2>3. Len(c.trail) <= Len(d.trail)
      BY <1>1, <1>2
    <2> QED BY <1>1, <2>1, <2>2, <2>3 DEF Extends
  <1>5. from # 0 \/ lev = 0 => NoDecision(c, d)
    <2> SUFFICES ASSUME from # 0 \/ lev = 0 PROVE NoDecision(c, d)
      OBVIOUS
    <2>1. ASSUME NEW q \in d.assigns, ReasonOf(d, q) = 0, LevelOf(d, q) > 0
          PROVE  q \in c.assigns /\ ReasonOf(c, q) = 0 /\ LevelOf(c, q) = LevelOf(d, q)
      <3>1. q # p
        BY <1>1, <2>1
      <3> QED BY <1>1, <2>1, <3>1
    <2> QED BY <2>1 DEF NoDecision
  <1>6. d \in Core
    BY <1>1 DEF Good
  <1> QED BY <1>1, <1>3, <1>4, <1>5, <1>6 DEF d, EnqueuedTo

-----------------------------------------------------------------------------
(***************************************************************************)
(* A true literal moved to level 0.                                        *)
(***************************************************************************)
ToRoot(c, p) == [c EXCEPT !.level[VarOf(p)] = 0, !.reason[VarOf(p)] = CRef_Undef]

LEMMA ToRootFields ==
    ASSUME NEW c \in Core, NEW p \in Lit
    PROVE  LET d == ToRoot(c, p)
           IN /\ d \in Core /\ d.assigns = c.assigns /\ d.trail = c.trail
              /\ d.trail_lim = c.trail_lim /\ d.qhead = c.qhead /\ d.told = c.told
              /\ d.theory_level = c.theory_level /\ d.theory_queue = c.theory_queue
              /\ SameDb(c, d) /\ d.ok = c.ok /\ d.initialPropagate = c.initialPropagate
              /\ d.level = [c.level EXCEPT ![VarOf(p)] = 0]
              /\ d.reason = [c.reason EXCEPT ![VarOf(p)] = 0]
              /\ LevelOf(d, p) = 0 /\ ReasonOf(d, p) = 0
              /\ LevelOf(d, -p) = 0
              /\ \A q \in Lit : q # p /\ q # -p =>
                   LevelOf(d, q) = LevelOf(c, q) /\ ReasonOf(d, q) = ReasonOf(c, q)
  <1> DEFINE d == ToRoot(c, p)
  <1>1. VarOf(p) \in Var /\ VarOf(-p) = VarOf(p) /\ c.level \in [Var -> Nat] /\ c.reason \in [Var -> Int]
    BY LitFacts, CoreFields
  <1>2. /\ [c.level EXCEPT ![VarOf(p)] = 0] \in [Var -> Nat]
        /\ [c.reason EXCEPT ![VarOf(p)] = 0] \in [Var -> Int]
    BY <1>1
  <1>3. d = [c EXCEPT !.level = [c.level EXCEPT ![VarOf(p)] = 0],
                      !.reason = [c.reason EXCEPT ![VarOf(p)] = 0]]
    BY DEF ToRoot, CRef_Undef
  <1> HIDE DEF d
  <1>4. /\ d \in Core /\ d.assigns = c.assigns /\ d.trail = c.trail
        /\ d.trail_lim = c.trail_lim /\ d.qhead = c.qhead /\ d.told = c.told
        /\ d.theory_level = c.theory_level /\ d.theory_queue = c.theory_queue
        /\ SameDb(c, d) /\ d.ok = c.ok /\ d.initialPropagate = c.initialPropagate
        /\ d.level = [c.level EXCEPT ![VarOf(p)] = 0]
        /\ d.reason = [c.reason EXCEPT ![VarOf(p)] = 0]
    BY <1>2, <1>3 DEF Core, SameDb
  <1>5. LevelOf(d, p) = 0 /\ ReasonOf(d, p) = 0 /\ LevelOf(d, -p) = 0
    BY <1>1, <1>4 DEF LevelOf, ReasonOf
  <1>6. ASSUME NEW q \in Lit, q # p, q # -p
        PROVE  LevelOf(d, q) = LevelOf(c, q) /\ ReasonOf(d, q) = ReasonOf(c, q)
    <2>1. VarOf(q) \in Var /\ VarOf(q) # VarOf(p)
      BY <1>6, LitFacts
    <2> QED BY <1>1, <1>4, <2>1 DEF LevelOf, ReasonOf
  <1> QED BY <1>4, <1>5, <1>6 DEF d

LEMMA ToRootGood ==
    ASSUME NEW c \in Core, NEW lemmas, Good(c, lemmas), NEW p \in c.assigns
    PROVE  Good(ToRoot(c, p), lemmas)
  <1> DEFINE d == ToRoot(c, p)
             n == Len(c.trail)
  <1>0. TrailOK(c) /\ ToldOK(c) /\ DbOK(c) /\ CausesOK(c, lemmas) /\ p \in Lit
    BY CoreFields DEF Good
  <1>1. /\ d \in Core /\ d.assigns = c.assigns /\ d.trail = c.trail
        /\ d.trail_lim = c.trail_lim /\ d.qhead = c.qhead /\ d.told = c.told
        /\ d.theory_level = c.theory_level /\ SameDb(c, d)
        /\ LevelOf(d, p) = 0 /\ ReasonOf(d, p) = 0 /\ LevelOf(d, -p) = 0
        /\ \A q \in Lit : q # p /\ q # -p =>
             LevelOf(d, q) = LevelOf(c, q) /\ ReasonOf(d, q) = ReasonOf(c, q)
    BY <1>0, ToRootFields
  <1> HIDE DEF d
  <1>2. DecisionLevel(d) = DecisionLevel(c) /\ DecisionLevel(c) \in Nat /\ n \in Nat
    BY <1>1, CoreFields DEF DecisionLevel
  <1>3. ASSUME NEW q \in c.assigns
        PROVE  /\ LevelOf(d, q) <= LevelOf(c, q) /\ LevelOf(d, q) \in Nat /\ LevelOf(c, q) \in Nat
               /\ q # p => LevelOf(d, q) = LevelOf(c, q) /\ ReasonOf(d, q) = ReasonOf(c, q)
    <2>1. q \in Lit /\ q # -p /\ LevelOf(c, q) \in Nat /\ LevelOf(d, q) \in Nat
      BY <1>0, <1>1, CoreFields DEF TrailOK
    <2> QED BY <1>1, <2>1
  <1>4. \A i \in 1..n : c.trail[i] \in c.assigns
    BY <1>0, AssignedFacts
  <1>5. TrailOK(d)
    <2>1. ASSUME NEW i \in 1..n
          PROVE  /\ LevelOf(d, c.trail[i]) <= DecisionLevel(c)
                 /\ \A l \in 1..DecisionLevel(c) : i <= c.trail_lim[l] => LevelOf(d, c.trail[i]) < l
      <3>1. /\ LevelOf(c, c.trail[i]) <= DecisionLevel(c)
            /\ \A l \in 1..DecisionLevel(c) : i <= c.trail_lim[l] => LevelOf(c, c.trail[i]) < l
        BY <1>0 DEF TrailOK
      <3>2. /\ LevelOf(d, c.trail[i]) <= LevelOf(c, c.trail[i])
            /\ LevelOf(d, c.trail[i]) \in Nat /\ LevelOf(c, c.trail[i]) \in Nat
        BY <1>3, <1>4
      <3> QED BY <1>2, <3>1, <3>2
    <2> QED BY <1>0, <1>1, <1>2, <2>1 DEF TrailOK, LimitsOK
  <1>6. ToldOK(d)
    <2>1. ASSUME NEW i \in 1..Len(c.told) PROVE HeldAt(d, c.told[i])
      <3>1. HeldAt(c, c.told[i]) /\ c.told[i].at \in Nat
        BY <1>0, HeldFacts, LitFacts DEF ToldOK, ToldBut
      <3>2. LevelOf(d, c.told[i].lit) <= c.told[i].at
        <4>1. c.told[i].lit \in c.assigns /\ LevelOf(c, c.told[i].lit) <= c.told[i].at
          BY <3>1 DEF HeldAt
        <4>2. /\ LevelOf(d, c.told[i].lit) <= LevelOf(c, c.told[i].lit)
              /\ LevelOf(d, c.told[i].lit) \in Nat /\ LevelOf(c, c.told[i].lit) \in Nat
          BY <1>3, <4>1
        <4> QED BY <3>1, <4>1, <4>2
      <3> QED BY <1>1, <1>2, <3>1, <3>2 DEF HeldAt
    <2>2. ASSUME NEW i \in 1..Len(d.told), NEW j \in 1..Len(d.told), i < j
          PROVE  InOrder(d, d.told[i], d.told[j])
      <3>1. c.told[i].lit # 0 /\ c.told[j].lit # 0
        BY <1>1, HeldFacts, LitFacts
      <3>2. InOrder(c, c.told[i], c.told[j])
        BY <1>0, <1>1, <2>2, <3>1 DEF ToldOK, ToldBut
      <3> QED BY <1>1, <3>2, OrderFrame
    <2> QED BY <1>0, <1>1, <1>2, <2>1, <2>2 DEF ToldOK, ToldBut
  <1>7. DbOK(d)
    BY <1>0, <1>1, DbFrame
  <1>8. Live(d) = Live(c) /\ d.ca = c.ca /\ \A cr : Lits(d, cr) = Lits(c, cr)
    BY <1>1 DEF SameDb, Live, Lits
  <1>9. ASSUME NEW i \in 1..n PROVE CauseOK(d, lemmas, i)
    <2>0. i \in Int /\ c.trail[i] \in c.assigns
      BY <1>4
    <2>1. CASE c.trail[i] = p
      BY <1>1, <2>1 DEF CauseOK, Decision
    <2>2. CASE c.trail[i] # p
      <3>1. /\ ReasonOf(d, c.trail[i]) = ReasonOf(c, c.trail[i])
            /\ LevelOf(d, c.trail[i]) = LevelOf(c, c.trail[i])
            /\ LevelOf(c, c.trail[i]) \in Nat
        BY <1>3, <2>0, <2>2
      <3>2. ASSUME NEW C, Because(c, i, C) PROVE Because(d, i, C)
        <4> SUFFICES ASSUME NEW q \in C
                     PROVE  \E j \in 1..(i - 1) :
                              d.trail[j] = -q /\ LevelOf(d, d.trail[j]) <= LevelOf(d, d.trail[i])
          BY DEF Because
        <4>1. PICK j \in 1..(i - 1) : c.trail[j] = -q /\ LevelOf(c, c.trail[j]) <= LevelOf(c, c.trail[i])
          BY <3>2 DEF Because
        <4>2. j \in 1..n
          BY <1>2
        <4>3. /\ LevelOf(d, c.trail[j]) <= LevelOf(c, c.trail[j]) /\ LevelOf(d, c.trail[j]) \in Nat
              /\ LevelOf(c, c.trail[j]) \in Nat
          BY <1>3, <1>4, <4>2
        <4> QED BY <1>1, <3>1, <4>1, <4>3
      <3>3. CauseOK(c, lemmas, i)
        BY <1>0 DEF CausesOK
      <3>4. \A r : ByClause(c, i, r) => ByClause(d, i, r)
        BY <1>1, <1>8, <3>2 DEF ByClause
      <3>5. \A r : ByLemma(c, i, r) => ByLemma(d, i, r)
        BY <1>1, <3>2 DEF ByLemma
      <3>6. Decision(c, i) => Decision(d, i)
        BY <1>1, <1>2, <3>1 DEF Decision
      <3>7. InPlace(c, i) => InPlace(d, i)
        BY <1>1, <1>2, <3>1 DEF InPlace
      <3> QED BY <1>1, <3>1, <3>3, <3>4, <3>5, <3>6, <3>7 DEF CauseOK
    <2> QED BY <2>1, <2>2
  <1>10. CausesOK(d, lemmas)
    BY <1>1, <1>9 DEF CausesOK
  <1> QED BY <1>1, <1>5, <1>6, <1>7, <1>10 DEF Good, d

\* What every assignment that counts gives p may be a fact.
LEMMA ToRootFollows ==
    ASSUME NEW c \in Core, NEW p \in c.assigns, TrailOK(c), NEW M,
           \A m \in M : Agrees(m, c) => p \in m
    PROVE  Follows(c, ToRoot(c, p), M) /\ NoDecision(c, ToRoot(c, p))
  <1> DEFINE d == ToRoot(c, p)
  <1>0. p \in Lit
    BY CoreFields
  <1>1. /\ d \in Core /\ d.assigns = c.assigns /\ SameDb(c, d) /\ d.ok = c.ok
        /\ LevelOf(d, p) = 0 /\ ReasonOf(d, p) = 0
        /\ \A q \in Lit : q # p /\ q # -p =>
             LevelOf(d, q) = LevelOf(c, q) /\ ReasonOf(d, q) = ReasonOf(c, q)
    BY <1>0, ToRootFields
  <1> HIDE DEF d
  <1>2. \A q \in c.assigns : q \in Lit /\ q # -p
    BY CoreFields DEF TrailOK
  <1>3. Live(d) = Live(c) /\ d.delayed = c.delayed /\ \A cr : Lits(d, cr) = Lits(c, cr)
    BY <1>1 DEF SameDb, Live, Lits
  <1>4. Follows(c, d, M)
    <2> SUFFICES ASSUME NEW m \in M, Agrees(m, c) PROVE Agrees(m, d)
      BY DEF Follows
    <2>1. \A q \in d.assigns : LevelOf(d, q) = 0 => q \in m
      BY <1>1, <1>2 DEF Agrees
    <2> QED BY <1>1, <1>3, <2>1 DEF Agrees
  <1>5. NoDecision(c, d)
    <2> SUFFICES ASSUME NEW q \in d.assigns, ReasonOf(d, q) = 0, LevelOf(d, q) > 0
                 PROVE  q \in c.assigns /\ ReasonOf(c, q) = 0 /\ LevelOf(c, q) = LevelOf(d, q)
      BY DEF NoDecision
    <2>1. q # p
      BY <1>1
    <2> QED BY <1>1, <1>2, <2>1
  <1> QED BY <1>4, <1>5 DEF d

-----------------------------------------------------------------------------
(***************************************************************************)
(* NewDecisionLevel.                                                       *)
(***************************************************************************)
LEMMA NewLevelGood ==
    ASSUME NEW c \in Core, NEW lemmas, Good(c, lemmas)
    PROVE  LET d == NewDecisionLevel(c)
           IN /\ Good(d, lemmas) /\ DecisionLevel(d) = DecisionLevel(c) + 1
              /\ d.trail_lim = Append(c.trail_lim, Len(c.trail))
              /\ d.trail_lim[DecisionLevel(c) + 1] = Len(c.trail)
              /\ \A l \in 1..DecisionLevel(c) : d.trail_lim[l] = c.trail_lim[l]
              /\ d = [c EXCEPT !.trail_lim = d.trail_lim]
              /\ d.trail = c.trail /\ d.assigns = c.assigns /\ Held(d) = Held(c)
              /\ d.level = c.level /\ d.reason = c.reason /\ d.qhead = c.qhead
              /\ d.ca = c.ca /\ d.delayed = c.delayed /\ d.ok = c.ok /\ d.told = c.told
              /\ d.initialPropagate = c.initialPropagate /\ d.theory_queue = c.theory_queue
              /\ \A M : Follows(c, d, M)
              /\ NoDecision(c, d)
  <1> DEFINE d == NewDecisionLevel(c)
             n == Len(c.trail)
             D == DecisionLevel(c)
  <1>0. TrailOK(c) /\ ToldOK(c) /\ DbOK(c) /\ CausesOK(c, lemmas)
    BY DEF Good
  <1>1. n \in Nat /\ D \in Nat /\ c.trail_lim \in Seq(Nat) /\ D = Len(c.trail_lim)
    BY CoreFields DEF DecisionLevel
  <1>2. /\ Append(c.trail_lim, n) \in Seq(Nat) /\ Len(Append(c.trail_lim, n)) = D + 1
        /\ Append(c.trail_lim, n)[D + 1] = n
        /\ \A l \in 1..D : Append(c.trail_lim, n)[l] = c.trail_lim[l]
    BY <1>1, AppendFacts
  <1>3. d = [c EXCEPT !.trail_lim = Append(c.trail_lim, n)]
    BY DEF NewDecisionLevel
  <1> HIDE DEF d
  <1>4. /\ d \in Core /\ d.trail_lim = Append(c.trail_lim, n)
        /\ d.assigns = c.assigns /\ d.level = c.level /\ d.reason = c.reason /\ d.trail = c.trail
        /\ d.qhead = c.qhead /\ d.told = c.told /\ d.theory_level = c.theory_level
        /\ SameDb(c, d) /\ d.ok = c.ok /\ d.initialPropagate = c.initialPropagate
        /\ d.theory_queue = c.theory_queue
    BY <1>2, <1>3 DEF Core, SameDb
  <1>5. DecisionLevel(d) = D + 1 /\ Held(d) = Held(c)
    BY <1>2, <1>4 DEF DecisionLevel, Held
  <1>6. \A q : LevelOf(d, q) = LevelOf(c, q) /\ ReasonOf(d, q) = ReasonOf(c, q)
    BY <1>4 DEF LevelOf, ReasonOf
  <1>7. \A l \in 1..(D + 1) : l = D + 1 \/ l \in 1..D
    BY <1>1
  <1>8. \A l \in 1..D : c.trail_lim[l] \in Nat /\ c.trail_lim[l] <= n
    BY <1>0, CoreFields DEF TrailOK, LimitsOK
  <1>9. TrailOK(d)
    <2>1. ASSUME NEW l \in 1..(D + 1), NEW k \in 1..(D + 1), l <= k
          PROVE  d.trail_lim[l] <= d.trail_lim[k]
      <3>1. CASE k = D + 1
        BY <1>1, <1>2, <1>4, <1>7, <1>8, <3>1
      <3>2. CASE k # D + 1
        <4>1. k \in 1..D /\ l \in 1..D
          BY <1>1, <2>1, <3>2
        <4> QED BY <1>0, <1>2, <1>4, <2>1, <4>1 DEF TrailOK, LimitsOK
      <3> QED BY <3>1, <3>2
    <2>2. \A l \in 1..(D + 1) : d.trail_lim[l] <= Len(d.trail)
      BY <1>1, <1>2, <1>4, <1>7, <1>8
    <2>3. LimitsOK(d)
      BY <1>5, <2>1, <2>2 DEF LimitsOK
    <2>4. ASSUME NEW i \in 1..n
          PROVE  /\ LevelOf(d, d.trail[i]) <= DecisionLevel(d)
                 /\ \A l \in 1..DecisionLevel(d) : i <= d.trail_lim[l] => LevelOf(d, d.trail[i]) < l
      <3>1. /\ LevelOf(c, c.trail[i]) <= D /\ LevelOf(c, c.trail[i]) \in Nat
            /\ \A l \in 1..D : i <= c.trail_lim[l] => LevelOf(c, c.trail[i]) < l
        BY <1>0, AssignedFacts DEF TrailOK
      <3>2. LevelOf(d, d.trail[i]) = LevelOf(c, c.trail[i])
        BY <1>4, <1>6
      <3>3. ASSUME NEW l \in 1..(D + 1), i <= d.trail_lim[l] PROVE LevelOf(c, c.trail[i]) < l
        BY <1>1, <1>2, <1>4, <1>7, <3>1, <3>3
      <3> QED BY <1>1, <1>5, <3>1, <3>2, <3>3
    <2> QED BY <1>0, <1>4, <2>3, <2>4 DEF TrailOK
  <1>10. ToldOK(d)
    <2>1. ASSUME NEW i \in 1..Len(c.told) PROVE HeldAt(d, c.told[i])
      <3> DEFINE x == c.told[i]
      <3>1. HeldAt(c, x) /\ x.at \in Nat
        BY <1>0, HeldFacts, LitFacts DEF ToldOK, ToldBut
      <3>2. x.at <= D /\ c.theory_level \in Nat
        <4>1. x.at <= c.theory_level /\ c.theory_level <= D /\ c.theory_level \in Nat
          BY <1>0, <3>1, CoreFields DEF ToldOK, ToldBut, HeldAt
        <4> QED BY <1>1, <3>1, <4>1
      <3>3. ASSUME NEW k \in 1..Len(d.trail), NEW l \in 1..DecisionLevel(d),
                   d.trail[k] = x.lit, k <= d.trail_lim[l]
            PROVE  x.at < l
        <4>1. CASE l \in 1..D
          BY <1>2, <1>4, <3>1, <3>3, <4>1 DEF HeldAt
        <4>2. CASE l = D + 1
          BY <1>1, <3>1, <3>2, <4>2
        <4> QED BY <1>5, <1>7, <4>1, <4>2
      <3> QED BY <1>4, <1>6, <3>1, <3>3 DEF HeldAt
    <2>2. ASSUME NEW i \in 1..Len(d.told), NEW j \in 1..Len(d.told), i < j
          PROVE  InOrder(d, d.told[i], d.told[j])
      <3>1. c.told[i].lit # 0 /\ c.told[j].lit # 0
        BY <1>4, HeldFacts, LitFacts
      <3>2. InOrder(c, c.told[i], c.told[j])
        BY <1>0, <1>4, <2>2, <3>1 DEF ToldOK, ToldBut
      <3> QED BY <1>4, <3>2, OrderFrame
    <2>3. d.theory_level <= DecisionLevel(d)
      <3>1. c.theory_level <= D /\ c.theory_level \in Nat
        BY <1>0, CoreFields DEF ToldOK, ToldBut
      <3> QED BY <1>1, <1>4, <1>5, <3>1
    <2> QED BY <1>4, <2>1, <2>2, <2>3 DEF ToldOK, ToldBut
  <1>11. Live(d) = Live(c) /\ d.ca = c.ca /\ d.delayed = c.delayed /\ \A cr : Lits(d, cr) = Lits(c, cr)
    BY <1>4 DEF SameDb, Live, Lits
  <1>12. CausesOK(d, lemmas)
    <2> SUFFICES ASSUME NEW i \in 1..Len(d.trail) PROVE CauseOK(d, lemmas, i)
      BY DEF CausesOK
    <2>1. i \in 1..n /\ CauseOK(c, lemmas, i) /\ LevelOf(c, c.trail[i]) <= D
      BY <1>0, <1>4 DEF CausesOK, TrailOK
    <2>2. /\ DecisionLevel(d) >= DecisionLevel(c)
          /\ \A l \in 1..DecisionLevel(c) : d.trail_lim[l] = c.trail_lim[l]
          /\ d.trail_lim[DecisionLevel(c) + 1] >= i
      BY <1>1, <1>2, <1>4, <1>5, <2>1
    <2> QED BY <1>4, <1>6, <1>11, <2>1, <2>2, CauseFrame
  <1>13. \A M : Follows(c, d, M)
    BY <1>4, <1>6, <1>11 DEF Follows, Agrees
  <1>14. NoDecision(c, d)
    BY <1>4, <1>6 DEF NoDecision
  <1>15. DbOK(d)
    BY <1>0, <1>4, DbFrame
  <1>16. d = [c EXCEPT !.trail_lim = d.trail_lim]
    BY <1>3, <1>4
  <1>17. Good(d, lemmas)
    BY <1>4, <1>9, <1>10, <1>12, <1>15 DEF Good
  <1> QED BY <1>2, <1>4, <1>5, <1>11, <1>13, <1>14, <1>16, <1>17 DEF d

-----------------------------------------------------------------------------
(***************************************************************************)
(* cancelUntil.                                                            *)
(***************************************************************************)
LEMMA ReenqueueKeeps ==
    ASSUME NEW a \in Core, ToldOK(a), Distinct(a.trail), NEW p \in Lit,
           p \notin Range(a.trail), p \in a.assigns, LevelOf(a, p) <= DecisionLevel(a),
           \A l \in 1..DecisionLevel(a) : a.trail_lim[l] <= Len(a.trail)
    PROVE  LET d == Reenqueue(a, p)
           IN /\ d \in Core /\ ToldOK(d)
              /\ d.assigns = a.assigns /\ d.level = a.level /\ d.reason = a.reason
              /\ d.trail = Append(a.trail, p) /\ d.trail_lim = a.trail_lim
              /\ d.qhead = a.qhead /\ SameDb(a, d) /\ d.ok = a.ok
              /\ d.initialPropagate = a.initialPropagate
              /\ Held(d) = IF HasTheory(p) THEN Held(a) \cup {p} ELSE Held(a)
  <1> DEFINE e == [a EXCEPT !.trail = Append(@, p)]
             d == Reenqueue(a, p)
             n == Len(a.trail)
  <1>0. n \in Nat
    BY CoreFields
  <1>1. a.trail \in Seq(Lit) /\ DecisionLevel(a) \in Nat /\ a.theory_level \in Nat
    BY CoreFields
  <1>2. /\ Append(a.trail, p) \in Seq(Lit) /\ Len(Append(a.trail, p)) = n + 1
        /\ Append(a.trail, p)[n + 1] = p /\ \A i \in 1..n : Append(a.trail, p)[i] = a.trail[i]
        /\ Distinct(Append(a.trail, p))
    BY <1>1, AppendFacts
  <1>3. /\ e \in Core /\ e.assigns = a.assigns /\ e.level = a.level /\ e.reason = a.reason
        /\ e.trail = Append(a.trail, p) /\ e.trail_lim = a.trail_lim
        /\ e.qhead = a.qhead /\ SameDb(a, e) /\ e.ok = a.ok
        /\ e.initialPropagate = a.initialPropagate
        /\ e.told = a.told /\ e.theory_level = a.theory_level
    BY <1>2 DEF Core, SameDb
  <1> HIDE DEF e
  <1>4. DecisionLevel(e) = DecisionLevel(a) /\ (\A q : LevelOf(e, q) = LevelOf(a, q)) /\ Held(e) = Held(a)
    BY <1>3 DEF DecisionLevel, LevelOf, Held
  <1>5. \A m \in 1..Len(e.trail) : e.trail[m] # p => m \in 1..n /\ e.trail[m] = a.trail[m]
    <2> TAKE m \in 1..Len(e.trail)
    <2> HAVE e.trail[m] # p
    <2>1. m # n + 1 /\ m \in 1..(n + 1)
      BY <1>2, <1>3
    <2>2. m \in 1..n
      BY <1>0, <2>1
    <2> QED BY <1>2, <1>3, <2>2
  <1>6. \A i \in 1..Len(a.told) : a.told[i].lit # 0
    BY HeldFacts, LitFacts
  <1>7. ASSUME NEW i \in 1..Len(e.told), e.told[i].lit # p PROVE HeldAt(e, e.told[i])
    <2>1. HeldAt(a, a.told[i])
      BY <1>3, <1>6, <1>7 DEF ToldOK, ToldBut
    <2> QED BY <1>3, <1>4, <1>5, <1>7, <2>1 DEF HeldAt
  <1>8. ASSUME NEW i \in 1..Len(e.told), NEW j \in 1..Len(e.told), i < j,
               e.told[i].lit # p, e.told[j].lit # p
        PROVE  InOrder(e, e.told[i], e.told[j])
    <2>1. InOrder(a, a.told[i], a.told[j])
      BY <1>3, <1>6, <1>8 DEF ToldOK, ToldBut
    <2> QED BY <1>3, <1>5, <1>8, <2>1 DEF InOrder
  <1>9. ToldBut(e, p)
    BY <1>3, <1>4, <1>7, <1>8 DEF ToldBut, ToldOK
  <1>10. /\ Distinct(e.trail) /\ p \in e.assigns /\ LevelOf(e, p) <= DecisionLevel(e)
         /\ Len(e.trail) >= 1 /\ e.trail[Len(e.trail)] = p
         /\ \A l \in 1..DecisionLevel(e) : e.trail_lim[l] < Len(e.trail)
    <2>1. \A l \in 1..DecisionLevel(a) : a.trail_lim[l] \in Nat
      BY CoreFields
    <2> QED BY <1>0, <1>2, <1>3, <1>4, <2>1
  <1> DEFINE t == Tell(e, p)
  <1>14. CASE HasTheory(p)
    <2>0. /\ t \in Core /\ ToldOK(t) /\ SameTrail(e, t)
          /\ t = [e EXCEPT !.told = t.told, !.theory_level = t.theory_level]
          /\ Held(t) = IF HasTheory(p) THEN Held(e) \cup {p} ELSE Held(e)
      BY <1>3, <1>9, <1>10, <1>14, TellKeeps
    <2>1. d = [t EXCEPT !.theory_queue = TRUE]
      BY <1>14 DEF Reenqueue, TellAndQueue, e, t
    <2> HIDE DEF t
    <2>2. /\ d \in Core /\ SameTrail(t, d) /\ d.told = t.told /\ d.theory_level = t.theory_level
          /\ d.reason = t.reason /\ d.qhead = t.qhead /\ SameDb(t, d) /\ d.ok = t.ok
          /\ d.initialPropagate = t.initialPropagate
      BY <2>0, <2>1 DEF Core, SameTrail, SameDb
    <2> HIDE DEF d
    <2>3. /\ t.reason = e.reason /\ t.qhead = e.qhead /\ SameDb(e, t) /\ t.ok = e.ok
          /\ t.initialPropagate = e.initialPropagate
      BY <1>3, <2>0 DEF Core, SameDb
    <2>4. Held(d) = Held(t)
      BY <2>2 DEF Held
    <2>5. ToldOK(d)
      BY <2>0, <2>2 DEF ToldOK, ToldBut, HeldAt, InOrder, SameTrail, LevelOf, DecisionLevel
    <2> QED BY <1>3, <1>4, <1>14, <2>0, <2>2, <2>3, <2>4, <2>5 DEF SameTrail, SameDb, d
  <1>15. CASE ~HasTheory(p)
    <2>1. d = e
      BY <1>15 DEF Reenqueue, TellAndQueue, e
    <2>2. \A i \in 1..Len(e.told) : e.told[i].lit # p
      <3> SUFFICES ASSUME NEW i \in 1..Len(e.told) PROVE e.told[i].lit # p
        OBVIOUS
      <3>1. HeldAt(a, a.told[i])
        BY <1>3, <1>6 DEF ToldOK, ToldBut
      <3> QED BY <1>3, <1>15, <3>1 DEF HeldAt
    <2>3. ToldOK(e)
      BY <1>9, <2>2 DEF ToldOK, ToldBut
    <2> HIDE DEF d
    <2> QED BY <1>3, <1>4, <1>15, <2>1, <2>3 DEF d
  <1> QED BY <1>14, <1>15

\* d is c after cancelUntil(lev).  g takes the places of its trail to those of c's.
Cancels(c, d, lev, g) ==
    /\ d.assigns = {p \in c.assigns : LevelOf(c, p) <= lev}
    /\ d.level = c.level /\ d.reason = c.reason /\ SameDb(c, d) /\ d.ok = c.ok
    /\ d.initialPropagate = c.initialPropagate
    /\ DecisionLevel(d) = lev /\ \A l \in 1..lev : d.trail_lim[l] = c.trail_lim[l]
    /\ d.qhead = c.trail_lim[lev + 1]
    /\ g \in [1..Len(d.trail) -> 1..Len(c.trail)]
    /\ \A i \in 1..Len(d.trail) : d.trail[i] = c.trail[g[i]] /\ LevelOf(c, d.trail[i]) <= lev
    /\ \A i, j \in 1..Len(d.trail) : i < j => g[i] < g[j]
    /\ \A n \in 1..Len(c.trail) :
         LevelOf(c, c.trail[n]) <= lev => \E i \in 1..Len(d.trail) : g[i] = n
    /\ c.trail_lim[lev + 1] <= Len(d.trail)
    /\ \A i \in 1..c.trail_lim[lev + 1] : g[i] = i

\* What was filed up to lev is still held, and what was kept behind the cut is told again.
HoldsAfter(c, d, lev) ==
    /\ \A i \in 1..Len(c.told) : c.told[i].at <= lev => c.told[i].lit \in Held(d)
    /\ \A i \in (c.trail_lim[lev + 1] + 1)..Len(d.trail) :
         HasTheory(d.trail[i]) => d.trail[i] \in Held(d)

Cut(c, lev) == SubSeq(c.trail, c.trail_lim[lev + 1] + 1, Len(c.trail))
Stays(c, lev) == {p \in Range(Cut(c, lev)) : LevelOf(c, p) <= lev}

\* The solver as cancelUntil leaves it before it queues literals again.
Back(c, lev) ==
    [c EXCEPT !.assigns = @ \ (Range(Cut(c, lev)) \ Stays(c, lev)),
              !.trail = SubSeq(@, 1, c.trail_lim[lev + 1]),
              !.trail_lim = SubSeq(@, 1, lev),
              !.qhead = QueueHead(c, lev),
              !.told = TheoryBacktrack(@, lev),
              !.theory_level = IF @ > lev THEN lev ELSE @,
              !.theory_queue = FALSE]

LEMMA CancelIs ==
    ASSUME NEW c, NEW lev, ~(DecisionLevel(c) <= lev)
    PROVE  CancelUntil(c, lev) = RequeueAll(Back(c, lev), Keep(Cut(c, lev), Stays(c, lev)))
  BY DEF CancelUntil, RequeueAll, Back, Cut, Stays

\* The assignment after it, and the part of the trail behind the cut.
LEMMA CutFacts ==
    ASSUME NEW c \in Core, TrailOK(c), NEW lev \in Nat, lev < DecisionLevel(c)
    PROVE  /\ c.trail_lim[lev + 1] \in 0..Len(c.trail)
           /\ \A l \in 1..lev : c.trail_lim[l] \in Nat /\ c.trail_lim[l] <= c.trail_lim[lev + 1]
           /\ \A i \in 1..c.trail_lim[lev + 1] : LevelOf(c, c.trail[i]) <= lev
           /\ Cut(c, lev) \in Seq(Lit) /\ Len(Cut(c, lev)) = Len(c.trail) - c.trail_lim[lev + 1]
           /\ \A i \in 1..Len(Cut(c, lev)) : Cut(c, lev)[i] = c.trail[c.trail_lim[lev + 1] + i]
           /\ c.assigns \ (Range(Cut(c, lev)) \ Stays(c, lev)) = {p \in c.assigns : LevelOf(c, p) <= lev}
  <1> DEFINE start == c.trail_lim[lev + 1]
             cut == Cut(c, lev)
             n == Len(c.trail)
  <1>1. c.trail \in Seq(Lit) /\ n \in Nat /\ DecisionLevel(c) \in Nat
    BY CoreFields
  <1>2. lev + 1 \in 1..DecisionLevel(c) /\ \A l \in 1..lev : l \in 1..DecisionLevel(c) /\ l <= lev + 1
    BY <1>1
  <1>3. start \in 0..n /\ \A l \in 1..lev : c.trail_lim[l] \in Nat /\ c.trail_lim[l] <= start
    BY <1>2, CoreFields DEF TrailOK, LimitsOK
  <1>4. /\ cut \in Seq(Lit) /\ Len(cut) = n - start
        /\ \A i \in 1..(n - start) : cut[i] = c.trail[start + i]
    <2> DEFINE t == c.trail
    <2>1. start \in Nat /\ start <= n /\ n = Len(t) /\ cut = SubSeq(t, start + 1, n) /\ t \in Seq(Lit)
      BY <1>1, <1>3 DEF Cut
    <2> HIDE DEF start, n, t, cut
    <2>2. n \in Nat
      BY <1>1
    <2>3. /\ SubSeq(t, start + 1, n) \in Seq(Lit) /\ Len(SubSeq(t, start + 1, n)) = n - start
          /\ \A i \in 1..(n - start) : SubSeq(t, start + 1, n)[i] = t[start + i]
      <3>1. n <= Len(t)
        BY <2>1, <2>2
      <3> QED BY <2>1, <2>2, <3>1, SubFacts
    <2> QED BY <2>1, <2>3 DEF t
  <1> HIDE DEF cut
  <1>5. \A i \in 1..start : LevelOf(c, c.trail[i]) <= lev
    <2> TAKE i \in 1..start
    <2>1. i \in 1..n
      BY <1>1, <1>3
    <2>2. LevelOf(c, c.trail[i]) < lev + 1 /\ LevelOf(c, c.trail[i]) \in Nat
      BY <1>2, <2>1, AssignedFacts DEF TrailOK
    <2> QED BY <2>2
  <1>6. ASSUME NEW p \in c.assigns PROVE p \in Range(cut) \/ LevelOf(c, p) <= lev
    <2>1. PICK i \in 1..n : c.trail[i] = p
      BY AssignedFacts
    <2>2. CASE i \in 1..start
      BY <1>5, <2>1, <2>2
    <2>3. CASE i > start
      <3>1. i - start \in 1..(n - start) /\ start + (i - start) = i
        BY <1>1, <1>3, <2>3
      <3>2. cut[i - start] = p
        BY <1>4, <2>1, <3>1
      <3>3. DOMAIN cut = 1..(n - start)
        BY <1>4
      <3> QED BY <3>1, <3>2, <3>3 DEF Range
    <2> QED BY <1>3, <2>2, <2>3
  <1>7. c.assigns \ (Range(cut) \ Stays(c, lev)) = {p \in c.assigns : LevelOf(c, p) <= lev}
    BY <1>6 DEF Stays, cut
  <1> QED BY <1>3, <1>4, <1>5, <1>7 DEF cut

LEMMA BackFields ==
    ASSUME NEW c \in Core, TrailOK(c), ToldOK(c), NEW lev \in Nat, lev < DecisionLevel(c)
    PROVE  LET back == Back(c, lev)
               start == c.trail_lim[lev + 1]
           IN /\ back \in Core /\ ToldOK(back)
              /\ back.assigns = {p \in c.assigns : LevelOf(c, p) <= lev}
              /\ back.level = c.level /\ back.reason = c.reason /\ SameDb(c, back)
              /\ back.ok = c.ok /\ back.initialPropagate = c.initialPropagate
              /\ back.qhead = start
              /\ Len(back.trail) = start /\ \A i \in 1..start : back.trail[i] = c.trail[i]
              /\ DecisionLevel(back) = lev
              /\ \A l \in 1..lev : back.trail_lim[l] = c.trail_lim[l] /\ back.trail_lim[l] <= start
              /\ \A i \in 1..Len(c.told) : c.told[i].at <= lev => c.told[i].lit \in Held(back)
  <1> DEFINE S == {r \in Range(c.told) : r.at <= lev}
             q == Keep(c.told, S)
             k == Len(q)
             tl == IF c.theory_level > lev THEN lev ELSE c.theory_level
             D == DecisionLevel(c)
             A == {p \in c.assigns : LevelOf(c, p) <= lev}
             start == c.trail_lim[lev + 1]
             back == Back(c, lev)
  <1>1. /\ c.trail \in Seq(Lit) /\ Len(c.trail) \in Nat /\ c.trail_lim \in Seq(Nat)
        /\ D \in Nat /\ c.told \in Seq(ToldEntry) /\ Len(c.told) \in Nat /\ c.theory_level \in Nat
    BY CoreFields
  <1>2. lev + 1 \in 1..D /\ \A l \in 1..lev : l \in 1..D /\ l <= lev + 1
    BY <1>1
  <1>3. start \in Nat /\ start <= Len(c.trail) /\ \A l \in 1..lev : c.trail_lim[l] <= start
    <2>1. start \in 0..Len(c.trail) /\ \A l \in 1..lev : c.trail_lim[l] <= start
      BY CutFacts
    <2> QED BY <1>1, <2>1
  <1>4. /\ SubSeq(c.trail, 1, start) \in Seq(Lit) /\ Len(SubSeq(c.trail, 1, start)) = start
        /\ \A i \in 1..start : SubSeq(c.trail, 1, start)[i] = c.trail[i]
    BY <1>1, <1>3, PrefixFacts
  <1>5. /\ SubSeq(c.trail_lim, 1, lev) \in Seq(Nat) /\ Len(SubSeq(c.trail_lim, 1, lev)) = lev
        /\ \A i \in 1..lev : SubSeq(c.trail_lim, 1, lev)[i] = c.trail_lim[i]
    <2>1. lev <= Len(c.trail_lim)
      BY <1>1 DEF DecisionLevel
    <2> QED BY <1>1, <2>1, PrefixFacts
  <1>6. q \in Seq(ToldEntry) /\ k \in Nat /\ \E e : Embeds(e, q, c.told, S, Len(c.told))
    <2> HIDE DEF S
    <2> QED BY <1>1, KeepEmbeds, KeepFacts
  <1>7. PICK e : Embeds(e, q, c.told, S, Len(c.told))
    BY <1>6
  <1>8. \A x : x \in Range(q) <=> x \in Range(c.told) /\ x \in S
    <2>1. Range(q) = Range(c.told) \cap S
      BY <1>1, KeepFacts
    <2> QED BY <2>1
  <1>9. q = TheoryBacktrack(c.told, lev)
    BY DEF TheoryBacktrack
  <1> HIDE DEF q
  <1>10. tl \in Nat /\ tl <= lev /\ tl <= c.theory_level
    BY <1>1
  <1>11. A \subseteq Lit /\ c.assigns \ (Range(Cut(c, lev)) \ Stays(c, lev)) = A
    BY CoreFields, CutFacts
  <1>12. /\ back \in Core /\ back.assigns = A /\ back.trail = SubSeq(c.trail, 1, start)
         /\ back.trail_lim = SubSeq(c.trail_lim, 1, lev) /\ back.told = q /\ back.theory_level = tl
         /\ back.level = c.level /\ back.reason = c.reason /\ SameDb(c, back)
         /\ back.ok = c.ok /\ back.initialPropagate = c.initialPropagate
         /\ back.qhead = start
    <2>1. back = [c EXCEPT !.assigns = A, !.trail = SubSeq(c.trail, 1, start),
                           !.trail_lim = SubSeq(c.trail_lim, 1, lev), !.qhead = start,
                           !.told = q, !.theory_level = tl, !.theory_queue = FALSE]
      BY <1>9, <1>11 DEF Back, QueueHead
    <2> HIDE DEF back, tl, A, start
    <2>2. SubSeq(c.trail, 1, start) \in Seq(Lit) /\ SubSeq(c.trail_lim, 1, lev) \in Seq(Nat)
      BY <1>4, <1>5
    <2>3. A \subseteq Lit /\ start \in Nat /\ tl \in Nat /\ q \in Seq(ToldEntry)
      BY <1>3, <1>6, <1>10, <1>11
    <2> QED BY <2>1, <2>2, <2>3 DEF Core, SameDb
  <1> HIDE DEF back, tl
  <1>13. DecisionLevel(back) = lev
    BY <1>5, <1>12 DEF DecisionLevel
  <1>14. /\ \A i \in 1..k : e[i] \in 1..Len(c.told) /\ q[i] = c.told[e[i]] /\ q[i].at <= lev
         /\ \A i, j \in 1..k : i < j => e[i] < e[j]
    BY <1>7 DEF Embeds
  <1>15. \A i \in 1..Len(c.told) : c.told[i].lit # 0 /\ c.told[i].at \in Nat /\ c.told[i].lit \in Lit
    BY HeldFacts, LitFacts
  <1>16. ASSUME NEW i \in 1..k PROVE HeldAt(back, q[i])
    <2>1. e[i] \in 1..Len(c.told) /\ q[i] = c.told[e[i]] /\ q[i].at <= lev
      BY <1>14
    <2>2. HeldAt(c, q[i]) /\ q[i].at \in Nat /\ q[i].lit \in Lit
      BY <1>15, <2>1 DEF ToldOK, ToldBut
    <2>3. q[i].lit \in A
      <3>1. q[i].lit \in c.assigns /\ LevelOf(c, q[i].lit) <= q[i].at /\ LevelOf(c, q[i].lit) \in Nat
        BY <2>2, CoreFields DEF HeldAt
      <3> QED BY <2>1, <2>2, <3>1
    <2>4. LevelOf(back, q[i].lit) = LevelOf(c, q[i].lit)
      BY <1>12 DEF LevelOf
    <2>5. q[i].at <= tl
      BY <1>1, <2>1, <2>2 DEF HeldAt, tl
    <2>6. ASSUME NEW n \in 1..Len(back.trail), NEW l \in 1..DecisionLevel(back),
                 back.trail[n] = q[i].lit, n <= back.trail_lim[l]
          PROVE  q[i].at < l
      <3>1. n \in 1..start /\ l \in 1..lev
        BY <1>4, <1>12, <1>13
      <3>2. n \in 1..Len(c.trail) /\ l \in 1..D
        BY <1>1, <1>2, <1>3, <3>1
      <3>3. c.trail[n] = q[i].lit /\ n <= c.trail_lim[l]
        BY <1>4, <1>5, <1>12, <2>6, <3>1
      <3> QED BY <2>2, <3>2, <3>3 DEF HeldAt
    <2> QED BY <1>12, <2>2, <2>3, <2>4, <2>5, <2>6 DEF HeldAt
  <1>17. ASSUME NEW i \in 1..k, NEW j \in 1..k, i < j PROVE InOrder(back, q[i], q[j])
    <2>1. /\ e[i] \in 1..Len(c.told) /\ q[i] = c.told[e[i]]
          /\ e[j] \in 1..Len(c.told) /\ q[j] = c.told[e[j]] /\ e[i] < e[j]
      BY <1>14, <1>17
    <2>2. InOrder(c, q[i], q[j])
      BY <1>15, <2>1 DEF ToldOK, ToldBut
    <2>3. ASSUME NEW n \in 1..Len(back.trail)
          PROVE  n \in 1..Len(c.trail) /\ back.trail[n] = c.trail[n]
      <3>1. n \in 1..start /\ back.trail[n] = c.trail[n]
        BY <1>4, <1>12
      <3>2. n \in 1..Len(c.trail)
        BY <1>1, <1>3, <3>1
      <3> QED BY <3>1, <3>2
    <2> QED BY <2>2, <2>3 DEF InOrder
  <1>18. ToldOK(back)
    BY <1>10, <1>12, <1>13, <1>16, <1>17 DEF ToldOK, ToldBut
  <1>19. ASSUME NEW i \in 1..Len(c.told), c.told[i].at <= lev PROVE c.told[i].lit \in Held(back)
    <2>1. c.told[i] \in Range(c.told)
      BY <1>1, RangeFacts
    <2>2. c.told[i] \in Range(q)
      BY <1>8, <1>19, <2>1
    <2> QED BY <1>12, <2>2 DEF Held
  <1> QED BY <1>3, <1>4, <1>5, <1>12, <1>13, <1>18, <1>19 DEF back

-----------------------------------------------------------------------------
\* The first i of what stays, q, are queued again.
Requeued(c, lev, q, a, i) ==
    LET start == c.trail_lim[lev + 1]
        back == Back(c, lev)
    IN /\ a \in Core /\ ToldOK(a) /\ Distinct(a.trail)
       /\ a.assigns = back.assigns /\ a.level = c.level /\ a.reason = c.reason /\ SameDb(c, a)
       /\ a.ok = c.ok /\ a.initialPropagate = c.initialPropagate /\ a.qhead = start
       /\ a.trail_lim = back.trail_lim
       /\ Len(a.trail) = start + i
       /\ \A n \in 1..start : a.trail[n] = c.trail[n]
       /\ \A j \in 1..i : a.trail[start + j] = q[j] /\ (HasTheory(q[j]) => q[j] \in Held(a))
       /\ Held(back) \subseteq Held(a)

LEMMA RequeuedStep ==
    ASSUME NEW c \in Core, TrailOK(c), ToldOK(c), NEW lev \in Nat, lev < DecisionLevel(c),
           NEW q \in Seq(Lit), NEW e, Embeds(e, q, Cut(c, lev), Stays(c, lev), Len(Cut(c, lev))),
           NEW i \in 1..Len(q), NEW a, Requeued(c, lev, q, a, i - 1)
    PROVE  Requeued(c, lev, q, Reenqueue(a, q[i]), i)
  <1> DEFINE start == c.trail_lim[lev + 1]
             back == Back(c, lev)
             cut == Cut(c, lev)
             p == q[i]
             d == Reenqueue(a, p)
             m == Len(a.trail)
  <1>1. /\ start \in 0..Len(c.trail) /\ cut \in Seq(Lit) /\ Len(cut) = Len(c.trail) - start
        /\ \A j \in 1..Len(cut) : cut[j] = c.trail[start + j]
    BY CutFacts
  <1>2. Len(c.trail) \in Nat /\ Len(q) \in Nat /\ start \in Nat /\ Len(cut) \in Nat
    <2>1. Len(c.trail) \in Nat
      BY CoreFields
    <2> QED BY <1>1, <2>1
  <1>3. /\ \A j \in 1..Len(q) : e[j] \in 1..Len(cut) /\ q[j] = cut[e[j]] /\ q[j] \in Stays(c, lev)
        /\ \A j, l \in 1..Len(q) : j < l => e[j] < e[l]
    BY DEF Embeds
  <1>4. /\ back.assigns = {r \in c.assigns : LevelOf(c, r) <= lev} /\ DecisionLevel(back) = lev
        /\ \A l \in 1..lev : back.trail_lim[l] <= start /\ back.trail_lim[l] = c.trail_lim[l]
    BY BackFields
  <1> HIDE DEF cut, back, start
  <1>5. \A j \in 1..Len(q) : /\ start + e[j] \in 1..Len(c.trail) /\ e[j] \in Nat \ {0}
                             /\ q[j] = c.trail[start + e[j]] /\ q[j] \in Lit
    <2> TAKE j \in 1..Len(q)
    <2> DEFINE x == e[j]
    <2>1. x \in 1..Len(cut) /\ q[j] = cut[x]
      BY <1>3
    <2> HIDE DEF x
    <2>2. start + x \in 1..Len(c.trail) /\ x \in Nat \ {0}
      <3>1. start <= Len(c.trail) /\ Len(cut) = Len(c.trail) - start
        BY <1>1, <1>2
      <3> QED BY ONLY <1>2, <2>1, <3>1
    <2>3. c.trail[start + x] \in Lit
      BY <2>2, CoreFields
    <2> QED BY <1>1, <2>1, <2>2, <2>3 DEF x
  <1>6. /\ a \in Core /\ ToldOK(a) /\ Distinct(a.trail)
        /\ a.assigns = back.assigns /\ a.level = c.level /\ a.reason = c.reason /\ SameDb(c, a)
        /\ a.ok = c.ok /\ a.initialPropagate = c.initialPropagate /\ a.qhead = start
        /\ a.trail_lim = back.trail_lim
        /\ m = start + (i - 1)
        /\ \A n \in 1..start : a.trail[n] = c.trail[n]
        /\ \A j \in 1..(i - 1) : a.trail[start + j] = q[j] /\ (HasTheory(q[j]) => q[j] \in Held(a))
        /\ Held(back) \subseteq Held(a)
    BY DEF Requeued, back, start
  <1>7. DecisionLevel(a) = lev /\ LevelOf(a, p) = LevelOf(c, p)
    BY <1>4, <1>6 DEF DecisionLevel, LevelOf
  <1>8. p \in a.assigns /\ LevelOf(a, p) <= lev /\ p \in Lit
    <2>1. p \in Stays(c, lev) /\ p \in Lit /\ start + e[i] \in 1..Len(c.trail) /\ p = c.trail[start + e[i]]
      BY <1>3, <1>5
    <2>2. p \in c.assigns /\ LevelOf(c, p) <= lev
      BY <2>1, AssignedFacts DEF Stays
    <2> QED BY <1>4, <1>6, <1>7, <2>1, <2>2
  <1>9. m \in Nat /\ a.trail \in Seq(Lit) /\ i \in Nat /\ start \in Nat
    BY <1>1, <1>2, <1>6, CoreFields
  <1>10. p \notin Range(a.trail)
    <2> SUFFICES ASSUME NEW n \in 1..m, a.trail[n] = p PROVE FALSE
      BY <1>9, RangeFacts
    <2>1. CASE n \in 1..start
      <3>1. c.trail[n] = c.trail[start + e[i]] /\ n \in 1..Len(c.trail) /\ start + e[i] \in 1..Len(c.trail)
        BY <1>1, <1>2, <1>5, <1>6, <2>1
      <3>2. n = start + e[i]
        BY <3>1, AssignedFacts
      <3> QED BY <1>5, <1>9, <2>1, <3>2
    <2>2. CASE n > start
      <3> DEFINE j == n - start
      <3>1. j \in 1..(i - 1) /\ n = start + j /\ j \in 1..Len(q) /\ j < i
        BY <1>2, <1>6, <1>9, <2>2
      <3>2. q[j] = p
        BY <1>6, <3>1
      <3>3. c.trail[start + e[j]] = c.trail[start + e[i]] /\ e[j] < e[i]
        BY <1>3, <1>5, <3>1, <3>2
      <3>4. start + e[j] = start + e[i]
        <4> DEFINE x == start + e[j]
                   y == start + e[i]
        <4>1. x \in 1..Len(c.trail) /\ y \in 1..Len(c.trail) /\ c.trail[x] = c.trail[y]
          BY <1>5, <3>1, <3>3
        <4> HIDE DEF x, y
        <4>2. x = y
          BY <4>1, AssignedFacts
        <4> QED BY <4>2 DEF x, y
      <3>5. e[j] \in Nat /\ e[i] \in Nat
        BY <1>5, <3>1
      <3> QED BY <1>9, <3>3, <3>4, <3>5
    <2> QED BY <1>9, <2>1, <2>2
  <1>11. \A l \in 1..DecisionLevel(a) : a.trail_lim[l] <= m
    <2> TAKE l \in 1..DecisionLevel(a)
    <2>1. a.trail_lim[l] <= start /\ a.trail_lim[l] \in Nat
      BY <1>4, <1>6, <1>7, CoreFields
    <2> QED BY <1>6, <1>9, <2>1
  <1>12. /\ d \in Core /\ ToldOK(d)
         /\ d.assigns = a.assigns /\ d.level = a.level /\ d.reason = a.reason
         /\ d.trail = Append(a.trail, p) /\ d.trail_lim = a.trail_lim
         /\ d.qhead = a.qhead /\ SameDb(a, d) /\ d.ok = a.ok
         /\ d.initialPropagate = a.initialPropagate
         /\ Held(d) = IF HasTheory(p) THEN Held(a) \cup {p} ELSE Held(a)
    <2>1. LevelOf(a, p) <= DecisionLevel(a)
      BY <1>7, <1>8
    <2> HIDE DEF p, m
    <2>2. \A l \in 1..DecisionLevel(a) : a.trail_lim[l] <= Len(a.trail)
      BY <1>11 DEF m
    <2> QED BY ONLY <1>6, <1>8, <1>10, <2>1, <2>2, ReenqueueKeeps DEF d
  <1> HIDE DEF d
  <1>13. /\ Len(d.trail) = m + 1 /\ d.trail[m + 1] = p /\ Distinct(d.trail)
         /\ \A n \in 1..m : d.trail[n] = a.trail[n]
    BY <1>6, <1>8, <1>9, <1>10, <1>12, AppendFacts
  <1>14. Len(d.trail) = start + i /\ m + 1 = start + i
    BY <1>6, <1>9, <1>13
  <1>15. \A n \in 1..start : d.trail[n] = c.trail[n]
    <2> TAKE n \in 1..start
    <2>1. n \in 1..m
      BY <1>6, <1>9
    <2> QED BY <1>6, <1>13, <2>1
  <1>16. ASSUME NEW j \in 1..i
         PROVE  d.trail[start + j] = q[j] /\ (HasTheory(q[j]) => q[j] \in Held(d))
    <2>1. CASE j = i
      BY <1>12, <1>13, <1>14, <2>1
    <2>2. CASE j # i
      <3>1. j \in 1..(i - 1) /\ start + j \in 1..m
        BY <1>6, <1>9, <2>2
      <3> QED BY <1>6, <1>12, <1>13, <3>1
    <2> QED BY <2>1, <2>2
  <1>17. SameDb(c, d) /\ Held(back) \subseteq Held(d)
    BY <1>6, <1>12 DEF SameDb
  <1> QED BY <1>6, <1>12, <1>13, <1>14, <1>15, <1>16, <1>17 DEF Requeued, d, back, start

LEMMA CancelTrail ==
    ASSUME NEW c \in Core, TrailOK(c), ToldOK(c), NEW lev \in Nat, lev < DecisionLevel(c)
    PROVE  LET d == CancelUntil(c, lev)
           IN d \in Core /\ ToldOK(d) /\ HoldsAfter(c, d, lev) /\ \E g : Cancels(c, d, lev, g)
  <1> DEFINE start == c.trail_lim[lev + 1]
             back == Back(c, lev)
             cut == Cut(c, lev)
             S == Stays(c, lev)
             q == Keep(cut, S)
             k == Len(q)
             n == Len(c.trail)
             d == CancelUntil(c, lev)
  <1>1. /\ start \in 0..n /\ cut \in Seq(Lit) /\ Len(cut) = n - start
        /\ \A j \in 1..Len(cut) : cut[j] = c.trail[start + j]
        /\ \A i \in 1..start : LevelOf(c, c.trail[i]) <= lev
    BY CutFacts
  <1>2. /\ back \in Core /\ ToldOK(back)
        /\ back.assigns = {p \in c.assigns : LevelOf(c, p) <= lev}
        /\ back.level = c.level /\ back.reason = c.reason /\ SameDb(c, back)
        /\ back.ok = c.ok /\ back.initialPropagate = c.initialPropagate
        /\ back.qhead = start
        /\ Len(back.trail) = start /\ \A i \in 1..start : back.trail[i] = c.trail[i]
        /\ DecisionLevel(back) = lev
        /\ \A l \in 1..lev : back.trail_lim[l] = c.trail_lim[l] /\ back.trail_lim[l] <= start
        /\ \A i \in 1..Len(c.told) : c.told[i].at <= lev => c.told[i].lit \in Held(back)
    BY BackFields
  <1>3. n \in Nat /\ DecisionLevel(c) \in Nat /\ start \in Nat /\ back.trail \in Seq(Lit)
    <2>1. n \in Nat
      BY CoreFields
    <2> QED BY <1>1, <1>2, <2>1, CoreFields
  <1>4. d = RequeueAll(back, q)
    BY <1>3, CancelIs
  <1> HIDE DEF S, cut, back, d
  <1>5. q \in Seq(Lit) /\ k \in Nat /\ \E e : Embeds(e, q, cut, S, Len(cut))
    BY <1>1, KeepEmbeds, KeepFacts
  <1>6. PICK e : Embeds(e, q, cut, S, Len(cut))
    BY <1>5
  <1> HIDE DEF q, start, n
  <1>7. PICK f : /\ f[0] = back /\ RequeueAll(back, q) = f[k]
                 /\ \A i \in 1..k : f[i] = Reenqueue(f[i - 1], q[i])
    BY ONLY <1>5, ReenqueueTurns DEF k
  <1> HIDE DEF k
  <1>8. Requeued(c, lev, q, f[0], 0)
    <2>1. \A i \in 1..start : i \in 1..n
      BY <1>1, <1>3
    <2>2. Distinct(back.trail)
      <3> SUFFICES ASSUME NEW i \in 1..start, NEW j \in 1..start, back.trail[i] = back.trail[j]
                   PROVE  i = j
        BY <1>2, <1>3 DEF Distinct
      <3>1. c.trail[i] = c.trail[j]
        BY <1>2
      <3>2. i \in 1..Len(c.trail) /\ j \in 1..Len(c.trail)
        BY <2>1 DEF n
      <3> QED BY <3>1, <3>2, AssignedFacts
    <2>3. Len(back.trail) = start + 0
      BY <1>2, <1>3
    <2>4. \A j \in 1..0 : FALSE
      OBVIOUS
    <2> QED BY <1>2, <1>7, <2>2, <2>3, <2>4 DEF Requeued, back, start
  <1> DEFINE R == {i \in 0..k : Requeued(c, lev, q, f[i], i)}
  <1>9. ASSUME NEW i \in 1..k, i - 1 \in R PROVE i \in R
    <2>1. Requeued(c, lev, q, f[i - 1], i - 1)
      BY <1>9
    <2>2. Requeued(c, lev, q, Reenqueue(f[i - 1], q[i]), i)
      BY <1>5, <1>6, <2>1, RequeuedStep DEF cut, S, k
    <2> QED BY <1>5, <1>7, <2>2
  <1>10. 0 \in R
    BY <1>5, <1>8
  <1> HIDE DEF R
  <1>11. \A i \in 0..k : i \in R
    BY <1>5, <1>9, <1>10, UpTo
  <1>12. Requeued(c, lev, q, d, k)
    BY <1>4, <1>5, <1>7, <1>11, k \in 0..k DEF R
  <1>13. /\ d \in Core /\ ToldOK(d) /\ Distinct(d.trail)
         /\ d.assigns = back.assigns /\ d.level = c.level /\ d.reason = c.reason /\ SameDb(c, d)
         /\ d.ok = c.ok /\ d.initialPropagate = c.initialPropagate /\ d.qhead = start
         /\ d.trail_lim = back.trail_lim
         /\ Len(d.trail) = start + k
         /\ \A i \in 1..start : d.trail[i] = c.trail[i]
         /\ \A j \in 1..k : d.trail[start + j] = q[j] /\ (HasTheory(q[j]) => q[j] \in Held(d))
         /\ Held(back) \subseteq Held(d)
    BY <1>12 DEF Requeued, back, start
  <1>14. /\ \A j \in 1..k : /\ start + e[j] \in (start + 1)..n /\ e[j] \in Nat
                            /\ q[j] = c.trail[start + e[j]]
         /\ \A j, l \in 1..k : j < l => e[j] < e[l]
         /\ \A m \in 1..Len(cut) : cut[m] \in S => \E j \in 1..k : e[j] = m
    <2>1. /\ \A j \in 1..k : e[j] \in 1..Len(cut) /\ q[j] = cut[e[j]]
          /\ \A j, l \in 1..k : j < l => e[j] < e[l]
          /\ \A m \in 1..Len(cut) : cut[m] \in S => \E j \in 1..k : e[j] = m
      BY <1>6 DEF Embeds, k
    <2>2. ASSUME NEW j \in 1..k
          PROVE  start + e[j] \in (start + 1)..n /\ e[j] \in Nat /\ q[j] = c.trail[start + e[j]]
      <3> DEFINE x == e[j]
      <3>1. x \in 1..Len(cut) /\ q[j] = cut[x]
        BY <2>1
      <3> HIDE DEF x
      <3>2. Len(cut) = n - start /\ start <= n
        BY <1>1, <1>3
      <3>3. start + x \in (start + 1)..n /\ x \in Nat
        BY ONLY <1>3, <3>1, <3>2
      <3> QED BY <1>1, <3>1, <3>3 DEF x
    <2> QED BY <2>1, <2>2
  <1> DEFINE g == [i \in 1..Len(d.trail) |-> IF i <= start THEN i ELSE start + e[i - start]]
  <1>15. \A i \in 1..Len(d.trail) : i \in 1..start \/ (i - start \in 1..k /\ ~(i <= start) /\ i = start + (i - start))
    BY <1>3, <1>5, <1>13
  <1>16. ASSUME NEW i \in 1..Len(d.trail)
         PROVE  g[i] \in 1..n /\ d.trail[i] = c.trail[g[i]] /\ LevelOf(c, d.trail[i]) <= lev
    <2>1. CASE i \in 1..start
      BY <1>1, <1>3, <1>13, <2>1
    <2>2. CASE i - start \in 1..k /\ ~(i <= start) /\ i = start + (i - start)
      <3> DEFINE j == i - start
      <3>1. j \in 1..k /\ g[i] = start + e[j] /\ d.trail[i] = q[j]
        BY <1>13, <2>2
      <3>2. start + e[j] \in 1..n /\ q[j] = c.trail[start + e[j]]
        <4>1. start + e[j] \in (start + 1)..n /\ q[j] = c.trail[start + e[j]]
          BY <1>14, <3>1
        <4> QED BY ONLY <1>3, <4>1
      <3>3. q[j] \in S
        BY <1>6, <3>1 DEF Embeds, k
      <3> QED BY <3>1, <3>2, <3>3 DEF S, Stays
    <2> QED BY <1>15, <2>1, <2>2
  <1>17. ASSUME NEW i \in 1..Len(d.trail), NEW j \in 1..Len(d.trail), i < j
         PROVE  g[i] < g[j]
    <2>1. CASE i \in 1..start /\ j \in 1..start
      BY <1>17, <2>1
    <2>2. CASE i \in 1..start /\ j - start \in 1..k /\ ~(j <= start)
      <3>1. start + e[j - start] \in (start + 1)..n
        BY <1>14, <2>2
      <3> QED BY <1>3, <2>2, <3>1
    <2>3. CASE i - start \in 1..k /\ ~(i <= start) /\ j - start \in 1..k /\ ~(j <= start)
      <3> DEFINE ii == i - start
                 jj == j - start
      <3>0. i \in Int /\ j \in Int
        OBVIOUS
      <3>1. ii < jj /\ ii \in 1..k /\ jj \in 1..k
        BY <1>3, <1>17, <2>3, <3>0
      <3> HIDE DEF ii, jj
      <3>2. e[ii] < e[jj] /\ e[ii] \in Nat /\ e[jj] \in Nat
        BY <1>14, <3>1
      <3>3. start + e[ii] < start + e[jj]
        BY <1>3, <3>2
      <3> QED BY <2>3, <3>3 DEF ii, jj
    <2>4. CASE ~(i <= start) /\ j \in 1..start
      BY <1>3, <1>17, <2>4
    <2> QED BY <1>15, <2>1, <2>2, <2>3, <2>4
  <1>18. ASSUME NEW m \in 1..n, LevelOf(c, c.trail[m]) <= lev
         PROVE  \E i \in 1..Len(d.trail) : g[i] = m
    <2>1. CASE m <= start
      <3>1. m \in 1..Len(d.trail)
        BY <1>3, <1>5, <1>13, <2>1
      <3> QED BY <2>1, <3>1
    <2>2. CASE ~(m <= start)
      <3>1. m - start \in 1..Len(cut) /\ start + (m - start) = m
        BY <1>1, <1>3, <2>2
      <3>2. cut[m - start] = c.trail[m]
        BY <1>1, <3>1
      <3>3. cut[m - start] \in S
        <4>1. cut[m - start] \in Range(cut)
          BY <1>1, <3>1, RangeFacts
        <4> QED BY <1>18, <3>2, <4>1 DEF S, cut, Stays
      <3>4. PICK j \in 1..k : e[j] = m - start
        BY <1>14, <3>1, <3>3
      <3>5. start + j \in 1..Len(d.trail) /\ ~(start + j <= start) /\ (start + j) - start = j
        <4>1. Len(d.trail) = start + k /\ k \in Nat
          BY <1>5, <1>13 DEF k
        <4> QED BY ONLY <1>3, <4>1, j \in 1..k
      <3>6. g[start + j] = m
        BY <3>1, <3>4, <3>5
      <3> QED BY <3>5, <3>6
    <2> QED BY <2>1, <2>2
  <1>19. start <= Len(d.trail) /\ \A i \in 1..start : i \in 1..Len(d.trail) /\ g[i] = i
    BY <1>3, <1>5, <1>13
  <1>20. /\ DecisionLevel(d) = lev /\ \A l \in 1..lev : d.trail_lim[l] = c.trail_lim[l]
    BY <1>2, <1>13 DEF DecisionLevel
  <1>21. g \in [1..Len(d.trail) -> 1..n]
    BY <1>16
  <1> HIDE DEF g
  <1>22. Cancels(c, d, lev, g)
    BY <1>2, <1>13, <1>16, <1>17, <1>18, <1>19, <1>20, <1>21 DEF Cancels, start, n
  <1>23. HoldsAfter(c, d, lev)
    <2>1. ASSUME NEW i \in (start + 1)..Len(d.trail), HasTheory(d.trail[i]) PROVE d.trail[i] \in Held(d)
      <3>1. i - start \in 1..k /\ i = start + (i - start)
        BY <1>3, <1>5, <1>13
      <3>2. d.trail[i] = q[i - start]
        BY <1>13, <3>1
      <3> QED BY <1>13, <2>1, <3>1, <3>2
    <2> QED BY <1>2, <1>13, <2>1 DEF HoldsAfter, start
  <1> QED BY <1>13, <1>22, <1>23 DEF d

-----------------------------------------------------------------------------
LEMMA CancelKeeps ==
    ASSUME NEW c \in Core, NEW lemmas, Good(c, lemmas), NEW lev \in Nat, lev < DecisionLevel(c),
           NEW d \in Core, ToldOK(d), NEW g, Cancels(c, d, lev, g)
    PROVE  Good(d, lemmas)
  <1> DEFINE start == c.trail_lim[lev + 1]
             n == Len(c.trail)
             k == Len(d.trail)
  <1>0. TrailOK(c) /\ ToldOK(c) /\ DbOK(c) /\ CausesOK(c, lemmas)
    BY DEF Good
  <1>1. /\ start \in 0..n
        /\ \A l \in 1..lev : c.trail_lim[l] \in Nat /\ c.trail_lim[l] <= start
    BY <1>0, CutFacts
  <1>2. /\ d.assigns = {p \in c.assigns : LevelOf(c, p) <= lev}
        /\ d.level = c.level /\ d.reason = c.reason /\ SameDb(c, d)
        /\ DecisionLevel(d) = lev /\ \A l \in 1..lev : d.trail_lim[l] = c.trail_lim[l]
        /\ d.qhead = start
        /\ \A i \in 1..k : g[i] \in 1..n
        /\ \A i \in 1..k : d.trail[i] = c.trail[g[i]] /\ LevelOf(c, d.trail[i]) <= lev
        /\ \A i, j \in 1..k : i < j => g[i] < g[j]
        /\ \A m \in 1..n : LevelOf(c, c.trail[m]) <= lev => \E i \in 1..k : g[i] = m
        /\ start <= k
        /\ \A i \in 1..start : g[i] = i
    BY DEF Cancels
  <1>3. n \in Nat /\ k \in Nat /\ DecisionLevel(c) \in Nat /\ d.trail \in Seq(Lit) /\ DOMAIN d.trail = 1..k
    BY CoreFields
  <1> HIDE DEF start
  <1>4. start \in Nat /\ \A i \in 1..start : i \in 1..k /\ i \in 1..n
    BY <1>1, <1>2, <1>3
  <1>5. \A p : LevelOf(d, p) = LevelOf(c, p) /\ ReasonOf(d, p) = ReasonOf(c, p)
    BY <1>2 DEF LevelOf, ReasonOf
  <1>6. ASSUME NEW i \in 1..k, NEW j \in 1..k, g[i] = g[j] PROVE i = j
    <2>1. g[i] \in Int /\ g[j] \in Int
      BY <1>2
    <2>2. i < j => g[i] < g[j]
      BY <1>2
    <2>3. j < i => g[j] < g[i]
      BY <1>2
    <2> QED BY <1>6, <2>1, <2>2, <2>3
  <1>7. ASSUME NEW i \in 1..k, NEW j \in 1..k, g[j] < g[i] PROVE j < i
    <2>1. g[i] \in Int /\ g[j] \in Int /\ i # j
      BY <1>2, <1>7
    <2>2. i < j => g[i] < g[j]
      BY <1>2
    <2> QED BY <1>7, <2>1, <2>2
  <1>8. ASSUME NEW i \in 1..k
        PROVE  /\ d.trail[i] \in c.assigns /\ d.trail[i] \in Lit /\ LevelOf(c, d.trail[i]) <= lev
               /\ LevelOf(c, d.trail[i]) \in Nat
               /\ g[i] \in 1..n /\ c.trail[g[i]] = d.trail[i]
    BY <1>0, <1>2, AssignedFacts
  <1>9. Distinct(d.trail)
    <2> SUFFICES ASSUME NEW i \in 1..k, NEW j \in 1..k, d.trail[i] = d.trail[j]
                 PROVE  i = j
      BY <1>3 DEF Distinct
    <2>1. c.trail[g[i]] = c.trail[g[j]] /\ g[i] \in 1..n /\ g[j] \in 1..n
      BY <1>8
    <2>2. g[i] = g[j]
      BY <1>0, <2>1, AssignedFacts
    <2> QED BY <1>6, <2>2
  <1>10. \A p : p \in d.assigns <=> \E i \in 1..k : d.trail[i] = p
    <2> TAKE p
    <2>1. ASSUME p \in d.assigns PROVE \E i \in 1..k : d.trail[i] = p
      <3>1. p \in c.assigns /\ LevelOf(c, p) <= lev
        BY <1>2, <2>1
      <3>2. PICK m \in 1..n : c.trail[m] = p
        BY <1>0, <3>1, AssignedFacts
      <3>3. PICK i \in 1..k : g[i] = m
        BY <1>2, <3>1, <3>2
      <3> QED BY <1>8, <3>2, <3>3
    <2> QED BY <1>2, <1>8, <2>1
  <1>11. TrailOK(d)
    <2>1. d.assigns = Range(d.trail)
      BY <1>3, <1>10 DEF Range
    <2>2. \A p \in d.assigns : -p \notin d.assigns
      BY <1>0, <1>2 DEF TrailOK
    <2>3. LimitsOK(d)
      <3>1. \A l \in 1..lev : d.trail_lim[l] <= k
        <4> TAKE l \in 1..lev
        <4>1. c.trail_lim[l] \in Nat /\ c.trail_lim[l] <= start /\ d.trail_lim[l] = c.trail_lim[l]
          BY <1>1, <1>2
        <4> QED BY <1>2, <1>3, <1>4, <4>1
      <3>2. \A l \in 1..lev : l \in 1..DecisionLevel(c)
        BY <1>3
      <3> QED BY <1>0, <1>2, <3>1, <3>2 DEF LimitsOK, TrailOK
    <2>4. ASSUME NEW i \in 1..k
          PROVE  /\ LevelOf(d, d.trail[i]) <= DecisionLevel(d)
                 /\ \A l \in 1..DecisionLevel(d) : i <= d.trail_lim[l] => LevelOf(d, d.trail[i]) < l
      <3>1. ASSUME NEW l \in 1..lev, i <= d.trail_lim[l] PROVE LevelOf(c, d.trail[i]) < l
        <4>1. i <= c.trail_lim[l] /\ c.trail_lim[l] \in Nat /\ c.trail_lim[l] <= start
          BY <1>1, <1>2, <3>1
        <4>2. i \in 1..start
          BY <1>4, <4>1
        <4>3. i \in 1..n /\ d.trail[i] = c.trail[i] /\ l \in 1..DecisionLevel(c)
          BY <1>2, <1>3, <1>4, <4>2
        <4> QED BY <1>0, <4>1, <4>3 DEF TrailOK
      <3> QED BY <1>2, <1>5, <1>8, <3>1
    <2> QED BY <1>2, <1>9, <2>1, <2>2, <2>3, <2>4 DEF TrailOK
  <1>12. Live(d) = Live(c) /\ d.ca = c.ca /\ \A cr : Lits(d, cr) = Lits(c, cr)
    BY <1>2 DEF SameDb, Live, Lits
  <1>13. ASSUME NEW i \in 1..k PROVE CauseOK(d, lemmas, i)
    <2> DEFINE m == g[i]
               p == d.trail[i]
    <2>1. m \in 1..n /\ c.trail[m] = p /\ LevelOf(c, p) <= lev /\ LevelOf(c, p) \in Nat
      BY <1>8
    <2>2. CauseOK(c, lemmas, m)
      BY <1>0, <2>1 DEF CausesOK
    <2>3. ASSUME NEW C, Because(c, m, C) PROVE Because(d, i, C)
      <3> SUFFICES ASSUME NEW q \in C
                   PROVE  \E j \in 1..(i - 1) :
                            d.trail[j] = -q /\ LevelOf(d, d.trail[j]) <= LevelOf(d, d.trail[i])
        BY DEF Because
      <3>1. PICK h \in 1..(m - 1) : c.trail[h] = -q /\ LevelOf(c, c.trail[h]) <= LevelOf(c, c.trail[m])
        BY <2>3 DEF Because
      <3>2. h \in 1..n /\ h < m
        BY <1>3, <2>1
      <3>3. LevelOf(c, c.trail[h]) \in Nat
        BY <1>0, <3>2, AssignedFacts
      <3>4. LevelOf(c, c.trail[h]) <= lev
        BY <2>1, <3>1, <3>3
      <3>5. PICK j \in 1..k : g[j] = h
        BY <1>2, <3>2, <3>4
      <3>6. j < i
        BY <1>7, <3>2, <3>5
      <3>7. j \in 1..(i - 1) /\ d.trail[j] = -q
        <4>1. d.trail[j] = c.trail[h]
          BY <1>8, <3>5
        <4>2. j \in 1..(i - 1)
          BY <1>3, <3>6, i \in Int, j \in Int, j >= 1
        <4> QED BY <3>1, <4>1, <4>2
      <3> QED BY <1>5, <2>1, <3>1, <3>7
    <2>4. \A r : ByClause(c, m, r) => ByClause(d, i, r)
      BY <1>12, <2>1, <2>3 DEF ByClause
    <2>5. \A r : ByLemma(c, m, r) => ByLemma(d, i, r)
      BY <2>1, <2>3 DEF ByLemma
    <2>6. Decision(c, m) => Decision(d, i)
      <3> SUFFICES ASSUME Decision(c, m), LevelOf(c, p) > 0
                   PROVE  /\ i = d.trail_lim[LevelOf(c, p)] + 1
                          /\ LevelOf(c, p) < DecisionLevel(d) => i <= d.trail_lim[LevelOf(c, p) + 1]
        BY <1>5 DEF Decision
      <3> DEFINE l == LevelOf(c, p)
      <3>1. l \in 1..lev /\ l < DecisionLevel(c) /\ l \in Nat
        BY <1>3, <2>1
      <3>2. m = c.trail_lim[l] + 1 /\ m <= c.trail_lim[l + 1]
        BY <2>1, <3>1 DEF Decision
      <3> HIDE DEF l
      <3>3. c.trail_lim[l + 1] <= start /\ c.trail_lim[l + 1] \in Nat
        <4>1. l + 1 \in 1..lev \/ l + 1 = lev + 1
          BY <3>1
        <4> QED BY <1>1, <1>4, <4>1 DEF start
      <3>4. m \in 1..start
        BY <1>4, <2>1, <3>2, <3>3
      <3>5. m \in 1..k /\ g[m] = m
        BY <1>2, <1>4, <3>4
      <3>6. m = i
        BY <1>6, <3>5
      <3>7. l < lev => l + 1 \in 1..lev
        BY <3>1
      <3> QED BY <1>2, <3>1, <3>2, <3>6, <3>7 DEF l
    <2>7. InPlace(c, m) => InPlace(d, i)
      <3> SUFFICES ASSUME InPlace(c, m), LevelOf(c, p) < lev
                   PROVE  i <= d.trail_lim[LevelOf(c, p) + 1]
        BY <1>2, <1>5 DEF InPlace
      <3> DEFINE l == LevelOf(c, p)
      <3>1. l \in 0..lev /\ l < DecisionLevel(c) /\ l \in Nat /\ l + 1 \in 1..lev
        BY <1>3, <2>1
      <3>2. m <= c.trail_lim[l + 1]
        BY <2>1, <3>1 DEF InPlace
      <3> HIDE DEF l
      <3>3. c.trail_lim[l + 1] <= start /\ c.trail_lim[l + 1] \in Nat
        BY <1>1, <1>4, <3>1 DEF start
      <3>4. m \in 1..start
        BY <1>4, <2>1, <3>2, <3>3
      <3>5. m \in 1..k /\ g[m] = m
        BY <1>2, <1>4, <3>4
      <3>6. m = i
        BY <1>6, <3>5
      <3> QED BY <1>2, <3>1, <3>2, <3>6 DEF l
    <2> QED BY <1>5, <2>1, <2>2, <2>4, <2>5, <2>6, <2>7 DEF CauseOK
  <1>14. CausesOK(d, lemmas)
    BY <1>13 DEF CausesOK
  <1>15. DbOK(d)
    BY <1>0, <1>2, DbFrame
  <1> QED BY <1>11, <1>14, <1>15 DEF Good

LEMMA CancelCovers ==
    ASSUME NEW c \in Core, TrailOK(c), ToldOK(c), NEW lev \in Nat, lev < DecisionLevel(c),
           NEW d \in Core, HoldsAfter(c, d, lev), NEW g, Cancels(c, d, lev, g)
    PROVE  /\ \A k \in 0..c.trail_lim[lev + 1] : Covered(c, k) => Covered(d, k)
           /\ Covered(c, c.trail_lim[lev + 1]) => Covered(d, Len(d.trail))
  <1> DEFINE start == c.trail_lim[lev + 1]
  <1>1. start \in 0..Len(c.trail) /\ Len(c.trail) \in Nat /\ Len(d.trail) \in Nat
    BY CutFacts, CoreFields
  <1>2. lev + 1 \in 1..DecisionLevel(c)
    BY CoreFields
  <1>3. start <= Len(d.trail) /\ \A i \in 1..start : i \in 1..Len(d.trail) /\ d.trail[i] = c.trail[i]
    <2>1. /\ start <= Len(d.trail) /\ \A i \in 1..start : g[i] = i
          /\ \A i \in 1..Len(d.trail) : d.trail[i] = c.trail[g[i]]
      BY DEF Cancels
    <2> HIDE DEF start
    <2>2. \A i \in 1..start : i \in 1..Len(d.trail)
      BY <1>1, <2>1
    <2> QED BY <2>1, <2>2
  <1>4. ASSUME NEW i \in 1..start, c.trail[i] \in Held(c) PROVE c.trail[i] \in Held(d)
    <2>1. PICK j \in 1..Len(c.told) : c.told[j].lit = c.trail[i]
      BY <1>4, HeldFacts
    <2>2. HeldAt(c, c.told[j]) /\ c.told[j].at \in Nat
      BY HeldFacts, LitFacts DEF ToldOK, ToldBut
    <2>3. i \in 1..Len(c.trail) /\ i <= c.trail_lim[lev + 1]
      BY <1>1
    <2>4. c.told[j].at < lev + 1
      BY <1>2, <2>1, <2>2, <2>3 DEF HeldAt
    <2>5. c.told[j].at <= lev
      BY <2>2, <2>4
    <2> QED BY <2>1, <2>5 DEF HoldsAfter
  <1>5. ASSUME NEW k \in 0..start, Covered(c, k) PROVE Covered(d, k)
    <2> SUFFICES ASSUME NEW i \in 1..k, HasTheory(d.trail[i]) PROVE d.trail[i] \in Held(d)
      BY DEF Covered
    <2> HIDE DEF start
    <2>1. i \in 1..start
      BY <1>1
    <2> QED BY <1>3, <1>4, <1>5, <2>1 DEF Covered
  <1>6. ASSUME Covered(c, start) PROVE Covered(d, Len(d.trail))
    <2>1. \A i \in (start + 1)..Len(d.trail) : HasTheory(d.trail[i]) => d.trail[i] \in Held(d)
      BY DEF HoldsAfter
    <2> HIDE DEF start
    <2>2. Covered(d, start)
      BY <1>1, <1>5, <1>6
    <2>3. \A i \in 1..Len(d.trail) : i \in 1..start \/ i \in (start + 1)..Len(d.trail)
      BY <1>1, <1>3
    <2> QED BY <2>1, <2>2, <2>3 DEF Covered
  <1> QED BY <1>5, <1>6

\* cancelUntil, above the level returned to.
LEMMA CancelGood ==
    ASSUME NEW c \in Core, NEW lemmas, Good(c, lemmas), NEW lev \in Nat, lev < DecisionLevel(c)
    PROVE  LET d == CancelUntil(c, lev)
           IN /\ Good(d, lemmas) /\ (\A M : Follows(c, d, M)) /\ NoDecision(c, d)
              /\ DecisionLevel(d) = lev
              /\ d.assigns = {p \in c.assigns : LevelOf(c, p) <= lev}
              /\ d.level = c.level /\ d.reason = c.reason /\ SameDb(c, d) /\ d.ok = c.ok
              /\ d.initialPropagate = c.initialPropagate
              /\ \A l \in 1..lev : d.trail_lim[l] = c.trail_lim[l]
              /\ d.qhead = c.trail_lim[lev + 1]
              /\ \A k \in 0..c.trail_lim[lev + 1] : Covered(c, k) => Covered(d, k)
              /\ Covered(c, c.trail_lim[lev + 1]) => Covered(d, Len(d.trail))
  <1> DEFINE d == CancelUntil(c, lev)
  <1>0. TrailOK(c) /\ ToldOK(c)
    BY DEF Good
  <1>1. d \in Core /\ ToldOK(d) /\ HoldsAfter(c, d, lev) /\ \E g : Cancels(c, d, lev, g)
    BY <1>0, CancelTrail
  <1> HIDE DEF d
  <1>2. PICK g : Cancels(c, d, lev, g)
    BY <1>1
  <1>3. Good(d, lemmas)
    BY <1>1, <1>2, CancelKeeps
  <1>4. /\ \A k \in 0..c.trail_lim[lev + 1] : Covered(c, k) => Covered(d, k)
        /\ Covered(c, c.trail_lim[lev + 1]) => Covered(d, Len(d.trail))
    BY <1>0, <1>1, <1>2, CancelCovers
  <1>5. /\ d.assigns = {p \in c.assigns : LevelOf(c, p) <= lev}
        /\ d.level = c.level /\ d.reason = c.reason /\ SameDb(c, d) /\ d.ok = c.ok
        /\ d.initialPropagate = c.initialPropagate
        /\ DecisionLevel(d) = lev /\ \A l \in 1..lev : d.trail_lim[l] = c.trail_lim[l]
        /\ d.qhead = c.trail_lim[lev + 1]
    BY <1>2 DEF Cancels
  <1>6. \A p : LevelOf(d, p) = LevelOf(c, p) /\ ReasonOf(d, p) = ReasonOf(c, p)
    BY <1>5 DEF LevelOf, ReasonOf
  <1>7. Live(d) = Live(c) /\ d.delayed = c.delayed /\ \A cr : Lits(d, cr) = Lits(c, cr)
    BY <1>5 DEF SameDb, Live, Lits
  <1>8. \A M : Follows(c, d, M)
    BY <1>5, <1>6, <1>7 DEF Follows, Agrees
  <1>9. NoDecision(c, d)
    BY <1>5, <1>6 DEF NoDecision
  <1> QED BY <1>3, <1>4, <1>5, <1>8, <1>9 DEF d

\* Where nothing is above the level, nothing happens.
LEMMA CancelNone ==
    ASSUME NEW c, NEW lev, DecisionLevel(c) <= lev
    PROVE  CancelUntil(c, lev) = c
  BY DEF CancelUntil

-----------------------------------------------------------------------------
(***************************************************************************)
(* The clause database.                                                    *)
(***************************************************************************)
\* What a change of the database keeps of the reasons.
KeepsReasons(c, d) ==
    \A i \in 1..Len(c.trail) :
        LET r == ReasonOf(c, c.trail[i])
        IN r \in Live(c) => /\ r \in Live(d) /\ d.ca[r].lits[1] = c.ca[r].lits[1]
                            /\ Lits(d, r) = Lits(c, r)

LEMMA DbChangeGood ==
    ASSUME NEW c \in Core, NEW lemmas, Good(c, lemmas), NEW d \in Core, SameTrail(c, d),
           d.reason = c.reason, d.qhead <= Len(d.trail), d.told = c.told,
           d.theory_level = c.theory_level, DbOK(d), KeepsReasons(c, d)
    PROVE  Good(d, lemmas) /\ NoDecision(c, d) /\ Extends(c, d) /\ Held(d) = Held(c)
  <1>0. TrailOK(c) /\ ToldOK(c) /\ CausesOK(c, lemmas)
    BY DEF Good
  <1>1. /\ d.assigns = c.assigns /\ d.level = c.level /\ d.trail = c.trail /\ d.trail_lim = c.trail_lim
        /\ DecisionLevel(d) = DecisionLevel(c) /\ Held(d) = Held(c)
        /\ \A p : LevelOf(d, p) = LevelOf(c, p) /\ ReasonOf(d, p) = ReasonOf(c, p)
    BY DEF SameTrail, DecisionLevel, Held, LevelOf, ReasonOf
  <1>2. TrailOK(d)
    BY <1>0, <1>1 DEF TrailOK, LimitsOK
  <1>3. ToldOK(d)
    BY <1>0, <1>1 DEF ToldOK, ToldBut, HeldAt, InOrder
  <1>4. ASSUME NEW i \in 1..Len(c.trail) PROVE CauseOK(d, lemmas, i)
    <2>1. CauseOK(c, lemmas, i) /\ LevelOf(c, c.trail[i]) <= DecisionLevel(c)
      BY <1>0 DEF CausesOK, TrailOK
    <2>2. DecisionLevel(d) >= DecisionLevel(c) /\ ~(DecisionLevel(d) > DecisionLevel(c))
      BY <1>1, CoreFields
    <2>3. ReasonOf(c, c.trail[i]) \in Live(c) =>
            /\ ReasonOf(c, c.trail[i]) \in Live(d)
            /\ d.ca[ReasonOf(c, c.trail[i])].lits[1] = c.ca[ReasonOf(c, c.trail[i])].lits[1]
            /\ Lits(d, ReasonOf(c, c.trail[i])) = Lits(c, ReasonOf(c, c.trail[i]))
      BY DEF KeepsReasons
    <2> QED BY <1>1, <2>1, <2>2, <2>3, CauseFrame
  <1>5. Good(d, lemmas)
    BY <1>1, <1>2, <1>3, <1>4 DEF Good, CausesOK
  <1>6. NoDecision(c, d)
    BY <1>1 DEF NoDecision
  <1>7. Extends(c, d)
    <2>1. Len(c.trail) \in Nat /\ \A i \in (Len(c.trail) + 1)..Len(c.trail) : FALSE
      BY CoreFields
    <2> QED BY <1>1, <2>1 DEF Extends
  <1> QED BY <1>1, <1>5, <1>6, <1>7

\* The clauses that agree, seen from the literals they have.
LEMMA SameClauses ==
    ASSUME NEW c, NEW d, NEW M, d.ok = c.ok, d.delayed = c.delayed,
           Live(d) = Live(c), \A cr \in Live(c) : Lits(d, cr) = Lits(c, cr),
           SameTrail(c, d)
    PROVE  Follows(c, d, M)
  BY DEF Follows, Agrees, SameTrail, LevelOf

Clause == [lits : Seq(Lit), learnt : BOOLEAN]
Watcher == [cref : Nat, blocker : Lit]

LEMMA ClauseFacts ==
    ASSUME NEW c \in Core, DbOK(c), NEW cr \in Live(c)
    PROVE  /\ cr \in 1..Len(c.ca) /\ cr \in Nat /\ c.ca[cr] \in Clause
           /\ c.ca[cr].lits \in Seq(Lit) /\ Len(c.ca[cr].lits) \in Nat /\ Len(c.ca[cr].lits) >= 2
           /\ Distinct(c.ca[cr].lits)
           /\ Lits(c, cr) \subseteq Lit
           /\ \A i \in 1..Len(c.ca[cr].lits) : c.ca[cr].lits[i] \in Lits(c, cr)
           /\ \A q \in Lits(c, cr) : \E i \in 1..Len(c.ca[cr].lits) : c.ca[cr].lits[i] = q
           /\ \A i, j \in 1..Len(c.ca[cr].lits) : c.ca[cr].lits[i] = c.ca[cr].lits[j] => i = j
  <1>1. c.ca \in Seq(Clause)
    BY CoreFields DEF Clause
  <1>2. cr \in 1..Len(c.ca) /\ cr \in Nat /\ c.ca[cr] \in Clause /\ c.ca[cr].lits # <<>>
    BY <1>1 DEF Live
  <1>3. c.ca[cr].lits \in Seq(Lit)
    BY <1>2 DEF Clause
  <1>4. Len(c.ca[cr].lits) \in Nat /\ Len(c.ca[cr].lits) >= 2 /\ Distinct(c.ca[cr].lits)
    BY <1>1, <1>2, <1>3 DEF DbOK, ClauseOK
  <1>5. DOMAIN c.ca[cr].lits = 1..Len(c.ca[cr].lits)
    BY <1>3
  <1>6. \A i \in 1..Len(c.ca[cr].lits) : c.ca[cr].lits[i] \in Lits(c, cr)
    BY <1>3, RangeFacts DEF Lits
  <1>7. \A q \in Lits(c, cr) : \E i \in 1..Len(c.ca[cr].lits) : c.ca[cr].lits[i] = q
    BY <1>3, RangeFacts DEF Lits
  <1>8. Lits(c, cr) \subseteq Lit
    BY <1>3, RangeFacts DEF Lits
  <1> QED BY <1>2, <1>3, <1>4, <1>5, <1>6, <1>7, <1>8 DEF Distinct

LEMMA NewClauseGood ==
    ASSUME NEW c \in Core, NEW lemmas, Good(c, lemmas), NEW lits \in Seq(Lit), Len(lits) >= 2,
           Distinct(lits), NEW learnt \in BOOLEAN
    PROVE  LET d == NewClause(c, lits, learnt)
               cr == Len(d.ca)
           IN /\ Good(d, lemmas) /\ NoDecision(c, d) /\ Extends(c, d) /\ Held(d) = Held(c)
              /\ SameTrail(c, d) /\ d.reason = c.reason /\ d.told = c.told
              /\ d.qhead = c.qhead /\ d.theory_level = c.theory_level
              /\ d.delayed = c.delayed /\ d.ok = c.ok /\ d.initialPropagate = c.initialPropagate
              /\ cr = Len(c.ca) + 1 /\ cr \in Nat /\ cr > 0 /\ d.ca[cr].lits = lits
              /\ Live(d) = Live(c) \cup {cr} /\ Lits(d, cr) = Range(lits)
              /\ \A k \in Live(c) : k \in 1..Len(c.ca) /\ Lits(d, k) = Lits(c, k) /\ d.ca[k] = c.ca[k]
  <1> DEFINE d == NewClause(c, lits, learnt)
             n == Len(c.ca) + 1
             x == [lits |-> lits, learnt |-> learnt]
             ca2 == Append(c.ca, x)
             p1 == -lits[1]
             p2 == -lits[2]
             w1 == [cref |-> n, blocker |-> lits[2]]
             w2 == [cref |-> n, blocker |-> lits[1]]
             ws == [c.watches EXCEPT ![p1] = Append(@, w1), ![p2] = Append(@, w2)]
  <1>0. DbOK(c) /\ TrailOK(c)
    BY DEF Good
  <1>1. /\ c.ca \in Seq(Clause) /\ Len(c.ca) \in Nat /\ n \in Nat /\ n > 0 /\ DOMAIN c.ca = 1..Len(c.ca)
        /\ c.watches \in [Lit -> Seq(Watcher)] /\ c.qhead <= Len(c.trail)
    <2>1. c.ca \in Seq(Clause) /\ c.watches \in [Lit -> Seq(Watcher)]
      BY CoreFields DEF Clause, Watcher
    <2>2. Len(c.ca) \in Nat /\ DOMAIN c.ca = 1..Len(c.ca)
      BY <2>1
    <2> QED BY <1>0, <2>1, <2>2 DEF TrailOK
  <1>2. lits[1] \in Lit /\ lits[2] \in Lit /\ lits[1] # lits[2] /\ lits # <<>> /\ DOMAIN lits = 1..Len(lits)
    BY DEF Distinct
  <1>3. p1 \in Lit /\ p2 \in Lit /\ p1 # p2 /\ -p1 = lits[1] /\ -p2 = lits[2]
    BY <1>2, LitFacts
  <1>4. x \in Clause /\ w1 \in Watcher /\ w2 \in Watcher
    BY <1>1, <1>2 DEF Clause, Watcher
  <1>5. /\ ca2 \in Seq(Clause) /\ Len(ca2) = n /\ ca2[n] = x /\ \A i \in 1..Len(c.ca) : ca2[i] = c.ca[i]
        /\ DOMAIN ca2 = 1..n
    BY <1>1, <1>4, AppendFacts
  <1>6. d = [c EXCEPT !.ca = ca2, !.watches = ws]
    <2> DEFINE c1 == [c EXCEPT !.ca = ca2]
    <2>1. c1.ca = ca2 /\ c1.watches = c.watches /\ c1 = [c EXCEPT !.ca = ca2]
      BY DEF Core
    <2>2. c1.ca[n] = x /\ c1.ca[n].lits = lits
      BY <1>5, <2>1
    <2>3. d = AttachClause(c1, n)
      BY DEF NewClause
    <2> HIDE DEF c1, ca2, n, d, x
    <2>4. d = [c1 EXCEPT !.watches = [c.watches EXCEPT ![-lits[1]] = Append(@, [cref |-> n, blocker |-> lits[2]]),
                                                       ![-lits[2]] = Append(@, [cref |-> n, blocker |-> lits[1]])]]
      BY <2>1, <2>2, <2>3 DEF AttachClause
    <2> QED BY <2>1, <2>4
  <1> HIDE DEF x, ca2
  <1>7. /\ ws \in [Lit -> Seq(Watcher)]
        /\ ws[p1] = Append(c.watches[p1], w1) /\ ws[p2] = Append(c.watches[p2], w2)
        /\ \A q \in Lit : q # p1 /\ q # p2 => ws[q] = c.watches[q]
    <2>1. Append(c.watches[p1], w1) \in Seq(Watcher) /\ Append(c.watches[p2], w2) \in Seq(Watcher)
      BY <1>1, <1>3, <1>4, AppendFacts
    <2> HIDE DEF w1, w2, p1, p2
    <2> QED BY <1>1, <1>3, <2>1
  <1> HIDE DEF ws, d, n
  <1>8. /\ d \in Core /\ d.ca = ca2 /\ d.watches = ws /\ SameTrail(c, d) /\ d.reason = c.reason
        /\ d.told = c.told /\ d.qhead = c.qhead /\ d.theory_level = c.theory_level
        /\ d.delayed = c.delayed /\ d.ok = c.ok /\ d.initialPropagate = c.initialPropagate
        /\ d.trail = c.trail
    BY <1>5, <1>6, <1>7 DEF Core, SameTrail, Clause, Watcher
  <1>9. x.lits = lits
    BY DEF x
  <1>10. Live(d) = Live(c) \cup {n} /\ Lits(d, n) = Range(lits)
    <2>1. \A i \in 1..n : i = n \/ i \in 1..Len(c.ca)
      BY <1>1 DEF n
    <2>2. \A i \in 1..Len(c.ca) : i \in 1..n
      BY <1>1 DEF n
    <2>3. n \in 1..n
      BY <1>1
    <2> QED BY <1>1, <1>2, <1>5, <1>8, <1>9, <2>1, <2>2, <2>3 DEF Live, Lits
  <1>11. \A k \in Live(c) : k \in 1..Len(c.ca) /\ Lits(d, k) = Lits(c, k) /\ d.ca[k] = c.ca[k]
    BY <1>1, <1>5, <1>8 DEF Live, Lits
  <1>12. ASSUME NEW q \in Lit, NEW w, Watches(c.ca, q, w) PROVE Watches(ca2, q, w) /\ w.cref # n
    <2>1. w.cref \in 1..Len(c.ca)
      BY <1>1, <1>12 DEF Watches
    <2>2. w.cref \in 1..n /\ w.cref # n
      BY <1>1, <2>1 DEF n
    <2> QED BY <1>5, <1>12, <2>1, <2>2 DEF Watches
  <1>13. ASSUME NEW q \in Lit, NEW w \in Watcher, Watches(ca2, q, w), w.cref = n
         PROVE  WatchOK(ca2, q, Append(c.watches[q], w))
    <2> DEFINE s == c.watches[q]
               t == Append(s, w)
    <2>1. s \in Seq(Watcher) /\ WatchOK(c.ca, q, s) /\ Len(s) \in Nat
      BY <1>0, <1>1 DEF DbOK
    <2>2. Len(t) = Len(s) + 1 /\ t[Len(s) + 1] = w /\ \A i \in 1..Len(s) : t[i] = s[i]
      BY <2>1, AppendFacts
    <2> HIDE DEF s, t
    <2>3. \A i \in 1..(Len(s) + 1) : i = Len(s) + 1 \/ i \in 1..Len(s)
      BY <2>1
    <2>4. \A i \in 1..Len(s) : Watches(ca2, q, t[i]) /\ t[i].cref # n
      BY <1>12, <2>1, <2>2 DEF WatchOK
    <2>5. \A i, j \in 1..Len(s) : t[i].cref = t[j].cref => i = j
      BY <2>1, <2>2 DEF WatchOK
    <2>6. \A i \in 1..Len(t) : Watches(ca2, q, t[i])
      BY <1>13, <2>2, <2>3, <2>4
    <2>7. \A i, j \in 1..Len(t) : t[i].cref = t[j].cref => i = j
      BY <1>13, <2>2, <2>3, <2>4, <2>5
    <2>8. WatchOK(ca2, q, t)
      BY <2>6, <2>7 DEF WatchOK
    <2> QED BY <2>8 DEF t, s
  <1>14. ASSUME NEW q \in Lit PROVE WatchOK(ca2, q, ws[q])
    <2>1. CASE q = p1
      <3>1. Watches(ca2, q, w1) /\ w1.cref = n
        BY <1>1, <1>2, <1>3, <1>5, <1>9, <2>1 DEF Watches
      <3> HIDE DEF w1
      <3> QED BY <1>4, <1>7, <1>13, <2>1, <3>1
    <2>2. CASE q = p2
      <3>1. Watches(ca2, q, w2) /\ w2.cref = n
        BY <1>1, <1>2, <1>3, <1>5, <1>9, <2>2 DEF Watches
      <3> HIDE DEF w2
      <3> QED BY <1>4, <1>7, <1>13, <2>2, <3>1
    <2>3. CASE q # p1 /\ q # p2
      <3>1. WatchOK(c.ca, q, c.watches[q]) /\ ws[q] = c.watches[q]
        BY <1>0, <1>7, <2>3 DEF DbOK
      <3> QED BY <1>12, <3>1 DEF WatchOK
    <2> QED BY <2>1, <2>2, <2>3
  <1>15. DbOK(d)
    <2>1. \A i \in 1..n : i = n \/ i \in 1..Len(c.ca)
      BY <1>1 DEF n
    <2>2. ClauseOK(lits)
      BY DEF ClauseOK
    <2>3. \A cr \in DOMAIN ca2 : ClauseOK(ca2[cr].lits)
      BY <1>0, <1>1, <1>5, <1>9, <2>1, <2>2 DEF DbOK
    <2> QED BY <1>0, <1>8, <1>14, <2>3 DEF DbOK
  <1>16. KeepsReasons(c, d)
    BY <1>10, <1>11 DEF KeepsReasons
  <1>17. Good(d, lemmas) /\ NoDecision(c, d) /\ Extends(c, d) /\ Held(d) = Held(c)
    <2>1. d.qhead <= Len(d.trail)
      BY <1>1, <1>8
    <2> QED BY <1>8, <1>15, <1>16, <2>1, DbChangeGood
  <1>18. Len(d.ca) = n /\ d.ca[n].lits = lits /\ n = Len(c.ca) + 1
    BY <1>5, <1>8, <1>9 DEF n
  <1> QED BY <1>1, <1>8, <1>10, <1>11, <1>17, <1>18 DEF d

LEMMA NewClauseFollows ==
    ASSUME NEW c \in Core, NEW lemmas, Good(c, lemmas), NEW lits \in Seq(Lit), Len(lits) >= 2,
           Distinct(lits), NEW learnt \in BOOLEAN,
           NEW M, \A m \in M : Agrees(m, c) => m \cap Range(lits) # {}
    PROVE  Follows(c, NewClause(c, lits, learnt), M)
  <1> DEFINE d == NewClause(c, lits, learnt)
             cr == Len(d.ca)
  <1>1. /\ SameTrail(c, d) /\ d.delayed = c.delayed /\ d.ok = c.ok
        /\ Live(d) = Live(c) \cup {cr} /\ Lits(d, cr) = Range(lits)
        /\ \A k \in Live(c) : Lits(d, k) = Lits(c, k)
    BY NewClauseGood
  <1> HIDE DEF d, cr
  <1>2. Follows(c, d, M)
    BY <1>1 DEF Follows, Agrees, SameTrail, LevelOf
  <1> QED BY <1>2 DEF d

-----------------------------------------------------------------------------
(***************************************************************************)
(* Watch lists.                                                            *)
(***************************************************************************)
LEMMA SpliceFacts ==
    ASSUME NEW T, NEW keep \in Seq(T), NEW w \in T, NEW rest \in Seq(T)
    PROVE  LET k == Len(keep)
               n == Len(rest)
               all == keep \o (<<w>> \o rest)
           IN /\ k \in Nat /\ n \in Nat /\ all \in Seq(T) /\ Len(all) = k + 1 + n
              /\ \A i \in 1..k : all[i] = keep[i]
              /\ all[k + 1] = w /\ \A i \in 1..n : all[k + 1 + i] = rest[i]
              /\ Append(keep, w) \o rest = all
              /\ keep \o rest \in Seq(T) /\ Len(keep \o rest) = k + n
              /\ \A i \in 1..(k + n) : (keep \o rest)[i] = IF i <= k THEN all[i] ELSE all[i + 1]
  <1> DEFINE k == Len(keep)
             n == Len(rest)
             r == <<w>> \o rest
             all == keep \o r
             both == keep \o rest
  <1>1. k \in Nat /\ n \in Nat
    OBVIOUS
  <1>2. r \in Seq(T) /\ Len(r) = n + 1 /\ r[1] = w /\ \A i \in 1..n : r[1 + i] = rest[i]
    OBVIOUS
  <1> HIDE DEF r
  <1>3. /\ all \in Seq(T) /\ Len(all) = k + (n + 1) /\ \A i \in 1..k : all[i] = keep[i]
        /\ \A i \in 1..(n + 1) : all[k + i] = r[i]
    <2>1. /\ keep \o r \in Seq(T) /\ Len(keep \o r) = Len(keep) + Len(r)
          /\ \A i \in 1..Len(keep) : (keep \o r)[i] = keep[i]
          /\ \A i \in 1..Len(r) : (keep \o r)[Len(keep) + i] = r[i]
      <3>1. r \in Seq(T)
        BY <1>2
      <3>2. keep \in Seq(T)
        OBVIOUS
      <3> QED BY ONLY <3>1, <3>2, ConcatFacts
    <2> QED BY <1>2, <2>1
  <1>4. all[k + 1] = w
    BY <1>1, <1>2, <1>3, 1 \in 1..(n + 1)
  <1>5. \A i \in 1..n : all[k + 1 + i] = rest[i]
    <2> TAKE i \in 1..n
    <2>1. 1 + i \in 1..(n + 1) /\ k + (1 + i) = k + 1 + i
      BY <1>1
    <2> QED BY <1>2, <1>3, <2>1
  <1>6. /\ both \in Seq(T) /\ Len(both) = k + n /\ \A i \in 1..k : both[i] = keep[i]
        /\ \A i \in 1..n : both[k + i] = rest[i]
    BY ConcatFacts
  <1>7. Append(keep, w) \o rest = all
    <2> DEFINE s == Append(keep, w)
               t == s \o rest
    <2>1. s \in Seq(T) /\ Len(s) = k + 1 /\ s[k + 1] = w /\ \A i \in 1..k : s[i] = keep[i]
      BY AppendFacts
    <2> HIDE DEF s
    <2>2. /\ t \in Seq(T) /\ Len(t) = (k + 1) + n /\ \A i \in 1..(k + 1) : t[i] = s[i]
          /\ \A i \in 1..n : t[(k + 1) + i] = rest[i]
      <3>1. /\ s \o rest \in Seq(T) /\ Len(s \o rest) = Len(s) + Len(rest)
            /\ \A i \in 1..Len(s) : (s \o rest)[i] = s[i]
            /\ \A i \in 1..Len(rest) : (s \o rest)[Len(s) + i] = rest[i]
        <4>1. s \in Seq(T) /\ rest \in Seq(T)
          BY <2>1
        <4> QED BY ONLY <4>1, ConcatFacts
      <3> QED BY <2>1, <3>1
    <2> HIDE DEF t, all, k, n
    <2>3. ASSUME NEW i \in 1..(k + 1 + n) PROVE t[i] = all[i]
      <3>1. CASE i \in 1..k
        <4>1. i \in 1..(k + 1)
          BY <1>1, <3>1
        <4> QED BY <1>3, <2>1, <2>2, <3>1, <4>1
      <3>2. CASE i = k + 1
        <4>1. i \in 1..(k + 1)
          BY <1>1, <3>2
        <4> QED BY <1>4, <2>1, <2>2, <3>2, <4>1
      <3>3. CASE i > k + 1
        <4>1. i - (k + 1) \in 1..n /\ i = (k + 1) + (i - (k + 1)) /\ i = k + 1 + (i - (k + 1))
          BY <1>1, <3>3
        <4> DEFINE j == i - (k + 1)
        <4> HIDE DEF j
        <4>2. j \in 1..n /\ i = (k + 1) + j /\ i = k + 1 + j
          BY <4>1 DEF j
        <4> QED BY <1>5, <2>2, <4>2
      <3> QED BY <1>1, <3>1, <3>2, <3>3
    <2>4. Len(t) = Len(all) /\ Len(t) = k + 1 + n
      BY <1>1, <1>3, <2>2
    <2>5. DOMAIN t = 1..(k + 1 + n) /\ DOMAIN all = 1..(k + 1 + n)
      BY <1>3, <2>2, <2>4
    <2>6. t = [i \in 1..(k + 1 + n) |-> t[i]] /\ all = [i \in 1..(k + 1 + n) |-> all[i]]
      BY <1>3, <2>2, <2>5
    <2>7. t = all
      BY <2>3, <2>6
    <2> QED BY <2>7 DEF t, s
  <1>8. ASSUME NEW i \in 1..(k + n) PROVE both[i] = IF i <= k THEN all[i] ELSE all[i + 1]
    <2>1. CASE i <= k
      BY <1>1, <1>3, <1>6, <2>1
    <2>2. CASE ~(i <= k)
      <3> DEFINE j == i - k
      <3>1. j \in 1..n /\ i = k + j /\ i + 1 = k + 1 + j
        BY <1>1, <2>2
      <3> HIDE DEF j, both, all, k, n
      <3> QED BY <1>5, <1>6, <2>2, <3>1
    <2> QED BY <2>1, <2>2
  <1>9. Len(all) = k + 1 + n
    BY <1>1, <1>3
  <1> QED BY <1>1, <1>3, <1>4, <1>5, <1>6, <1>7, <1>8, <1>9 DEF r

LEMMA WatchAppend ==
    ASSUME NEW ca, NEW q, NEW s \in Seq(Watcher), NEW w \in Watcher, WatchOK(ca, q, s),
           Watches(ca, q, w), \A i \in 1..Len(s) : s[i].cref # w.cref
    PROVE  WatchOK(ca, q, Append(s, w))
  <1> DEFINE t == Append(s, w)
  <1>1. Len(s) \in Nat /\ Len(t) = Len(s) + 1 /\ t[Len(s) + 1] = w /\ \A i \in 1..Len(s) : t[i] = s[i]
    BY AppendFacts
  <1> HIDE DEF t
  <1>2. \A i \in 1..(Len(s) + 1) : i = Len(s) + 1 \/ i \in 1..Len(s)
    BY <1>1
  <1>3. \A i \in 1..Len(t) : Watches(ca, q, t[i])
    BY <1>1, <1>2 DEF WatchOK
  <1>4. \A i, j \in 1..Len(t) : t[i].cref = t[j].cref => i = j
    BY <1>1, <1>2 DEF WatchOK
  <1>5. WatchOK(ca, q, t)
    BY <1>3, <1>4 DEF WatchOK
  <1> QED BY <1>5 DEF t

\* The watcher w in the middle of a list: replaced, and taken out.
LEMMA WatchSplice ==
    ASSUME NEW ca, NEW q, NEW keep \in Seq(Watcher), NEW w \in Watcher, NEW rest \in Seq(Watcher),
           WatchOK(ca, q, keep \o (<<w>> \o rest))
    PROVE  /\ Watches(ca, q, w)
           /\ \A x \in Watcher : x.cref = w.cref => WatchOK(ca, q, Append(keep, x) \o rest)
           /\ WatchOK(ca, q, keep \o rest)
           /\ \A i \in 1..Len(keep \o rest) : (keep \o rest)[i].cref # w.cref
  <1> DEFINE k == Len(keep)
             n == Len(rest)
             all == keep \o (<<w>> \o rest)
             both == keep \o rest
  <1>1. /\ k \in Nat /\ n \in Nat /\ all \in Seq(Watcher) /\ Len(all) = k + 1 + n
        /\ \A i \in 1..k : all[i] = keep[i]
        /\ all[k + 1] = w /\ \A i \in 1..n : all[k + 1 + i] = rest[i]
        /\ both \in Seq(Watcher) /\ Len(both) = k + n
        /\ \A i \in 1..(k + n) : both[i] = IF i <= k THEN all[i] ELSE all[i + 1]
    BY SpliceFacts
  <1>2. /\ \A i \in 1..(k + 1 + n) : Watches(ca, q, all[i])
        /\ \A i, j \in 1..(k + 1 + n) : all[i].cref = all[j].cref => i = j
    BY <1>1 DEF WatchOK
  <1>3. k + 1 \in 1..(k + 1 + n)
    BY <1>1
  <1>4. ASSUME NEW x \in Watcher, x.cref = w.cref PROVE WatchOK(ca, q, Append(keep, x) \o rest)
    <2> DEFINE new == keep \o (<<x>> \o rest)
    <2>1. /\ Append(keep, x) \o rest = new /\ Len(new) = k + 1 + n
          /\ \A i \in 1..k : new[i] = keep[i]
          /\ new[k + 1] = x /\ \A i \in 1..n : new[k + 1 + i] = rest[i]
      BY SpliceFacts
    <2> HIDE DEF new, all, k, n
    <2>2. ASSUME NEW i \in 1..(k + 1 + n) PROVE new[i].cref = all[i].cref
      <3>1. CASE i \in 1..k
        BY <1>1, <2>1, <3>1
      <3>2. CASE i = k + 1
        BY <1>1, <1>4, <2>1, <3>2
      <3>3. CASE i > k + 1
        <4> DEFINE j == i - (k + 1)
        <4>1. j \in 1..n /\ i = k + 1 + j
          BY <1>1, <3>3
        <4> HIDE DEF j
        <4> QED BY <1>1, <2>1, <4>1
      <3> QED BY <1>1, <3>1, <3>2, <3>3
    <2>3. \A i \in 1..(k + 1 + n) : Watches(ca, q, new[i])
      BY <1>2, <2>2 DEF Watches
    <2>4. \A i, j \in 1..(k + 1 + n) : new[i].cref = new[j].cref => i = j
      BY <1>2, <2>2
    <2> QED BY <2>1, <2>3, <2>4 DEF WatchOK
  <1>5. ASSUME NEW i \in 1..(k + n)
        PROVE  \E j \in 1..(k + 1 + n) : /\ both[i] = all[j] /\ j # k + 1
                                         /\ (i <= k => j = i) /\ (~(i <= k) => j = i + 1)
    <2> HIDE DEF all, both, k, n
    <2>1. CASE i <= k
      <3>1. i \in 1..(k + 1 + n) /\ i # k + 1
        BY <1>1, <2>1
      <3> QED BY <1>1, <2>1, <3>1
    <2>2. CASE ~(i <= k)
      <3>1. i + 1 \in 1..(k + 1 + n) /\ i + 1 # k + 1
        BY <1>1, <2>2
      <3> QED BY <1>1, <2>2, <3>1
    <2> QED BY <2>1, <2>2
  <1> HIDE DEF all, both, k, n
  <1>6. \A i \in 1..(k + n) : Watches(ca, q, both[i]) /\ both[i].cref # w.cref
    <2> TAKE i \in 1..(k + n)
    <2>1. PICK j \in 1..(k + 1 + n) : both[i] = all[j] /\ j # k + 1
      BY <1>5
    <2> QED BY <1>1, <1>2, <1>3, <2>1
  <1>7. ASSUME NEW i \in 1..(k + n), NEW h \in 1..(k + n), both[i].cref = both[h].cref PROVE i = h
    <2>1. PICK j \in 1..(k + 1 + n) : both[i] = all[j] /\ (i <= k => j = i) /\ (~(i <= k) => j = i + 1)
      BY <1>5
    <2>2. PICK l \in 1..(k + 1 + n) : both[h] = all[l] /\ (h <= k => l = h) /\ (~(h <= k) => l = h + 1)
      BY <1>5
    <2>3. j = l
      BY <1>2, <1>7, <2>1, <2>2
    <2> QED BY <1>1, <2>1, <2>2, <2>3
  <1>8. WatchOK(ca, q, both)
    BY <1>1, <1>6, <1>7 DEF WatchOK
  <1>9. Watches(ca, q, w)
    BY <1>1, <1>2, <1>3
  <1> QED BY <1>1, <1>4, <1>6, <1>8, <1>9 DEF both

ReCa(ca, cr, lits) == [ca EXCEPT ![cr].lits = lits]

LEMMA ReCaFacts ==
    ASSUME NEW ca \in Seq(Clause), NEW cr \in DOMAIN ca, NEW lits
    PROVE  /\ DOMAIN ReCa(ca, cr, lits) = DOMAIN ca /\ ReCa(ca, cr, lits)[cr].lits = lits
           /\ \A k \in DOMAIN ca : k # cr => ReCa(ca, cr, lits)[k] = ca[k]
           /\ lits \in Seq(Lit) => ReCa(ca, cr, lits) \in Seq(Clause)
  <1> DEFINE x == [ca[cr] EXCEPT !.lits = lits]
             ca2 == [ca EXCEPT ![cr] = x]
  <1>1. DOMAIN ca = 1..Len(ca) /\ Len(ca) \in Nat /\ ca[cr] \in Clause
    OBVIOUS
  <1>2. x.lits = lits /\ (lits \in Seq(Lit) => x \in Clause)
    BY <1>1 DEF Clause
  <1>3. ReCa(ca, cr, lits) = ca2
    BY DEF ReCa
  <1> HIDE DEF x
  <1>4. /\ DOMAIN ca2 = DOMAIN ca /\ ca2[cr] = x /\ \A k \in DOMAIN ca : k # cr => ca2[k] = ca[k]
        /\ x \in Clause => ca2 \in Seq(Clause)
    BY <1>1
  <1> QED BY <1>2, <1>3, <1>4

LEMMA WatchMoved ==
    ASSUME NEW ca \in Seq(Clause), NEW cr \in DOMAIN ca, NEW lits, lits # <<>>,
           NEW q, NEW ws, WatchOK(ca, q, ws),
           \A i \in 1..Len(ws) : ws[i].cref = cr => -q = lits[1] \/ -q = lits[2]
    PROVE  WatchOK(ReCa(ca, cr, lits), q, ws)
  <1> DEFINE ca2 == ReCa(ca, cr, lits)
  <1>1. DOMAIN ca2 = DOMAIN ca /\ ca2[cr].lits = lits /\ \A k \in DOMAIN ca : k # cr => ca2[k] = ca[k]
    BY ReCaFacts
  <1> HIDE DEF ca2
  <1>2. \A i \in 1..Len(ws) : Watches(ca2, q, ws[i])
    BY <1>1 DEF WatchOK, Watches
  <1>3. WatchOK(ca2, q, ws)
    BY <1>2 DEF WatchOK
  <1> QED BY <1>3 DEF ca2

\* The literals of a clause in another order.
ReDb(c, ca, W, h) == [c EXCEPT !.ca = ca, !.watches = W, !.qhead = h]
CanReorder(c, lemmas, cr, lits, W, h) ==
    /\ c \in Core /\ Good(c, lemmas) /\ cr \in Live(c) /\ lits \in Seq(Lit)
    /\ Len(lits) = Len(c.ca[cr].lits) /\ Distinct(lits) /\ Range(lits) = Lits(c, cr)
    /\ c.ca[cr].lits[1] \in c.assigns => lits[1] = c.ca[cr].lits[1]
    /\ W \in [Lit -> Seq(Watcher)] /\ h \in Nat /\ h <= Len(c.trail)
    /\ \A q \in Lit : WatchOK(ReCa(c.ca, cr, lits), q, W[q])
ReorderedTo(c, lemmas, cr, lits, W, d) ==
    /\ Good(d, lemmas) /\ NoDecision(c, d) /\ Extends(c, d)
    /\ SameTrail(c, d) /\ d.reason = c.reason /\ d.watches = W
    /\ d.delayed = c.delayed /\ d.ok = c.ok /\ d.initialPropagate = c.initialPropagate
    /\ Live(d) = Live(c) /\ \A k \in Live(c) : Lits(d, k) = Lits(c, k)
    /\ d.ca[cr].lits = lits
    /\ \A M : Follows(c, d, M)
LEMMA Reordered ==
    ASSUME NEW c, NEW lemmas, NEW cr, NEW lits, NEW W, NEW h,
           CanReorder(c, lemmas, cr, lits, W, h)
    PROVE  ReorderedTo(c, lemmas, cr, lits, W, ReDb(c, ReCa(c.ca, cr, lits), W, h))
  <1> DEFINE d == ReDb(c, ReCa(c.ca, cr, lits), W, h)
  <1>c. /\ c \in Core /\ Good(c, lemmas) /\ cr \in Live(c) /\ lits \in Seq(Lit)
        /\ Len(lits) = Len(c.ca[cr].lits) /\ Distinct(lits) /\ Range(lits) = Lits(c, cr)
        /\ c.ca[cr].lits[1] \in c.assigns => lits[1] = c.ca[cr].lits[1]
        /\ W \in [Lit -> Seq(Watcher)] /\ h \in Nat /\ h <= Len(c.trail)
        /\ \A q \in Lit : WatchOK(ReCa(c.ca, cr, lits), q, W[q])
    BY DEF CanReorder
  <1>d. d = [c EXCEPT !.ca = ReCa(c.ca, cr, lits), !.watches = W, !.qhead = h]
    BY DEF ReDb
  <1> HIDE DEF d
  <1> USE <1>c, <1>d
  <1> DEFINE ca2 == ReCa(c.ca, cr, lits)
  <1>0. DbOK(c) /\ TrailOK(c)
    BY DEF Good
  <1>1. /\ cr \in 1..Len(c.ca) /\ c.ca[cr].lits \in Seq(Lit) /\ Len(c.ca[cr].lits) >= 2
        /\ c.ca \in Seq(Clause) /\ c.ca[cr] \in Clause /\ DOMAIN c.ca = 1..Len(c.ca)
    <2>1. c.ca \in Seq(Clause)
      BY CoreFields DEF Clause
    <2> QED BY <1>0, <2>1, ClauseFacts
  <1>2. /\ ca2 \in Seq(Clause) /\ DOMAIN ca2 = DOMAIN c.ca /\ ca2[cr].lits = lits
        /\ \A k \in DOMAIN c.ca : k # cr => ca2[k] = c.ca[k]
    BY <1>1, ReCaFacts
  <1> HIDE DEF ca2
  <1>3. /\ d \in Core /\ d.ca = ca2 /\ d.watches = W /\ d.qhead = h /\ SameTrail(c, d)
        /\ d.reason = c.reason /\ d.told = c.told /\ d.theory_level = c.theory_level
        /\ d.delayed = c.delayed /\ d.ok = c.ok /\ d.initialPropagate = c.initialPropagate
        /\ d.trail = c.trail
    BY <1>2 DEF Core, Clause, Watcher, SameTrail, ca2
  <1>4. lits # <<>>
    BY <1>1
  <1>5. Live(d) = Live(c) /\ \A k \in Live(c) : Lits(d, k) = Lits(c, k)
    <2>1. c.ca[cr].lits # <<>> /\ cr \in DOMAIN c.ca
      BY <1>1
    <2>2. \A k \in DOMAIN c.ca : (d.ca[k].lits # <<>>) <=> (c.ca[k].lits # <<>>)
      BY <1>2, <1>3, <1>4, <2>1
    <2>3. \A k \in DOMAIN c.ca : Range(d.ca[k].lits) = Range(c.ca[k].lits)
      BY <1>2, <1>3 DEF Lits
    <2> QED BY <1>2, <1>3, <2>2, <2>3 DEF Live, Lits
  <1>6. DbOK(d)
    <2>1. ClauseOK(lits)
      BY <1>1 DEF ClauseOK
    <2>2. \A k \in DOMAIN ca2 : ClauseOK(ca2[k].lits)
      BY <1>0, <1>2, <2>1 DEF DbOK
    <2> QED BY <1>0, <1>3, <2>2 DEF DbOK, ca2
  <1>7. KeepsReasons(c, d)
    <2> SUFFICES ASSUME NEW i \in 1..Len(c.trail), ReasonOf(c, c.trail[i]) \in Live(c)
                 PROVE  d.ca[ReasonOf(c, c.trail[i])].lits[1] = c.ca[ReasonOf(c, c.trail[i])].lits[1]
      BY <1>5 DEF KeepsReasons
    <2>1. CASE ReasonOf(c, c.trail[i]) = cr
      <3>1. cr > 0 /\ CauseOK(c, lemmas, i)
        BY <1>1 DEF Good, CausesOK
      <3>2. c.ca[cr].lits[1] = c.trail[i]
        BY <2>1, <3>1 DEF CauseOK, ByClause
      <3>3. c.ca[cr].lits[1] \in c.assigns
        BY <1>0, <3>2, AssignedFacts
      <3> QED BY <1>2, <1>3, <2>1, <3>3
    <2>2. CASE ReasonOf(c, c.trail[i]) # cr
      BY <1>2, <1>3, <2>2 DEF Live
    <2> QED BY <2>1, <2>2
  <1>8. Good(d, lemmas) /\ NoDecision(c, d) /\ Extends(c, d) /\ Held(d) = Held(c)
    <2>1. d.qhead <= Len(d.trail)
      BY <1>3
    <2>2. /\ c \in Core /\ Good(c, lemmas) /\ d \in Core /\ SameTrail(c, d)
          /\ d.reason = c.reason /\ d.told = c.told /\ d.theory_level = c.theory_level
      BY <1>3
    <2> QED BY ONLY <1>6, <1>7, <2>1, <2>2, DbChangeGood
  <1>9. \A M : Follows(c, d, M)
    BY <1>3, <1>5, SameClauses
  <1> QED BY <1>2, <1>3, <1>5, <1>8, <1>9 DEF ReorderedTo, d

WithWatches(c, W) == [c EXCEPT !.watches = W]
LEMMA EnqueueWatches ==
    ASSUME NEW c \in Core, NEW W, NEW p, NEW lev, NEW from
    PROVE  /\ Enqueued(WithWatches(c, W), p, lev, from)
                = WithWatches(Enqueued(c, p, lev, from), W)
           /\ Enqueued(c, p, lev, from).watches = c.watches
  <1> DEFINE b == Assign(c, p, lev, from)
             b2 == Assign(WithWatches(c, W), p, lev, from)
             v == VarOf(p)
  <1>1. b2 = [b EXCEPT !.watches = W] /\ b.watches = c.watches
    BY DEF Assign, Core, WithWatches
  <1>2. b.level = [c.level EXCEPT ![v] = lev] /\ b.theory_level = c.theory_level /\ b.told = c.told
        /\ b2.level = b.level /\ b2.theory_level = b.theory_level /\ b2.told = b.told
    BY DEF Assign, Core, WithWatches
  <1>3. DOMAIN b = DOMAIN c
    BY DEF Assign, Core
  <1> HIDE DEF b, b2
  <1>4. CASE ~HasTheory(p)
    BY <1>1, <1>4 DEF Enqueued, TellAndQueue, b, b2, WithWatches
  <1>5. CASE HasTheory(p)
    <2>1. LevelOf(b2, p) = LevelOf(b, p)
      BY <1>2 DEF LevelOf
    <2> DEFINE l == IF LevelOf(b, p) > b.theory_level THEN LevelOf(b, p) ELSE b.theory_level
               t == Append(Keep(b.told, {r \in Range(b.told) : r.lit # p}), [lit |-> p, at |-> l])
    <2>2. Tell(b, p) = [b EXCEPT !.theory_level = l, !.told = t]
      BY <1>5 DEF Tell
    <2>3. Tell(b2, p) = [b2 EXCEPT !.theory_level = l, !.told = t]
      BY <1>2, <1>5, <2>1 DEF Tell
    <2> HIDE DEF l, t
    <2>4. Enqueued(c, p, lev, from) = [b EXCEPT !.theory_level = l, !.told = t, !.theory_queue = TRUE]
      BY <1>5, <2>2 DEF Enqueued, TellAndQueue, b
    <2>5. Enqueued(WithWatches(c, W), p, lev, from)
            = [b2 EXCEPT !.theory_level = l, !.told = t, !.theory_queue = TRUE]
      BY <1>5, <2>3 DEF Enqueued, TellAndQueue, b2
    <2>6. [[b EXCEPT !.watches = W] EXCEPT !.theory_level = l, !.told = t, !.theory_queue = TRUE]
            = [[b EXCEPT !.theory_level = l, !.told = t, !.theory_queue = TRUE] EXCEPT !.watches = W]
      BY <1>3 DEF Core
    <2>7. [b EXCEPT !.theory_level = l, !.told = t, !.theory_queue = TRUE].watches = b.watches
      BY <1>3 DEF Core
    <2> QED BY <1>1, <2>4, <2>5, <2>6, <2>7 DEF WithWatches
  <1> QED BY <1>4, <1>5

-----------------------------------------------------------------------------
(***************************************************************************)
(* Unit propagation.                                                       *)
(***************************************************************************)
AllFalse(c, cr) == cr \in Live(c) /\ \A q \in Lits(c, cr) : IsFalse(c, q)

\* d is c with more assigned and the clauses in another order.
Grows(c, d, M) ==
    /\ Follows(c, d, M) /\ NoDecision(c, d) /\ Extends(c, d)
    /\ d.ok = c.ok /\ d.initialPropagate = c.initialPropagate /\ d.delayed = c.delayed
    /\ c.assigns \subseteq d.assigns

LEMMA GrowsSelf == ASSUME NEW c \in Core, NEW M PROVE Grows(c, c, M)
  <1>1. Len(c.trail) \in Nat /\ \A i \in (Len(c.trail) + 1)..Len(c.trail) : FALSE
    BY CoreFields
  <1> QED BY <1>1 DEF Grows, Follows, NoDecision, Extends

LEMMA GrowsTwice ==
    ASSUME NEW b \in Core, NEW c \in Core, NEW d \in Core, NEW M, Grows(b, c, M), Grows(c, d, M),
           TrailOK(b), TrailOK(c)
    PROVE  Grows(b, d, M)
  <1>1. Extends(b, d)
    BY ExtendsTwice DEF Grows
  <1>2. NoDecision(b, d)
    BY DEF Grows, NoDecision
  <1> QED BY <1>1, <1>2 DEF Grows, Follows

-----------------------------------------------------------------------------
\* Names for what the proofs below need not look into.
Joined(s, r) == s \o r
Pushed(w, rest) == <<w>> \o rest

LEMMA JoinedFacts ==
    ASSUME NEW keep \in Seq(Watcher), NEW w \in Watcher, NEW rest \in Seq(Watcher)
    PROVE  /\ \A x \in Watcher : /\ Append(keep, x) \in Seq(Watcher)
                               /\ Joined(Append(keep, x), rest) \in Seq(Watcher)
           /\ Joined(keep, rest) \in Seq(Watcher)
           /\ Joined(Append(keep, w), rest) = Joined(keep, Pushed(w, rest))
  <1>1. \A x \in Watcher : Append(keep, x) \in Seq(Watcher)
    BY AppendFacts
  <1>2. \A s \in Seq(Watcher) : s \o rest \in Seq(Watcher)
    BY ConcatFacts
  <1>3. Append(keep, w) \o rest = keep \o (<<w>> \o rest)
    BY SpliceFacts
  <1> QED BY <1>1, <1>2, <1>3 DEF Joined, Pushed

LEMMA JoinedWatches ==
    ASSUME NEW ca, NEW q, NEW keep \in Seq(Watcher), NEW w \in Watcher, NEW rest \in Seq(Watcher),
           WatchOK(ca, q, Joined(keep, Pushed(w, rest)))
    PROVE  /\ Watches(ca, q, w)
           /\ \A x \in Watcher : x.cref = w.cref => WatchOK(ca, q, Joined(Append(keep, x), rest))
           /\ WatchOK(ca, q, Joined(keep, rest))
           /\ \A i \in 1..Len(Joined(keep, rest)) : Joined(keep, rest)[i].cref # w.cref
  <1>1. WatchOK(ca, q, keep \o (<<w>> \o rest))
    BY DEF Joined, Pushed
  <1> QED BY <1>1, WatchSplice DEF Joined

-----------------------------------------------------------------------------
\* The solver during the loop of propagate: v has the list of p as it will be if
\* the watchers still to be visited, rest, are kept.
Walks(a, v, p, rest) ==
    /\ v \in Core /\ a = [c |-> a.c, keep |-> a.keep, confl |-> a.confl]
    /\ a.c = WithWatches(v, a.c.watches)
    /\ a.c.watches \in [Lit -> Seq(Watcher)]
    /\ v.watches = [a.c.watches EXCEPT ![p] = Joined(a.keep, rest)]
    /\ a.keep \in Seq(Watcher) /\ a.confl \in Nat

WalksOn(a, v, p, rest) ==
    /\ a.c.assigns = v.assigns /\ a.c.level = v.level /\ a.c.reason = v.reason
    /\ a.c.trail = v.trail /\ a.c.trail_lim = v.trail_lim /\ a.c.qhead = v.qhead
    /\ a.c.ca = v.ca /\ a.c.delayed = v.delayed
    /\ v.watches[p] = Joined(a.keep, rest)
    /\ \A q \in Lit : q # p => v.watches[q] = a.c.watches[q]
LEMMA WalksFields ==
    ASSUME NEW a, NEW v, NEW p \in Lit, NEW rest, Walks(a, v, p, rest)
    PROVE  WalksOn(a, v, p, rest)
  BY DEF Walks, Core, WithWatches, WalksOn

\* The two watched literals of w's clause, -p second.
LEMMA FirstTwo ==
    ASSUME NEW p \in Lit, NEW old \in Seq(Lit), Len(old) >= 2, Distinct(old),
           -p = old[1] \/ -p = old[2]
    PROVE  LET lits == IF old[1] = -p THEN Swap(old, 1, 2) ELSE old
           IN /\ lits \in Seq(Lit) /\ Len(lits) = Len(old) /\ Distinct(lits) /\ Range(lits) = Range(old)
              /\ lits[2] = -p /\ lits[1] # -p
              /\ (lits[1] = old[1] /\ lits[2] = old[2]) \/ (lits[1] = old[2] /\ lits[2] = old[1])
              /\ old[1] # -p => lits[1] = old[1]
  <1>1. 1 \in 1..Len(old) /\ 2 \in 1..Len(old) /\ DOMAIN old = 1..Len(old)
    OBVIOUS
  <1>2. old[1] # old[2]
    BY <1>1 DEF Distinct
  <1>3. CASE old[1] = -p
    <2>1. /\ Swap(old, 1, 2) \in Seq(Lit) /\ Len(Swap(old, 1, 2)) = Len(old)
          /\ Swap(old, 1, 2)[1] = old[2] /\ Swap(old, 1, 2)[2] = old[1]
          /\ Range(Swap(old, 1, 2)) = Range(old)
          /\ Distinct(Swap(old, 1, 2))
      <3>1. ASSUME NEW i \in 1..Len(old), NEW j \in 1..Len(old)
            PROVE  /\ Swap(old, i, j) \in Seq(Lit) /\ Len(Swap(old, i, j)) = Len(old)
                   /\ Swap(old, i, j)[i] = old[j] /\ Swap(old, i, j)[j] = old[i]
                   /\ Range(Swap(old, i, j)) = Range(old) /\ Distinct(Swap(old, i, j))
        BY SwapFacts
      <3> QED BY <1>1, <3>1
    <2> QED BY <1>2, <1>3, <2>1
  <1>4. CASE old[1] # -p
    BY <1>2, <1>4
  <1> QED BY <1>3, <1>4

Walked(a, v, lemmas, p, rest) ==
    /\ v \in Core /\ Walks(a, v, p, rest) /\ Good(v, lemmas) /\ p \in v.assigns
    /\ a.confl # 0 => AllFalse(v, a.confl)
WatcherDone(v, lemmas, M, p, b, rest) == \E d : Walked(b, d, lemmas, p, rest) /\ Grows(v, d, M)

LEMMA WatcherGood ==
    ASSUME NEW lemmas, NEW p \in Lit, NEW a, NEW v, NEW w \in Watcher, NEW rest \in Seq(Watcher),
           Walked(a, v, lemmas, p, Pushed(w, rest)), NEW M, M \subseteq Total
    PROVE  WatcherDone(v, lemmas, M, p, VisitWatcher(p, a, w), rest)
  <1> DEFINE b == VisitWatcher(p, a, w)
             keep == a.keep
             aw == a.c.watches
             cr == w.cref
             Goal(d) == /\ Walks(b, d, p, rest) /\ Good(d, lemmas) /\ Grows(v, d, M)
                        /\ b.confl # 0 => AllFalse(d, b.confl)
  <1>a. /\ Walks(a, v, p, Pushed(w, rest)) /\ Good(v, lemmas) /\ p \in v.assigns
        /\ a.confl # 0 => AllFalse(v, a.confl)
    BY DEF Walked
  <1> USE <1>a
  <1> SUFFICES ASSUME TRUE PROVE \E d : Goal(d)
    <2> SUFFICES ASSUME NEW d, Goal(d) PROVE Walked(b, d, lemmas, p, rest) /\ Grows(v, d, M)
      BY DEF WatcherDone
    <2>1. v.assigns \subseteq d.assigns
      BY DEF Grows
    <2>2. p \in d.assigns
      BY <2>1
    <2>3. d \in Core
      BY DEF Good
    <2> HIDE DEF b
    <2> QED BY <2>2, <2>3 DEF Walked
  <1>0. DbOK(v) /\ TrailOK(v) /\ v \in Core
    BY DEF Good
  <1>1. /\ a = [c |-> a.c, keep |-> keep, confl |-> a.confl]
        /\ a.c = WithWatches(v, aw) /\ aw \in [Lit -> Seq(Watcher)]
        /\ keep \in Seq(Watcher) /\ a.confl \in Nat
        /\ v.watches = [aw EXCEPT ![p] = Joined(keep, Pushed(w, rest))]
    BY DEF Walks
  <1>2. /\ a.c.assigns = v.assigns /\ a.c.ca = v.ca /\ a.c.trail = v.trail /\ a.c.trail_lim = v.trail_lim
        /\ a.c.qhead = v.qhead
        /\ v.watches[p] = Joined(keep, Pushed(w, rest))
        /\ \A q \in Lit : q # p => v.watches[q] = aw[q]
    <2>1. WalksOn(a, v, p, Pushed(w, rest))
      BY WalksFields
    <2> QED BY <2>1 DEF WalksOn
  <1>3. /\ \A x \in Watcher : /\ Append(keep, x) \in Seq(Watcher)
                            /\ Joined(Append(keep, x), rest) \in Seq(Watcher)
        /\ Joined(keep, rest) \in Seq(Watcher)
        /\ Joined(Append(keep, w), rest) = Joined(keep, Pushed(w, rest))
    <2>1. keep \in Seq(Watcher)
      BY <1>1
    <2> HIDE DEF keep
    <2> QED BY ONLY <2>1, w \in Watcher, rest \in Seq(Watcher), JoinedFacts
  <1>4. \A q : (IsTrue(a.c, q) <=> IsTrue(v, q)) /\ (IsFalse(a.c, q) <=> IsFalse(v, q))
    BY <1>2 DEF IsTrue, IsFalse
  <1> HIDE DEF keep, aw
  <1>5. CASE a.confl # CRef_Undef \/ IsTrue(a.c, w.blocker)
    <2>1. b = [a EXCEPT !.keep = Append(keep, w)]
      BY <1>5 DEF VisitWatcher, keep
    <2>2. b = [c |-> a.c, keep |-> Append(keep, w), confl |-> a.confl]
      BY <1>1, <2>1
    <2> HIDE DEF b
    <2>3. /\ b.c = a.c /\ b.keep = Append(keep, w) /\ b.confl = a.confl
          /\ b = [c |-> b.c, keep |-> b.keep, confl |-> b.confl]
      BY <2>2
    <2>4. Walks(b, v, p, rest)
      BY <1>0, <1>1, <1>3, <2>3 DEF Walks, aw
    <2>5. Goal(v)
      BY <1>0, <2>3, <2>4, GrowsSelf
    <2> QED BY <2>5 DEF b
  <1>6. CASE ~(a.confl # CRef_Undef \/ IsTrue(a.c, w.blocker))
    <2> DEFINE old == a.c.ca[cr].lits
               lits == IF old[1] = -p THEN Swap(old, 1, 2) ELSE old
               first == lits[1]
               nw == [cref |-> cr, blocker |-> first]
               n == Len(lits)
               c1 == [a.c EXCEPT !.ca[cr].lits = lits]
               found == NewWatch(a.c, lits)
               k == CHOOSE i \in found : \A j \in found : i <= j
               W == [aw EXCEPT ![p] = Joined(Append(keep, nw), rest)]
    <2>0. old = v.ca[cr].lits
      BY <1>2
    <2>1. /\ WatchOK(v.ca, p, Joined(keep, Pushed(w, rest))) /\ \A q \in Lit : WatchOK(v.ca, q, v.watches[q])
      BY <1>0, <1>2 DEF DbOK
    <2>2. Watches(v.ca, p, w)
      BY ONLY <1>1, <2>1, w \in Watcher, rest \in Seq(Watcher), JoinedWatches
    <2>3. cr \in Live(v) /\ (-p = old[1] \/ -p = old[2])
      BY <2>0, <2>2 DEF Watches, Live
    <2>4. /\ old \in Seq(Lit) /\ Len(old) >= 2 /\ Distinct(old) /\ Lits(v, cr) = Range(old)
          /\ cr \in Nat /\ cr \in 1..Len(v.ca) /\ v.ca[cr] \in Clause
          /\ v.ca \in Seq(Clause) /\ cr \in DOMAIN v.ca /\ cr > 0
      <3>1. v.ca \in Seq(Clause)
        BY <1>0, CoreFields DEF Clause
      <3>2. /\ old \in Seq(Lit) /\ Len(old) >= 2 /\ Distinct(old) /\ cr \in 1..Len(v.ca)
            /\ cr \in Nat /\ v.ca[cr] \in Clause
        BY <1>0, <2>0, <2>3, ClauseFacts
      <3> QED BY <2>0, <3>1, <3>2 DEF Lits
    <2> HIDE DEF old
    <2>5. /\ lits \in Seq(Lit) /\ n = Len(old) /\ Distinct(lits) /\ Range(lits) = Range(old)
          /\ lits[2] = -p /\ lits[1] # -p
          /\ (lits[1] = old[1] /\ lits[2] = old[2]) \/ (lits[1] = old[2] /\ lits[2] = old[1])
          /\ old[1] # -p => lits[1] = old[1]
      BY <2>3, <2>4, FirstTwo
    <2> HIDE DEF lits
    <2>6. /\ n \in Nat /\ n >= 2 /\ DOMAIN lits = 1..n /\ first \in Lit /\ nw \in Watcher /\ lits # <<>>
          /\ \A i \in 1..n : lits[i] \in Lit /\ lits[i] \in Range(lits)
          /\ \A q \in Range(lits) : \E i \in 1..n : lits[i] = q
          /\ \A i, j \in 1..n : lits[i] = lits[j] => i = j
      <3>1. n \in Nat /\ n >= 2 /\ DOMAIN lits = 1..n /\ \A i \in 1..n : lits[i] \in Lit
        BY <2>4, <2>5
      <3>2. first \in Lit /\ lits # <<>>
        BY <3>1, <2>5
      <3> QED BY <2>4, <2>5, <3>1, <3>2, RangeFacts DEF Watcher, Distinct
    <2>7. old[1] \in v.assigns => lits[1] = old[1]
      BY <1>0, <2>5 DEF TrailOK
    <2>8. \A q \in Lit : \A ws : WatchOK(v.ca, q, ws) =>
            \A i \in 1..Len(ws) : ws[i].cref = cr => -q = lits[1] \/ -q = lits[2]
      BY <2>0, <2>5 DEF WatchOK, Watches
    <2> HIDE DEF n, first, nw, W
    <2>9. WatchOK(v.ca, p, Joined(Append(keep, nw), rest))
      <3>1. nw \in Watcher /\ nw.cref = w.cref
        BY <2>6 DEF nw
      <3> QED BY ONLY <1>1, <2>1, <3>1, w \in Watcher, rest \in Seq(Watcher), JoinedWatches
    <2>10. W \in [Lit -> Seq(Watcher)] /\ \A q \in Lit : WatchOK(ReCa(v.ca, cr, lits), q, W[q])
      <3>1. W[p] = Joined(Append(keep, nw), rest) /\ \A q \in Lit : q # p => W[q] = v.watches[q]
        BY <1>1, <1>2 DEF W
      <3>2. W \in [Lit -> Seq(Watcher)]
        BY <1>1, <1>3, <2>6 DEF W
      <3>3. \A q \in Lit : WatchOK(v.ca, q, W[q])
        BY <2>1, <2>9, <3>1
      <3>4. ASSUME NEW q \in Lit PROVE WatchOK(ReCa(v.ca, cr, lits), q, W[q])
        <4>1. WatchOK(v.ca, q, W[q])
          BY <3>3
        <4>2. \A i \in 1..Len(W[q]) : W[q][i].cref = cr => -q = lits[1] \/ -q = lits[2]
          BY <2>8, <4>1
        <4> QED BY ONLY <2>4, <2>6, <4>1, <4>2, WatchMoved
      <3> QED BY <3>2, <3>4
    <2>11. /\ VisitWatcher(p, a, w) =
                (CASE first # w.blocker /\ IsTrue(a.c, first) ->
                       [a EXCEPT !.c = c1, !.keep = Append(keep, nw)]
                  [] found # {} /\ ~(first # w.blocker /\ IsTrue(a.c, first)) ->
                       [a EXCEPT !.c = [c1 EXCEPT
                           !.ca[cr].lits = Swap(lits, 2, k),
                           !.watches[-lits[k]] = Append(@, nw)]]
                  [] OTHER ->
                       IF IsFalse(a.c, first)
                         THEN [a EXCEPT !.c = [c1 EXCEPT !.qhead = Len(c1.trail)],
                                        !.keep = Append(keep, nw),
                                        !.confl = cr]
                         ELSE [a EXCEPT !.c = UncheckedEnqueue(c1, first, cr),
                                        !.keep = Append(keep, nw)])
      BY <1>6 DEF VisitWatcher, c1, first, nw, lits, old, keep
    <2>12. c1 = [v EXCEPT !.watches = aw, !.ca = ReCa(v.ca, cr, lits)]
      BY <1>0, <1>1, <1>2 DEF Core, ReCa, WithWatches
    <2> HIDE DEF c1, found, k, b
    <2>13. /\ c1.ca = ReCa(v.ca, cr, lits) /\ c1.watches = aw /\ c1.trail = v.trail
           /\ c1.trail_lim = v.trail_lim /\ c1.qhead = v.qhead
      BY <1>0, <2>12 DEF Core
    <2>14. ReCa(v.ca, cr, lits)[cr].lits = lits
      BY <2>4, ReCaFacts
    <2> DEFINE d(h) == ReDb(v, ReCa(v.ca, cr, lits), W, h)
    <2>15. ASSUME NEW h \in Nat, h <= Len(v.trail)
           PROVE  /\ Good(d(h), lemmas) /\ Grows(v, d(h), M) /\ SameTrail(v, d(h)) /\ d(h).reason = v.reason
                  /\ Live(d(h)) = Live(v) /\ (\A m \in Live(v) : Lits(d(h), m) = Lits(v, m))
                  /\ d(h).ca[cr].lits = lits
      <3> DEFINE e == d(h)
      <3>1. e = ReDb(v, ReCa(v.ca, cr, lits), W, h)
        OBVIOUS
      <3> HIDE DEF e
      <3>2. Len(lits) = Len(v.ca[cr].lits) /\ Range(lits) = Lits(v, cr)
        BY <2>0, <2>4, <2>5 DEF n
      <3>3. v.ca[cr].lits[1] \in v.assigns => lits[1] = v.ca[cr].lits[1]
        BY <2>0, <2>7
      <3>4. CanReorder(v, lemmas, cr, lits, W, h)
        BY <1>0, <2>3, <2>5, <2>10, <2>15, <3>2, <3>3 DEF CanReorder
      <3>5. ReorderedTo(v, lemmas, cr, lits, W, e)
        BY ONLY <3>1, <3>4, Reordered
      <3>6. Grows(v, e, M)
        BY <3>5 DEF Grows, SameTrail, ReorderedTo
      <3> QED BY <3>5, <3>6 DEF e, ReorderedTo
    <2>16. v.qhead \in Nat /\ v.qhead <= Len(v.trail) /\ Len(v.trail) \in Nat
      BY <1>0, CoreFields DEF TrailOK
    <2>17. /\ Append(keep, nw) \in Seq(Watcher) /\ aw \in [Lit -> Seq(Watcher)] /\ a.confl = 0
           /\ W = [aw EXCEPT ![p] = Joined(Append(keep, nw), rest)]
      BY <1>1, <1>3, <1>6, <2>6 DEF W, CRef_Undef
    <2>18. ASSUME NEW h \in Nat
           PROVE  [c1 EXCEPT !.qhead = h] = WithWatches(d(h), aw)
      BY <1>0, <2>12 DEF Core, ReDb, WithWatches
    <2>19. c1 = WithWatches(d(v.qhead), aw)
      BY <1>0, <2>12 DEF Core, ReDb, WithWatches
    <2>20. CASE first # w.blocker /\ IsTrue(a.c, first)
      <3> DEFINE e == d(v.qhead)
      <3>1. b = [a EXCEPT !.c = c1, !.keep = Append(keep, nw)]
        BY <2>11, <2>20 DEF b
      <3>2. b = [c |-> c1, keep |-> Append(keep, nw), confl |-> 0]
        BY <1>1, <2>17, <3>1
      <3>3. Good(e, lemmas) /\ Grows(v, e, M) /\ c1 = WithWatches(e, aw) /\ e.watches = W
        BY <1>0, <2>15, <2>16, <2>19 DEF Core, ReDb
      <3> HIDE DEF d, e
      <3>4. Walks(b, e, p, rest)
        BY <2>13, <2>17, <3>2, <3>3 DEF Walks, Good
      <3>5. Goal(e)
        BY <3>2, <3>3, <3>4
      <3> QED BY <3>5 DEF b
    <2>21. CASE ~(first # w.blocker /\ IsTrue(a.c, first)) /\ found = {} /\ IsFalse(a.c, first)
      <3> DEFINE h == Len(v.trail)
                 e == d(h)
      <3>1. b = [a EXCEPT !.c = [c1 EXCEPT !.qhead = Len(c1.trail)], !.keep = Append(keep, nw), !.confl = cr]
        BY <2>11, <2>21 DEF b
      <3>2. b = [c |-> [c1 EXCEPT !.qhead = h], keep |-> Append(keep, nw), confl |-> cr]
        BY <1>1, <2>13, <2>17, <3>1
      <3>3. /\ Good(e, lemmas) /\ Grows(v, e, M) /\ [c1 EXCEPT !.qhead = h] = WithWatches(e, aw)
            /\ e.watches = W /\ SameTrail(v, e) /\ Live(e) = Live(v) /\ Lits(e, cr) = Lits(v, cr)
        <4>1. h \in Nat /\ h <= Len(v.trail)
          BY <2>16
        <4> HIDE DEF h
        <4>2. [c1 EXCEPT !.qhead = h] = WithWatches(e, aw)
          BY <2>18, <4>1
        <4>3. e.watches = W
          BY <1>0 DEF Core, ReDb
        <4> HIDE DEF d
        <4> QED BY <2>3, <2>15, <4>1, <4>2, <4>3
      <3> HIDE DEF d, e
      <3>4. Walks(b, e, p, rest)
        <4>1. [c1 EXCEPT !.qhead = h].watches = aw
          BY <1>0, <2>12, <2>13 DEF Core
        <4> QED BY <2>4, <2>17, <3>2, <3>3, <4>1 DEF Walks, Good
      <3>5. AllFalse(e, cr)
        <4> SUFFICES ASSUME NEW i \in 1..n PROVE IsFalse(v, lits[i])
          BY <2>3, <2>4, <2>5, <2>6, <3>3 DEF AllFalse, SameTrail, IsFalse
        <4>1. CASE i = 1
          BY <1>4, <2>21, <4>1 DEF first
        <4>2. CASE i = 2
          BY <2>5, <4>2, LitFacts DEF IsFalse
        <4>3. CASE i >= 3
          <5>1. i \in 3..Len(lits)
            BY <2>6, <4>3 DEF n
          <5>2. IsFalse(a.c, lits[i])
            BY <2>21, <5>1 DEF found, NewWatch
          <5> QED BY <1>4, <5>2
        <4> QED BY <2>6, <4>1, <4>2, <4>3
      <3>6. Goal(e)
        BY <3>2, <3>3, <3>4, <3>5
      <3> QED BY <3>6 DEF b
    <2>22. CASE ~(first # w.blocker /\ IsTrue(a.c, first)) /\ found = {} /\ ~IsFalse(a.c, first)
      <3> DEFINE e == d(v.qhead)
                 lev == DecisionLevel(e)
                 f == Enqueued(e, first, lev, cr)
      <3>1. b = [a EXCEPT !.c = UncheckedEnqueue(c1, first, cr), !.keep = Append(keep, nw)]
        BY <2>11, <2>22 DEF b
      <3>2. b = [c |-> UncheckedEnqueue(c1, first, cr), keep |-> Append(keep, nw), confl |-> 0]
        BY <1>1, <2>17, <3>1
      <3>3. /\ Good(e, lemmas) /\ Grows(v, e, M) /\ c1 = WithWatches(e, aw) /\ e.watches = W
            /\ SameTrail(v, e) /\ Live(e) = Live(v) /\ Lits(e, cr) = Lits(v, cr) /\ e.ca[cr].lits = lits
        BY <1>0, <2>3, <2>15, <2>16, <2>19 DEF Core, ReDb
      <3> HIDE DEF d, e
      <3>4. e \in Core /\ TrailOK(e) /\ lev \in Nat /\ DecisionLevel(c1) = lev
        <4>1. e \in Core /\ TrailOK(e)
          BY <3>3 DEF Good
        <4>2. c1.trail_lim = e.trail_lim
          BY <2>13, <3>3 DEF SameTrail
        <4> QED BY <4>1, <4>2, CoreFields DEF DecisionLevel
      <3> HIDE DEF lev
      <3>5. UncheckedEnqueue(c1, first, cr) = Enqueued(c1, first, lev, cr)
        BY <3>4 DEF UncheckedEnqueue, Enqueued
      <3>6. UncheckedEnqueue(c1, first, cr) = WithWatches(f, aw) /\ f.watches = W
        <4>1. Enqueued(WithWatches(e, aw), first, lev, cr) = WithWatches(f, aw)
              /\ f.watches = e.watches
          BY ONLY <3>4, EnqueueWatches DEF f
        <4> QED BY <3>3, <3>5, <4>1
      <3>7. /\ first \in Lit /\ e.assigns = v.assigns /\ Lits(e, cr) = Range(lits) /\ cr \in Live(e)
            /\ IsUndef(e, first) /\ \A q \in Range(lits) : q # first => -q \in e.assigns
        <4>1. e.assigns = v.assigns /\ Lits(e, cr) = Range(lits) /\ cr \in Live(e)
          BY <2>3, <2>4, <2>5, <3>3 DEF SameTrail
        <4>2. ~IsTrue(v, first) /\ ~IsFalse(v, first)
          BY <1>4, <1>6, <2>22
        <4>3. ASSUME NEW i \in 1..n, i # 1 PROVE -lits[i] \in v.assigns
          <5>1. CASE i = 2
            BY <2>5, <5>1, LitFacts
          <5>2. CASE i >= 3
            <6>1. i \in 3..Len(lits)
              BY <2>6, <5>2 DEF n
            <6>2. IsFalse(a.c, lits[i])
              BY <2>22, <6>1 DEF found, NewWatch
            <6> QED BY <1>4, <6>2 DEF IsFalse
          <5> QED BY <2>6, <4>3, <5>1, <5>2
        <4>4. \A q \in Range(lits) : q # first => -q \in v.assigns
          BY <2>6, <4>3 DEF first
        <4> QED BY <2>6, <4>1, <4>2, <4>4 DEF IsUndef, IsTrue, IsFalse
      <3>8. CauseFor(e, lemmas, first, lev, cr)
        <4>1. \A q \in e.assigns : LevelOf(e, q) <= lev
          BY <3>4, AssignedFacts DEF lev
        <4> QED BY <2>4, <3>3, <3>7, <4>1 DEF CauseFor, FalseAt, first
      <3>9. lev = 0 => \A m \in M : Agrees(m, e) => first \in m
        <4> SUFFICES ASSUME lev = 0, NEW m \in M, Agrees(m, e) PROVE first \in m
          OBVIOUS
        <4>1. PICK q \in Range(lits) : q \in m
          BY <3>7 DEF Agrees
        <4>2. CASE q # first
          <5>1. -q \in e.assigns
            BY <3>7, <4>2
          <5>2. LevelOf(e, -q) = 0
            BY <3>4, <5>1, AssignedFacts DEF lev
          <5>3. -q \in m /\ q \in Lit
            BY <2>6, <5>1, <5>2 DEF Agrees
          <5> QED BY <4>1, <5>3 DEF Total
        <4> QED BY <4>1, <4>2
      <3>10. /\ Good(f, lemmas) /\ Follows(e, f, M) /\ Extends(e, f) /\ NoDecision(e, f)
             /\ f.assigns = e.assigns \cup {first} /\ SameDb(e, f)
             /\ f.ok = e.ok /\ f.initialPropagate = e.initialPropagate
        <4> HIDE DEF f, first
        <4>1. lev <= DecisionLevel(e) /\ cr \in Int /\ cr # 0
          BY <2>4, <3>4 DEF lev
        <4>2. /\ Good(f, lemmas) /\ Follows(e, f, M) /\ Extends(e, f)
              /\ cr # 0 \/ lev = 0 => NoDecision(e, f)
              /\ f.assigns = e.assigns \cup {first} /\ SameDb(e, f)
              /\ f.ok = e.ok /\ f.initialPropagate = e.initialPropagate
          <5>1. /\ e \in Core /\ Good(e, lemmas) /\ first \in Lit /\ IsUndef(e, first)
                /\ lev \in Nat /\ lev <= DecisionLevel(e) /\ cr \in Int
                /\ CauseFor(e, lemmas, first, lev, cr)
                /\ lev = 0 => \A m \in M : Agrees(m, e) => first \in m
            BY <3>3, <3>4, <3>7, <3>8, <3>9, <4>1
          <5>2. CanEnqueue(e, lemmas, first, lev, cr, M)
            BY <5>1 DEF CanEnqueue
          <5>3. EnqueuedTo(e, lemmas, first, lev, cr, M, f)
            BY ONLY <5>2, EnqueuedStep DEF f
          <5> QED BY <5>3 DEF EnqueuedTo
        <4> QED BY <4>1, <4>2
      <3> HIDE DEF f
      <3>11. Grows(e, f, M)
        BY <3>10 DEF Grows, SameDb
      <3>12. Grows(v, f, M)
        <4>1. f \in Core
          BY <3>10 DEF Good
        <4> QED BY <1>0, <3>3, <3>4, <3>11, <4>1, GrowsTwice
      <3>13. Walks(b, f, p, rest)
        <4>1. f \in Core
          BY <3>10 DEF Good
        <4>2. WithWatches(f, aw).watches = aw
          BY <4>1 DEF Core, WithWatches
        <4>3. b.c = WithWatches(f, aw) /\ b.c.watches = aw /\ b.keep = Append(keep, nw) /\ b.confl = 0
          BY <3>2, <3>6, <4>2
        <4> QED BY <2>17, <3>2, <3>6, <4>1, <4>3 DEF Walks
      <3>14. Goal(f)
        BY <3>2, <3>10, <3>12, <3>13
      <3> QED BY <3>14 DEF b
    <2>23. CASE ~(first # w.blocker /\ IsTrue(a.c, first)) /\ found # {}
      <3> DEFINE x == lits[k]
                 lits2 == Swap(lits, 2, k)
                 aw2 == [aw EXCEPT ![-x] = Append(@, nw)]
                 W2 == [aw2 EXCEPT ![p] = Joined(keep, rest)]
                 ca2 == ReCa(v.ca, cr, lits2)
                 e == ReDb(v, ca2, W2, v.qhead)
      <3>1. /\ k \in 3..n /\ x \in Lit /\ -x \in Lit /\ -(-x) = x /\ -x # p /\ x # lits[1] /\ x # lits[2]
            /\ ~IsFalse(a.c, x)
        <4>1. found \subseteq Nat /\ found \subseteq 3..n
          BY <2>6 DEF found, NewWatch, n
        <4>2. k \in found
          BY <2>23, <4>1, Smallest DEF k
        <4>3. k \in 3..n /\ ~IsFalse(a.c, x)
          BY <4>2 DEF found, NewWatch, n
        <4>4. k \in 1..n /\ 1 \in 1..n /\ 2 \in 1..n /\ k # 1 /\ k # 2
          BY <2>6, <4>3
        <4>5. x \in Lit /\ x # lits[1] /\ x # lits[2]
          BY <2>6, <4>4
        <4>6. -x \in Lit /\ -(-x) = x
          BY <4>5, LitFacts
        <4>7. -x # p
          BY <2>5, <4>5, <4>6
        <4> QED BY <4>3, <4>5, <4>6, <4>7
      <3>2. b = [c |-> [c1 EXCEPT !.ca = ReCa(c1.ca, cr, lits2), !.watches[-x] = Append(@, nw)],
                 keep |-> keep, confl |-> 0]
        <4>1. b = [a EXCEPT !.c = [c1 EXCEPT !.ca[cr].lits = lits2, !.watches[-x] = Append(@, nw)]]
          BY <2>11, <2>23 DEF b
        <4>2. [c1 EXCEPT !.ca[cr].lits = lits2, !.watches[-x] = Append(@, nw)]
                = [c1 EXCEPT !.ca = ReCa(c1.ca, cr, lits2), !.watches[-x] = Append(@, nw)]
          BY DEF ReCa
        <4> HIDE DEF x, lits2
        <4>3. b = [a EXCEPT !.c = [c1 EXCEPT !.ca = ReCa(c1.ca, cr, lits2), !.watches[-x] = Append(@, nw)]]
          BY <4>1, <4>2
        <4>30. keep = a.keep
          BY DEF keep
        <4> DEFINE z == [c1 EXCEPT !.ca = ReCa(c1.ca, cr, lits2), !.watches[-x] = Append(@, nw)]
        <4>4. b = [a EXCEPT !.c = z]
          BY <4>3
        <4> HIDE DEF z
        <4>5. b = [c |-> z, keep |-> keep, confl |-> 0]
          <5>1. b = [[c |-> a.c, keep |-> keep, confl |-> a.confl] EXCEPT !.c = z]
            BY <1>1, <4>4
          <5>2. [[c |-> a.c, keep |-> keep, confl |-> a.confl] EXCEPT !.c = z]
                  = [c |-> z, keep |-> keep, confl |-> a.confl]
            OBVIOUS
          <5> QED BY <2>17, <5>1, <5>2
        <4> QED BY <4>5 DEF z
      <3>3. ReCa(c1.ca, cr, lits2) = ca2
        BY <2>4, <2>13 DEF ReCa, Clause
      <3> HIDE DEF lits2, ca2
      <3>4. /\ lits2 \in Seq(Lit) /\ Len(lits2) = n /\ Range(lits2) = Range(lits) /\ Distinct(lits2)
            /\ lits2[1] = lits[1] /\ lits2[2] = x
        <4>1. 2 \in 1..Len(lits) /\ k \in 1..Len(lits) /\ 1 \in 1..Len(lits) /\ k # 1
          BY <2>6, <3>1 DEF n
        <4> QED BY <2>5, <4>1, SwapFacts DEF lits2, n
      <3> HIDE DEF x
      <3>5. /\ aw[-x] \in Seq(Watcher) /\ Append(aw[-x], nw) \in Seq(Watcher)
            /\ aw2 = [aw EXCEPT ![-x] = Append(aw[-x], nw)]
            /\ aw2 \in [Lit -> Seq(Watcher)] /\ W2 \in [Lit -> Seq(Watcher)]
            /\ W2[p] = Joined(keep, rest) /\ W2[-x] = Append(aw[-x], nw)
            /\ \A q \in Lit : q # p /\ q # -x => W2[q] = aw[q]
        <4>1. aw[-x] \in Seq(Watcher) /\ Append(aw[-x], nw) \in Seq(Watcher)
          BY <2>6, <2>17, <3>1, AppendFacts
        <4> QED BY <1>3, <2>17, <3>1, <4>1
      <3> HIDE DEF aw2, W2
      <3>6. ASSUME NEW q \in Lit PROVE WatchOK(ca2, q, W2[q])
        <4>1. lits2 # <<>>
          BY <2>6, <3>4
        <4>2. CASE q = p
          <5>1. WatchOK(v.ca, p, Joined(keep, rest)) /\ \A i \in 1..Len(Joined(keep, rest)) : Joined(keep, rest)[i].cref # cr
            <6>1. keep \in Seq(Watcher) /\ WatchOK(v.ca, p, Joined(keep, Pushed(w, rest)))
              BY <1>1, <2>1
            <6>2. /\ WatchOK(v.ca, p, Joined(keep, rest))
                  /\ \A i \in 1..Len(Joined(keep, rest)) : Joined(keep, rest)[i].cref # w.cref
              BY ONLY <6>1, w \in Watcher, rest \in Seq(Watcher), JoinedWatches
            <6> QED BY <6>2
          <5>2. \A i \in 1..Len(Joined(keep, rest)) :
                  Joined(keep, rest)[i].cref = cr => -p = lits2[1] \/ -p = lits2[2]
            BY <5>1
          <5>3. WatchOK(ca2, p, Joined(keep, rest))
            BY ONLY <2>4, <4>1, <5>1, <5>2, WatchMoved DEF ca2
          <5> QED BY <3>5, <4>2, <5>3
        <4>3. CASE q = -x
          <5>1. WatchOK(v.ca, q, aw[q])
            BY <1>2, <2>1, <3>1, <4>3
          <5>2. \A i \in 1..Len(aw[q]) : aw[q][i].cref # cr
            BY <2>8, <3>1, <4>3, <5>1
          <5>3. WatchOK(ca2, q, aw[q])
            BY <2>4, <4>1, <5>1, <5>2, WatchMoved DEF ca2
          <5>4. Watches(ca2, q, nw)
            <6>1. DOMAIN ca2 = DOMAIN v.ca /\ ca2[cr].lits = lits2
              BY <2>4, ReCaFacts DEF ca2
            <6> QED BY <2>4, <3>1, <3>4, <4>1, <4>3, <6>1 DEF Watches, nw
          <5>5. \A i \in 1..Len(aw[q]) : aw[q][i].cref # nw.cref
            BY <5>2 DEF nw
          <5>6. aw[q] \in Seq(Watcher) /\ nw \in Watcher
            BY <2>6, <3>5, <4>3
          <5>7. WatchOK(ca2, q, Append(aw[q], nw))
            BY ONLY <5>3, <5>4, <5>5, <5>6, WatchAppend
          <5> QED BY <3>5, <4>3, <5>7
        <4>4. CASE q # p /\ q # -x
          <5>1. WatchOK(v.ca, q, aw[q]) /\ W2[q] = aw[q]
            BY <1>2, <2>1, <3>5, <4>4
          <5>2. -q # lits[2]
            BY <2>5, <4>4, LitFacts
          <5>3. \A i \in 1..Len(aw[q]) : aw[q][i].cref = cr => -q = lits2[1] \/ -q = lits2[2]
            BY <2>8, <3>4, <5>1, <5>2
          <5> QED BY <2>4, <4>1, <5>1, <5>3, WatchMoved DEF ca2
        <4> QED BY <4>2, <4>3, <4>4
      <3>7. e = ReDb(v, ReCa(v.ca, cr, lits2), W2, v.qhead)
        BY DEF ca2
      <3>8. b.c = WithWatches(e, aw2) /\ b.c.watches = aw2 /\ e.watches = W2
        <4>1. b.c = [c1 EXCEPT !.ca = ca2, !.watches[-x] = Append(@, nw)]
          BY <3>2, <3>3
        <4>2. b.c = [c1 EXCEPT !.ca = ca2, !.watches = aw2]
          BY <1>0, <2>12, <2>13, <3>5, <4>1 DEF Core
        <4> QED BY <1>0, <2>12, <4>2 DEF Core, ReDb, WithWatches
      <3> HIDE DEF e
      <3>9. /\ Good(e, lemmas) /\ NoDecision(v, e) /\ Extends(v, e)
            /\ SameTrail(v, e) /\ e.delayed = v.delayed /\ e.ok = v.ok
            /\ e.initialPropagate = v.initialPropagate
            /\ \A X : Follows(v, e, X)
        <4>1. Len(lits2) = Len(v.ca[cr].lits) /\ Range(lits2) = Lits(v, cr)
          BY <2>0, <2>4, <2>5, <3>4 DEF n
        <4>2. v.ca[cr].lits[1] \in v.assigns => lits2[1] = v.ca[cr].lits[1]
          BY <2>0, <2>7, <3>4
        <4>3. \A q \in Lit : WatchOK(ReCa(v.ca, cr, lits2), q, W2[q])
          BY <3>6 DEF ca2
        <4>4. CanReorder(v, lemmas, cr, lits2, W2, v.qhead)
          BY <1>0, <2>3, <2>16, <3>4, <3>5, <4>1, <4>2, <4>3 DEF CanReorder
        <4>5. ReorderedTo(v, lemmas, cr, lits2, W2, e)
          BY ONLY <3>7, <4>4, Reordered
        <4> QED BY <4>5 DEF ReorderedTo
      <3>10. Grows(v, e, M)
        BY <3>9 DEF Grows, SameTrail
      <3>11. Walks(b, e, p, rest)
        BY <1>1, <3>2, <3>5, <3>8, <3>9 DEF Walks, Good, W2
      <3>12. Goal(e)
        BY <3>2, <3>9, <3>10, <3>11
      <3> QED BY <3>12 DEF b
    <2> QED BY <2>20, <2>21, <2>22, <2>23
  <1> QED BY <1>5, <1>6

-----------------------------------------------------------------------------
\* The watchers still to be visited.
From(s, i) == SubSeq(s, i + 1, Len(s))

IsPushed(T, x, s, r) ==
    /\ r \in Seq(T) /\ Len(r) = 1 + Len(s) /\ r[1] = x
    /\ \A j \in 1..Len(s) : r[1 + j] = s[j]
LEMMA PushedFacts ==
    ASSUME NEW T, NEW x \in T, NEW s \in Seq(T)
    PROVE  IsPushed(T, x, s, Pushed(x, s))
  BY DEF Pushed, IsPushed

LEMMA FromFacts ==
    ASSUME NEW T, NEW s \in Seq(T)
    PROVE  /\ From(s, 0) = s /\ From(s, Len(s)) = <<>>
           /\ \A i \in 0..Len(s) : From(s, i) \in Seq(T)
           /\ \A i \in 1..Len(s) : From(s, i - 1) = Pushed(s[i], From(s, i))
  <1>1. Len(s) \in Nat
    OBVIOUS
  <1>2. From(s, 0) = s /\ From(s, Len(s)) = <<>>
    BY <1>1 DEF From
  <1>3. ASSUME NEW i \in 0..Len(s) PROVE From(s, i) \in Seq(T)
    BY <1>1, SubFacts DEF From
  <1>4. ASSUME NEW i \in 1..Len(s) PROVE From(s, i - 1) = Pushed(s[i], From(s, i))
    <2> DEFINE a == From(s, i - 1)
               b == From(s, i)
               r == Pushed(s[i], b)
               n == Len(s)
    <2>1. /\ a \in Seq(T) /\ Len(a) = (n - i) + 1 /\ \A j \in 1..((n - i) + 1) : a[j] = s[(i - 1) + j]
      BY <1>1, SubFacts, i - 1 \in Nat, i - 1 <= n, n - (i - 1) = (n - i) + 1 DEF From
    <2>2. b \in Seq(T) /\ Len(b) = n - i /\ \A j \in 1..(n - i) : b[j] = s[i + j]
      BY <1>1, SubFacts, i \in Nat, i <= n DEF From
    <2>3. s[i] \in T /\ n \in Nat
      BY <1>1
    <2> HIDE DEF a, b, n
    <2>4. r \in Seq(T) /\ Len(r) = 1 + Len(b) /\ r[1] = s[i] /\ \A j \in 1..Len(b) : r[1 + j] = b[j]
      <3>1. b \in Seq(T)
        BY <2>2
      <3>2. IsPushed(T, s[i], b, r)
        BY ONLY <3>1, <2>3, PushedFacts
      <3> HIDE DEF r
      <3> QED BY <3>2 DEF IsPushed
    <2>5. ASSUME NEW j \in 1..((n - i) + 1) PROVE r[j] = a[j]
      <3>1. CASE j = 1
        BY <2>1, <2>4, <3>1
      <3>2. CASE j # 1
        <4>1. j - 1 \in 1..(n - i) /\ j = 1 + (j - 1) /\ i + (j - 1) = (i - 1) + j
          BY <2>3, <3>2
        <4>2. r[1 + (j - 1)] = b[j - 1]
          BY <2>2, <2>4, <4>1
        <4>3. b[j - 1] = s[i + (j - 1)]
          BY <2>2, <4>1
        <4> QED BY <2>1, <4>1, <4>2, <4>3
      <3> QED BY <3>1, <3>2
    <2> HIDE DEF r
    <2>6. a = r
      BY <2>1, <2>2, <2>3, <2>4, <2>5
    <2> QED BY <2>6 DEF a, b, r
  <1> QED BY <1>2, <1>3, <1>4

CanPropagate(c, lemmas, M) ==
    c \in Core /\ Good(c, lemmas) /\ c.qhead < Len(c.trail) /\ M \subseteq Total
PropagatedTo(c, lemmas, M, r) ==
    /\ r.c \in Core /\ Good(r.c, lemmas) /\ Grows(c, r.c, M)
    /\ r.confl \in Nat
    /\ r.confl # 0 => AllFalse(r.c, r.confl)

\* Where the loop of propagate is after some watchers of p.
AtWatcher(c, lemmas, M, p, a, rest) ==
    \E v : Walked(a, v, lemmas, p, rest) /\ Grows(c, v, M)

LEMMA WatcherStep ==
    ASSUME NEW c \in Core, TrailOK(c), NEW lemmas, NEW M, M \subseteq Total, NEW p \in Lit, NEW a,
           NEW w \in Watcher, NEW rest \in Seq(Watcher),
           AtWatcher(c, lemmas, M, p, a, Pushed(w, rest))
    PROVE  AtWatcher(c, lemmas, M, p, VisitWatcher(p, a, w), rest)
  <1>1. PICK v : Walked(a, v, lemmas, p, Pushed(w, rest)) /\ Grows(c, v, M)
    BY DEF AtWatcher
  <1>2. WatcherDone(v, lemmas, M, p, VisitWatcher(p, a, w), rest)
    BY <1>1, WatcherGood
  <1>3. PICK d : Walked(VisitWatcher(p, a, w), d, lemmas, p, rest) /\ Grows(v, d, M)
    BY <1>2 DEF WatcherDone
  <1>4. v \in Core /\ TrailOK(v) /\ d \in Core
    BY <1>1, <1>3 DEF Good, Walked
  <1>5. Grows(c, d, M)
    BY <1>1, <1>3, <1>4, GrowsTwice
  <1> QED BY <1>3, <1>5 DEF AtWatcher

LEMMA PropagateLitGood ==
    ASSUME NEW c, NEW lemmas, NEW M, CanPropagate(c, lemmas, M)
    PROVE  PropagatedTo(c, lemmas, M, PropagateLit(c))
  <1>0. c \in Core /\ Good(c, lemmas) /\ c.qhead < Len(c.trail) /\ M \subseteq Total /\ TrailOK(c) /\ DbOK(c)
    BY DEF CanPropagate, Good
  <1> DEFINE p == c.trail[c.qhead + 1]
             ws == c.watches[p]
             v0 == [c EXCEPT !.qhead = @ + 1]
             a0 == [c |-> v0, keep |-> <<>>, confl |-> CRef_Undef]
             end == WatcherAll(p, a0, ws)
             n == Len(ws)
  <1>1. /\ p \in Lit /\ p \in c.assigns /\ ws \in Seq(Watcher) /\ n \in Nat
    <2>1. c.qhead + 1 \in 1..Len(c.trail) /\ Len(c.trail) \in Nat
      BY <1>0, CoreFields
    <2>2. p \in Lit /\ p \in c.assigns
      BY <1>0, <2>1, AssignedFacts
    <2>3. c.watches \in [Lit -> Seq(Watcher)]
      BY <1>0, CoreFields DEF Watcher
    <2> QED BY <2>2, <2>3
  <1>2. PropagateLit(c) = [c |-> [end.c EXCEPT !.watches[p] = end.keep], confl |-> end.confl]
    BY DEF PropagateLit, WatcherAll
  <1> HIDE DEF p, ws, end
  <1>3. v0 \in Core /\ Good(v0, lemmas) /\ Grows(c, v0, M) /\ v0.watches = c.watches
    <2>1. /\ v0 \in Core /\ SameTrail(c, v0) /\ v0.reason = c.reason /\ v0.qhead = c.qhead + 1
          /\ v0.told = c.told /\ v0.theory_level = c.theory_level /\ SameDb(c, v0)
          /\ v0.ok = c.ok /\ v0.initialPropagate = c.initialPropagate
      <3> DEFINE k == c.qhead + 1
      <3>1. k \in Nat
        BY <1>0, CoreFields
      <3> HIDE DEF k
      <3>2. v0 = [c EXCEPT !.qhead = k]
        BY DEF k
      <3>3. v0.qhead = k
        BY <1>0, <3>2 DEF Core
      <3>4. v0 \in Core
        BY <1>0, <3>1, <3>2 DEF Core
      <3> QED BY <1>0, <3>2, <3>3, <3>4 DEF Core, SameTrail, SameDb, k
    <2> HIDE DEF v0
    <2>2. v0.qhead <= Len(v0.trail)
      BY <1>0, <2>1, CoreFields DEF SameTrail
    <2>3. DbOK(v0)
      BY <1>0, <2>1, DbFrame
    <2>4. KeepsReasons(c, v0)
      BY <2>1 DEF KeepsReasons, SameDb, Live, Lits
    <2>5. Good(v0, lemmas) /\ NoDecision(c, v0) /\ Extends(c, v0)
      BY <1>0, <2>1, <2>2, <2>3, <2>4, DbChangeGood
    <2>6. Live(v0) = Live(c) /\ \A cr \in Live(c) : Lits(v0, cr) = Lits(c, cr)
      BY <2>1 DEF SameDb, Live, Lits
    <2>7. Follows(c, v0, M)
      BY <2>1, <2>6, SameClauses DEF SameDb
    <2> QED BY <2>1, <2>5, <2>7 DEF Grows, SameDb, SameTrail
  <1> HIDE DEF v0
  <1>4. a0.c = v0 /\ a0.keep = <<>> /\ a0.confl = 0
    BY DEF CRef_Undef
  <1>5. AtWatcher(c, lemmas, M, p, a0, ws)
    <2>1. Joined(<<>>, ws) = ws
      BY <1>1 DEF Joined
    <2>2. c.watches \in [Lit -> Seq(Watcher)] /\ c.watches[p] = ws
      BY <1>0, CoreFields DEF Watcher, ws
    <2>3. c.watches = [c.watches EXCEPT ![p] = ws]
      BY <2>2
    <2>4. v0 = WithWatches(v0, v0.watches)
      BY <1>3 DEF WithWatches, Core
    <2>5. a0 = [c |-> a0.c, keep |-> a0.keep, confl |-> a0.confl]
      BY <1>4
    <2> HIDE DEF a0
    <2>6. Walks(a0, v0, p, ws)
      BY <1>3, <1>4, <2>1, <2>2, <2>3, <2>4, <2>5 DEF Walks
    <2>7. p \in v0.assigns
      BY <1>1, <1>3 DEF Grows
    <2> QED BY <1>3, <1>4, <2>6, <2>7 DEF AtWatcher, Walked
  <1> HIDE DEF a0
  <1>6. PICK f : /\ f[0] = a0 /\ end = f[n] /\ \A i \in 1..n : f[i] = VisitWatcher(p, f[i - 1], ws[i])
    BY <1>1, WatcherTurns DEF end
  <1> HIDE DEF n
  <1> DEFINE S == {i \in 0..n : AtWatcher(c, lemmas, M, p, f[i], From(ws, i))}
  <1>7. 0 \in S
    BY <1>1, <1>5, <1>6, FromFacts
  <1>8. ASSUME NEW i \in 1..n, i - 1 \in S PROVE i \in S
    <2>1. i \in 0..n /\ i - 1 \in 0..n
      BY <1>1
    <2>2. ws[i] \in Watcher /\ From(ws, i) \in Seq(Watcher) /\ From(ws, i - 1) = Pushed(ws[i], From(ws, i))
      BY <1>1, <2>1, FromFacts DEF n
    <2>3. AtWatcher(c, lemmas, M, p, f[i - 1], Pushed(ws[i], From(ws, i)))
      BY <1>8, <2>2
    <2>4. AtWatcher(c, lemmas, M, p, VisitWatcher(p, f[i - 1], ws[i]), From(ws, i))
      BY <1>0, <1>1, <2>2, <2>3, WatcherStep
    <2>5. f[i] = VisitWatcher(p, f[i - 1], ws[i])
      BY <1>6
    <2> QED BY <2>1, <2>4, <2>5
  <1> HIDE DEF S
  <1>9. \A i \in 0..n : i \in S
    BY <1>1, <1>7, <1>8, UpTo
  <1>10. AtWatcher(c, lemmas, M, p, end, <<>>)
    <2>1. n \in S
      BY <1>1, <1>9
    <2> QED BY <1>1, <1>6, <2>1, FromFacts DEF S, n
  <1>11. PICK v : /\ Walks(end, v, p, <<>>) /\ Good(v, lemmas) /\ Grows(c, v, M)
                  /\ end.confl # 0 => AllFalse(v, end.confl)
    BY <1>10 DEF AtWatcher, Walked
  <1>12. [end.c EXCEPT !.watches[p] = end.keep] = v /\ end.confl \in Nat /\ v \in Core
    <2>1. /\ v \in Core /\ end.c = WithWatches(v, end.c.watches) /\ end.confl \in Nat
          /\ v.watches = [end.c.watches EXCEPT ![p] = Joined(end.keep, <<>>)] /\ end.keep \in Seq(Watcher)
      BY <1>11 DEF Walks
    <2>2. Joined(end.keep, <<>>) = end.keep
      BY <2>1 DEF Joined
    <2> DEFINE aw == end.c.watches
    <2>3. end.c = WithWatches(v, aw) /\ v.watches = [aw EXCEPT ![p] = end.keep]
      BY <2>1, <2>2
    <2> HIDE DEF aw
    <2>4. [end.c EXCEPT !.watches[p] = end.keep] = [WithWatches(v, aw) EXCEPT !.watches[p] = end.keep]
      BY <2>3
    <2>5. [WithWatches(v, aw) EXCEPT !.watches[p] = end.keep] = v
      BY <2>1, <2>3 DEF WithWatches, Core
    <2> QED BY <2>1, <2>4, <2>5
  <1> DEFINE r == PropagateLit(c)
  <1>13. r = [c |-> v, confl |-> end.confl]
    BY <1>2, <1>12
  <1>14. r.c = v /\ r.confl = end.confl
    BY <1>13
  <1> QED BY <1>11, <1>12, <1>14 DEF PropagatedTo

-----------------------------------------------------------------------------
UnitStep(r) ==
    IF r.confl # CRef_Undef \/ r.c.qhead >= Len(r.c.trail) THEN r ELSE PropagateLit(r.c)
UnitAll(r, s) == Fold(LAMBDA x, i : UnitStep(x), r, s)

LEMMA UnitTurns ==
    ASSUME NEW T, NEW s \in Seq(T), NEW r
    PROVE  \E f : /\ f[0] = r /\ UnitAll(r, s) = f[Len(s)]
                  /\ \A i \in 1..Len(s) : f[i] = UnitStep(f[i - 1])
  <1> DEFINE B(f) == f = [i \in 0..Len(s) |-> IF i = 0 THEN r ELSE UnitStep(f[i - 1])]
             k == CHOOSE f : B(f)
  <1>1. Len(s) \in Nat
    OBVIOUS
  <1>2. PICK f : Turns(f, "unit", 0, r, s, Len(s))
    BY <1>1, TurnsExist
  <1>3. B(f)
    BY <1>2 DEF Turns, Turn, UnitStep
  <1>4. B(k)
    BY <1>3
  <1>5. UnitAll(r, s) = k[Len(s)]
    BY DEF Fold, UnitAll, UnitStep
  <1> HIDE DEF k
  <1>6. k[0] = r
    BY <1>1, <1>4, 0 \in 0..Len(s)
  <1>7. ASSUME NEW i \in 1..Len(s) PROVE k[i] = UnitStep(k[i - 1])
    BY <1>1, <1>4, i \in 0..Len(s), i # 0
  <1> QED BY <1>5, <1>6, <1>7

\* propagate(false).
LEMMA PropagateUnitsGood ==
    ASSUME NEW c, NEW lemmas, NEW M, c \in Core, Good(c, lemmas), M \subseteq Total
    PROVE  PropagatedTo(c, lemmas, M, PropagateUnits(c))
  <1> DEFINE s == [i \in 1..NVars |-> i]
             r == [c |-> c, confl |-> CRef_Undef]
             end == UnitAll(r, s)
             n == Len(s)
  <1>0. TrailOK(c)
    BY DEF Good
  <1>1. s \in Seq(Int) /\ n = NVars /\ NVars \in Nat
    BY TrailAssumption
  <1>2. PropagateUnits(c) = end
    BY DEF PropagateUnits, UnitAll, UnitStep
  <1>3. PropagatedTo(c, lemmas, M, r)
    <2>1. r.c = c /\ r.confl = 0
      BY DEF CRef_Undef
    <2> HIDE DEF r
    <2> QED BY <2>1, GrowsSelf DEF PropagatedTo
  <1> HIDE DEF s, r
  <1>4. PICK f : f[0] = r /\ end = f[n] /\ \A i \in 1..n : f[i] = UnitStep(f[i - 1])
    BY <1>1, UnitTurns
  <1> HIDE DEF end, n
  <1> DEFINE S == {i \in 0..n : PropagatedTo(c, lemmas, M, f[i])}
  <1>5. 0 \in S
    BY <1>1, <1>3, <1>4
  <1>6. ASSUME NEW i \in 1..n, i - 1 \in S PROVE i \in S
    <2> DEFINE x == f[i - 1]
    <2>1. PropagatedTo(c, lemmas, M, x) /\ f[i] = UnitStep(x) /\ i \in 0..n
      BY <1>1, <1>4, <1>6
    <2> HIDE DEF x
    <2>2. PropagatedTo(c, lemmas, M, UnitStep(x))
      <3>1. CASE x.confl # CRef_Undef \/ x.c.qhead >= Len(x.c.trail)
        BY <2>1, <3>1 DEF UnitStep
      <3>2. CASE ~(x.confl # CRef_Undef \/ x.c.qhead >= Len(x.c.trail))
        <4> DEFINE b == x.c
                   d == PropagateLit(b)
        <4>1. UnitStep(x) = d
          BY <3>2 DEF UnitStep
        <4>2. b \in Core /\ Good(b, lemmas) /\ Grows(c, b, M) /\ ~(b.qhead >= Len(b.trail))
          BY <2>1, <3>2 DEF PropagatedTo
        <4> HIDE DEF b
        <4>3. b.qhead < Len(b.trail) /\ TrailOK(b)
          BY <4>2, CoreFields DEF Good
        <4>4. CanPropagate(b, lemmas, M)
          BY <4>2, <4>3 DEF CanPropagate
        <4>5. PropagatedTo(b, lemmas, M, d)
          BY <4>4, PropagateLitGood
        <4> HIDE DEF d
        <4>6. d.c \in Core /\ Grows(b, d.c, M)
          BY <4>5 DEF PropagatedTo
        <4>7. Grows(c, d.c, M)
          BY <1>0, <4>2, <4>3, <4>6, GrowsTwice
        <4>8. PropagatedTo(c, lemmas, M, d)
          BY <4>5, <4>7 DEF PropagatedTo
        <4> QED BY <4>1, <4>8
      <3> QED BY <3>1, <3>2
    <2> QED BY <2>1, <2>2
  <1> HIDE DEF S
  <1>7. \A i \in 0..n : i \in S
    BY <1>1, <1>5, <1>6, UpTo
  <1>8. n \in S
    BY <1>1, <1>7
  <1> QED BY <1>2, <1>4, <1>8 DEF S

-----------------------------------------------------------------------------
(***************************************************************************)
(* Adding clauses.                                                         *)
(***************************************************************************)
Steps(c, d, lemmas, M) == d \in Core /\ Good(d, lemmas) /\ Follows(c, d, M) /\ NoDecision(c, d)

LEMMA StepsTwice ==
    ASSUME NEW b, NEW c, NEW d, NEW lemmas, NEW M, Steps(b, c, lemmas, M), Steps(c, d, lemmas, M)
    PROVE  Steps(b, d, lemmas, M)
  <1>1. NoDecision(b, d)
    BY DEF Steps, NoDecision
  <1>2. Follows(b, d, M)
    BY DEF Steps, Follows
  <1> QED BY <1>1, <1>2 DEF Steps

LEMMA StepsSelf ==
    ASSUME NEW c, NEW lemmas, NEW M, c \in Core, Good(c, lemmas)
    PROVE  Steps(c, c, lemmas, M)
  BY DEF Steps, Follows, NoDecision

\* What the theory was told of stays so, of level 0 and of all levels.
RootSize(c) == IF c.trail_lim = <<>> THEN Len(c.trail) ELSE c.trail_lim[1]
Covers(c, d) ==
    /\ Covered(c, RootSize(c)) => Covered(d, RootSize(d))
    /\ Covered(c, Len(c.trail)) => Covered(d, Len(d.trail))

LEMMA CoversTwice ==
    ASSUME NEW b, NEW c, NEW d, Covers(b, c), Covers(c, d) PROVE Covers(b, d)
  BY DEF Covers

LEMMA RootFacts ==
    ASSUME NEW c \in Core, TrailOK(c)
    PROVE  RootSize(c) \in 0..Len(c.trail) /\ (DecisionLevel(c) = 0 <=> c.trail_lim = <<>>)
  <1>1. c.trail_lim \in Seq(Nat) /\ Len(c.trail) \in Nat /\ DecisionLevel(c) \in Nat
    BY CoreFields
  <1>2. DecisionLevel(c) = 0 <=> c.trail_lim = <<>>
    BY <1>1 DEF DecisionLevel
  <1>3. CASE c.trail_lim = <<>>
    BY <1>1, <1>2, <1>3 DEF RootSize
  <1>4. CASE c.trail_lim # <<>>
    <2>1. 1 \in 1..DecisionLevel(c)
      BY <1>1, <1>2, <1>4
    <2>2. c.trail_lim[1] \in Nat /\ c.trail_lim[1] <= Len(c.trail)
      BY <2>1, CoreFields DEF TrailOK, LimitsOK
    <2> QED BY <1>1, <1>2, <1>4, <2>2 DEF RootSize
  <1> QED BY <1>3, <1>4

LEMMA ExtendsCovers ==
    ASSUME NEW c \in Core, NEW d \in Core, TrailOK(c), Extends(c, d) PROVE Covers(c, d)
  <1>1. /\ Covered(c, Len(c.trail)) => Covered(d, Len(d.trail))
        /\ \A k \in 0..Len(c.trail) : Covered(c, k) => Covered(d, k)
    BY ExtendsCovered
  <1>2. d.trail_lim = c.trail_lim
    BY DEF Extends
  <1>3. RootSize(c) \in 0..Len(c.trail)
    BY RootFacts
  <1>4. CASE c.trail_lim = <<>>
    BY <1>1, <1>2, <1>4 DEF Covers, RootSize
  <1>5. CASE c.trail_lim # <<>>
    <2>1. RootSize(d) = RootSize(c)
      BY <1>2, <1>5 DEF RootSize
    <2> QED BY <1>1, <1>3, <2>1 DEF Covers
  <1> QED BY <1>4, <1>5

LEMMA SameTrailCovers ==
    ASSUME NEW c, NEW d, d.trail = c.trail, d.trail_lim = c.trail_lim, Held(d) = Held(c)
    PROVE  Covers(c, d)
  BY DEF Covers, Covered, RootSize

\* cancelUntil, at any level.
Cancelled(c, d, lev, lemmas) ==
    /\ d \in Core /\ Good(d, lemmas) /\ (\A M : Steps(c, d, lemmas, M)) /\ Covers(c, d)
    /\ DecisionLevel(d) = lev
    /\ d.assigns = {p \in c.assigns : LevelOf(c, p) <= lev}
    /\ d.level = c.level /\ d.reason = c.reason /\ SameDb(c, d) /\ d.ok = c.ok
    /\ d.initialPropagate = c.initialPropagate
    /\ Covered(c, IF lev < DecisionLevel(c) THEN c.trail_lim[lev + 1] ELSE Len(c.trail))
         => Covered(d, Len(d.trail))

LEMMA CancelStep ==
    ASSUME NEW c, NEW lemmas, NEW lev, c \in Core, Good(c, lemmas), lev \in Nat, lev <= DecisionLevel(c)
    PROVE  Cancelled(c, CancelUntil(c, lev), lev, lemmas)
  <1> DEFINE d == CancelUntil(c, lev)
  <1>0. TrailOK(c) /\ DecisionLevel(c) \in Nat /\ Len(c.trail) \in Nat
    BY CoreFields DEF Good
  <1>1. CASE lev = DecisionLevel(c)
    <2>1. d = c
      BY <1>0, <1>1, CancelNone
    <2> HIDE DEF d
    <2>2. c.assigns = {p \in c.assigns : LevelOf(c, p) <= lev}
      BY <1>0, <1>1, AssignedFacts
    <2>3. (\A M : Steps(c, c, lemmas, M)) /\ Covers(c, c) /\ SameDb(c, c)
      BY StepsSelf DEF Covers, SameDb
    <2>4. ~(lev < DecisionLevel(c))
      BY <1>0, <1>1
    <2> QED BY <1>1, <2>1, <2>2, <2>3, <2>4 DEF Cancelled, d
  <1>2. CASE lev < DecisionLevel(c)
    <2>1. /\ Good(d, lemmas) /\ (\A M : Follows(c, d, M)) /\ NoDecision(c, d)
          /\ DecisionLevel(d) = lev
          /\ d.assigns = {p \in c.assigns : LevelOf(c, p) <= lev}
          /\ d.level = c.level /\ d.reason = c.reason /\ SameDb(c, d) /\ d.ok = c.ok
          /\ d.initialPropagate = c.initialPropagate
          /\ \A l \in 1..lev : d.trail_lim[l] = c.trail_lim[l]
          /\ d.qhead = c.trail_lim[lev + 1]
          /\ \A k \in 0..c.trail_lim[lev + 1] : Covered(c, k) => Covered(d, k)
          /\ Covered(c, c.trail_lim[lev + 1]) => Covered(d, Len(d.trail))
      BY <1>2, CancelGood
    <2> HIDE DEF d
    <2>2. d \in Core /\ TrailOK(d)
      BY <2>1 DEF Good
    <2>3. \A M : Steps(c, d, lemmas, M)
      BY <2>1, <2>2 DEF Steps
    <2>4. c.trail_lim[lev + 1] \in 0..Len(c.trail)
      BY <1>0, <1>2, CutFacts
    <2>5. Covered(c, Len(c.trail)) => Covered(d, Len(d.trail))
      BY <1>0, <2>1, <2>4 DEF Covered
    <2>6. Covered(c, RootSize(c)) => Covered(d, RootSize(d))
      <3>0. c.trail_lim # <<>>
        BY <1>0, <1>2, RootFacts
      <3>1. CASE lev = 0
        <4>1. RootSize(c) = c.trail_lim[lev + 1] /\ RootSize(d) = Len(d.trail)
          BY <2>1, <2>2, <3>0, <3>1, RootFacts DEF RootSize
        <4> QED BY <2>1, <4>1
      <3>2. CASE lev # 0
        <4>1. d.trail_lim # <<>> /\ 1 \in 1..lev /\ 1 <= lev + 1
          BY <2>1, <2>2, <3>2, RootFacts
        <4>2. RootSize(c) = c.trail_lim[1] /\ RootSize(d) = c.trail_lim[1]
          BY <2>1, <3>0, <4>1 DEF RootSize
        <4>3. c.trail_lim[1] \in Nat /\ c.trail_lim[1] <= c.trail_lim[lev + 1]
          BY <1>0, <1>2, <4>1, CutFacts
        <4>4. c.trail_lim[1] \in 0..c.trail_lim[lev + 1]
          BY <2>4, <4>3
        <4> QED BY <2>1, <4>2, <4>4
      <3> QED BY <3>1, <3>2
    <2> QED BY <1>2, <2>1, <2>2, <2>3, <2>5, <2>6 DEF Cancelled, Covers, d
  <1> QED BY <1>0, <1>1, <1>2

-----------------------------------------------------------------------------
\* A clause the environment gives, for every assignment that counts.
Given(c, ps, M) ==
    /\ ps \in Seq(Lit) /\ Distinct(ps) /\ M \subseteq Total
    /\ \A m \in M : Agrees(m, c) => m \cap Range(ps) # {}
\* q is ps without what is false at level 0.
Reduced(c, ps, M, q) ==
    /\ Given(c, q, M) /\ Range(q) \subseteq Range(ps)
    /\ \A p \in Range(q) : ~FalseAtRoot(c, p)
    /\ ps # <<>> /\ ~FalseAtRoot(c, ps[1]) => q # <<>> /\ q[1] = ps[1]

LEMMA ReducedGood ==
    ASSUME NEW c, NEW ps, NEW M, c \in Core, Given(c, ps, M)
    PROVE  Reduced(c, ps, M, WithoutRoot(c, ps))
  <1> DEFINE S == {p \in Range(ps) : ~FalseAtRoot(c, p)}
             q == WithoutRoot(c, ps)
  <1>1. q = Keep(ps, S)
    BY DEF WithoutRoot
  <1>2. ps \in Seq(Lit) /\ Distinct(ps) /\ M \subseteq Total
    BY DEF Given
  <1>3. /\ q \in Seq(Lit) /\ Len(q) \in Nat /\ Range(q) = Range(ps) \cap S
        /\ Distinct(q)
        /\ ps # <<>> /\ ps[1] \in S => Len(q) >= 1 /\ q[1] = ps[1]
    BY <1>1, <1>2, KeepFacts
  <1> HIDE DEF q
  <1>4. ASSUME NEW m \in M, Agrees(m, c) PROVE m \cap Range(q) # {}
    <2>1. PICK p \in Range(ps) : p \in m
      BY <1>4 DEF Given
    <2>2. p \in Lit
      BY <1>2, <2>1, RangeFacts
    <2>3. ~FalseAtRoot(c, p)
      <3> SUFFICES ASSUME FalseAtRoot(c, p) PROVE FALSE
        OBVIOUS
      <3>1. -p \in c.assigns /\ LevelOf(c, -p) = 0
        BY <2>2, CoreFields DEF FalseAtRoot, IsFalse
      <3>2. -p \in m
        BY <1>4, <3>1 DEF Agrees
      <3> QED BY <1>2, <2>1, <2>2, <3>2 DEF Total
    <2>4. p \in Range(q)
      BY <1>3, <2>1, <2>3
    <2> QED BY <2>1, <2>4
  <1>5. ps # <<>> => ps[1] \in Range(ps)
    BY <1>2, RangeFacts
  <1>6. ps # <<>> /\ ~FalseAtRoot(c, ps[1]) => q # <<>> /\ q[1] = ps[1]
    BY <1>3, <1>5
  <1> QED BY <1>2, <1>3, <1>4, <1>6 DEF Reduced, Given, q

\* One literal is left of a clause: it is true in every assignment that counts.
LEMMA UnitHolds ==
    ASSUME NEW c, NEW ps, NEW M, Given(c, ps, M), Len(ps) = 1
    PROVE  ps[1] \in Lit /\ Range(ps) = {ps[1]} /\ \A m \in M : Agrees(m, c) => ps[1] \in m
  <1>1. ps \in Seq(Lit)
    BY DEF Given
  <1>2. ps[1] \in Lit /\ Range(ps) = {ps[1]}
    BY <1>1, RangeFacts
  <1> QED BY <1>2 DEF Given

LEMMA EmptyHolds ==
    ASSUME NEW c, NEW ps, NEW M, Given(c, ps, M), Len(ps) = 0
    PROVE  \A m \in M : ~Agrees(m, c)
  <1>1. ps \in Seq(Lit) /\ \A x \in Range(ps) : FALSE
    <2>1. ps \in Seq(Lit) /\ ~(\E i \in 1..Len(ps) : TRUE)
      BY DEF Given
    <2> QED BY <2>1, RangeFacts
  <1> QED BY <1>1 DEF Given

\* At level 0 everything has level 0.
LEMMA RootLevel ==
    ASSUME NEW c \in Core, TrailOK(c), DecisionLevel(c) = 0
    PROVE  \A p \in c.assigns : LevelOf(c, p) = 0
  BY AssignedFacts

\* The literals of s in another order.
Shuffled(s, t) ==
    t \in Seq(Lit) /\ Len(t) = Len(s) /\ Range(t) = Range(s) /\ Distinct(t)

LEMMA SwapShuffles ==
    ASSUME NEW s, NEW i, NEW j, s \in Seq(Lit), Distinct(s), i \in 1..Len(s), j \in 1..Len(s)
    PROVE  Shuffled(s, Swap(s, i, j)) /\ Swap(s, i, j)[i] = s[j]
  <1> DEFINE t == Swap(s, i, j)
  <1>1. /\ t \in Seq(Lit) /\ Len(t) = Len(s) /\ t[i] = s[j]
        /\ Range(t) = Range(s) /\ Distinct(t)
    BY SwapFacts
  <1> QED BY <1>1 DEF Shuffled

LEMMA ShuffledTwice ==
    ASSUME NEW s, NEW t, NEW r, Shuffled(s, t), Shuffled(t, r) PROVE Shuffled(s, r)
  BY DEF Shuffled

LEMMA WatchedGood ==
    ASSUME NEW c, NEW ps, ps \in Seq(Lit), Distinct(ps), Len(ps) >= 2
    PROVE  /\ Shuffled(ps, Watched(c, ps))
           /\ Cardinality(NotFalse(c, ps)) = 1 =>
                NotFalse(c, ps) # {} /\ \A i \in NotFalse(c, ps) : Watched(c, ps)[1] = ps[i]
  <1> DEFINE nf == NotFalse(c, ps)
             n1 == CHOOSE i \in nf : \A j \in nf : i <= j
             n2 == CHOOSE i \in nf \ {n1} : \A j \in nf \ {n1} : i <= j
             n == Len(ps)
             w == Watched(c, ps)
  <1>1. n \in Nat /\ n >= 2 /\ DOMAIN ps = 1..n /\ 1 \in 1..n /\ 2 \in 1..n
    OBVIOUS
  <1>2. nf \subseteq 1..n /\ nf \subseteq Nat
    BY <1>1 DEF NotFalse
  <1>3. w = CASE nf = {} -> ps
              [] Cardinality(nf) = 1 -> Swap(ps, 1, n1)
              [] OTHER -> IF n1 = 2 THEN Swap(ps, 1, n2) ELSE Swap(Swap(ps, 1, n1), 2, n2)
    BY DEF Watched
  <1> HIDE DEF nf, w, n2
  <1>4. CASE nf = {}
    <2>1. Cardinality(nf) # 1
      BY <1>4, FS_EmptySet
    <2>2. w = ps
      BY <1>3, <1>4, <2>1
    <2>3. Shuffled(ps, w)
      BY <2>2 DEF Shuffled
    <2> QED BY <2>1, <2>3 DEF nf, w
  <1>5. CASE nf # {}
    <2>1. n1 \in nf /\ n1 \in 1..n
      BY <1>2, <1>5, Smallest
    <2> HIDE DEF n1
    <2>2. CASE Cardinality(nf) = 1
      <3>1. w = Swap(ps, 1, n1)
        BY <1>3, <1>5, <2>2
      <3>2. Shuffled(ps, w) /\ w[1] = ps[n1]
        BY <1>1, <2>1, <3>1, SwapShuffles
      <3>3. \A i \in nf : i = n1
        <4>1. PICK x : nf = {x}
          <5>1. IsFiniteSet(nf)
            <6>1. IsFiniteSet(1..n)
              BY <1>1, FS_Interval, 1 \in Int, n \in Int
            <6> QED BY <1>2, <6>1, FS_Subset
          <5> QED BY <2>2, <5>1, FS_Singleton
        <4> QED BY <2>1, <4>1
      <3> QED BY <1>5, <3>2, <3>3 DEF nf, w
    <2>3. CASE Cardinality(nf) # 1
      <3>1. n2 \in nf \ {n1} /\ n2 \in 1..n
        <4>1. nf \ {n1} # {}
          <5> SUFFICES ASSUME nf = {n1} PROVE FALSE
            BY <2>1
          <5> QED BY <2>3, FS_Singleton
        <4>2. nf \ {n1} \subseteq Nat
          BY <1>2
        <4>3. n2 \in nf \ {n1}
          BY <4>1, <4>2, Smallest DEF n2
        <4> QED BY <1>2, <4>3
      <3>2. w = IF n1 = 2 THEN Swap(ps, 1, n2) ELSE Swap(Swap(ps, 1, n1), 2, n2)
        BY <1>3, <1>5, <2>3
      <3>3. CASE n1 = 2
        <4>1. Shuffled(ps, w)
          BY <1>1, <3>1, <3>2, <3>3, SwapShuffles
        <4> QED BY <2>3, <4>1 DEF nf, w
      <3>4. CASE n1 # 2
        <4> DEFINE t == Swap(ps, 1, n1)
        <4>1. Shuffled(ps, t)
          BY <1>1, <2>1, SwapShuffles
        <4> HIDE DEF t
        <4>2. t \in Seq(Lit) /\ Distinct(t) /\ Len(t) = n
          BY <4>1 DEF Shuffled
        <4>3. Shuffled(t, Swap(t, 2, n2))
          BY <1>1, <3>1, <4>2, SwapShuffles
        <4>4. Shuffled(ps, w)
          BY <3>2, <3>4, <4>1, <4>3, ShuffledTwice DEF t
        <4> QED BY <2>3, <4>4 DEF nf, w
      <3> QED BY <3>3, <3>4
    <2> QED BY <2>2, <2>3
  <1> QED BY <1>4, <1>5

\* The highest level of what is assigned.
LEMMA MaxLevelFacts ==
    ASSUME NEW c \in Core, TrailOK(c), NEW ps \in Seq(Lit)
    PROVE  /\ MaxLevel(c, ps) \in Nat /\ MaxLevel(c, ps) <= DecisionLevel(c)
           /\ \A p \in Range(ps) : ~IsUndef(c, p) => LevelOf(c, p) <= MaxLevel(c, ps)
  <1> DEFINE L == AssignedLevels(c, ps) \cup {0}
             D == DecisionLevel(c)
  <1>1. D \in Nat /\ DOMAIN ps = 1..Len(ps)
    BY CoreFields
  <1>2. ASSUME NEW l \in L PROVE l \in 0..D
    <2>1. CASE l = 0
      BY <1>1, <2>1
    <2>2. CASE l # 0
      <3>1. PICK i \in DOMAIN ps : l = LevelOf(c, ps[i]) /\ ~IsUndef(c, ps[i])
        BY <2>2 DEF AssignedLevels
      <3>2. ps[i] \in Lit
        BY <1>1
      <3>3. ps[i] \in c.assigns \/ -ps[i] \in c.assigns
        BY <3>1 DEF IsUndef, IsTrue, IsFalse
      <3>4. LevelOf(c, -ps[i]) = LevelOf(c, ps[i])
        BY <3>2, CoreFields
      <3> QED BY <3>1, <3>3, <3>4, AssignedFacts
    <2> QED BY <2>1, <2>2
  <1> DEFINE U == {D - l : l \in L}
  <1>3. \E l \in L : \A m \in L : m <= l
    <2>1. U \subseteq Nat /\ U # {}
      BY <1>1, <1>2
    <2>2. PICK u \in U : \A x \in U : u <= x
      BY <2>1, Smallest
    <2>3. PICK l \in L : u = D - l
      BY <2>2
    <2>4. \A m \in L : D - m \in U
      OBVIOUS
    <2> HIDE DEF L, U
    <2>5. ASSUME NEW m \in L PROVE m <= l
      <3>1. D - l <= D - m
        BY <2>2, <2>3, <2>4
      <3>2. m \in 0..D /\ l \in 0..D
        BY <1>2
      <3> QED BY <1>1, <3>1, <3>2
    <2> QED BY <2>5
  <1>4. MaxLevel(c, ps) = CHOOSE l \in L : \A m \in L : m <= l
    BY DEF MaxLevel
  <1>5. MaxLevel(c, ps) \in L /\ \A m \in L : m <= MaxLevel(c, ps)
    BY <1>3, <1>4
  <1>6. ASSUME NEW p \in Range(ps), ~IsUndef(c, p) PROVE LevelOf(c, p) \in L
    <2>1. PICK i \in 1..Len(ps) : ps[i] = p
      BY RangeFacts
    <2> QED BY <1>1, <1>6, <2>1 DEF AssignedLevels
  <1> HIDE DEF L
  <1> QED BY <1>1, <1>2, <1>5, <1>6

-----------------------------------------------------------------------------
\* d differs from c in its flags alone.
Reflagged(c, d) ==
    /\ d \in Core /\ SameTrail(c, d) /\ d.reason = c.reason /\ d.qhead = c.qhead
    /\ d.told = c.told /\ d.theory_level = c.theory_level /\ SameDb(c, d)

LEMMA ReflagStep ==
    ASSUME NEW c, NEW d, NEW lemmas, NEW M, c \in Core, Good(c, lemmas), Reflagged(c, d),
           d.ok = c.ok \/ \A m \in M : ~Agrees(m, c)
    PROVE  Steps(c, d, lemmas, M) /\ Covers(c, d) /\ Extends(c, d)
  <1>1. /\ d \in Core /\ SameTrail(c, d) /\ d.reason = c.reason /\ d.qhead = c.qhead
        /\ d.told = c.told /\ d.theory_level = c.theory_level /\ SameDb(c, d)
    BY DEF Reflagged
  <1>2. DbOK(c) /\ TrailOK(c) /\ DbOK(d)
    BY <1>1, DbFrame DEF Good
  <1>3. KeepsReasons(c, d)
    BY <1>1 DEF KeepsReasons, SameDb, Live, Lits
  <1>4. d.qhead <= Len(d.trail)
    BY <1>1, <1>2 DEF TrailOK, SameTrail
  <1>5. Good(d, lemmas) /\ NoDecision(c, d) /\ Extends(c, d)
    BY <1>1, <1>2, <1>3, <1>4, DbChangeGood
  <1>6. Follows(c, d, M)
    <2>1. CASE \A m \in M : ~Agrees(m, c)
      BY <2>1 DEF Follows
    <2>2. CASE d.ok = c.ok
      <3>1. Live(d) = Live(c) /\ \A cr \in Live(c) : Lits(d, cr) = Lits(c, cr)
        BY <1>1 DEF SameDb, Live, Lits
      <3>2. d.delayed = c.delayed
        BY <1>1 DEF SameDb
      <3> QED BY <1>1, <2>2, <3>1, <3>2, SameClauses
    <2> QED BY <2>1, <2>2
  <1>7. Covers(c, d)
    BY <1>1, <1>2, <1>5, ExtendsCovers
  <1> QED BY <1>1, <1>5, <1>6, <1>7 DEF Steps

LEMMA FlagFields ==
    ASSUME NEW c, c \in Core, NEW b \in BOOLEAN
    PROVE  /\ Reflagged(c, [c EXCEPT !.ok = b]) /\ [c EXCEPT !.ok = b].ok = b
           /\ Reflagged(c, [c EXCEPT !.initialPropagate = b])
           /\ [c EXCEPT !.initialPropagate = b].ok = c.ok
           /\ Reflagged(c, [c EXCEPT !.theory_queue = b]) /\ [c EXCEPT !.theory_queue = b].ok = c.ok
  BY DEF Reflagged, Core, SameTrail, SameDb

LEMMA UncheckedIs ==
    ASSUME NEW c, NEW p, NEW from
    PROVE  UncheckedEnqueue(c, p, from) = Enqueued(c, p, DecisionLevel(c), from)
  BY DEF UncheckedEnqueue, Enqueued

\* A clause of two literals at least is added.
CanAdd(c, lits, lemmas, M) ==
    c \in Core /\ Good(c, lemmas) /\ Given(c, lits, M) /\ Len(lits) >= 2
AddedTo(c, lits, lemmas, M, d) ==
    /\ Steps(c, d, lemmas, M) /\ Covers(c, d) /\ Extends(c, d) /\ SameTrail(c, d)
    /\ d.reason = c.reason /\ d.told = c.told /\ d.theory_level = c.theory_level
    /\ d.delayed = c.delayed /\ d.ok = c.ok /\ d.initialPropagate = c.initialPropagate
    /\ Len(d.ca) \in Nat /\ Len(d.ca) > 0 /\ Len(d.ca) \in Live(d) /\ Len(d.ca) \notin Live(c)
    /\ d.ca[Len(d.ca)].lits = lits /\ Lits(d, Len(d.ca)) = Range(lits)
    /\ Live(d) = Live(c) \cup {Len(d.ca)}
    /\ \A k \in Live(c) : Lits(d, k) = Lits(c, k)
LEMMA NewClauseStep ==
    ASSUME NEW c, NEW lits, NEW lemmas, NEW M, CanAdd(c, lits, lemmas, M), NEW learnt \in BOOLEAN
    PROVE  AddedTo(c, lits, lemmas, M, NewClause(c, lits, learnt))
  <1> DEFINE d == NewClause(c, lits, learnt)
             cr == Len(d.ca)
  <1>1. /\ c \in Core /\ Good(c, lemmas) /\ lits \in Seq(Lit) /\ Len(lits) >= 2 /\ Distinct(lits)
        /\ \A m \in M : Agrees(m, c) => m \cap Range(lits) # {}
    BY DEF CanAdd, Given
  <1>2. /\ Good(d, lemmas) /\ NoDecision(c, d) /\ Extends(c, d) /\ Held(d) = Held(c)
        /\ SameTrail(c, d) /\ d.reason = c.reason /\ d.told = c.told
        /\ d.qhead = c.qhead /\ d.theory_level = c.theory_level
        /\ d.delayed = c.delayed /\ d.ok = c.ok /\ d.initialPropagate = c.initialPropagate
        /\ cr = Len(c.ca) + 1 /\ cr \in Nat /\ cr > 0 /\ d.ca[cr].lits = lits
        /\ Live(d) = Live(c) \cup {cr} /\ Lits(d, cr) = Range(lits)
        /\ \A k \in Live(c) : k \in 1..Len(c.ca) /\ Lits(d, k) = Lits(c, k) /\ d.ca[k] = c.ca[k]
    BY <1>1, NewClauseGood
  <1>3. Follows(c, d, M)
    BY <1>1, NewClauseFollows
  <1> HIDE DEF d
  <1>4. d \in Core /\ TrailOK(c)
    BY <1>1, <1>2 DEF Good
  <1>5. Covers(c, d)
    BY <1>1, <1>2, <1>4, ExtendsCovers
  <1>6. cr \notin Live(c)
    <2>1. Len(c.ca) \in Nat
      BY <1>1, CoreFields
    <2> QED BY <1>2, <2>1
  <1> QED BY <1>2, <1>3, <1>4, <1>5, <1>6 DEF AddedTo, Steps, d

-----------------------------------------------------------------------------
\* All literals of a clause are false at level 0: no assignment that counts is left.
LEMMA FalseAtLevelZero ==
    ASSUME NEW c, NEW cr, NEW M, c \in Core, TrailOK(c), DbOK(c), DecisionLevel(c) = 0,
           AllFalse(c, cr), M \subseteq Total
    PROVE  \A m \in M : ~Agrees(m, c)
  <1> SUFFICES ASSUME NEW m \in M, Agrees(m, c) PROVE FALSE
    OBVIOUS
  <1>1. cr \in Live(c) /\ Lits(c, cr) \subseteq Lit
    BY ClauseFacts DEF AllFalse
  <1>2. PICK q \in Lits(c, cr) : q \in m
    BY <1>1 DEF Agrees
  <1>3. -q \in c.assigns
    BY <1>2 DEF AllFalse, IsFalse
  <1>4. LevelOf(c, -q) = 0
    BY <1>3, RootLevel
  <1>5. -q \in m /\ q \in Lit
    BY <1>1, <1>2, <1>3, <1>4 DEF Agrees
  <1> QED BY <1>2, <1>5 DEF Total

\* A unit clause at level 0.
LEMMA RootUnit ==
    ASSUME NEW c, NEW p, NEW lemmas, NEW M, c \in Core, Good(c, lemmas), DecisionLevel(c) = 0,
           p \in Lit, IsUndef(c, p), \A m \in M : Agrees(m, c) => p \in m
    PROVE  LET d == UncheckedEnqueue(c, p, CRef_Undef)
           IN Steps(c, d, lemmas, M) /\ Covers(c, d) /\ Extends(c, d) /\ d.ok = c.ok /\ SameDb(c, d)
  <1> DEFINE d == UncheckedEnqueue(c, p, CRef_Undef)
  <1>1. d = Enqueued(c, p, 0, 0)
    BY UncheckedIs DEF CRef_Undef
  <1>2. CauseFor(c, lemmas, p, 0, 0)
    BY DEF CauseFor
  <1>3. CanEnqueue(c, lemmas, p, 0, 0, M)
    BY <1>2 DEF CanEnqueue
  <1>4. EnqueuedTo(c, lemmas, p, 0, 0, M, d)
    BY <1>1, <1>3, EnqueuedStep
  <1> HIDE DEF d
  <1>5. Steps(c, d, lemmas, M) /\ Extends(c, d) /\ d.ok = c.ok /\ SameDb(c, d)
    BY <1>4 DEF EnqueuedTo, Steps
  <1>6. Covers(c, d)
    BY <1>5, ExtendsCovers DEF Steps, Good
  <1> QED BY <1>5, <1>6 DEF d

LEMMA NotRoot ==
    ASSUME NEW c, NEW p, c \in Core, TrailOK(c), DecisionLevel(c) = 0, p \in Lit
    PROVE  (IsFalse(c, p) => FalseAtRoot(c, p)) /\ (IsTrue(c, p) => LevelOf(c, p) = 0)
  <1>1. \A q \in c.assigns : LevelOf(c, q) = 0
    BY RootLevel
  <1>2. LevelOf(c, -p) = LevelOf(c, p)
    BY CoreFields
  <1> QED BY <1>1, <1>2 DEF IsFalse, IsTrue, FalseAtRoot

LEMMA AddClause_Good ==
    ASSUME NEW c, NEW given, NEW lemmas, NEW M, c \in Core, Good(c, lemmas), DecisionLevel(c) = 0,
           Given(c, given, M)
    PROVE  LET d == AddClause_(c, given)
           IN Steps(c, d, lemmas, M) /\ Covers(c, d) /\ d.trail_lim = c.trail_lim
  <1> DEFINE c0 == [c EXCEPT !.initialPropagate = TRUE]
             ps == WithoutRoot(c, given)
             d == AddClause_(c, given)
             Goal == Steps(c, d, lemmas, M) /\ Covers(c, d) /\ d.trail_lim = c.trail_lim
  <1>0. TrailOK(c) /\ DbOK(c) /\ Steps(c, c, lemmas, M) /\ Covers(c, c)
    BY StepsSelf DEF Good, Covers
  <1>1. Reduced(c, given, M, ps)
    BY ReducedGood
  <1>2. Reflagged(c, c0) /\ c0.ok = c.ok
    BY FlagFields
  <1>3. d = CASE ~c.ok -> c
              [] c.ok /\ SatisfiedAtRoot(c, given) -> c0
              [] c.ok /\ ~SatisfiedAtRoot(c, given) /\ Len(ps) = 0 -> [c0 EXCEPT !.ok = FALSE]
              [] c.ok /\ ~SatisfiedAtRoot(c, given) /\ Len(ps) = 1 ->
                   LET r == PropagateUnits(UncheckedEnqueue(c0, ps[1], CRef_Undef))
                   IN [r.c EXCEPT !.ok = r.confl = CRef_Undef]
              [] OTHER -> NewClause(c0, ps, FALSE)
    BY DEF AddClause_
  <1> HIDE DEF c0, ps, d
  <1>4. /\ Steps(c, c0, lemmas, M) /\ Covers(c, c0) /\ c0.trail_lim = c.trail_lim /\ c0 \in Core
        /\ Good(c0, lemmas) /\ TrailOK(c0) /\ DecisionLevel(c0) = 0
        /\ c0.assigns = c.assigns /\ c0.level = c.level
    <2>1. Steps(c, c0, lemmas, M) /\ Covers(c, c0)
      BY <1>2, ReflagStep
    <2>2. SameTrail(c, c0)
      BY <1>2 DEF Reflagged
    <2> QED BY <2>1, <2>2 DEF SameTrail, Steps, Good, DecisionLevel
  <1>5. ps \in Seq(Lit) /\ Len(ps) \in Nat /\ Distinct(ps) /\ Given(c, ps, M) /\ Given(c0, ps, M)
    <2>1. Given(c, ps, M)
      BY <1>1 DEF Reduced
    <2>2. ASSUME NEW m, Agrees(m, c0) PROVE Agrees(m, c)
      <3>1. /\ c0.ca = c.ca /\ c0.delayed = c.delayed /\ c0.ok = c.ok
        BY <1>2 DEF Reflagged, SameDb
      <3> QED BY <1>4, <2>2, <3>1 DEF Agrees, Live, Lits, LevelOf
    <2>3. ps \in Seq(Lit) /\ Distinct(ps)
      BY <2>1 DEF Given
    <2> QED BY <2>1, <2>2, <2>3 DEF Given
  <1>6. CASE ~c.ok
    BY <1>0, <1>3, <1>6 DEF d
  <1>7. CASE c.ok /\ SatisfiedAtRoot(c, given)
    <2>1. d = c0
      BY <1>3, <1>7
    <2> QED BY <1>4, <2>1 DEF d
  <1>8. CASE c.ok /\ ~SatisfiedAtRoot(c, given) /\ Len(ps) = 0
    <2>1. d = [c0 EXCEPT !.ok = FALSE]
      BY <1>3, <1>8
    <2>2. Reflagged(c0, d)
      BY <1>4, <2>1, FlagFields
    <2>3. \A m \in M : ~Agrees(m, c0)
      BY <1>5, <1>8, EmptyHolds
    <2>4. Steps(c0, d, lemmas, M) /\ Covers(c0, d)
      BY <1>4, <2>2, <2>3, ReflagStep
    <2>5. d.trail_lim = c0.trail_lim
      BY <2>2 DEF Reflagged, SameTrail
    <2> QED BY <1>4, <2>4, <2>5, StepsTwice, CoversTwice DEF d
  <1>9. CASE c.ok /\ ~SatisfiedAtRoot(c, given) /\ Len(ps) = 1
    <2> DEFINE p == ps[1]
               e == UncheckedEnqueue(c0, p, CRef_Undef)
               r == PropagateUnits(e)
    <2>1. d = [r.c EXCEPT !.ok = r.confl = CRef_Undef]
      BY <1>3, <1>9
    <2>2. p \in Lit /\ p \in Range(ps) /\ \A m \in M : Agrees(m, c0) => p \in m
      BY <1>5, <1>9, UnitHolds
    <2>3. IsUndef(c0, p)
      <3>1. ~FalseAtRoot(c, p) /\ p \in Range(given)
        BY <1>1, <2>2 DEF Reduced
      <3>2. ~(IsTrue(c, p) /\ LevelOf(c, p) = 0)
        <4>1. given \in Seq(Lit)
          BY DEF Given
        <4>2. \E i \in DOMAIN given : given[i] = p
          BY <3>1, <4>1, RangeFacts
        <4> QED BY <1>9, <4>2 DEF SatisfiedAtRoot
      <3>3. ~IsFalse(c, p) /\ ~IsTrue(c, p)
        BY <1>0, <2>2, <3>1, <3>2, NotRoot
      <3> QED BY <1>4, <3>3 DEF IsUndef, IsTrue, IsFalse
    <2>4. Steps(c0, e, lemmas, M) /\ Covers(c0, e) /\ Extends(c0, e)
      BY <1>4, <2>2, <2>3, RootUnit
    <2> HIDE DEF e, r
    <2>5. M \subseteq Total
      BY DEF Given
    <2>6. PropagatedTo(e, lemmas, M, r)
      BY <2>4, <2>5, PropagateUnitsGood DEF Steps, r
    <2>7. /\ r.c \in Core /\ Good(r.c, lemmas) /\ Grows(e, r.c, M)
          /\ r.confl # 0 => AllFalse(r.c, r.confl)
      BY <2>6 DEF PropagatedTo
    <2> DEFINE x == r.c
               b == r.confl = CRef_Undef
    <2>8. b \in BOOLEAN /\ d = [x EXCEPT !.ok = b]
      BY <2>1
    <2>9. x \in Core /\ Good(x, lemmas) /\ Grows(e, x, M) /\ (~b => AllFalse(x, r.confl))
      BY <2>7 DEF CRef_Undef
    <2> HIDE DEF x, b
    <2>10. Steps(e, x, lemmas, M) /\ Covers(e, x) /\ Extends(e, x) /\ x.ok = e.ok
      <3>1. Steps(e, x, lemmas, M) /\ Extends(e, x) /\ x.ok = e.ok
        BY <2>9 DEF Steps, Grows
      <3>2. e \in Core /\ TrailOK(e)
        BY <2>4 DEF Steps, Good
      <3> QED BY <2>9, <3>1, <3>2, ExtendsCovers
    <2>11. Reflagged(x, d) /\ d.ok = b
      BY <2>8, <2>9, FlagFields
    <2>12. x.trail_lim = c0.trail_lim /\ d.trail_lim = c0.trail_lim /\ DecisionLevel(x) = 0
      <3>1. x.trail_lim = c0.trail_lim
        BY <2>4, <2>10 DEF Extends
      <3> QED BY <1>4, <2>11, <3>1 DEF Reflagged, SameTrail, DecisionLevel
    <2>13. d.ok = x.ok \/ \A m \in M : ~Agrees(m, x)
      <3>1. CASE b
        <4>1. e.ok = c0.ok
          BY <1>4, <2>2, <2>3, RootUnit DEF e
        <4> QED BY <1>2, <1>9, <2>10, <2>11, <3>1, <4>1
      <3>2. CASE ~b
        <4>1. TrailOK(x) /\ DbOK(x)
          BY <2>9 DEF Good
        <4> QED BY <2>5, <2>9, <2>12, <3>2, <4>1, FalseAtLevelZero
      <3> QED BY <3>1, <3>2
    <2>14. Steps(x, d, lemmas, M) /\ Covers(x, d)
      BY <2>9, <2>11, <2>13, ReflagStep
    <2>15. Steps(c, d, lemmas, M)
      BY <1>4, <2>4, <2>10, <2>14, StepsTwice
    <2>16. Covers(c, d)
      BY <1>4, <2>4, <2>10, <2>14, CoversTwice
    <2> QED BY <1>4, <2>12, <2>15, <2>16 DEF d
  <1>10. CASE c.ok /\ ~SatisfiedAtRoot(c, given) /\ Len(ps) # 0 /\ Len(ps) # 1
    <2>1. d = NewClause(c0, ps, FALSE)
      BY <1>3, <1>10
    <2>2. CanAdd(c0, ps, lemmas, M)
      <3>1. Len(ps) >= 2
        <4> DEFINE n == Len(ps)
        <4>1. n \in Nat /\ n # 0 /\ n # 1
          BY <1>5, <1>10
        <4> HIDE DEF n
        <4>2. n >= 2
          BY <4>1
        <4> QED BY <4>2 DEF n
      <3> QED BY <1>4, <1>5, <3>1 DEF CanAdd
    <2>3. AddedTo(c0, ps, lemmas, M, d)
      BY <2>1, <2>2, NewClauseStep
    <2>4. Steps(c0, d, lemmas, M) /\ Covers(c0, d) /\ d.trail_lim = c0.trail_lim
      BY <2>3 DEF AddedTo, SameTrail
    <2> QED BY <1>4, <2>4, StepsTwice, CoversTwice DEF d
  <1> QED BY <1>6, <1>7, <1>8, <1>9, <1>10

-----------------------------------------------------------------------------
LEMMA AfterEnqueue ==
    ASSUME NEW c, NEW d, NEW lemmas, NEW p, NEW lev, NEW from, NEW M, c \in Core, Good(c, lemmas),
           EnqueuedTo(c, lemmas, p, lev, from, M, d), from # 0 \/ lev = 0
    PROVE  Steps(c, d, lemmas, M) /\ Covers(c, d) /\ d.trail_lim = c.trail_lim /\ d.ok = c.ok
  <1>1. d \in Core /\ Good(d, lemmas) /\ Follows(c, d, M) /\ NoDecision(c, d) /\ Extends(c, d) /\ d.ok = c.ok
    BY DEF EnqueuedTo
  <1>2. Covers(c, d)
    BY <1>1, ExtendsCovers DEF Good
  <1> QED BY <1>1, <1>2 DEF Steps, Extends

\* The first literal of a clause is enqueued, the others being false.
LEMMA EnqueueFrom ==
    ASSUME NEW c, NEW lemmas, NEW cr, NEW p, NEW lev, NEW M, c \in Core, Good(c, lemmas), M \subseteq Total,
           cr \in Live(c), p = c.ca[cr].lits[1], IsUndef(c, p), lev \in Nat, lev <= DecisionLevel(c),
           FalseAt(c, Lits(c, cr) \ {p}, lev)
    PROVE  EnqueuedTo(c, lemmas, p, lev, cr, M, Enqueued(c, p, lev, cr)) /\ cr # 0
  <1>1. /\ cr \in Nat /\ cr > 0 /\ cr \in Int /\ p \in Lits(c, cr) /\ Lits(c, cr) \subseteq Lit
    <2>1. /\ cr \in 1..Len(c.ca) /\ Len(c.ca[cr].lits) \in Nat /\ Len(c.ca[cr].lits) >= 2
          /\ Lits(c, cr) \subseteq Lit
          /\ \A i \in 1..Len(c.ca[cr].lits) : c.ca[cr].lits[i] \in Lits(c, cr)
      BY ClauseFacts DEF Good
    <2>2. 1 \in 1..Len(c.ca[cr].lits)
      BY <2>1
    <2> QED BY <2>1, <2>2
  <1>2. CauseFor(c, lemmas, p, lev, cr)
    BY <1>1 DEF CauseFor
  <1>3. ASSUME lev = 0, NEW m \in M, Agrees(m, c) PROVE p \in m
    <2>1. PICK q \in Lits(c, cr) : q \in m
      BY <1>3 DEF Agrees
    <2>2. CASE q # p
      <3>1. -q \in c.assigns /\ LevelOf(c, -q) <= 0
        BY <1>3, <2>1, <2>2 DEF FalseAt
      <3>2. LevelOf(c, -q) = 0
        BY <3>1, AssignedFacts DEF Good
      <3>3. -q \in m /\ q \in Lit
        BY <1>1, <1>3, <2>1, <3>1, <3>2 DEF Agrees
      <3> QED BY <2>1, <3>3 DEF Total
    <2> QED BY <2>1, <2>2
  <1>4. CanEnqueue(c, lemmas, p, lev, cr, M)
    BY <1>1, <1>2, <1>3 DEF CanEnqueue
  <1> QED BY <1>1, <1>4, EnqueuedStep

\* enqueueLazy of a literal that must be true, at level 0.
LEMMA LazyRoot ==
    ASSUME NEW c, NEW lemmas, NEW p, NEW M, c \in Core, Good(c, lemmas), M \subseteq Total, p \in Lit,
           \A m \in M : Agrees(m, c) => p \in m
    PROVE  LET d == EnqueueLazy(c, p, 0, CRef_Undef)
           IN Steps(c, d, lemmas, M) /\ Covers(c, d) /\ d.trail_lim = c.trail_lim /\ d.ok = c.ok
  <1> DEFINE d == EnqueueLazy(c, p, 0, CRef_Undef)
  <1>0. TrailOK(c)
    BY DEF Good
  <1>1. CASE IsTrue(c, p) /\ 0 < LevelOf(c, p)
    <2>1. d = ToRoot(c, p)
      BY <1>1 DEF EnqueueLazy, ToRoot, IsUndef
    <2>2. p \in c.assigns
      BY <1>1 DEF IsTrue
    <2>3. Good(ToRoot(c, p), lemmas)
      BY <2>2, ToRootGood
    <2>4. Follows(c, ToRoot(c, p), M) /\ NoDecision(c, ToRoot(c, p))
      BY <1>0, <2>2, ToRootFollows
    <2>5. /\ ToRoot(c, p).trail = c.trail /\ ToRoot(c, p).trail_lim = c.trail_lim
          /\ ToRoot(c, p).told = c.told /\ ToRoot(c, p).ok = c.ok
      BY ToRootFields
    <2> HIDE DEF d
    <2>6. Steps(c, d, lemmas, M)
      BY <2>1, <2>3, <2>4 DEF Steps, Good
    <2>7. Held(d) = Held(c)
      BY <2>1, <2>5 DEF Held
    <2>8. Covers(c, d)
      BY <2>1, <2>5, <2>7, SameTrailCovers
    <2> QED BY <2>1, <2>5, <2>6, <2>8 DEF d
  <1>2. CASE IsUndef(c, p)
    <2>1. d = Enqueued(c, p, 0, 0)
      BY <1>2 DEF EnqueueLazy, Enqueued, IsUndef, CRef_Undef
    <2>2. CauseFor(c, lemmas, p, 0, 0)
      BY DEF CauseFor
    <2>3. 0 <= DecisionLevel(c)
      BY CoreFields
    <2>4. CanEnqueue(c, lemmas, p, 0, 0, M)
      BY <1>2, <2>2, <2>3 DEF CanEnqueue
    <2>5. EnqueuedTo(c, lemmas, p, 0, 0, M, d)
      BY <2>1, <2>4, EnqueuedStep
    <2> HIDE DEF d
    <2>6. Steps(c, d, lemmas, M) /\ Covers(c, d) /\ d.trail_lim = c.trail_lim /\ d.ok = c.ok
      BY <2>5, AfterEnqueue
    <2> QED BY <2>6 DEF d
  <1>3. CASE ~IsUndef(c, p) /\ ~(IsTrue(c, p) /\ 0 < LevelOf(c, p))
    <2>1. d = c
      BY <1>3 DEF EnqueueLazy
    <2>2. Steps(c, c, lemmas, M) /\ Covers(c, c)
      BY StepsSelf DEF Covers
    <2> QED BY <2>1, <2>2
  <1> QED BY <1>1, <1>2, <1>3

LEMMA DelayGood ==
    ASSUME NEW c, NEW ps, NEW lemmas, NEW M, c \in Core, Good(c, lemmas), Given(c, ps, M)
    PROVE  LET d == [c EXCEPT !.delayed = Append(@, ps)]
           IN Steps(c, d, lemmas, M) /\ Covers(c, d) /\ d.trail_lim = c.trail_lim /\ d.ok = c.ok
  <1> DEFINE s == Append(c.delayed, ps)
             d == [c EXCEPT !.delayed = s]
  <1>1. ps \in Seq(Lit) /\ Distinct(ps) /\ c.delayed \in Seq(Seq(Lit)) /\ TrailOK(c) /\ DbOK(c)
    BY CoreFields DEF Given, Good
  <1>2. /\ s \in Seq(Seq(Lit)) /\ Len(s) = Len(c.delayed) + 1 /\ s[Len(c.delayed) + 1] = ps
        /\ \A i \in 1..Len(c.delayed) : s[i] = c.delayed[i]
    BY <1>1, AppendFacts
  <1> HIDE DEF s
  <1>3. /\ d \in Core /\ SameTrail(c, d) /\ d.reason = c.reason /\ d.qhead = c.qhead
        /\ d.told = c.told /\ d.theory_level = c.theory_level /\ d.ca = c.ca /\ d.watches = c.watches
        /\ d.delayed = s /\ d.ok = c.ok
    BY <1>2 DEF Core, SameTrail
  <1> HIDE DEF d
  <1>4. DOMAIN s = 1..(Len(c.delayed) + 1) /\ DOMAIN c.delayed = 1..Len(c.delayed) /\ Len(c.delayed) \in Nat
    BY <1>1, <1>2
  <1>5. \A i \in DOMAIN s : i = Len(c.delayed) + 1 \/ i \in DOMAIN c.delayed
    BY <1>4
  <1>6. DbOK(d)
    BY <1>1, <1>2, <1>3, <1>4, <1>5 DEF DbOK
  <1>7. d.qhead <= Len(d.trail) /\ KeepsReasons(c, d)
    BY <1>1, <1>3 DEF TrailOK, SameTrail, KeepsReasons, Live, Lits
  <1>8. Good(d, lemmas) /\ NoDecision(c, d) /\ Extends(c, d)
    BY <1>3, <1>6, <1>7, DbChangeGood
  <1>9. Follows(c, d, M)
    <2> SUFFICES ASSUME NEW m \in M, Agrees(m, c) PROVE Agrees(m, d)
      BY DEF Follows
    <2>1. m \cap Range(ps) # {}
      BY DEF Given
    <2>2. \A i \in DOMAIN d.delayed : m \cap Range(d.delayed[i]) # {}
      BY <1>2, <1>3, <1>4, <1>5, <2>1 DEF Agrees
    <2>3. Live(d) = Live(c) /\ (\A k : Lits(d, k) = Lits(c, k)) /\ (\A p : LevelOf(d, p) = LevelOf(c, p))
      BY <1>3 DEF Live, Lits, LevelOf, SameTrail
    <2> QED BY <1>3, <2>2, <2>3 DEF Agrees, SameTrail
  <1>10. Covers(c, d)
    BY <1>1, <1>3, <1>8, ExtendsCovers
  <1> QED BY <1>3, <1>8, <1>9, <1>10 DEF Steps, SameTrail, d, s

-----------------------------------------------------------------------------
\* A clause one literal of which is not false, and the literals watched in it.
LEMMA UnitWatched ==
    ASSUME NEW c, NEW ps, c \in Core, TrailOK(c), ps \in Seq(Lit), Distinct(ps), Len(ps) >= 2,
           Cardinality(NotFalse(c, ps)) = 1
    PROVE  LET p == Watched(c, ps)[1]
           IN /\ p \in Range(ps) /\ p \in Lit /\ ~IsFalse(c, p)
              /\ \A i \in NotFalse(c, ps) : ps[i] = p
              /\ FalseAt(c, Range(ps) \ {p}, MaxLevel(c, ps))
  <1> DEFINE p == Watched(c, ps)[1]
  <1>1. NotFalse(c, ps) # {} /\ \A i \in NotFalse(c, ps) : p = ps[i]
    BY WatchedGood
  <1> HIDE DEF p
  <1>2. DOMAIN ps = 1..Len(ps) /\ \A i \in 1..Len(ps) : ps[i] \in Range(ps) /\ ps[i] \in Lit
    BY RangeFacts
  <1>3. PICK k \in NotFalse(c, ps) : TRUE
    BY <1>1
  <1>4. k \in 1..Len(ps) /\ p = ps[k] /\ ~IsFalse(c, ps[k])
    BY <1>1, <1>2, <1>3 DEF NotFalse, Falses
  <1>5. ASSUME NEW q \in Range(ps) \ {p} PROVE -q \in c.assigns /\ LevelOf(c, -q) <= MaxLevel(c, ps)
    <2>1. PICK i \in 1..Len(ps) : ps[i] = q
      BY RangeFacts
    <2>2. i \notin NotFalse(c, ps)
      BY <1>1, <1>5, <2>1
    <2>3. IsFalse(c, q) /\ q \in Lit
      BY <1>2, <2>1, <2>2 DEF NotFalse, Falses
    <2>4. ~IsUndef(c, q)
      BY <2>3 DEF IsUndef
    <2>5. LevelOf(c, q) <= MaxLevel(c, ps)
      BY <2>4, MaxLevelFacts
    <2> QED BY <2>3, <2>5, CoreFields DEF IsFalse
  <1> QED BY <1>1, <1>2, <1>4, <1>5 DEF FalseAt, p

\* The same, from the count addClauseSafely takes.
LEMMA OneLeft ==
    ASSUME NEW c, NEW ps, ps \in Seq(Lit), Cardinality(Falses(c, ps)) = Len(ps) - 1
    PROVE  Cardinality(NotFalse(c, ps)) = 1
  <1> DEFINE n == Len(ps)
             F == Falses(c, ps)
  <1>1. n \in Nat /\ DOMAIN ps = 1..n
    OBVIOUS
  <1>2. F \subseteq 1..n /\ NotFalse(c, ps) = (1..n) \ F /\ (1..n) \cap F = F
    BY <1>1 DEF Falses, NotFalse
  <1> HIDE DEF n, F
  <1>3. IsFiniteSet(1..n) /\ Cardinality(1..n) = n
    <2>1. 1 \in Int /\ n \in Int
      BY <1>1
    <2>2. /\ IsFiniteSet(1..n)
          /\ Cardinality(1..n) = IF 1 > n THEN 0 ELSE n - 1 + 1
      BY <2>1, FS_Interval
    <2> QED BY <1>1, <2>2
  <1>4. Cardinality((1..n) \ F) = Cardinality(1..n) - Cardinality((1..n) \cap F)
    BY <1>3, FS_Difference
  <1> QED BY <1>1, <1>2, <1>3, <1>4 DEF F, n

\* A clause that is unit now is attached, and its literal enqueued at the level it belongs to.
LEMMA UnitAdded ==
    ASSUME NEW c, NEW ps, NEW lemmas, NEW M, c \in Core, Good(c, lemmas), Given(c, ps, M),
           Len(ps) >= 2, Cardinality(NotFalse(c, ps)) = 1
    PROVE  LET n == NewClause(c, Watched(c, ps), FALSE)
               d == EnqueueLazy(n, Watched(c, ps)[1], MaxLevel(c, ps), Len(n.ca))
           IN Steps(c, d, lemmas, M) /\ Covers(c, d) /\ d.trail_lim = c.trail_lim /\ d.ok = c.ok
  <1> DEFINE w == Watched(c, ps)
             n == NewClause(c, w, FALSE)
             p == w[1]
             lev == MaxLevel(c, ps)
             cr == Len(n.ca)
             d == EnqueueLazy(n, p, lev, cr)
  <1>1. TrailOK(c) /\ ps \in Seq(Lit) /\ Distinct(ps) /\ M \subseteq Total
    BY DEF Good, Given
  <1>2. Shuffled(ps, w)
    BY <1>1, WatchedGood
  <1>3. p \in Lit /\ ~IsFalse(c, p) /\ FalseAt(c, Range(ps) \ {p}, lev)
    BY <1>1, UnitWatched
  <1>4. lev \in Nat /\ lev <= DecisionLevel(c) /\ (\A q \in Range(ps) : ~IsUndef(c, q) => LevelOf(c, q) <= lev)
    BY <1>1, MaxLevelFacts
  <1>5. p \in Range(ps)
    BY <1>1, UnitWatched
  <1> HIDE DEF w, lev
  <1>6. CanAdd(c, w, lemmas, M)
    BY <1>2 DEF CanAdd, Shuffled, Given
  <1>7. AddedTo(c, w, lemmas, M, n)
    BY <1>6, NewClauseStep
  <1> HIDE DEF n
  <1>8. /\ n \in Core /\ Good(n, lemmas) /\ Steps(c, n, lemmas, M) /\ Covers(c, n) /\ SameTrail(c, n)
        /\ cr \in Live(n) /\ n.ca[cr].lits = w /\ Lits(n, cr) = Range(ps) /\ n.ok = c.ok
    BY <1>2, <1>7 DEF AddedTo, Steps, Shuffled
  <1>9. /\ n.assigns = c.assigns /\ n.trail_lim = c.trail_lim /\ DecisionLevel(n) = DecisionLevel(c)
        /\ \A q : LevelOf(n, q) = LevelOf(c, q)
    BY <1>8 DEF SameTrail, DecisionLevel, LevelOf
  <1>10. FalseAt(n, Lits(n, cr) \ {p}, lev)
    BY <1>3, <1>8, <1>9 DEF FalseAt
  <1> HIDE DEF cr
  <1>11. CASE IsUndef(n, p)
    <2>1. p = n.ca[cr].lits[1]
      BY <1>8
    <2>2. EnqueuedTo(n, lemmas, p, lev, cr, M, Enqueued(n, p, lev, cr)) /\ cr # 0
      BY <1>1, <1>4, <1>8, <1>9, <1>10, <1>11, <2>1, EnqueueFrom
    <2>3. d = Enqueued(n, p, lev, cr)
      BY <1>11 DEF EnqueueLazy, Enqueued, IsUndef
    <2> HIDE DEF d
    <2>4. Steps(n, d, lemmas, M) /\ Covers(n, d) /\ d.trail_lim = n.trail_lim /\ d.ok = n.ok
      BY <1>8, <2>2, <2>3, AfterEnqueue
    <2>5. Steps(c, d, lemmas, M) /\ Covers(c, d)
      BY <1>8, <2>4, StepsTwice, CoversTwice
    <2> QED BY <1>8, <1>9, <2>4, <2>5 DEF d, cr, n, lev, w
  <1>12. CASE ~IsUndef(n, p)
    <2>1. IsTrue(n, p) /\ ~IsUndef(c, p)
      BY <1>3, <1>9, <1>12 DEF IsUndef, IsTrue, IsFalse
    <2>2. LevelOf(n, p) <= lev /\ LevelOf(n, p) \in Nat
      BY <1>3, <1>4, <1>5, <1>8, <1>9, <2>1, CoreFields
    <2>3. ~(lev < LevelOf(n, p))
      BY <1>4, <2>2
    <2>4. d = n
      BY <1>12, <2>3 DEF EnqueueLazy
    <2> QED BY <1>8, <1>9, <2>4 DEF d, cr, n, lev, w
  <1> QED BY <1>11, <1>12

LEMMA AddClauseSafelyGood ==
    ASSUME NEW c, NEW given, NEW lemmas, NEW M, c \in Core, Good(c, lemmas), Given(c, given, M)
    PROVE  LET d == AddClauseSafely(c, given)
           IN /\ Steps(c, d, lemmas, M) /\ Covers(c, d) /\ d.trail_lim = c.trail_lim
              /\ DecisionLevel(c) > 0 => d.ok = c.ok
  <1> DEFINE ps == WithoutRoot(c, given)
             d == AddClauseSafely(c, given)
             w == Watched(c, ps)
             n == NewClause(c, w, FALSE)
             D == DecisionLevel(c)
             unit == Cardinality(Falses(c, ps)) = Len(ps) - 1
             e == EnqueueLazy(n, w[1], MaxLevel(c, ps), Len(n.ca))
             now == DecisionLevel(c) > 0 /\ ~SatisfiedAtRoot(c, given)
  <1>0. d = CASE DecisionLevel(c) = 0 -> AddClause_(c, given)
              [] DecisionLevel(c) > 0 /\ SatisfiedAtRoot(c, given) -> c
              [] now /\ unit /\ Len(ps) = 1 -> EnqueueLazy(c, ps[1], 0, CRef_Undef)
              [] now /\ unit /\ Len(ps) > 1 -> e
              [] OTHER -> [c EXCEPT !.delayed = Append(@, ps)]
    BY DEF AddClauseSafely
  <1>1. D \in Nat /\ Reduced(c, given, M, ps)
    BY ReducedGood, CoreFields
  <1>2. Given(c, ps, M) /\ ps \in Seq(Lit) /\ Distinct(ps) /\ Len(ps) \in Nat /\ M \subseteq Total
    BY <1>1 DEF Reduced, Given
  <1> DEFINE later == [c EXCEPT !.delayed = Append(@, ps)]
  <1> HIDE DEF ps, d, e, later
  <1>3. CASE D = 0
    <2>1. d = AddClause_(c, given)
      BY <1>0, <1>3
    <2> QED BY <1>3, <2>1, AddClause_Good DEF d
  <1>4. CASE D > 0 /\ SatisfiedAtRoot(c, given)
    <2>1. d = c
      BY <1>0, <1>1, <1>4
    <2> QED BY <2>1, StepsSelf DEF Covers, d
  <1>5. CASE D > 0 /\ ~SatisfiedAtRoot(c, given) /\ unit /\ Len(ps) = 1
    <2>1. d = EnqueueLazy(c, ps[1], 0, CRef_Undef)
      BY <1>0, <1>1, <1>5
    <2>2. ps[1] \in Lit /\ \A m \in M : Agrees(m, c) => ps[1] \in m
      BY <1>2, <1>5, UnitHolds
    <2>3. /\ Steps(c, EnqueueLazy(c, ps[1], 0, CRef_Undef), lemmas, M)
          /\ Covers(c, EnqueueLazy(c, ps[1], 0, CRef_Undef))
          /\ EnqueueLazy(c, ps[1], 0, CRef_Undef).trail_lim = c.trail_lim
          /\ EnqueueLazy(c, ps[1], 0, CRef_Undef).ok = c.ok
      BY <1>2, <2>2, LazyRoot
    <2> QED BY <2>1, <2>3 DEF d
  <1>6. CASE D > 0 /\ ~SatisfiedAtRoot(c, given) /\ unit /\ Len(ps) > 1
    <2>1. d = e
      BY <1>0, <1>1, <1>2, <1>6
    <2>2. Cardinality(NotFalse(c, ps)) = 1
      BY <1>2, <1>6, OneLeft
    <2>3. Len(ps) >= 2
      BY <1>2, <1>6
    <2>4. Steps(c, e, lemmas, M) /\ Covers(c, e) /\ e.trail_lim = c.trail_lim /\ e.ok = c.ok
      BY <1>2, <2>2, <2>3, UnitAdded DEF e
    <2> QED BY <2>1, <2>4 DEF d
  <1>7. CASE D > 0 /\ ~SatisfiedAtRoot(c, given) /\ ~(unit /\ Len(ps) = 1) /\ ~(unit /\ Len(ps) > 1)
    <2>1. d = later
      BY <1>0, <1>1, <1>7 DEF later
    <2>2. Steps(c, later, lemmas, M) /\ Covers(c, later) /\ later.trail_lim = c.trail_lim /\ later.ok = c.ok
      BY <1>2, DelayGood DEF later
    <2> QED BY <2>1, <2>2 DEF d
  <1> QED BY <1>1, <1>3, <1>4, <1>5, <1>6, <1>7

-----------------------------------------------------------------------------
(***************************************************************************)
(* addConflictClause.                                                      *)
(***************************************************************************)
Conflicted(c, lemmas, M, r) ==
    /\ Steps(c, r.c, lemmas, M) /\ Covers(c, r.c) /\ r.c.delayed = c.delayed
    /\ r.confl \in Nat
    /\ r.confl # 0 => ~r.fine /\ AllFalse(r.c, r.confl) /\ r.c.ok = c.ok
    /\ ~r.fine /\ r.confl = 0 => ~r.c.ok /\ DecisionLevel(r.c) = 0
    /\ r.fine => r.c.ok = c.ok

Outcome(d, confl, fine) == [c |-> d, confl |-> confl, fine |-> fine]

LEMMA OutcomeGood ==
    ASSUME NEW c, NEW lemmas, NEW M, NEW d, NEW confl, NEW fine,
           Steps(c, d, lemmas, M), Covers(c, d), d.delayed = c.delayed, confl \in Nat,
           \/ confl = 0 /\ fine /\ d.ok = c.ok
           \/ confl # 0 /\ ~fine /\ AllFalse(d, confl) /\ d.ok = c.ok
           \/ confl = 0 /\ ~fine /\ ~d.ok /\ DecisionLevel(d) = 0
    PROVE  Conflicted(c, lemmas, M, Outcome(d, confl, fine))
  <1>1. Outcome(d, confl, fine).c = d /\ Outcome(d, confl, fine).confl = confl /\ Outcome(d, confl, fine).fine = fine
    BY DEF Outcome
  <1> HIDE DEF Outcome
  <1> QED BY <1>1 DEF Conflicted

\* The solver back at level 0, where ok may be reset if nothing agrees.
LEMMA RootFails ==
    ASSUME NEW c, NEW lemmas, NEW M, c \in Core, Good(c, lemmas), \A m \in M : ~Agrees(m, c)
    PROVE  Conflicted(c, lemmas, M, Outcome([CancelUntil(c, 0) EXCEPT !.ok = FALSE], 0, FALSE))
  <1> DEFINE root == CancelUntil(c, 0)
             d == [root EXCEPT !.ok = FALSE]
  <1>1. 0 <= DecisionLevel(c)
    BY CoreFields
  <1>2. Cancelled(c, root, 0, lemmas)
    BY <1>1, CancelStep
  <1> HIDE DEF root
  <1>3. /\ root \in Core /\ Good(root, lemmas) /\ Steps(c, root, lemmas, M) /\ Covers(c, root)
        /\ DecisionLevel(root) = 0 /\ root.delayed = c.delayed
    BY <1>2 DEF Cancelled, SameDb
  <1>4. Reflagged(root, d) /\ d.ok = FALSE
    BY <1>3, FlagFields
  <1> HIDE DEF d
  <1>5. \A m \in M : Agrees(m, root) => Agrees(m, d)
    <2>1. \A p : LevelOf(root, p) = LevelOf(c, p)
      BY <1>2 DEF Cancelled, LevelOf
    <2>2. SameDb(c, root) /\ root.ok = c.ok
      BY <1>2 DEF Cancelled
    <2>3. \A p \in c.assigns : LevelOf(c, p) = 0 => p \in root.assigns
      BY <1>2 DEF Cancelled
    <2>4. Live(root) = Live(c) /\ \A cr : Lits(root, cr) = Lits(c, cr)
      BY <2>2 DEF SameDb, Live, Lits
    <2>5. ASSUME NEW m \in M, Agrees(m, root) PROVE Agrees(m, c)
      BY <2>1, <2>2, <2>3, <2>4, <2>5 DEF Agrees, SameDb
    <2> QED BY <2>5
  <1>6. \A m \in M : ~Agrees(m, root)
    BY <1>4, <1>5 DEF Agrees
  <1>7. Steps(root, d, lemmas, M) /\ Covers(root, d)
    BY <1>3, <1>4, <1>6, ReflagStep
  <1>8. Steps(c, d, lemmas, M) /\ Covers(c, d)
    BY <1>3, <1>7, StepsTwice, CoversTwice
  <1>9. d.delayed = c.delayed /\ DecisionLevel(d) = 0
    BY <1>3, <1>4 DEF Reflagged, SameDb, SameTrail, DecisionLevel
  <1> QED BY <1>4, <1>8, <1>9, OutcomeGood DEF d, root

\* What a clause of one literal comes to.
LEMMA UnitConflict ==
    ASSUME NEW c, NEW p, NEW lemmas, NEW M, c \in Core, Good(c, lemmas), M \subseteq Total, p \in Lit,
           \A m \in M : Agrees(m, c) => p \in m
    PROVE  LET root == CancelUntil(c, 0)
           IN /\ IsFalse(root, p) => Conflicted(c, lemmas, M, Outcome([root EXCEPT !.ok = FALSE], 0, FALSE))
              /\ IsUndef(root, p) =>
                   Conflicted(c, lemmas, M, Outcome(UncheckedEnqueue(root, p, CRef_Undef), 0, TRUE))
              /\ Conflicted(c, lemmas, M, Outcome(root, 0, TRUE))
  <1> DEFINE root == CancelUntil(c, 0)
  <1>1. 0 <= DecisionLevel(c)
    BY CoreFields
  <1>2. Cancelled(c, root, 0, lemmas)
    BY <1>1, CancelStep
  <1>3. ASSUME IsFalse(root, p)
        PROVE  Conflicted(c, lemmas, M, Outcome([root EXCEPT !.ok = FALSE], 0, FALSE))
    <2>1. -p \in c.assigns /\ LevelOf(c, -p) = 0
      <3>1. -p \in c.assigns /\ LevelOf(c, -p) <= 0
        BY <1>2, <1>3 DEF Cancelled, IsFalse
      <3> QED BY <3>1, AssignedFacts DEF Good
    <2>2. ASSUME NEW m \in M PROVE ~Agrees(m, c)
      BY <2>1 DEF Agrees, Total
    <2> QED BY <2>2, RootFails
  <1> HIDE DEF root
  <1>4. /\ root \in Core /\ Good(root, lemmas) /\ Steps(c, root, lemmas, M) /\ Covers(c, root)
        /\ DecisionLevel(root) = 0 /\ root.delayed = c.delayed /\ root.ok = c.ok
    BY <1>2 DEF Cancelled, SameDb
  <1>5. Conflicted(c, lemmas, M, Outcome(root, 0, TRUE))
    <2>1. /\ Steps(c, root, lemmas, M) /\ Covers(c, root) /\ root.delayed = c.delayed
          /\ root.ok = c.ok /\ 0 \in Nat
      BY <1>4
    <2> QED BY ONLY <2>1, OutcomeGood
  <1>6. ASSUME IsUndef(root, p)
        PROVE  Conflicted(c, lemmas, M, Outcome(UncheckedEnqueue(root, p, CRef_Undef), 0, TRUE))
    <2> DEFINE d == UncheckedEnqueue(root, p, CRef_Undef)
    <2>1. \A m \in M : Agrees(m, root) => p \in m
      <3>1. \A q : LevelOf(root, q) = LevelOf(c, q)
        BY <1>2 DEF Cancelled, LevelOf
      <3>2. SameDb(c, root) /\ root.ok = c.ok
        BY <1>2 DEF Cancelled
      <3>3. \A q \in c.assigns : LevelOf(c, q) = 0 => q \in root.assigns
        BY <1>2 DEF Cancelled
      <3>4. Live(root) = Live(c) /\ \A cr : Lits(root, cr) = Lits(c, cr)
        BY <3>2 DEF SameDb, Live, Lits
      <3>5. ASSUME NEW m \in M, Agrees(m, root) PROVE Agrees(m, c)
        BY <3>1, <3>2, <3>3, <3>4, <3>5 DEF Agrees, SameDb
      <3> QED BY <3>5
    <2>2. Steps(root, d, lemmas, M) /\ Covers(root, d) /\ d.ok = root.ok /\ SameDb(root, d)
      BY <1>4, <1>6, <2>1, RootUnit
    <2> HIDE DEF d
    <2>3. Steps(c, d, lemmas, M) /\ Covers(c, d) /\ d.delayed = c.delayed /\ d.ok = c.ok
      BY <1>4, <2>2, StepsTwice, CoversTwice DEF SameDb
    <2>4. Conflicted(c, lemmas, M, Outcome(d, 0, TRUE))
      BY <2>3, OutcomeGood
    <2> QED BY <2>4 DEF d
  <1> QED BY <1>3, <1>5, <1>6 DEF root

\* A clause all of whose literals are false.
LEMMA FalseAdded ==
    ASSUME NEW c, NEW ps, NEW lemmas, NEW M, c \in Core, Good(c, lemmas), Given(c, ps, M),
           Len(ps) >= 2, NEW learnt \in BOOLEAN
    PROVE  LET d == NewClause(c, Watched(c, ps), learnt)
           IN /\ NotFalse(c, ps) = {} => Conflicted(c, lemmas, M, Outcome(d, Len(d.ca), FALSE))
              /\ Conflicted(c, lemmas, M, Outcome(d, 0, TRUE))
  <1> DEFINE w == Watched(c, ps)
             d == NewClause(c, w, learnt)
             cr == Len(d.ca)
  <1>1. ps \in Seq(Lit) /\ Distinct(ps) /\ M \subseteq Total
    BY DEF Given
  <1>2. Shuffled(ps, w)
    BY <1>1, WatchedGood
  <1> HIDE DEF w
  <1>3. CanAdd(c, w, lemmas, M)
    BY <1>2 DEF CanAdd, Shuffled, Given
  <1>4. AddedTo(c, w, lemmas, M, d)
    BY <1>3, NewClauseStep
  <1> HIDE DEF d
  <1>5. /\ Steps(c, d, lemmas, M) /\ Covers(c, d) /\ d.delayed = c.delayed /\ d.ok = c.ok /\ SameTrail(c, d)
        /\ cr \in Nat /\ cr # 0 /\ cr \in Live(d) /\ Lits(d, cr) = Range(ps)
    BY <1>2, <1>4 DEF AddedTo, Shuffled
  <1>6. ASSUME NotFalse(c, ps) = {} PROVE AllFalse(d, cr)
    <2>1. ASSUME NEW q \in Range(ps) PROVE IsFalse(d, q)
      <3>1. PICK i \in 1..Len(ps) : ps[i] = q
        BY <1>1, RangeFacts
      <3> QED BY <1>1, <1>5, <1>6, <3>1 DEF NotFalse, Falses, IsFalse, SameTrail
    <2> QED BY <1>5, <2>1 DEF AllFalse
  <1> HIDE DEF cr
  <1> QED BY <1>5, <1>6, OutcomeGood DEF cr, d, w

\* A clause with one literal that is not assigned, the others being false.
LEMMA UnitLearnt ==
    ASSUME NEW c, NEW ps, NEW lemmas, NEW M, c \in Core, Good(c, lemmas), Given(c, ps, M),
           Len(ps) >= 2, NEW learnt \in BOOLEAN, Cardinality(NotFalse(c, ps)) = 1,
           \A i \in NotFalse(c, ps) : IsUndef(c, ps[i])
    PROVE  LET d == NewClause(c, Watched(c, ps), learnt)
               e == UncheckedEnqueue(CancelUntil(d, MaxLevel(c, ps)), Watched(c, ps)[1], Len(d.ca))
           IN Conflicted(c, lemmas, M, Outcome(e, 0, TRUE))
  <1> DEFINE w == Watched(c, ps)
             d == NewClause(c, w, learnt)
             p == w[1]
             lev == MaxLevel(c, ps)
             cr == Len(d.ca)
             b == CancelUntil(d, lev)
             e == UncheckedEnqueue(b, p, cr)
  <1>1. TrailOK(c) /\ ps \in Seq(Lit) /\ Distinct(ps) /\ M \subseteq Total
    BY DEF Good, Given
  <1>2. Shuffled(ps, w)
    BY <1>1, WatchedGood
  <1>3. p \in Lit /\ p \in Range(ps) /\ FalseAt(c, Range(ps) \ {p}, lev) /\ \A i \in NotFalse(c, ps) : ps[i] = p
    BY <1>1, UnitWatched
  <1>4. lev \in Nat /\ lev <= DecisionLevel(c)
    BY <1>1, MaxLevelFacts
  <1>5. IsUndef(c, p)
    BY <1>1, <1>3, WatchedGood
  <1> HIDE DEF w, lev
  <1>6. CanAdd(c, w, lemmas, M)
    BY <1>2 DEF CanAdd, Shuffled, Given
  <1>7. AddedTo(c, w, lemmas, M, d)
    BY <1>6, NewClauseStep
  <1> HIDE DEF d
  <1>8. /\ d \in Core /\ Good(d, lemmas) /\ Steps(c, d, lemmas, M) /\ Covers(c, d) /\ SameTrail(c, d)
        /\ cr \in Live(d) /\ d.ca[cr].lits = w /\ Lits(d, cr) = Range(ps) /\ d.ok = c.ok /\ d.delayed = c.delayed
    BY <1>2, <1>7 DEF AddedTo, Steps, Shuffled
  <1>9. /\ d.assigns = c.assigns /\ DecisionLevel(d) = DecisionLevel(c)
        /\ \A q : LevelOf(d, q) = LevelOf(c, q)
    BY <1>8 DEF SameTrail, DecisionLevel, LevelOf
  <1> HIDE DEF cr
  <1>10. Cancelled(d, b, lev, lemmas)
    BY <1>4, <1>8, <1>9, CancelStep
  <1> HIDE DEF b
  <1>11. /\ b \in Core /\ Good(b, lemmas) /\ Steps(d, b, lemmas, M) /\ Covers(d, b) /\ DecisionLevel(b) = lev
         /\ b.assigns = {q \in d.assigns : LevelOf(d, q) <= lev} /\ b.level = d.level /\ SameDb(d, b) /\ b.ok = d.ok
    BY <1>10 DEF Cancelled
  <1>12. cr \in Live(b) /\ b.ca[cr].lits = w /\ Lits(b, cr) = Range(ps) /\ b.delayed = c.delayed
    BY <1>8, <1>11 DEF SameDb, Live, Lits
  <1>13. \A q : LevelOf(b, q) = LevelOf(c, q)
    BY <1>9, <1>11 DEF LevelOf
  <1>14. IsUndef(b, p) /\ FalseAt(b, Lits(b, cr) \ {p}, lev)
    BY <1>3, <1>5, <1>9, <1>11, <1>12, <1>13 DEF IsUndef, IsTrue, IsFalse, FalseAt
  <1>15. EnqueuedTo(b, lemmas, p, lev, cr, M, Enqueued(b, p, lev, cr)) /\ cr # 0
    <2>1. p = b.ca[cr].lits[1] /\ lev <= DecisionLevel(b)
      BY <1>4, <1>11, <1>12
    <2> QED BY <1>1, <1>4, <1>11, <1>12, <1>14, <2>1, EnqueueFrom
  <1>16. e = Enqueued(b, p, lev, cr)
    BY <1>11, UncheckedIs
  <1> HIDE DEF e
  <1>17. Steps(b, e, lemmas, M) /\ Covers(b, e) /\ e.ok = b.ok
    BY <1>11, <1>15, <1>16, AfterEnqueue
  <1>18. e.delayed = b.delayed
    BY <1>15, <1>16 DEF EnqueuedTo, SameDb
  <1>19. Steps(c, e, lemmas, M) /\ Covers(c, e)
    BY <1>8, <1>11, <1>17, StepsTwice, CoversTwice
  <1>20. e.ok = c.ok /\ e.delayed = c.delayed
    BY <1>8, <1>11, <1>12, <1>17, <1>18
  <1>21. Conflicted(c, lemmas, M, Outcome(e, 0, TRUE))
    BY <1>19, <1>20, OutcomeGood
  <1> QED BY <1>21 DEF e, b, cr, d, lev, w

-----------------------------------------------------------------------------
LEMMA AddConflictGood ==
    ASSUME NEW c, NEW given, NEW lemmas, NEW M, c \in Core, Good(c, lemmas), Given(c, given, M),
           NEW permanent \in BOOLEAN
    PROVE  Conflicted(c, lemmas, M, AddConflictClause(c, given, permanent))
  <1> DEFINE ps == WithoutRoot(c, given)
             nf == NotFalse(c, ps)
             unit == Cardinality(nf) = 1 /\ \A i \in nf : IsUndef(c, ps[i])
             w == Watched(c, ps)
             d == NewClause(c, w, ~permanent)
             cr == Len(d.ca)
             root == CancelUntil(c, 0)
             failed == Outcome([root EXCEPT !.ok = FALSE], CRef_Undef, FALSE)
             added == Outcome(UncheckedEnqueue(root, ps[1], CRef_Undef), CRef_Undef, TRUE)
             kept == Outcome(root, CRef_Undef, TRUE)
             conflict == Outcome(d, cr, FALSE)
             asserted == Outcome(UncheckedEnqueue(CancelUntil(d, MaxLevel(c, ps)), d.ca[cr].lits[1], cr),
                                 CRef_Undef, TRUE)
             attached == Outcome(d, CRef_Undef, TRUE)
             same == Outcome(c, CRef_Undef, TRUE)
             r == AddConflictClause(c, given, permanent)
             sat == SatisfiedAtRoot(c, given)
  <1>0. r = CASE sat -> same
              [] ~sat /\ Len(ps) = 0 -> failed
              [] ~sat /\ Len(ps) = 1 ->
                   (CASE IsFalse(root, ps[1]) -> failed
                      [] IsUndef(root, ps[1]) -> added
                      [] OTHER -> kept)
              [] OTHER ->
                   (CASE nf = {} -> conflict
                      [] unit -> asserted
                      [] OTHER -> attached)
    BY DEF AddConflictClause, Outcome
  <1>1. Reduced(c, given, M, ps)
    BY ReducedGood
  <1>2. Given(c, ps, M) /\ ps \in Seq(Lit) /\ Distinct(ps) /\ Len(ps) \in Nat /\ M \subseteq Total
    BY <1>1 DEF Reduced, Given
  <1> HIDE DEF ps, failed, added, kept, conflict, asserted, attached, same, r, sat
  <1>3. CASE sat
    <2>1. r = same
      BY <1>0, <1>3
    <2>2. Steps(c, c, lemmas, M) /\ Covers(c, c) /\ 0 \in Nat
      BY StepsSelf DEF Covers
    <2>3. Conflicted(c, lemmas, M, Outcome(c, 0, TRUE))
      BY <2>2, OutcomeGood
    <2> QED BY <2>1, <2>3 DEF same, r, CRef_Undef
  <1>4. CASE ~sat /\ Len(ps) = 0
    <2>1. r = failed
      BY <1>0, <1>4
    <2>2. \A m \in M : ~Agrees(m, c)
      BY <1>2, <1>4, EmptyHolds
    <2>3. Conflicted(c, lemmas, M, Outcome([root EXCEPT !.ok = FALSE], 0, FALSE))
      BY <2>2, RootFails
    <2> QED BY <2>1, <2>3 DEF failed, r, CRef_Undef
  <1>5. CASE ~sat /\ Len(ps) = 1
    <2>1. ps[1] \in Lit /\ \A m \in M : Agrees(m, c) => ps[1] \in m
      BY <1>2, <1>5, UnitHolds
    <2>2. /\ IsFalse(root, ps[1]) => Conflicted(c, lemmas, M, Outcome([root EXCEPT !.ok = FALSE], 0, FALSE))
          /\ IsUndef(root, ps[1]) =>
               Conflicted(c, lemmas, M, Outcome(UncheckedEnqueue(root, ps[1], CRef_Undef), 0, TRUE))
          /\ Conflicted(c, lemmas, M, Outcome(root, 0, TRUE))
      BY <1>2, <2>1, UnitConflict
    <2>3. /\ IsFalse(root, ps[1]) => Conflicted(c, lemmas, M, failed)
          /\ IsUndef(root, ps[1]) => Conflicted(c, lemmas, M, added)
          /\ Conflicted(c, lemmas, M, kept)
      BY <2>2 DEF failed, added, kept, CRef_Undef
    <2>4. r = (CASE IsFalse(root, ps[1]) -> failed [] IsUndef(root, ps[1]) -> added [] OTHER -> kept)
      BY <1>0, <1>5
    <2>5. ~(IsFalse(root, ps[1]) /\ IsUndef(root, ps[1]))
      BY DEF IsUndef
    <2> HIDE DEF root
    <2> QED BY <2>3, <2>4, <2>5 DEF r
  <1>6. CASE ~sat /\ Len(ps) # 0 /\ Len(ps) # 1
    <2> DEFINE n == Len(ps)
    <2>1. n >= 2
      <3>1. n \in Nat /\ n # 0 /\ n # 1
        BY <1>2, <1>6
      <3> HIDE DEF n
      <3> QED BY <3>1
    <2>2. r = (CASE nf = {} -> conflict [] unit -> asserted [] OTHER -> attached)
      BY <1>0, <1>6
    <2>3. (~permanent) \in BOOLEAN
      OBVIOUS
    <2>4. /\ nf = {} => Conflicted(c, lemmas, M, Outcome(d, Len(d.ca), FALSE))
          /\ Conflicted(c, lemmas, M, Outcome(d, 0, TRUE))
      BY <1>2, <2>1, <2>3, FalseAdded
    <2>5. ASSUME unit
          PROVE  Conflicted(c, lemmas, M,
                     Outcome(UncheckedEnqueue(CancelUntil(d, MaxLevel(c, ps)), w[1], cr), 0, TRUE))
      BY <1>2, <2>1, <2>3, <2>5, UnitLearnt
    <2>6. d.ca[cr].lits[1] = w[1]
      <3>1. Shuffled(ps, w)
        BY <1>2, <2>1, WatchedGood
      <3> HIDE DEF w
      <3>2. CanAdd(c, w, lemmas, M)
        BY <1>2, <2>1, <3>1 DEF CanAdd, Shuffled, Given
      <3>3. AddedTo(c, w, lemmas, M, d)
        BY <2>3, <3>2, NewClauseStep
      <3> HIDE DEF d
      <3> QED BY <3>3 DEF AddedTo
    <2>7. ~(nf = {} /\ unit)
      BY FS_EmptySet
    <2>8. /\ nf = {} => Conflicted(c, lemmas, M, conflict)
          /\ unit => Conflicted(c, lemmas, M, asserted)
          /\ Conflicted(c, lemmas, M, attached)
      <3> HIDE DEF d, w, nf
      <3>1. unit => Conflicted(c, lemmas, M, asserted)
        BY <2>5, <2>6 DEF asserted, CRef_Undef
      <3> QED BY <2>4, <3>1 DEF conflict, attached, CRef_Undef
    <2> HIDE DEF nf, unit
    <2> QED BY <2>2, <2>7, <2>8 DEF r
  <1> QED BY <1>3, <1>4, <1>5, <1>6

-----------------------------------------------------------------------------
(***************************************************************************)
(* constructReason.                                                        *)
(***************************************************************************)
\* The reason of p set to a clause, or to none at level 0.
Caused(c, p, from) == [c EXCEPT !.reason[VarOf(p)] = from]

LEMMA CausedFields ==
    ASSUME NEW c, NEW p, NEW from, c \in Core, p \in Lit, from \in Int
    PROVE  LET d == Caused(c, p, from)
           IN /\ d \in Core /\ SameTrail(c, d) /\ d.qhead = c.qhead /\ d.told = c.told
              /\ d.theory_level = c.theory_level /\ SameDb(c, d) /\ d.ok = c.ok
              /\ d.initialPropagate = c.initialPropagate /\ d.theory_queue = c.theory_queue
              /\ ReasonOf(d, p) = from
              /\ \A q \in Lit : q # p /\ q # -p => ReasonOf(d, q) = ReasonOf(c, q)
  <1> DEFINE d == Caused(c, p, from)
             R == [c.reason EXCEPT ![VarOf(p)] = from]
  <1>1. VarOf(p) \in Var /\ c.reason \in [Var -> Int]
    BY LitFacts, CoreFields
  <1>2. R \in [Var -> Int] /\ R[VarOf(p)] = from /\ \A v \in Var : v # VarOf(p) => R[v] = c.reason[v]
    BY <1>1
  <1>3. d = [c EXCEPT !.reason = R]
    BY DEF Caused
  <1> HIDE DEF d, R
  <1>4. /\ d \in Core /\ SameTrail(c, d) /\ d.qhead = c.qhead /\ d.told = c.told
        /\ d.theory_level = c.theory_level /\ SameDb(c, d) /\ d.ok = c.ok
        /\ d.initialPropagate = c.initialPropagate /\ d.theory_queue = c.theory_queue
        /\ d.reason = R
    BY <1>2, <1>3 DEF Core, SameTrail, SameDb
  <1>5. ASSUME NEW q \in Lit, q # p, q # -p PROVE VarOf(q) \in Var /\ VarOf(q) # VarOf(p)
    BY <1>5, LitFacts
  <1> QED BY <1>1, <1>2, <1>4, <1>5 DEF ReasonOf, d

LEMMA CausedGood ==
    ASSUME NEW c, NEW p, NEW from, NEW lemmas, NEW M, c \in Core, Good(c, lemmas),
           NEW n \in 1..Len(c.trail), p = c.trail[n], from \in Int,
           from < 0 => FALSE,
           from > 0 => ByClause(c, n, from),
           from = 0 => LevelOf(c, p) = 0
    PROVE  LET d == Caused(c, p, from)
           IN /\ Steps(c, d, lemmas, M) /\ Covers(c, d)
  <1> DEFINE d == Caused(c, p, from)
  <1>1. p \in Lit /\ TrailOK(c) /\ ToldOK(c) /\ DbOK(c) /\ CausesOK(c, lemmas)
    BY CoreFields DEF Good
  <1>2. /\ d \in Core /\ SameTrail(c, d) /\ d.qhead = c.qhead /\ d.told = c.told
        /\ d.theory_level = c.theory_level /\ SameDb(c, d) /\ d.ok = c.ok
        /\ ReasonOf(d, p) = from
        /\ \A q \in Lit : q # p /\ q # -p => ReasonOf(d, q) = ReasonOf(c, q)
    BY <1>1, CausedFields
  <1> HIDE DEF d
  <1>3. /\ d.trail = c.trail /\ d.assigns = c.assigns /\ DecisionLevel(d) = DecisionLevel(c)
        /\ \A q : LevelOf(d, q) = LevelOf(c, q)
        /\ d.trail_lim = c.trail_lim
    BY <1>2 DEF SameTrail, DecisionLevel, LevelOf
  <1>4. TrailOK(d)
    BY <1>1, <1>2, <1>3 DEF TrailOK, LimitsOK
  <1>5. ToldOK(d)
    BY <1>1, <1>2, <1>3 DEF ToldOK, ToldBut, HeldAt, InOrder
  <1>6. DbOK(d)
    BY <1>1, <1>2, DbFrame
  <1>7. ASSUME NEW i \in 1..Len(d.trail) PROVE CauseOK(d, lemmas, i)
    <2>0. i \in 1..Len(c.trail) /\ CauseOK(c, lemmas, i)
      BY <1>1, <1>3 DEF CausesOK
    <2>1. Live(d) = Live(c) /\ d.ca = c.ca /\ \A cr : Lits(d, cr) = Lits(c, cr)
      BY <1>2 DEF SameDb, Live, Lits
    <2>2. CASE i = n
      <3>1. d.trail[i] = p /\ ReasonOf(d, d.trail[i]) = from
        BY <1>2, <1>3, <2>2
      <3>2. CASE from > 0
        <4>1. ByClause(d, i, from)
          BY <1>3, <2>1, <2>2, <3>2 DEF ByClause, Because
        <4> QED BY <3>1, <3>2, <4>1 DEF CauseOK
      <3>3. CASE from = 0
        <4>1. LevelOf(d, d.trail[i]) = 0
          BY <1>3, <3>1, <3>3
        <4> QED BY <3>1, <3>3, <4>1 DEF CauseOK, Decision
      <3>4. ~(from < 0) /\ from \in Int
        OBVIOUS
      <3> QED BY <3>2, <3>3, <3>4
    <2>3. CASE i # n
      <3>1. c.trail[i] # p /\ c.trail[i] # -p /\ c.trail[i] \in Lit
        BY <1>1, <2>0, <2>3, AssignedFacts
      <3>2. ReasonOf(d, d.trail[i]) = ReasonOf(c, c.trail[i]) /\ d.trail[i] = c.trail[i]
        BY <1>2, <1>3, <3>1
      <3> QED BY <1>3, <2>0, <2>1, <3>2 DEF CauseOK, ByClause, ByLemma, Because, Decision, InPlace
    <2> QED BY <2>2, <2>3
  <1>8. Good(d, lemmas)
    BY <1>2, <1>4, <1>5, <1>6, <1>7 DEF Good, CausesOK
  <1>9. Follows(c, d, M)
    <2>1. Live(d) = Live(c) /\ d.delayed = c.delayed /\ \A cr : Lits(d, cr) = Lits(c, cr)
      BY <1>2 DEF SameDb, Live, Lits
    <2> QED BY <1>2, <1>3, <2>1 DEF Follows, Agrees
  <1>10. NoDecision(c, d)
    <2> SUFFICES ASSUME NEW q \in d.assigns, ReasonOf(d, q) = 0, LevelOf(d, q) > 0
                 PROVE  q \in c.assigns /\ ReasonOf(c, q) = 0 /\ LevelOf(c, q) = LevelOf(d, q)
      BY DEF NoDecision
    <2>1. q \in c.assigns /\ q \in Lit /\ LevelOf(c, q) = LevelOf(d, q)
      BY <1>1, <1>3, AssignedFacts
    <2>2. q # p
      <3> SUFFICES ASSUME q = p PROVE FALSE
        OBVIOUS
      <3>1. from = 0 /\ LevelOf(c, p) > 0
        BY <1>2, <2>1
      <3> QED BY <3>1
    <2>3. q # -p
      <3>1. p \in c.assigns
        BY <1>1, AssignedFacts
      <3>2. -p \notin c.assigns
        BY <1>1, <3>1, AssignedFacts
      <3> QED BY <2>1, <3>2
    <2> QED BY <1>2, <2>1, <2>2, <2>3
  <1>11. Covers(c, d)
    BY <1>2, <1>3, SameTrailCovers DEF Held
  <1> QED BY <1>8, <1>9, <1>10, <1>11 DEF Steps, Good, d

-----------------------------------------------------------------------------
(***************************************************************************)
(* The reasons the theory builds.                                          *)
(***************************************************************************)
\* The theory takes back what it was told after p, the n-th literal of the trail.
RewoundTo(c, n, lemmas, M, d) ==
    /\ Steps(c, d, lemmas, M) /\ SameTrail(c, d) /\ d.reason = c.reason /\ SameDb(c, d)
    /\ d.ok = c.ok /\ d.qhead = c.qhead /\ d.initialPropagate = c.initialPropagate
    /\ LevelOf(c, c.trail[n]) > 0 => \A k \in 0..n : Covered(c, k) => Covered(d, k)

LEMMA RewindGood ==
    ASSUME NEW c, NEW lemmas, NEW M, c \in Core, Good(c, lemmas), NEW n \in 1..Len(c.trail),
           c.trail[n] \in Held(c)
    PROVE  RewoundTo(c, n, lemmas, M, TheoryRewind(c, c.trail[n]))
  <1> DEFINE p == c.trail[n]
             d == TheoryRewind(c, p)
             at == CHOOSE i \in DOMAIN c.told : c.told[i].lit = p
             s == SubSeq(c.told, 1, at)
  <1>1. /\ TrailOK(c) /\ ToldOK(c) /\ DbOK(c) /\ CausesOK(c, lemmas)
        /\ c.told \in Seq(ToldEntry) /\ Len(c.told) \in Nat /\ DOMAIN c.told = 1..Len(c.told)
        /\ p \in Lit /\ DecisionLevel(c) \in Nat /\ c.theory_level \in Nat
    BY CoreFields DEF Good
  <1>2. at \in 1..Len(c.told) /\ c.told[at].lit = p
    <2>1. \E i \in 1..Len(c.told) : c.told[i].lit = p
      BY HeldFacts
    <2> QED BY <1>1, <2>1
  <1> HIDE DEF at
  <1>3. s \in Seq(ToldEntry) /\ Len(s) = at /\ \A i \in 1..at : s[i] = c.told[i] /\ i \in 1..Len(c.told)
    BY <1>1, <1>2, PrefixFacts
  <1>4. c.told[at].at \in Nat /\ HeldAt(c, c.told[at]) /\ \A i \in 1..Len(c.told) : c.told[i].lit # 0 /\ c.told[i].at \in Nat
    <2>1. \A i \in 1..Len(c.told) : c.told[i].lit \in Lit /\ c.told[i].at \in Nat
      BY HeldFacts
    <2>2. \A i \in 1..Len(c.told) : c.told[i].lit # 0
      BY <2>1, LitFacts
    <2> QED BY <1>1, <1>2, <2>1, <2>2 DEF ToldOK, ToldBut
  <1>5. d = [c EXCEPT !.told = s, !.theory_level = c.told[at].at, !.theory_queue = TRUE]
    BY DEF TheoryRewind, at
  <1> HIDE DEF s, d, p
  <1>6. /\ d \in Core /\ SameTrail(c, d) /\ d.reason = c.reason /\ SameDb(c, d) /\ d.ok = c.ok
        /\ d.qhead = c.qhead /\ d.initialPropagate = c.initialPropagate /\ d.told = s
        /\ d.theory_level = c.told[at].at
    BY <1>3, <1>4, <1>5 DEF Core, SameTrail, SameDb
  <1>7. /\ d.trail = c.trail /\ d.assigns = c.assigns /\ DecisionLevel(d) = DecisionLevel(c)
        /\ (\A q : LevelOf(d, q) = LevelOf(c, q)) /\ d.trail_lim = c.trail_lim
        /\ (\A q : ReasonOf(d, q) = ReasonOf(c, q))
    BY <1>6 DEF SameTrail, DecisionLevel, LevelOf, ReasonOf
  <1>8. TrailOK(d)
    BY <1>1, <1>6, <1>7 DEF TrailOK, LimitsOK
  <1>9. \A i, j \in 1..Len(c.told) : i < j => InOrder(c, c.told[i], c.told[j])
    BY <1>1, <1>4 DEF ToldOK, ToldBut
  <1>10. ToldOK(d)
    <2>1. c.told[at].at <= DecisionLevel(c)
      BY <1>1, <1>4 DEF HeldAt, ToldOK, ToldBut
    <2>2. ASSUME NEW i \in 1..at PROVE HeldAt(d, s[i])
      <3>1. HeldAt(c, c.told[i])
        BY <1>1, <1>3, <1>4 DEF ToldOK, ToldBut
      <3>2. c.told[i].at <= c.told[at].at
        <4>1. CASE i = at
          BY <1>4, <4>1
        <4>2. CASE i # at
          <5>1. i < at
            BY <1>2, <4>2
          <5> QED BY <1>2, <1>3, <1>9, <5>1 DEF InOrder
        <4> QED BY <4>1, <4>2
      <3> QED BY <1>3, <1>6, <1>7, <3>1, <3>2 DEF HeldAt
    <2>3. ASSUME NEW i \in 1..at, NEW j \in 1..at, i < j PROVE InOrder(d, s[i], s[j])
      <3>1. InOrder(c, c.told[i], c.told[j])
        BY <1>3, <1>9, <2>3
      <3> QED BY <1>3, <1>7, <3>1 DEF InOrder
    <2> QED BY <1>3, <1>6, <1>7, <2>1, <2>2, <2>3 DEF ToldOK, ToldBut
  <1>11. DbOK(d)
    BY <1>1, <1>6, DbFrame
  <1>12. Live(d) = Live(c) /\ d.ca = c.ca /\ d.delayed = c.delayed /\ \A cr : Lits(d, cr) = Lits(c, cr)
    BY <1>6 DEF SameDb, Live, Lits
  <1>13. CausesOK(d, lemmas)
    <2> SUFFICES ASSUME NEW i \in 1..Len(c.trail) PROVE CauseOK(d, lemmas, i)
      BY <1>7 DEF CausesOK
    <2>1. CauseOK(c, lemmas, i) /\ LevelOf(c, c.trail[i]) <= DecisionLevel(c)
      BY <1>1 DEF CausesOK, TrailOK
    <2>2. DecisionLevel(d) >= DecisionLevel(c) /\ ~(DecisionLevel(d) > DecisionLevel(c))
      BY <1>1, <1>7
    <2> QED BY <1>6, <1>7, <1>12, <2>1, <2>2, CauseFrame
  <1>14. Follows(c, d, M) /\ NoDecision(c, d)
    BY <1>6, <1>7, <1>12 DEF Follows, Agrees, NoDecision
  <1>15. ASSUME LevelOf(c, p) > 0, NEW k \in 0..n, Covered(c, k) PROVE Covered(d, k)
    <2> SUFFICES ASSUME NEW m \in 1..k, HasTheory(c.trail[m]) PROVE c.trail[m] \in Held(d)
      BY <1>7 DEF Covered
    <2>1. m \in 1..Len(c.trail) /\ m <= n
      OBVIOUS
    <2>2. PICK j \in 1..Len(c.told) : c.told[j].lit = c.trail[m]
      BY <1>15, HeldFacts DEF Covered
    <2>3. CASE j <= at
      <3>1. j \in 1..at /\ s[j].lit = c.trail[m]
        BY <1>2, <1>3, <2>2, <2>3
      <3> QED BY <1>3, <1>6, <3>1, HeldFacts
    <2>4. CASE ~(j <= at)
      <3>1. at < j
        BY <1>2, <2>4
      <3>2. InOrder(c, c.told[at], c.told[j])
        BY <1>2, <1>9, <3>1
      <3>3. c.told[at].at > 0
        <4> DEFINE x == c.told[at].at
        <4>1. LevelOf(c, p) <= x
          BY <1>2, <1>4 DEF HeldAt
        <4>2. LevelOf(c, p) \in Nat /\ x \in Nat
          BY <1>1, <1>4, CoreFields
        <4> HIDE DEF x
        <4>3. x > 0
          BY <1>15, <4>1, <4>2
        <4> QED BY <4>3 DEF x
      <3>4. c.told[j].at > 0
        BY <1>4, <3>2, <3>3 DEF InOrder
      <3>5. n < m
        BY <1>2, <2>1, <2>2, <3>2, <3>4 DEF InOrder, p
      <3> QED BY <2>1, <3>5
    <2> QED BY <2>3, <2>4
  <1>16. Good(d, lemmas)
    BY <1>6, <1>8, <1>10, <1>11, <1>13 DEF Good
  <1> QED BY <1>6, <1>14, <1>15, <1>16 DEF RewoundTo, Steps, d, p

-----------------------------------------------------------------------------
\* The theory's clauses, and the assignments that count: they satisfy all of them.
Honest(lemmas, M) ==
    /\ LemmasOK(lemmas) /\ M \subseteq Total
    /\ \A k \in DOMAIN lemmas : \A q \in Range(lemmas[k]) : HasTheory(q)
    /\ \A k \in DOMAIN lemmas : \A m \in M : m \cap Range(lemmas[k]) # {}

\* p first, then the rest of its lemma.
ReasonFor(lemma, p, s) ==
    s \in Seq(Lit) /\ Distinct(s) /\ Len(s) >= 1 /\ s[1] = p /\ Range(s) = Range(lemma)

LEMMA LemmaReasonFacts ==
    ASSUME NEW lemma \in Seq(Lit), Distinct(lemma), NEW p \in Range(lemma)
    PROVE  ReasonFor(lemma, p, LemmaReason(lemma, p))
  <1> DEFINE r == Keep(lemma, Range(lemma) \ {p})
             s == <<p>> \o r
  <1>1. p \in Lit /\ Range(lemma) \subseteq Lit
    BY RangeFacts
  <1>2. r \in Seq(Lit) /\ Len(r) \in Nat /\ Range(r) = Range(lemma) \cap (Range(lemma) \ {p}) /\ Distinct(r)
    BY KeepFacts
  <1> HIDE DEF r
  <1>3. <<p>> \in Seq(Lit) /\ Len(<<p>>) = 1 /\ <<p>>[1] = p /\ 1 \in 1..1
    BY <1>1
  <1>4. /\ s \in Seq(Lit) /\ Len(s) = 1 + Len(r) /\ s[1] = p
        /\ \A i \in 1..Len(r) : s[1 + i] = r[i]
    BY <1>2, <1>3, ConcatFacts
  <1> HIDE DEF s
  <1>5. \A i \in 1..Len(r) : r[i] \in Range(lemma) /\ r[i] # p
    BY <1>2, RangeFacts
  <1>6. \A i \in 1..Len(s) : i = 1 \/ \E j \in 1..Len(r) : i = 1 + j
    <2> TAKE i \in 1..Len(s)
    <2>1. i = 1 \/ (i - 1 \in 1..Len(r) /\ i = 1 + (i - 1))
      BY <1>2, <1>4
    <2> QED BY <2>1
  <1>7. Distinct(s)
    <2> SUFFICES ASSUME NEW i \in 1..Len(s), NEW j \in 1..Len(s), s[i] = s[j] PROVE i = j
      BY <1>4 DEF Distinct
    <2>1. i = 1 \/ \E k \in 1..Len(r) : i = 1 + k
      BY <1>6
    <2>2. j = 1 \/ \E k \in 1..Len(r) : j = 1 + k
      BY <1>6
    <2>3. DOMAIN r = 1..Len(r)
      BY <1>2
    <2>4. CASE i = 1
      BY <1>4, <1>5, <2>2, <2>4
    <2>5. CASE j = 1
      BY <1>4, <1>5, <2>1, <2>5
    <2>6. CASE i # 1 /\ j # 1
      <3>1. PICK k \in 1..Len(r) : i = 1 + k
        BY <2>1, <2>6
      <3>2. PICK l \in 1..Len(r) : j = 1 + l
        BY <2>2, <2>6
      <3>3. r[k] = r[l]
        BY <1>4, <3>1, <3>2
      <3>4. k = l
        BY <1>2, <2>3, <3>3 DEF Distinct
      <3> QED BY <3>1, <3>2, <3>4
    <2> QED BY <2>4, <2>5, <2>6
  <1>8. Range(s) = Range(lemma)
    <2>1. ASSUME NEW x \in Range(s) PROVE x \in Range(lemma)
      <3>1. PICK i \in 1..Len(s) : s[i] = x
        BY <1>4, RangeFacts
      <3> QED BY <1>4, <1>5, <1>6, <3>1
    <2>2. ASSUME NEW x \in Range(lemma) PROVE x \in Range(s)
      <3>1. CASE x = p
        <4>1. 1 \in 1..Len(s)
          BY <1>2, <1>4
        <4> QED BY <1>4, <3>1, <4>1, RangeFacts
      <3>2. CASE x # p
        <4>1. x \in Range(r)
          BY <1>2, <3>2
        <4>2. PICK j \in 1..Len(r) : r[j] = x
          BY <1>2, <4>1, RangeFacts
        <4>3. 1 + j \in 1..Len(s)
          BY <1>2, <1>4
        <4> QED BY <1>4, <4>2, <4>3, RangeFacts
      <3> QED BY <3>1, <3>2
    <2> QED BY <2>1, <2>2
  <1>9. Len(s) >= 1
    BY <1>2, <1>4
  <1> QED BY <1>4, <1>7, <1>8, <1>9 DEF LemmaReason, ReasonFor, s, r

\* What building the reason of p, the n-th literal of the trail, makes of the solver.
ReasonMade(c, n, lemmas, M, d) ==
    LET p == c.trail[n]
    IN /\ Steps(c, d, lemmas, M) /\ d.trail = c.trail /\ d.trail_lim = c.trail_lim
       /\ d.assigns = c.assigns /\ Held(d) = Held(c) /\ d.ok = c.ok /\ d.delayed = c.delayed
       /\ \A q \in Lit : q # p /\ q # -p => LevelOf(d, q) = LevelOf(c, q) /\ ReasonOf(d, q) = ReasonOf(c, q)
       /\ LevelOf(d, p) = LevelOf(c, p) \/ LevelOf(d, p) = 0
       /\ ReasonOf(d, p) >= 0
       /\ ReasonOf(d, p) = 0 => LevelOf(d, p) = 0
       /\ Live(c) \subseteq Live(d)
       /\ \A k \in Live(c) : Lits(d, k) = Lits(c, k)

\* p stays with no reason at level 0.
LEMMA RootReason ==
    ASSUME NEW c, NEW n, NEW lemmas, NEW M, c \in Core, Good(c, lemmas), n \in 1..Len(c.trail),
           LevelOf(c, c.trail[n]) = 0
    PROVE  ReasonMade(c, n, lemmas, M, Caused(c, c.trail[n], 0))
  <1> DEFINE p == c.trail[n]
             d == Caused(c, p, 0)
  <1>1. p \in Lit
    BY CoreFields
  <1>2. Steps(c, d, lemmas, M)
    BY CausedGood
  <1>3. /\ SameTrail(c, d) /\ d.told = c.told /\ SameDb(c, d) /\ d.ok = c.ok /\ ReasonOf(d, p) = 0
        /\ \A q \in Lit : q # p /\ q # -p => ReasonOf(d, q) = ReasonOf(c, q)
    BY <1>1, CausedFields
  <1> HIDE DEF d, p
  <1>4. LevelOf(c, p) = 0
    BY DEF p
  <1>5. (\A q : LevelOf(d, q) = LevelOf(c, q)) /\ Held(d) = Held(c) /\ Live(d) = Live(c)
        /\ \A k : Lits(d, k) = Lits(c, k)
    BY <1>3 DEF SameTrail, LevelOf, Held, SameDb, Live, Lits
  <1>6. d.trail = c.trail /\ d.trail_lim = c.trail_lim /\ d.assigns = c.assigns /\ d.delayed = c.delayed
    BY <1>3 DEF SameTrail, SameDb
  <1>7. ReasonOf(d, p) >= 0
    BY <1>3
  <1> QED BY <1>2, <1>3, <1>4, <1>5, <1>6, <1>7 DEF ReasonMade, d, p

-----------------------------------------------------------------------------
\* What is left of it is p alone: p belongs to level 0.
LEMMA AloneReason ==
    ASSUME NEW c, NEW n, NEW lemmas, NEW M, c \in Core, Good(c, lemmas), n \in 1..Len(c.trail),
           \A m \in M : Agrees(m, c) => c.trail[n] \in m, M \subseteq Total
    PROVE  ReasonMade(c, n, lemmas, M, Caused(EnqueueLazy(c, c.trail[n], 0, CRef_Undef), c.trail[n], 0))
  <1> DEFINE p == c.trail[n]
             e == EnqueueLazy(c, p, 0, CRef_Undef)
             d == Caused(e, p, 0)
  <1>1. p \in Lit /\ p \in c.assigns /\ TrailOK(c) /\ LevelOf(c, p) \in Nat /\ IsTrue(c, p)
    BY CoreFields, AssignedFacts DEF Good, IsTrue
  <1>2. CASE LevelOf(c, p) = 0
    <2>1. e = c
      BY <1>1, <1>2 DEF EnqueueLazy, IsUndef
    <2> QED BY <1>2, <2>1, RootReason
  <1>3. CASE LevelOf(c, p) # 0
    <2>1. 0 < LevelOf(c, p)
      BY <1>1, <1>3
    <2>2. e = ToRoot(c, p)
      BY <1>1, <2>1 DEF EnqueueLazy, ToRoot, IsUndef
    <2> HIDE DEF e, p
    <2>3. Good(e, lemmas) /\ Follows(c, e, M) /\ NoDecision(c, e)
      <3>1. Good(ToRoot(c, p), lemmas)
        BY <1>1, ToRootGood
      <3>2. Follows(c, ToRoot(c, p), M) /\ NoDecision(c, ToRoot(c, p))
        BY <1>1, ToRootFollows DEF p
      <3> QED BY <2>2, <3>1, <3>2
    <2>4. /\ e \in Core /\ e.assigns = c.assigns /\ e.trail = c.trail
          /\ e.trail_lim = c.trail_lim /\ e.told = c.told /\ SameDb(c, e) /\ e.ok = c.ok
          /\ LevelOf(e, p) = 0
          /\ \A q \in Lit : q # p /\ q # -p =>
               LevelOf(e, q) = LevelOf(c, q) /\ ReasonOf(e, q) = ReasonOf(c, q)
      BY <1>1, <2>2, ToRootFields
    <2> HIDE DEF d
    <2>5. ReasonMade(e, n, lemmas, M, d)
      <3>1. n \in 1..Len(e.trail) /\ LevelOf(e, e.trail[n]) = 0
        BY <2>4 DEF p
      <3>2. ReasonMade(e, n, lemmas, M, Caused(e, e.trail[n], 0))
        BY <2>3, <2>4, <3>1, RootReason
      <3> QED BY <2>4, <3>2 DEF d, p
    <2>6. Steps(c, e, lemmas, M)
      BY <2>3, <2>4 DEF Steps
    <2>7. Held(e) = Held(c) /\ Live(e) = Live(c) /\ \A k : Lits(e, k) = Lits(c, k)
      BY <2>4 DEF Held, SameDb, Live, Lits
    <2>8. e.delayed = c.delayed
      BY <2>4 DEF SameDb
    <2>9. p = e.trail[n]
      BY <2>4 DEF p
    <2>10. /\ Steps(e, d, lemmas, M) /\ d.trail = e.trail /\ d.trail_lim = e.trail_lim
           /\ d.assigns = e.assigns /\ Held(d) = Held(e) /\ d.ok = e.ok /\ d.delayed = e.delayed
           /\ \A q \in Lit : q # p /\ q # -p => LevelOf(d, q) = LevelOf(e, q) /\ ReasonOf(d, q) = ReasonOf(e, q)
           /\ LevelOf(d, p) = 0
           /\ ReasonOf(d, p) >= 0
           /\ Live(e) \subseteq Live(d)
           /\ \A k \in Live(e) : Lits(d, k) = Lits(e, k)
      BY <2>4, <2>5, <2>9 DEF ReasonMade
    <2>11. Steps(c, d, lemmas, M)
      BY <2>6, <2>10, StepsTwice
    <2>12. ReasonMade(c, n, lemmas, M, d)
      BY <2>4, <2>7, <2>8, <2>10, <2>11 DEF ReasonMade, p
    <2> QED BY <2>12 DEF d, e, p
  <1> QED BY <1>2, <1>3

LEMMA ConstructReasonGood ==
    ASSUME NEW c, NEW n, NEW given, NEW lemmas, NEW M, c \in Core, Good(c, lemmas), n \in 1..Len(c.trail),
           Given(c, given, M), Len(given) >= 1, given[1] = c.trail[n],
           Because(c, n, Range(given) \ {c.trail[n]})
    PROVE  ReasonMade(c, n, lemmas, M, ConstructReason(c, c.trail[n], given))
  <1> DEFINE p == c.trail[n]
             ps == WithoutRoot(c, given)
             sat == SatisfiedAtRoot(c, given)
             e == NewClause(c, ps, FALSE)
             d == ConstructReason(c, p, given)
             first == Caused(c, p, 0)
             second == Caused(EnqueueLazy(c, p, 0, CRef_Undef), p, 0)
             third == Caused(e, p, Len(e.ca))
  <1>0. d = CASE sat -> first
              [] ~sat /\ Len(ps) = 1 -> second
              [] OTHER -> third
    BY DEF ConstructReason, Caused, CRef_Undef
  <1>1. p \in Lit /\ p \in c.assigns /\ -p \notin c.assigns /\ TrailOK(c) /\ LevelOf(c, p) \in Nat
    BY CoreFields, AssignedFacts DEF Good
  <1>2. Reduced(c, given, M, ps) /\ given \in Seq(Lit)
    BY ReducedGood DEF Given
  <1> HIDE DEF ps, e, d, first, second, third, sat
  <1>3. Given(c, ps, M) /\ ps \in Seq(Lit) /\ Distinct(ps) /\ Len(ps) \in Nat /\ M \subseteq Total
        /\ Range(ps) \subseteq Range(given)
    BY <1>2 DEF Reduced, Given
  <1>4. ps # <<>> /\ ps[1] = p
    <2>1. ~FalseAtRoot(c, given[1]) /\ given # <<>>
      BY <1>1 DEF FalseAtRoot, IsFalse
    <2> QED BY <1>2, <2>1 DEF Reduced
  <1>5. CASE sat
    <2>1. PICK i \in DOMAIN given : IsTrue(c, given[i]) /\ LevelOf(c, given[i]) = 0
      BY <1>5 DEF sat, SatisfiedAtRoot
    <2>2. given[i] = p
      <3> SUFFICES ASSUME given[i] # p PROVE FALSE
        OBVIOUS
      <3>1. given[i] \in Range(given) \ {p}
        BY <1>2, RangeFacts
      <3>2. PICK j \in 1..(n - 1) : c.trail[j] = -given[i]
        BY <3>1 DEF Because
      <3>3. -given[i] \in c.assigns /\ given[i] \in c.assigns
        BY <1>1, <2>1, <3>2, AssignedFacts DEF IsTrue
      <3> QED BY <1>1, <3>3 DEF TrailOK
    <2>3. ReasonMade(c, n, lemmas, M, first)
      BY <2>1, <2>2, RootReason DEF first
    <2> QED BY <1>0, <1>5, <2>3 DEF d
  <1>6. CASE ~sat /\ Len(ps) = 1
    <2>1. \A m \in M : Agrees(m, c) => p \in m
      BY <1>3, <1>4, <1>6, UnitHolds
    <2>2. ReasonMade(c, n, lemmas, M, second)
      BY <1>3, <2>1, AloneReason DEF second
    <2> QED BY <1>0, <1>6, <2>2 DEF d
  <1>7. CASE ~sat /\ Len(ps) # 1
    <2> DEFINE m == Len(ps)
    <2>1. Len(ps) >= 2
      <3>1. m # 0 /\ m # 1 /\ m \in Nat
        BY <1>3, <1>4, <1>7
      <3> HIDE DEF m
      <3>2. m >= 2
        BY <3>1
      <3> QED BY <3>2 DEF m
    <2> DEFINE cr == Len(e.ca)
    <2>2. AddedTo(c, ps, lemmas, M, e)
      <3>1. CanAdd(c, ps, lemmas, M)
        BY <1>3, <2>1 DEF CanAdd
      <3> QED BY <3>1, NewClauseStep DEF e
    <2>3. /\ e \in Core /\ Good(e, lemmas) /\ Steps(c, e, lemmas, M) /\ SameTrail(c, e) /\ e.reason = c.reason
          /\ e.told = c.told /\ e.delayed = c.delayed /\ e.ok = c.ok
          /\ cr \in Nat /\ cr > 0 /\ cr \in Live(e) /\ e.ca[cr].lits = ps /\ Lits(e, cr) = Range(ps)
          /\ Live(c) \subseteq Live(e) /\ \A k \in Live(c) : Lits(e, k) = Lits(c, k)
      BY <2>2 DEF AddedTo, Steps
    <2>4. /\ e.trail = c.trail /\ (\A q : LevelOf(e, q) = LevelOf(c, q)) /\ (\A q : ReasonOf(e, q) = ReasonOf(c, q))
          /\ e.trail_lim = c.trail_lim /\ e.assigns = c.assigns /\ Held(e) = Held(c)
      BY <2>3 DEF SameTrail, LevelOf, ReasonOf, Held
    <2> HIDE DEF cr
    <2>5. ByClause(e, n, cr)
      <3>1. Because(e, n, Range(ps) \ {p})
        BY <1>3, <2>4 DEF Because
      <3> QED BY <1>4, <2>3, <2>4, <3>1 DEF ByClause, p
    <2>6. Steps(e, Caused(e, p, cr), lemmas, M)
      <3>1. n \in 1..Len(e.trail) /\ p = e.trail[n] /\ cr \in Int
        BY <2>3, <2>4
      <3> QED BY <2>3, <2>5, <3>1, CausedGood
    <2>7. third = Caused(e, p, cr)
      BY DEF third, cr
    <2> HIDE DEF p
    <2>8. /\ SameTrail(e, third) /\ third.told = e.told /\ SameDb(e, third) /\ third.ok = e.ok
          /\ ReasonOf(third, p) = cr
          /\ \A q \in Lit : q # p /\ q # -p => ReasonOf(third, q) = ReasonOf(e, q)
      BY <1>1, <2>3, <2>7, CausedFields
    <2>9. /\ third.trail = e.trail /\ third.trail_lim = e.trail_lim /\ third.assigns = e.assigns
          /\ (\A q : LevelOf(third, q) = LevelOf(e, q)) /\ Held(third) = Held(e) /\ third.delayed = e.delayed
          /\ Live(third) = Live(e) /\ \A k : Lits(third, k) = Lits(e, k)
      BY <2>8 DEF SameTrail, SameDb, LevelOf, Held, Live, Lits
    <2>10. Steps(c, third, lemmas, M)
      BY <2>3, <2>6, <2>7, StepsTwice
    <2>11. ReasonOf(third, p) >= 0 /\ ReasonOf(third, p) # 0
      BY <2>3, <2>8
    <2>12. ReasonMade(c, n, lemmas, M, third)
      BY <2>3, <2>4, <2>8, <2>9, <2>10, <2>11 DEF ReasonMade, p
    <2> QED BY <1>0, <1>7, <2>12 DEF d, p
  <1> QED BY <1>5, <1>6, <1>7

-----------------------------------------------------------------------------
\* The reason of the n-th literal is there to be looked at.
ExplainedTo(c, n, lemmas, M, d) ==
    LET p == c.trail[n]
    IN /\ Steps(c, d, lemmas, M) /\ d.trail = c.trail /\ d.trail_lim = c.trail_lim
       /\ d.assigns = c.assigns /\ d.ok = c.ok /\ d.delayed = c.delayed
       /\ \A q \in Lit : q # p /\ q # -p => LevelOf(d, q) = LevelOf(c, q) /\ ReasonOf(d, q) = ReasonOf(c, q)
       /\ LevelOf(d, p) = LevelOf(c, p) \/ LevelOf(d, p) = 0
       /\ ReasonOf(d, p) >= 0
       /\ ReasonOf(c, p) >= 0 => d = c
       /\ ReasonOf(c, p) < 0 /\ ReasonOf(d, p) = 0 => LevelOf(d, p) = 0
       /\ Live(c) \subseteq Live(d)
       /\ \A k \in Live(c) : Lits(d, k) = Lits(c, k)
       /\ LevelOf(c, p) > 0 => \A k \in 0..n : Covered(c, k) => Covered(d, k)

LEMMA ExplainedGood ==
    ASSUME NEW c, NEW n, NEW lemmas, NEW M, c \in Core, Good(c, lemmas), n \in 1..Len(c.trail),
           Honest(lemmas, M), ReasonOf(c, c.trail[n]) >= 0 \/ c.trail[n] \in Held(c)
    PROVE  ExplainedTo(c, n, lemmas, M, Explained(c, c.trail[n], lemmas))
  <1> DEFINE p == c.trail[n]
             d == Explained(c, p, lemmas)
             r == ReasonOf(c, p)
  <1>1. p \in Lit /\ r \in Int /\ CauseOK(c, lemmas, n)
    BY CoreFields DEF Good, CausesOK
  <1> HIDE DEF p, r
  <1>2. CASE r >= 0
    <2>1. d = c
      BY <1>1, <1>2 DEF Explained, IsTheoryCause, r
    <2>2. Steps(c, c, lemmas, M)
      BY StepsSelf
    <2>3. ~(r < 0)
      BY <1>1, <1>2
    <2>4. ExplainedTo(c, n, lemmas, M, c)
      BY <1>2, <2>2, <2>3 DEF ExplainedTo, r, p
    <2> QED BY <2>1, <2>4 DEF p
  <1>3. CASE r < 0
    <2> DEFINE lemma == lemmas[-r]
               e == TheoryRewind(c, p)
               given == LemmaReason(lemma, p)
    <2>1. -r \in DOMAIN lemmas /\ p \in Range(lemma) /\ Because(c, n, Range(lemma) \ {p})
      BY <1>1, <1>3 DEF CauseOK, ByLemma, r, p
    <2>2. lemma \in Seq(Lit) /\ Distinct(lemma) /\ \A m \in M : m \cap Range(lemma) # {}
      BY <2>1 DEF Honest, LemmasOK
    <2>3. M \subseteq Total
      BY DEF Honest
    <2>4. d = ConstructReason(e, p, given)
      BY <1>3 DEF Explained, IsTheoryCause, r
    <2> HIDE DEF lemma
    <2>5. ReasonFor(lemma, p, given)
      BY <2>1, <2>2, LemmaReasonFacts
    <2> HIDE DEF e, given, d
    <2>6. given \in Seq(Lit) /\ Distinct(given) /\ Len(given) >= 1 /\ given[1] = p /\ Range(given) = Range(lemma)
      BY <2>5 DEF ReasonFor
    <2>7. RewoundTo(c, n, lemmas, M, e)
      <3>1. ~(ReasonOf(c, c.trail[n]) >= 0)
        BY <1>1, <1>3 DEF r, p
      <3>2. RewoundTo(c, n, lemmas, M, TheoryRewind(c, c.trail[n]))
        BY <3>1, RewindGood
      <3> QED BY <3>2 DEF e, p
    <2>8. /\ e \in Core /\ Good(e, lemmas) /\ Steps(c, e, lemmas, M) /\ SameTrail(c, e) /\ e.reason = c.reason
          /\ SameDb(c, e) /\ e.ok = c.ok
          /\ LevelOf(c, p) > 0 => \A k \in 0..n : Covered(c, k) => Covered(e, k)
      BY <2>7 DEF RewoundTo, Steps, p
    <2>9. /\ e.trail = c.trail /\ e.trail_lim = c.trail_lim /\ e.assigns = c.assigns /\ e.delayed = c.delayed
          /\ (\A q : LevelOf(e, q) = LevelOf(c, q)) /\ (\A q : ReasonOf(e, q) = ReasonOf(c, q))
          /\ Live(e) = Live(c) /\ (\A k : Lits(e, k) = Lits(c, k))
      BY <2>8 DEF SameTrail, SameDb, LevelOf, ReasonOf, Live, Lits
    <2>10. ReasonMade(e, n, lemmas, M, d)
      <3>1. Given(e, given, M)
        BY <2>2, <2>3, <2>6 DEF Given
      <3>2. n \in 1..Len(e.trail) /\ p = e.trail[n]
        BY <2>9 DEF p
      <3>3. Because(e, n, Range(given) \ {p})
        BY <2>1, <2>6, <2>9 DEF Because
      <3> QED BY <2>4, <2>6, <2>8, <3>1, <3>2, <3>3, ConstructReasonGood
    <2>11. p = e.trail[n]
      BY <2>9 DEF p
    <2>12. /\ Steps(e, d, lemmas, M) /\ d.trail = e.trail /\ d.trail_lim = e.trail_lim
           /\ d.assigns = e.assigns /\ Held(d) = Held(e) /\ d.ok = e.ok /\ d.delayed = e.delayed
           /\ \A q \in Lit : q # p /\ q # -p => LevelOf(d, q) = LevelOf(e, q) /\ ReasonOf(d, q) = ReasonOf(e, q)
           /\ LevelOf(d, p) = LevelOf(e, p) \/ LevelOf(d, p) = 0
           /\ ReasonOf(d, p) >= 0
           /\ ReasonOf(d, p) = 0 => LevelOf(d, p) = 0
           /\ Live(e) \subseteq Live(d)
           /\ \A k \in Live(e) : Lits(d, k) = Lits(e, k)
      BY <2>10, <2>11 DEF ReasonMade
    <2>13. \A k : Covered(e, k) => Covered(d, k)
      BY <2>12 DEF Covered
    <2>14. Steps(c, d, lemmas, M)
      BY <2>8, <2>12, StepsTwice
    <2>15. ~(ReasonOf(c, p) >= 0)
      BY <1>1, <1>3 DEF r
    <2>16. ExplainedTo(c, n, lemmas, M, d)
      BY <2>8, <2>9, <2>12, <2>13, <2>14, <2>15 DEF ExplainedTo, p
    <2> QED BY <2>16 DEF d, p
  <1> QED BY <1>1, <1>2, <1>3
=============================================================================
