---------------------------- MODULE SolverProofs ----------------------------
(***************************************************************************)
(* The invariant of search, the step lemma of every action, and the theorems *)
(* about Solver that rest on them.                                         *)
(***************************************************************************)
EXTENDS SolverProperties, SolverLemmas

-----------------------------------------------------------------------------
(***************************************************************************)
(* analyze.                                                                *)
(***************************************************************************)
WalkState ==
    [c : Core, seen : SUBSET Var, pathC : Int, out : Seq(Lit), asserting : Int,
     missed : BOOLEAN, done : BOOLEAN]
Top(c, q) == LevelOf(c, q) >= DecisionLevel(c)
TopVars(c, V) == {v \in V : c.level[v] >= DecisionLevel(c)}
\* The literals of V that are false.
FalseLits(c, V) == {q \in Lit : -q \in c.assigns /\ VarOf(q) \in V}

\* pathC counts what is still to be visited, out has the rest of what was seen.
Analysing(a) ==
    /\ a \in WalkState /\ TrailOK(a.c)
    /\ \A v \in a.seen : a.c.level[v] > 0 /\ \E p \in a.c.assigns : VarOf(p) = v
    /\ a.pathC = Cardinality(TopVars(a.c, a.seen))
    /\ ~a.missed => /\ Distinct(a.out)
                    /\ Range(a.out) = FalseLits(a.c, a.seen \ TopVars(a.c, a.seen))

LEMMA WalkStateFields ==
    ASSUME NEW a \in WalkState
    PROVE  /\ a.c \in Core /\ a.seen \subseteq Var /\ a.pathC \in Int /\ a.out \in Seq(Lit)
           /\ a.asserting \in Int /\ a.missed \in BOOLEAN /\ a.done \in BOOLEAN
           /\ IsFiniteSet(a.seen) /\ \A S : IsFiniteSet(TopVars(a.c, a.seen) \ S)
           /\ Cardinality(TopVars(a.c, a.seen)) \in Nat
  <1>1. a.seen \subseteq Var
    BY DEF WalkState
  <1>2. IsFiniteSet(a.seen)
    BY <1>1, VarFinite, FS_Subset
  <1>3. TopVars(a.c, a.seen) \subseteq a.seen
    BY DEF TopVars
  <1>4. IsFiniteSet(TopVars(a.c, a.seen))
    BY <1>2, <1>3, FS_Subset
  <1>5. \A S : IsFiniteSet(TopVars(a.c, a.seen) \ S)
    BY <1>4, FS_Difference
  <1>6. Cardinality(TopVars(a.c, a.seen)) \in Nat
    BY <1>4, FS_CardinalityType
  <1> HIDE DEF TopVars
  <1> QED BY <1>1, <1>2, <1>5, <1>6 DEF WalkState

MetTo(a, C, b) ==
    /\ Analysing(b) /\ b.c = a.c /\ b.missed = a.missed /\ b.done = a.done /\ b.asserting = a.asserting
    /\ b.seen = a.seen \cup {VarOf(q) : q \in {x \in C : LevelOf(a.c, x) > 0}}

LEMMA MeetStep ==
    ASSUME NEW a, NEW q, Analysing(a), q \in Lit, -q \in a.c.assigns
    PROVE  MetTo(a, {q}, Meet(a, q))
  <1> DEFINE b == Meet(a, q)
             v == VarOf(q)
             c == a.c
             D == DecisionLevel(c)
  <1>1. /\ a \in WalkState /\ c \in Core /\ a.seen \subseteq Var /\ a.pathC \in Int /\ a.out \in Seq(Lit)
        /\ TrailOK(c) /\ IsFiniteSet(TopVars(c, a.seen)) /\ a.missed \in BOOLEAN
    <2>1. TopVars(c, a.seen) \ {} = TopVars(c, a.seen)
      OBVIOUS
    <2> QED BY <2>1, WalkStateFields DEF Analysing
  <1>2. v \in Var /\ LevelOf(c, q) = c.level[v] /\ LevelOf(c, q) \in Nat /\ D \in Nat
        /\ VarOf(-q) = v /\ q \notin c.assigns
    BY <1>1, LitFacts, CoreFields, AssignedFacts DEF LevelOf
  <1>3. CASE v \in a.seen \/ LevelOf(c, q) = 0
    <2>1. b = a
      BY <1>3 DEF Meet
    <2>2. a.seen \cup {VarOf(x) : x \in {y \in {q} : LevelOf(c, y) > 0}} = a.seen
      BY <1>3
    <2> QED BY <2>1, <2>2 DEF MetTo
  <1>4. CASE ~(v \in a.seen \/ LevelOf(c, q) = 0)
    <2> DEFINE S == a.seen \cup {v}
    <2>1. {VarOf(x) : x \in {y \in {q} : LevelOf(c, y) > 0}} = {v}
      BY <1>2, <1>4
    <2>2. \A u \in S : c.level[u] > 0 /\ \E p \in c.assigns : VarOf(p) = u
      BY <1>2, <1>4 DEF Analysing
    <2>3. S \subseteq Var
      BY <1>1, <1>2
    <2>4. CASE LevelOf(c, q) >= D
      <3>1. b = [a EXCEPT !.seen = S, !.pathC = a.pathC + 1]
        BY <1>4, <2>4 DEF Meet
      <3>2. TopVars(c, S) = TopVars(c, a.seen) \cup {v} /\ v \notin TopVars(c, a.seen)
        BY <1>2, <1>4, <2>4 DEF TopVars
      <3>3. Cardinality(TopVars(c, S)) = Cardinality(TopVars(c, a.seen)) + 1
        BY <1>1, <3>2, FS_AddElement
      <3>4. S \ TopVars(c, S) = a.seen \ TopVars(c, a.seen)
        BY <1>4, <3>2
      <3> DEFINE pc1 == a.pathC + 1
      <3>7. pc1 \in Int
        BY <1>1
      <3> HIDE DEF S, b, pc1
      <3>8. b = [a EXCEPT !.seen = S, !.pathC = pc1]
        BY <3>1 DEF pc1
      <3>9. /\ b \in WalkState /\ b.c = c /\ b.seen = S /\ b.pathC = pc1 /\ b.out = a.out
            /\ b.missed = a.missed /\ b.done = a.done /\ b.asserting = a.asserting
        BY ONLY <1>1, <2>3, <3>8, <3>7 DEF WalkState
      <3>5. /\ b \in WalkState /\ b.c = c /\ b.seen = S /\ b.pathC = a.pathC + 1 /\ b.out = a.out
            /\ b.missed = a.missed /\ b.done = a.done /\ b.asserting = a.asserting
        BY <3>9 DEF pc1
      <3>6. Analysing(b)
        BY <1>1, <2>2, <3>3, <3>4, <3>5 DEF Analysing
      <3> QED BY <2>1, <3>5, <3>6 DEF MetTo, S, b
    <2>5. CASE ~(LevelOf(c, q) >= D)
      <3>1. b = [a EXCEPT !.seen = S, !.out = Append(a.out, q)]
        BY <1>4, <2>5 DEF Meet
      <3>2. TopVars(c, S) = TopVars(c, a.seen)
        BY <1>2, <2>5 DEF TopVars
      <3>3. S \ TopVars(c, S) = (a.seen \ TopVars(c, a.seen)) \cup {v}
        BY <1>2, <2>5, <3>2 DEF TopVars
      <3>4. /\ Append(a.out, q) \in Seq(Lit) /\ Range(Append(a.out, q)) = Range(a.out) \cup {q}
            /\ Distinct(a.out) /\ q \notin Range(a.out) => Distinct(Append(a.out, q))
        BY <1>1, AppendFacts
      <3>5. ASSUME ~a.missed
            PROVE  /\ Distinct(Append(a.out, q))
                   /\ Range(Append(a.out, q)) = FalseLits(c, S \ TopVars(c, S))
        <4>1. Distinct(a.out) /\ Range(a.out) = FalseLits(c, a.seen \ TopVars(c, a.seen))
          BY <3>5 DEF Analysing
        <4>2. q \notin Range(a.out)
          BY <1>4, <4>1 DEF FalseLits
        <4>3. ASSUME NEW x \in Lit, -x \in c.assigns, VarOf(x) = v PROVE x = q
          <5>1. x = q \/ x = -q
            BY <4>3, LitFacts
          <5> QED BY <1>2, <4>3, <5>1, LitFacts
        <4>4. FalseLits(c, S \ TopVars(c, S)) = FalseLits(c, a.seen \ TopVars(c, a.seen)) \cup {q}
          BY <3>3, <4>3 DEF FalseLits
        <4> QED BY <3>4, <4>1, <4>2, <4>4
      <3> DEFINE o == Append(a.out, q)
      <3> HIDE DEF S, b, o
      <3>6. /\ b \in WalkState /\ b.c = c /\ b.seen = S /\ b.pathC = a.pathC /\ b.out = o
            /\ b.missed = a.missed /\ b.done = a.done /\ b.asserting = a.asserting
        BY <1>1, <2>3, <3>1, <3>4 DEF WalkState, o
      <3>7. Analysing(b)
        BY <1>1, <2>2, <3>2, <3>5, <3>6 DEF Analysing, o
      <3> QED BY <2>1, <3>6, <3>7 DEF MetTo, S, b
    <2> QED BY <2>4, <2>5
  <1> QED BY <1>3, <1>4

LEMMA MeetAllGood ==
    ASSUME NEW a, NEW s, Analysing(a), s \in Seq(Lit), \A q \in Range(s) : -q \in a.c.assigns
    PROVE  MetTo(a, Range(s), MeetAll(a, s))
  <1> DEFINE n == Len(s)
             C(i) == {s[j] : j \in 1..i}
  <1>1. PICK f : /\ f[0] = a /\ MeetAll(a, s) = f[Len(s)]
                 /\ \A i \in 1..Len(s) : f[i] = Meet(f[i - 1], s[i])
    BY MeetTurns
  <1>2. n \in Nat /\ Range(s) = C(n) /\ \A i \in 1..n : s[i] \in Lit /\ s[i] \in Range(s)
    <2>1. \A x : x \in Range(s) <=> \E i \in 1..Len(s) : s[i] = x
      BY RangeFacts
    <2>2. Range(s) = C(n)
      BY <2>1
    <2> QED BY <2>2, RangeFacts
  <1> DEFINE T == {i \in 0..n : MetTo(a, C(i), f[i])}
  <1>3. 0 \in T
    <2>1. C(0) = {}
      OBVIOUS
    <2>2. MetTo(a, {}, a)
      BY DEF MetTo
    <2>3. MetTo(a, C(0), f[0])
      BY <1>1, <2>1, <2>2
    <2> HIDE DEF C, n
    <2> QED BY <1>2, <2>3
  <1>4. ASSUME NEW i \in 1..n, i - 1 \in T PROVE i \in T
    <2>1. MetTo(a, C(i - 1), f[i - 1]) /\ f[i] = Meet(f[i - 1], s[i])
      BY <1>1, <1>4
    <2>2. f[i - 1].c = a.c /\ Analysing(f[i - 1])
      BY <2>1 DEF MetTo
    <2>3. s[i] \in Lit /\ -s[i] \in f[i - 1].c.assigns
      BY <1>2, <2>2
    <2>4. MetTo(f[i - 1], {s[i]}, f[i])
      BY <2>1, <2>2, <2>3, MeetStep
    <2>5. C(i) = C(i - 1) \cup {s[i]}
      <3>1. \A j : j \in 1..i <=> (j \in 1..(i - 1) \/ j = i)
        BY <1>2
      <3> QED BY <3>1
    <2> HIDE DEF C
    <2>6. MetTo(a, C(i), f[i])
      BY <2>1, <2>4, <2>5 DEF MetTo
    <2> QED BY <1>4, <2>6
  <1>6. n \in Nat
    BY <1>2
  <1> HIDE DEF T, n, C
  <1>7. \A i \in 0..n : i \in T
    BY ONLY <1>6, <1>3, <1>4, UpTo
  <1>5. n \in T
    BY <1>6, <1>7
  <1>8. MetTo(a, C(n), f[n])
    BY <1>5 DEF T
  <1>9. Range(s) = C(n) /\ MeetAll(a, s) = f[n]
    BY <1>1, <1>2 DEF n
  <1> QED BY ONLY <1>8, <1>9

-----------------------------------------------------------------------------
\* The state once p, the k-th literal of the trail, is taken from those still
\* to be visited; e is the solver with its reason built.
Taken(a, e, p, s) ==
    /\ s \in WalkState /\ s.c = e /\ s.seen = a.seen \ {VarOf(p)} /\ s.pathC = a.pathC - 1
    /\ s.out = a.out /\ s.asserting = -p /\ s.done = (a.pathC = 1)
    /\ s.missed \in {a.missed, TRUE}

LEMMA VisitCases ==
    ASSUME NEW lemmas, NEW a, a \in WalkState, NEW p, p \in Lit,
           ~(a.done \/ VarOf(p) \notin a.seen \/ LevelOf(a.c, p) < DecisionLevel(a.c)),
           NEW e, e = Explained(a.c, p, lemmas), e \in Core,
           LevelOf(e, p) < DecisionLevel(e) => LevelOf(e, p) = 0
    PROVE  \E s : /\ Taken(a, e, p, s)
                  /\ \/ LevelOf(e, p) < DecisionLevel(e) /\ s.missed /\ Visit(lemmas, a, p) = s
                     \/ /\ ~(LevelOf(e, p) < DecisionLevel(e)) /\ s.missed = a.missed
                        /\ Visit(lemmas, a, p) = IF s.done THEN s ELSE Resolve(s, p)
  <1> DEFINE b == [a EXCEPT !.c = e]
             next == [b EXCEPT !.seen = @ \ {VarOf(p)}, !.pathC = @ - 1,
                               !.asserting = -p, !.done = a.pathC = 1]
  <1>1. Visit(lemmas, a, p) = IF LevelOf(b.c, p) < DecisionLevel(b.c) THEN Relevelled(b, p)
                              ELSE IF next.done THEN next ELSE Resolve(next, p)
    BY DEF Visit
  <1> DEFINE S == a.seen \ {VarOf(p)}
             n == a.pathC - 1
             dn == (a.pathC = 1)
             as == -p
  <1>2. S \subseteq Var /\ n \in Int /\ dn \in BOOLEAN /\ as \in Int /\ a.pathC \in Int
        /\ a.out \in Seq(Lit) /\ a.missed \in BOOLEAN
    BY LitFacts DEF WalkState
  <1>6. b = [c |-> e, seen |-> a.seen, pathC |-> a.pathC, out |-> a.out, asserting |-> a.asserting,
             missed |-> a.missed, done |-> a.done]
    BY DEF WalkState
  <1>7. b.c = e /\ b.seen = a.seen /\ b.pathC = a.pathC /\ b.out = a.out
    BY <1>6
  <1>8. next = [b EXCEPT !.seen = S, !.pathC = n, !.asserting = as, !.done = dn]
    BY <1>7
  <1>3. b.c = e /\ next = [c |-> e, seen |-> S, pathC |-> n, out |-> a.out, asserting |-> as,
                           missed |-> a.missed, done |-> dn]
    <2> HIDE DEF S, n, as, dn, next, b
    <2> QED BY ONLY <1>6, <1>7, <1>8
  <1>4. CASE LevelOf(e, p) < DecisionLevel(e)
    <2> DEFINE s == [c |-> e, seen |-> S, pathC |-> n, out |-> a.out, asserting |-> as,
                     missed |-> TRUE, done |-> dn]
    <2>1. LevelOf(e, p) = 0
      BY <1>4
    <2>6. Relevelled(b, p) = [b EXCEPT !.out = a.out, !.seen = S, !.pathC = n, !.missed = TRUE,
                                       !.asserting = as, !.done = dn]
      <3>1. Relevelled(b, p)
              = [b EXCEPT !.out = IF LevelOf(b.c, p) > 0 THEN Append(b.out, -p) ELSE b.out,
                          !.seen = b.seen \ {VarOf(p)}, !.pathC = b.pathC - 1, !.missed = TRUE,
                          !.asserting = -p, !.done = b.pathC = 1]
        <4> HIDE DEF b
        <4> QED BY DEF Relevelled
      <3>2. (IF LevelOf(b.c, p) > 0 THEN Append(b.out, -p) ELSE b.out) = a.out
        <4>1. ~(LevelOf(b.c, p) > 0)
          BY <2>1, <1>7
        <4> HIDE DEF b
        <4> QED BY <4>1, <1>7
      <3>3. b.seen \ {VarOf(p)} = S /\ b.pathC - 1 = n /\ (b.pathC = 1) = dn /\ -p = as
        BY <1>7
      <3> HIDE DEF b, S, n, dn, as
      <3> QED BY ONLY <3>1, <3>2, <3>3
    <2>2. Relevelled(b, p) = s
      <3> HIDE DEF S, n, as, dn, next, b
      <3> QED BY ONLY <1>6, <2>6
    <2>3. Visit(lemmas, a, p) = s
      BY <1>1, <1>3, <1>4, <2>2
    <2>4. s \in WalkState
      <3> HIDE DEF S, n, dn, as
      <3> QED BY <1>2 DEF WalkState
    <2>5. Taken(a, e, p, s) /\ s.missed
      BY <2>4 DEF Taken
    <2> HIDE DEF s
    <2> QED BY <1>4, <2>3, <2>5
  <1>5. CASE ~(LevelOf(e, p) < DecisionLevel(e))
    <2>1. Visit(lemmas, a, p) = IF next.done THEN next ELSE Resolve(next, p)
      BY <1>1, <1>3, <1>5
    <2>4. next \in WalkState
      <3> HIDE DEF S, n, dn, as, next
      <3> QED BY <1>2, <1>3 DEF WalkState
    <2>5. Taken(a, e, p, next) /\ next.missed = a.missed
      <3> HIDE DEF next
      <3> QED BY <1>3, <2>4 DEF Taken
    <2> HIDE DEF next
    <2> QED BY <1>5, <2>1, <2>5
  <1> QED BY <1>4, <1>5

\* What explaining the n-th literal leaves of the levels.
LEMMA ExplainedLevels ==
    ASSUME NEW c, NEW n, NEW lemmas, NEW M, NEW e, c \in Core, Good(c, lemmas), n \in 1..Len(c.trail),
           ExplainedTo(c, n, lemmas, M, e)
    PROVE  /\ e \in Core /\ Good(e, lemmas) /\ DecisionLevel(e) = DecisionLevel(c)
           /\ c.trail[n] \in Lit
           /\ \A v \in Var : e.level[v] = c.level[v] \/ (v = VarOf(c.trail[n]) /\ e.level[v] = 0)
           /\ \A q \in Lit : LevelOf(e, q) = LevelOf(c, q) \/ LevelOf(e, q) = 0
           /\ \A q \in Lit : VarOf(q) # VarOf(c.trail[n]) =>
                LevelOf(e, q) = LevelOf(c, q) /\ ReasonOf(e, q) = ReasonOf(c, q)
  <1> DEFINE p == c.trail[n]
  <1>1. p \in Lit
    BY CoreFields
  <1>2. e \in Core /\ Good(e, lemmas) /\ DecisionLevel(e) = DecisionLevel(c)
    BY DEF ExplainedTo, Steps, DecisionLevel
  <1>3. LevelOf(e, p) = LevelOf(c, p) \/ LevelOf(e, p) = 0
    BY DEF ExplainedTo
  <1>4. \A q \in Lit : VarOf(q) # VarOf(p) =>
          LevelOf(e, q) = LevelOf(c, q) /\ ReasonOf(e, q) = ReasonOf(c, q)
    <2>1. ASSUME NEW q \in Lit, VarOf(q) # VarOf(p) PROVE q # p /\ q # -p
      BY <1>1, <2>1, LitFacts
    <2> QED BY <2>1 DEF ExplainedTo
  <1>5. ASSUME NEW v \in Var PROVE v \in Lit /\ VarOf(v) = v
    BY TrailAssumption, <1>5 DEF Var, Lit, VarOf
  <1>6. ASSUME NEW v \in Var
        PROVE  e.level[v] = c.level[v] \/ (v = VarOf(p) /\ e.level[v] = 0)
    <2>1. CASE v = VarOf(p)
      BY <1>3, <2>1 DEF LevelOf
    <2>2. CASE v # VarOf(p)
      <3>1. LevelOf(e, v) = LevelOf(c, v)
        BY <1>4, <1>5, <2>2
      <3> QED BY <1>5, <3>1 DEF LevelOf
    <2> QED BY <2>1, <2>2
  <1>7. ASSUME NEW q \in Lit PROVE LevelOf(e, q) = LevelOf(c, q) \/ LevelOf(e, q) = 0
    BY <1>6, LitFacts DEF LevelOf
  <1> QED BY <1>1, <1>2, <1>4, <1>6, <1>7

LEMMA TakenGood ==
    ASSUME NEW a, NEW k, NEW lemmas, NEW M, NEW e, NEW s, Analysing(a), Good(a.c, lemmas),
           k \in 1..Len(a.c.trail), ExplainedTo(a.c, k, lemmas, M, e), Taken(a, e, a.c.trail[k], s),
           VarOf(a.c.trail[k]) \in a.seen, ~(LevelOf(a.c, a.c.trail[k]) < DecisionLevel(a.c))
    PROVE  /\ Analysing(s)
           /\ TopVars(e, s.seen) = TopVars(a.c, a.seen) \ {VarOf(a.c.trail[k])}
           /\ VarOf(a.c.trail[k]) \in TopVars(a.c, a.seen)
           /\ s.done <=> s.pathC = 0
  <1> DEFINE c == a.c
             p == c.trail[k]
             v == VarOf(p)
             O == TopVars(c, a.seen)
             P == TopVars(e, s.seen)
  <1>1. /\ a \in WalkState /\ s \in WalkState /\ c \in Core /\ a.seen \subseteq Var /\ a.pathC \in Int
        /\ a.missed \in BOOLEAN /\ s.c = e /\ s.seen = a.seen \ {v}
        /\ s.pathC = a.pathC - 1 /\ s.out = a.out /\ s.done = (a.pathC = 1) /\ s.missed \in {a.missed, TRUE}
    BY WalkStateFields DEF Analysing, Taken
  <1>2. IsFiniteSet(O)
    <2>1. O \ {} = O
      OBVIOUS
    <2> QED BY <1>1, <2>1, WalkStateFields
  <1>3. /\ e \in Core /\ Good(e, lemmas) /\ DecisionLevel(e) = DecisionLevel(c) /\ p \in Lit
        /\ \A u \in Var : e.level[u] = c.level[u] \/ (u = v /\ e.level[u] = 0)
    BY <1>1, ExplainedLevels
  <1>4. v \in Var /\ LevelOf(c, p) = c.level[v] /\ LevelOf(c, p) \in Nat /\ DecisionLevel(c) \in Nat
    BY <1>1, <1>3, LitFacts, CoreFields DEF LevelOf
  <1>5. v \in O
    BY <1>4 DEF TopVars
  <1>6. P = O \ {v}
    BY <1>1, <1>3 DEF TopVars
  <1>7. Cardinality(P) = Cardinality(O) - 1
    BY <1>2, <1>5, <1>6, FS_RemoveElement
  <1>8. s.pathC = Cardinality(P)
    BY <1>1, <1>7 DEF Analysing
  <1>9. s.seen \ P = a.seen \ O
    BY <1>1, <1>5, <1>6
  <1>10. TrailOK(e) /\ e.assigns = c.assigns
    BY <1>3 DEF Good, ExplainedTo
  <1>11. \A u \in s.seen : e.level[u] > 0 /\ \E q \in e.assigns : VarOf(q) = u
    BY <1>1, <1>3, <1>10 DEF Analysing
  <1>12. FalseLits(e, s.seen \ P) = FalseLits(c, a.seen \ O)
    BY <1>9, <1>10 DEF FalseLits
  <1>13. ~s.missed => ~a.missed
    BY <1>1
  <1>14. Analysing(s)
    BY <1>1, <1>8, <1>10, <1>11, <1>12, <1>13 DEF Analysing
  <1>15. s.done <=> s.pathC = 0
    <2> DEFINE x == a.pathC
    <2>1. x \in Int /\ s.done = (x = 1) /\ s.pathC = x - 1
      BY <1>1
    <2> HIDE DEF x
    <2>2. x = 1 <=> x - 1 = 0
      BY <2>1
    <2> QED BY <2>1, <2>2
  <1> QED BY <1>1, <1>5, <1>6, <1>14, <1>15

-----------------------------------------------------------------------------
\* What the walk leaves alone; a literal may go to level 0.
Keeps(c, d) ==
    /\ d.trail = c.trail /\ d.trail_lim = c.trail_lim /\ d.assigns = c.assigns
    /\ d.ok = c.ok /\ d.delayed = c.delayed
    /\ Live(c) \subseteq Live(d) /\ \A k \in Live(c) : Lits(d, k) = Lits(c, k)
    /\ \A q \in Lit : LevelOf(d, q) = LevelOf(c, q) \/ LevelOf(d, q) = 0

LEMMA KeepsTwice ==
    ASSUME NEW b, NEW c, NEW d, Keeps(b, c), Keeps(c, d) PROVE Keeps(b, d)
  <1>1. \A q \in Lit : LevelOf(d, q) = LevelOf(b, q) \/ LevelOf(d, q) = 0
    BY DEF Keeps
  <1>2. Live(b) \subseteq Live(d) /\ \A k \in Live(b) : Lits(d, k) = Lits(b, k)
    BY DEF Keeps
  <1> QED BY <1>1, <1>2 DEF Keeps

LEMMA ExplainedKeeps ==
    ASSUME NEW c, NEW n, NEW lemmas, NEW M, NEW e, c \in Core, Good(c, lemmas), n \in 1..Len(c.trail),
           ExplainedTo(c, n, lemmas, M, e)
    PROVE  Keeps(c, e)
  <1>1. \A q \in Lit : LevelOf(e, q) = LevelOf(c, q) \/ LevelOf(e, q) = 0
    BY ExplainedLevels
  <1> QED BY <1>1 DEF Keeps, ExplainedTo

\* The literals of a clause at the decision level are of variables in V.
TopIn(c, cr, V) == \A q \in Lits(c, cr) : Top(c, q) => VarOf(q) \in V
Lowest(c, n, W) == \A k \in 1..(n - 1) : VarOf(c.trail[k]) \notin W
\* The reasons of W are built, and lead to V; the lowest one need not, in the end.
Visited(c, W, V, last) ==
    \A n \in 1..Len(c.trail) : VarOf(c.trail[n]) \in W =>
        LET r == ReasonOf(c, c.trail[n])
        IN r >= 0 /\ (r > 0 => TopIn(c, r, V) \/ (last /\ Lowest(c, n, W)))
\* analyze meets no reason that is not built.
Visitable(c, cr) == \E V : TopIn(c, cr, V) /\ Visited(c, V, V, TRUE)

\* What was visited above the k-th literal.
Recorded(a, cr, k) ==
    \E W : LET V == W \cup TopVars(a.c, a.seen)
           IN /\ \A n \in 1..k : VarOf(a.c.trail[n]) \notin W
              /\ TopIn(a.c, cr, V) /\ Visited(a.c, W, V, a.done)
\* Either the theory has everything up to the k-th literal, or no reason need be built.
Known(c, cr, a, k) ==
    \/ Covered(a.c, k) /\ Recorded(a, cr, k)
    \/ /\ a.c = c /\ ~a.missed
       /\ \E V : TopVars(c, a.seen) \subseteq V /\ Visited(c, V, V, TRUE)
OpenBelow(a, k) == \A v \in TopVars(a.c, a.seen) : \E n \in 1..k : VarOf(a.c.trail[n]) = v
Asserted(a) == a.asserting \in Lit /\ -a.asserting \in a.c.assigns /\ Top(a.c, a.asserting)
WalkInv(c, cr, lemmas, M, a, k) ==
    /\ Analysing(a) /\ Steps(c, a.c, lemmas, M) /\ Keeps(c, a.c) /\ OpenBelow(a, k)
    /\ a.done <=> a.pathC = 0
    /\ a.done /\ ~a.missed => Asserted(a)
    /\ Known(c, cr, a, k)
AtWalk(c, cr, lemmas, M) ==
    /\ c \in Core /\ Good(c, lemmas) /\ Honest(lemmas, M) /\ DecisionLevel(c) > 0
    /\ AllFalse(c, cr)

LEMMA EmptyOpen ==
    ASSUME NEW a, Analysing(a)
    PROVE  a.pathC = 0 <=> TopVars(a.c, a.seen) = {}
  <1> DEFINE O == TopVars(a.c, a.seen)
  <1>1. IsFiniteSet(O)
    <2>1. O \ {} = O
      OBVIOUS
    <2> QED BY <2>1, WalkStateFields DEF Analysing
  <1>2. Cardinality(O) = 0 <=> O = {}
    BY <1>1, FS_EmptySet
  <1> QED BY <1>2 DEF Analysing

\* Nothing is done at a literal that is not met.
LEMMA VisitSkips ==
    ASSUME NEW c, NEW cr, NEW lemmas, NEW M, NEW a, NEW k, k \in 1..Len(a.c.trail),
           WalkInv(c, cr, lemmas, M, a, k), a.c \in Core,
           a.done \/ VarOf(a.c.trail[k]) \notin a.seen \/ LevelOf(a.c, a.c.trail[k]) < DecisionLevel(a.c)
    PROVE  WalkInv(c, cr, lemmas, M, a, k - 1)
  <1> DEFINE v == VarOf(a.c.trail[k])
  <1>1. v \notin TopVars(a.c, a.seen)
    <2>1. CASE a.done
      BY <2>1, EmptyOpen DEF WalkInv
    <2>2. CASE ~a.done
      <3>1. a.c.level[v] \in Nat /\ DecisionLevel(a.c) \in Nat
        <4>1. a.c.trail[k] \in Lit /\ a.c.level \in [Var -> Nat] /\ DecisionLevel(a.c) \in Nat
          BY CoreFields
        <4>2. v \in Var
          BY <4>1, LitFacts
        <4> QED BY <4>1, <4>2
      <3> QED BY <2>2, <3>1 DEF TopVars, LevelOf
    <2> QED BY <2>1, <2>2
  <1>2. \A n : n \in 1..k <=> (n \in 1..(k - 1) \/ n = k)
    OBVIOUS
  <1>3. OpenBelow(a, k - 1)
    BY <1>1, <1>2 DEF WalkInv, OpenBelow
  <1>4. Covered(a.c, k) => Covered(a.c, k - 1)
    BY <1>2 DEF Covered
  <1>5. Recorded(a, cr, k) => Recorded(a, cr, k - 1)
    BY <1>2 DEF Recorded
  <1>6. Known(c, cr, a, k - 1)
    BY <1>4, <1>5 DEF WalkInv, Known
  <1> QED BY <1>3, <1>6 DEF WalkInv

\* What was visited stays so when the reason of another literal is built.
LEMMA VisitedFrame ==
    ASSUME NEW c, NEW k, NEW lemmas, NEW M, NEW e, c \in Core, Good(c, lemmas), k \in 1..Len(c.trail),
           ExplainedTo(c, k, lemmas, M, e), DecisionLevel(c) > 0,
           NEW W, NEW V, NEW U, Visited(c, W, V, FALSE), VarOf(c.trail[k]) \notin W,
           \A u \in V : u \in U \/ (u = VarOf(c.trail[k]) /\ LevelOf(e, c.trail[k]) = 0)
    PROVE  Visited(e, W, U, FALSE)
  <1>1. /\ DecisionLevel(e) = DecisionLevel(c) /\ e.trail = c.trail /\ e \in Core
        /\ \A q \in Lit : LevelOf(e, q) = LevelOf(c, q) \/ LevelOf(e, q) = 0
        /\ \A q \in Lit : VarOf(q) # VarOf(c.trail[k]) => ReasonOf(e, q) = ReasonOf(c, q)
        /\ c.trail[k] \in Lit
    <2>1. e.trail = c.trail
      BY DEF ExplainedTo
    <2> QED BY ONLY c \in Core, Good(c, lemmas), k \in 1..Len(c.trail), ExplainedTo(c, k, lemmas, M, e),
               <2>1, ExplainedLevels
  <1>2. SUFFICES ASSUME NEW n \in 1..Len(c.trail), VarOf(c.trail[n]) \in W
                 PROVE  LET r == ReasonOf(e, c.trail[n]) IN r >= 0 /\ (r > 0 => TopIn(e, r, U))
    BY <1>1 DEF Visited
  <1> DEFINE r == ReasonOf(c, c.trail[n])
  <1>3. c.trail[n] \in Lit
    BY CoreFields
  <1>4. ReasonOf(e, c.trail[n]) = r
    BY <1>1, <1>2, <1>3
  <1>5. r >= 0 /\ (r > 0 => TopIn(c, r, V))
    BY <1>2 DEF Visited
  <1>6. ASSUME r > 0, NEW q \in Lits(e, r), Top(e, q) PROVE VarOf(q) \in U
    <2>1. r \in Live(c)
      BY <1>6 DEF Good, CausesOK, CauseOK, ByClause
    <2>2. Lits(e, r) = Lits(c, r) /\ q \in Lit
      BY <2>1, <1>6, ClauseFacts DEF ExplainedTo, Good
    <2>3. LevelOf(e, q) # 0 /\ LevelOf(e, q) = LevelOf(c, q)
      <3>1. LevelOf(e, q) \in Nat /\ DecisionLevel(c) \in Nat /\ LevelOf(e, q) >= DecisionLevel(c)
        BY <1>1, <1>6, <2>2, CoreFields DEF Top
      <3> QED BY <1>1, <2>2, <3>1
    <2>4. VarOf(q) \in V
      BY <1>1, <1>5, <1>6, <2>2, <2>3 DEF TopIn, Top
    <2>5. LevelOf(e, c.trail[k]) = 0 => VarOf(q) # VarOf(c.trail[k])
      BY <2>3 DEF LevelOf
    <2> QED BY <2>4, <2>5
  <1> QED BY <1>4, <1>5, <1>6 DEF TopIn

-----------------------------------------------------------------------------
Met(a, k) ==
    ~(a.done \/ VarOf(a.c.trail[k]) \notin a.seen \/ LevelOf(a.c, a.c.trail[k]) < DecisionLevel(a.c))
\* The k-th literal is taken: what is known before, and the solver and state after.
Before(c, cr, lemmas, M, a, k) ==
    /\ AtWalk(c, cr, lemmas, M) /\ WalkInv(c, cr, lemmas, M, a, k)
    /\ k \in 1..Len(a.c.trail) /\ Met(a, k)

LEMMA BeforeFacts ==
    ASSUME NEW c, NEW cr, NEW lemmas, NEW M, NEW a, NEW k, Before(c, cr, lemmas, M, a, k)
    PROVE  LET p == a.c.trail[k]
           IN /\ a.c \in Core /\ Good(a.c, lemmas) /\ DecisionLevel(a.c) > 0 /\ p \in Lit
              /\ a \in WalkState /\ Analysing(a)
              /\ p \in a.c.assigns /\ LevelOf(a.c, p) > 0 /\ VarOf(p) \in TopVars(a.c, a.seen)
              /\ VarOf(p) \in a.seen /\ ~a.done
              /\ LevelOf(a.c, p) >= DecisionLevel(a.c)
              /\ \A n \in 1..(k - 1) : VarOf(a.c.trail[n]) # VarOf(p)
              /\ k \in 1..Len(a.c.trail) /\ k - 1 \in Nat
  <1> DEFINE p == a.c.trail[k]
  <1>1. a.c \in Core /\ Good(a.c, lemmas) /\ DecisionLevel(a.c) > 0 /\ a \in WalkState /\ Analysing(a)
    BY DEF Before, WalkInv, AtWalk, Steps, Keeps, DecisionLevel, Analysing
  <1>2. k \in 1..Len(a.c.trail) /\ Len(a.c.trail) \in Nat
    BY <1>1, CoreFields DEF Before
  <1>3. p \in Lit /\ p \in a.c.assigns /\ LevelOf(a.c, p) \in Nat /\ DecisionLevel(a.c) \in Nat
    <2>1. TrailOK(a.c)
      BY <1>1 DEF Good
    <2>2. p \in a.c.assigns /\ p \in Lit
      BY <1>1, <1>2, <2>1, AssignedFacts
    <2> HIDE DEF p
    <2> QED BY <1>1, <2>2, CoreFields
  <1>4. VarOf(p) \in a.seen /\ ~a.done /\ LevelOf(a.c, p) >= DecisionLevel(a.c)
    BY <1>3 DEF Before, Met
  <1>5. VarOf(p) \in TopVars(a.c, a.seen)
    BY <1>4 DEF TopVars, LevelOf
  <1>6. \A n \in 1..(k - 1) : VarOf(a.c.trail[n]) # VarOf(p)
    <2>1. \A n \in 1..(k - 1) : n \in 1..Len(a.c.trail) /\ n # k
      BY <1>2
    <2> QED BY <1>1, <1>2, <2>1, AssignedFacts DEF Good
  <1> QED BY <1>1, <1>2, <1>3, <1>4, <1>5, <1>6

\* The reason is there, or the theory can build it.
LEMMA Explainable ==
    ASSUME NEW c, NEW cr, NEW lemmas, NEW M, NEW a, NEW k, Before(c, cr, lemmas, M, a, k)
    PROVE  /\ ReasonOf(a.c, a.c.trail[k]) >= 0 \/ a.c.trail[k] \in Held(a.c)
           /\ \/ Covered(a.c, k) /\ Recorded(a, cr, k)
              \/ (a.c = c /\ ~a.missed /\ ReasonOf(a.c, a.c.trail[k]) >= 0)
  <1> DEFINE p == a.c.trail[k]
  <1>1. /\ a.c \in Core /\ Good(a.c, lemmas) /\ p \in Lit /\ VarOf(p) \in TopVars(a.c, a.seen)
        /\ k \in 1..Len(a.c.trail) /\ Honest(lemmas, M)
    BY BeforeFacts DEF Before, AtWalk
  <1>2. CASE Covered(a.c, k) /\ Recorded(a, cr, k)
    <2>1. ASSUME ReasonOf(a.c, p) < 0 PROVE p \in Held(a.c)
      <3> DEFINE r == ReasonOf(a.c, p)
      <3>1. -r \in DOMAIN lemmas /\ p \in Range(lemmas[-r])
        BY <1>1, <2>1 DEF Good, CausesOK, CauseOK, ByLemma
      <3>2. HasTheory(p)
        BY <1>1, <3>1 DEF Honest
      <3>3. k \in 1..k
        BY <1>1
      <3> QED BY <1>2, <3>2, <3>3 DEF Covered
    <2>2. ReasonOf(a.c, p) \in Int
      BY <1>1, CoreFields
    <2> HIDE DEF p
    <2>3. ReasonOf(a.c, p) >= 0 \/ p \in Held(a.c)
      BY <2>1, <2>2
    <2> QED BY <1>2, <2>3 DEF p
  <1>3. CASE /\ a.c = c /\ ~a.missed
             /\ \E V : TopVars(c, a.seen) \subseteq V /\ Visited(c, V, V, TRUE)
    <2>1. ReasonOf(a.c, p) >= 0
      BY <1>1, <1>3 DEF Visited
    <2> QED BY <1>3, <2>1
  <1> QED BY <1>2, <1>3 DEF Before, WalkInv, Known

\* What is so of the state once p is taken.
After(c, cr, lemmas, M, a, k, e, s) ==
    LET v == VarOf(a.c.trail[k])
    IN /\ e \in Core /\ Good(e, lemmas) /\ Steps(c, e, lemmas, M) /\ Keeps(c, e) /\ Keeps(a.c, e)
       /\ Analysing(s) /\ s \in WalkState /\ s.c = e /\ s.asserting = -a.c.trail[k]
       /\ DecisionLevel(e) = DecisionLevel(a.c) /\ e.trail = a.c.trail
       /\ TopVars(e, s.seen) = TopVars(a.c, a.seen) \ {v}
       /\ s.seen = a.seen \ {v}
       /\ OpenBelow(s, k - 1) /\ (s.done <=> s.pathC = 0)
       /\ Covered(a.c, k) => Covered(e, k - 1)
       /\ ReasonOf(a.c, a.c.trail[k]) >= 0 => e = a.c
       /\ ReasonOf(e, a.c.trail[k]) >= 0

LEMMA AfterFacts ==
    ASSUME NEW c, NEW cr, NEW lemmas, NEW M, NEW a, NEW k, Before(c, cr, lemmas, M, a, k),
           NEW e, ExplainedTo(a.c, k, lemmas, M, e), NEW s, Taken(a, e, a.c.trail[k], s)
    PROVE  After(c, cr, lemmas, M, a, k, e, s)
  <1> DEFINE p == a.c.trail[k]
             v == VarOf(p)
  <1>1. /\ a.c \in Core /\ Good(a.c, lemmas) /\ p \in Lit /\ v \in TopVars(a.c, a.seen)
        /\ k \in 1..Len(a.c.trail) /\ k - 1 \in Nat /\ v \in a.seen /\ LevelOf(a.c, p) > 0
        /\ ~(LevelOf(a.c, p) < DecisionLevel(a.c)) /\ Analysing(a)
    BY BeforeFacts DEF Before, Met
  <1>2. /\ Analysing(s) /\ TopVars(e, s.seen) = TopVars(a.c, a.seen) \ {v} /\ (s.done <=> s.pathC = 0)
    <2>1. Analysing(a) /\ Good(a.c, lemmas) /\ k \in 1..Len(a.c.trail)
      BY <1>1
    <2>2. VarOf(a.c.trail[k]) \in a.seen
      BY <1>1
    <2>3. ~(LevelOf(a.c, a.c.trail[k]) < DecisionLevel(a.c))
      BY <1>1
    <2>4. /\ Analysing(s)
          /\ TopVars(e, s.seen) = TopVars(a.c, a.seen) \ {VarOf(a.c.trail[k])}
          /\ VarOf(a.c.trail[k]) \in TopVars(a.c, a.seen)
          /\ s.done <=> s.pathC = 0
      BY ONLY <2>1, <2>2, <2>3, ExplainedTo(a.c, k, lemmas, M, e), Taken(a, e, a.c.trail[k], s), TakenGood
    <2> QED BY ONLY <2>4
  <1>3. /\ e \in Core /\ Good(e, lemmas) /\ DecisionLevel(e) = DecisionLevel(a.c) /\ Keeps(a.c, e)
    BY <1>1, ExplainedLevels, ExplainedKeeps
  <1>4. Keeps(c, e) /\ Steps(c, e, lemmas, M) /\ e.trail = a.c.trail
    BY <1>3, KeepsTwice, StepsTwice DEF Before, WalkInv, ExplainedTo
  <1>5. OpenBelow(s, k - 1)
    <2>1. \A n : n \in 1..k <=> (n \in 1..(k - 1) \/ n = k)
      BY <1>1
    <2>2. s.c = e /\ OpenBelow(a, k)
      BY DEF Taken, Before, WalkInv
    <2> QED BY <1>2, <1>4, <2>1, <2>2 DEF OpenBelow
  <1>6. Covered(a.c, k) => Covered(e, k - 1)
    <2>1. k \in 0..k /\ \A n \in 1..(k - 1) : n \in 1..k
      BY <1>1
    <2>2. Covered(a.c, k) => Covered(e, k)
      BY <1>1, <2>1 DEF ExplainedTo
    <2> QED BY <2>1, <2>2 DEF Covered
  <1>7. s \in WalkState /\ s.c = e /\ s.asserting = -p /\ s.seen = a.seen \ {v}
    BY DEF Taken
  <1>8. (ReasonOf(a.c, p) >= 0 => e = a.c) /\ ReasonOf(e, p) >= 0
    BY DEF ExplainedTo
  <1> QED BY <1>2, <1>3, <1>4, <1>5, <1>6, <1>7, <1>8 DEF After

\* What was visited above, seen from the solver with the reason of p built.
LEMMA RecordAfter ==
    ASSUME NEW c, NEW cr, NEW lemmas, NEW M, NEW a, NEW k, Before(c, cr, lemmas, M, a, k),
           NEW e, ExplainedTo(a.c, k, lemmas, M, e), NEW s, Taken(a, e, a.c.trail[k], s),
           After(c, cr, lemmas, M, a, k, e, s), Recorded(a, cr, k)
    PROVE  \E W : LET v == VarOf(a.c.trail[k])
                      O == TopVars(e, s.seen)
                      U == IF LevelOf(e, a.c.trail[k]) = 0 THEN W \cup O ELSE (W \cup {v}) \cup O
                  IN /\ \A n \in 1..k : VarOf(e.trail[n]) \notin W
                     /\ TopIn(e, cr, U) /\ Visited(e, W, U, FALSE)
  <1> DEFINE p == a.c.trail[k]
             v == VarOf(p)
             O == TopVars(e, s.seen)
  <1>1. /\ a.c \in Core /\ Good(a.c, lemmas) /\ p \in Lit /\ ~a.done /\ k \in 1..Len(a.c.trail)
        /\ DecisionLevel(a.c) > 0
    BY BeforeFacts
  <1>2. PICK W : /\ \A n \in 1..k : VarOf(a.c.trail[n]) \notin W
                 /\ TopIn(a.c, cr, W \cup TopVars(a.c, a.seen))
                 /\ Visited(a.c, W, W \cup TopVars(a.c, a.seen), FALSE)
    <2>1. a.done = FALSE
      BY <1>1, BeforeFacts DEF WalkState
    <2> QED BY <2>1 DEF Recorded
  <1> DEFINE V == W \cup TopVars(a.c, a.seen)
             U == IF LevelOf(e, p) = 0 THEN W \cup O ELSE (W \cup {v}) \cup O
  <1>3. O = TopVars(a.c, a.seen) \ {v} /\ e.trail = a.c.trail /\ DecisionLevel(e) = DecisionLevel(a.c)
        /\ Keeps(a.c, e) /\ e \in Core
    BY DEF After
  <1>4. \A u \in V : u \in U \/ (u = v /\ LevelOf(e, p) = 0)
    BY <1>3
  <1>5. v \notin W
    <2>1. k \in 1..k
      BY <1>1
    <2> QED BY <1>2, <2>1
  <1>6. Visited(e, W, U, FALSE)
    <2> HIDE DEF U, V
    <2>1. Visited(a.c, W, V, FALSE)
      BY <1>2 DEF V
    <2> QED BY <1>1, <1>4, <1>5, <2>1, VisitedFrame
  <1>7. TopIn(e, cr, U)
    <2> SUFFICES ASSUME NEW q \in Lits(e, cr), Top(e, q) PROVE VarOf(q) \in U
      BY DEF TopIn
    <2>1. cr \in Live(c) /\ c \in Core /\ DbOK(c)
      BY DEF Before, AtWalk, AllFalse, Good
    <2>2. Lits(e, cr) = Lits(a.c, cr) /\ q \in Lit
      BY <2>1, ClauseFacts DEF After, Keeps, Before, WalkInv
    <2>3. LevelOf(e, q) # 0 /\ LevelOf(e, q) = LevelOf(a.c, q)
      <3>1. LevelOf(e, q) \in Nat /\ DecisionLevel(a.c) \in Nat /\ LevelOf(e, q) >= DecisionLevel(a.c)
        BY <1>1, <1>3, <2>2, CoreFields DEF Top
      <3> QED BY <1>1, <1>3, <2>2, <3>1 DEF Keeps
    <2>4. VarOf(q) \in V
      BY <1>2, <1>3, <2>2, <2>3 DEF TopIn, Top
    <2>5. LevelOf(e, p) = 0 => VarOf(q) # v
      BY <2>3 DEF LevelOf
    <2> QED BY <1>4, <2>4, <2>5
  <1> QED BY <1>2, <1>3, <1>6, <1>7

-----------------------------------------------------------------------------
\* The level of p is corrected.
LEMMA RelevelledGood ==
    ASSUME NEW c, NEW cr, NEW lemmas, NEW M, NEW a, NEW k, Before(c, cr, lemmas, M, a, k),
           NEW e, ExplainedTo(a.c, k, lemmas, M, e), NEW s, Taken(a, e, a.c.trail[k], s),
           After(c, cr, lemmas, M, a, k, e, s), LevelOf(e, a.c.trail[k]) < DecisionLevel(e), s.missed
    PROVE  WalkInv(c, cr, lemmas, M, s, k - 1)
  <1> DEFINE p == a.c.trail[k]
             v == VarOf(p)
             O == TopVars(e, s.seen)
  <1>1. /\ a.c \in Core /\ LevelOf(a.c, p) >= DecisionLevel(a.c) /\ p \in Lit /\ k - 1 \in Nat
        /\ s.c = e /\ e.trail = a.c.trail /\ DecisionLevel(e) = DecisionLevel(a.c)
        /\ LevelOf(a.c, p) \in Nat /\ DecisionLevel(a.c) \in Nat
    BY BeforeFacts, CoreFields DEF After
  <1>2. e # a.c /\ LevelOf(e, p) = 0
    BY <1>1 DEF ExplainedTo
  <1>3. Covered(a.c, k) /\ Recorded(a, cr, k)
    BY <1>2, Explainable DEF After
  <1>4. PICK W : /\ \A n \in 1..k : VarOf(e.trail[n]) \notin W
                 /\ TopIn(e, cr, W \cup O) /\ Visited(e, W, W \cup O, FALSE)
    BY <1>2, <1>3, RecordAfter
  <1>5. Visited(e, W, W \cup O, s.done)
    BY <1>4 DEF Visited
  <1>6. \A n \in 1..(k - 1) : n \in 1..k
    BY BeforeFacts
  <1>7. Recorded(s, cr, k - 1)
    BY <1>1, <1>4, <1>5, <1>6 DEF Recorded
  <1>8. Known(c, cr, s, k - 1)
    BY <1>1, <1>3, <1>7 DEF Known, After
  <1> QED BY <1>1, <1>8 DEF WalkInv, After

\* p is the last one of the decision level.
LEMMA AssertedGood ==
    ASSUME NEW c, NEW cr, NEW lemmas, NEW M, NEW a, NEW k, Before(c, cr, lemmas, M, a, k),
           NEW e, ExplainedTo(a.c, k, lemmas, M, e), NEW s, Taken(a, e, a.c.trail[k], s),
           After(c, cr, lemmas, M, a, k, e, s), ~(LevelOf(e, a.c.trail[k]) < DecisionLevel(e)),
           s.missed = a.missed, s.done
    PROVE  WalkInv(c, cr, lemmas, M, s, k - 1)
  <1> DEFINE p == a.c.trail[k]
             v == VarOf(p)
             O == TopVars(e, s.seen)
  <1>1. /\ a.c \in Core /\ DecisionLevel(a.c) > 0 /\ p \in Lit /\ k - 1 \in Nat /\ k \in Nat /\ p \in a.c.assigns
        /\ s.c = e /\ e.trail = a.c.trail /\ DecisionLevel(e) = DecisionLevel(a.c)
        /\ e \in Core /\ e.assigns = a.c.assigns
        /\ \A n \in 1..(k - 1) : VarOf(e.trail[n]) # v
        /\ O = TopVars(a.c, a.seen) \ {v}
    BY BeforeFacts DEF After, Keeps
  <1>2. O = {}
    BY EmptyOpen DEF After
  <1>3. Asserted(s)
    <2>1. s.asserting = -p /\ -p \in Lit /\ -(-p) = p /\ LevelOf(e, -p) = LevelOf(e, p)
          /\ LevelOf(e, p) \in Nat /\ DecisionLevel(e) \in Nat
      BY <1>1, LitFacts, CoreFields DEF After
    <2>2. LevelOf(e, p) >= DecisionLevel(e)
      BY <2>1
    <2> HIDE DEF p
    <2> QED BY <1>1, <2>1, <2>2 DEF Asserted, Top
  <1>4. ASSUME Covered(a.c, k), Recorded(a, cr, k) PROVE Covered(e, k - 1) /\ Recorded(s, cr, k - 1)
    <2>1. LevelOf(e, p) # 0
      BY <1>1
    <2>6. PICK W : /\ \A n \in 1..k : VarOf(e.trail[n]) \notin W
                   /\ TopIn(e, cr, (W \cup {v}) \cup O) /\ Visited(e, W, (W \cup {v}) \cup O, FALSE)
      BY <1>4, <2>1, RecordAfter
    <2>7. (W \cup {v}) \cup O = W \cup {v}
      BY <1>2
    <2>2. /\ \A n \in 1..k : VarOf(e.trail[n]) \notin W
          /\ TopIn(e, cr, W \cup {v}) /\ Visited(e, W, W \cup {v}, FALSE)
      BY <2>6, <2>7
    <2> DEFINE X == W \cup {v}
    <2>3. \A n \in 1..(k - 1) : VarOf(e.trail[n]) \notin X
      <3>1. \A n \in 1..(k - 1) : n \in 1..k
        BY <1>1
      <3> QED BY <1>1, <2>2, <3>1
    <2>4. Visited(e, X, X, TRUE)
      <3> SUFFICES ASSUME NEW n \in 1..Len(e.trail), VarOf(e.trail[n]) \in X
                   PROVE  LET r == ReasonOf(e, e.trail[n])
                          IN r >= 0 /\ (r > 0 => TopIn(e, r, X) \/ Lowest(e, n, X))
        BY DEF Visited
      <3>1. CASE VarOf(e.trail[n]) \in W
        BY <2>2, <3>1 DEF Visited
      <3>2. CASE VarOf(e.trail[n]) = v
        <4>1. k \in 1..Len(e.trail) /\ Len(e.trail) \in Nat
          BY <1>1 DEF Before
        <4>2. n = k
          <5>1. e \in Core /\ TrailOK(e) /\ e.trail[k] = p
            BY <1>1 DEF After, Good
          <5> QED BY <3>2, <4>1, <5>1, AssignedFacts
        <4> QED BY <2>3, <4>2 DEF Lowest, After
      <3> QED BY <3>1, <3>2
    <2>5. Recorded(s, cr, k - 1)
      <3>1. X \cup O = X
        BY <1>2
      <3>2. TopIn(e, cr, X)
        BY <2>2
      <3> HIDE DEF X
      <3>3. s.done = TRUE
        BY DEF After, WalkState
      <3> QED BY <1>1, <2>3, <2>4, <3>1, <3>2, <3>3 DEF Recorded
    <2> QED BY <1>4, <2>5 DEF After
  <1>5. ASSUME a.c = c, ~a.missed, ReasonOf(a.c, p) >= 0 PROVE Known(c, cr, s, k - 1)
    <2>1. s.c = c /\ ~s.missed
      BY <1>5 DEF After
    <2>2. TopVars(c, s.seen) \subseteq {} /\ Visited(c, {}, {}, TRUE)
      BY <1>2, <1>1, <2>1 DEF Visited
    <2> QED BY <2>1, <2>2 DEF Known
  <1>6. Known(c, cr, s, k - 1)
    <2>1. CASE Covered(a.c, k) /\ Recorded(a, cr, k)
      BY <1>1, <1>4, <2>1 DEF Known
    <2>2. CASE a.c = c /\ ~a.missed /\ ReasonOf(a.c, p) >= 0
      BY <1>5, <2>2
    <2> QED BY <2>1, <2>2, Explainable
  <1> QED BY <1>1, <1>3, <1>6 DEF WalkInv, After

-----------------------------------------------------------------------------
\* The clause that is the reason of p, with others of the level still open.
LEMMA ReasonThere ==
    ASSUME NEW c, NEW cr, NEW lemmas, NEW M, NEW a, NEW k, Before(c, cr, lemmas, M, a, k),
           NEW e, NEW s, After(c, cr, lemmas, M, a, k, e, s),
           ~(LevelOf(e, a.c.trail[k]) < DecisionLevel(e)), ~s.done
    PROVE  LET p == a.c.trail[k]
               r == ReasonOf(e, p)
           IN /\ r > 0 /\ r \in Live(e) /\ e.ca[r].lits \in Seq(Lit) /\ Len(e.ca[r].lits) >= 2
              /\ Tail(e.ca[r].lits) \in Seq(Lit) /\ Range(Tail(e.ca[r].lits)) = Lits(e, r) \ {p}
              /\ p \in Lits(e, r)
              /\ \A q \in Lits(e, r) \ {p} : q \in Lit /\ -q \in e.assigns
                    /\ \E n \in 1..(k - 1) : e.trail[n] = -q
              /\ \E u \in TopVars(e, s.seen) : \E n \in 1..(k - 1) : VarOf(e.trail[n]) = u
  <1> DEFINE p == a.c.trail[k]
             r == ReasonOf(e, p)
             D == DecisionLevel(e)
             lits == e.ca[r].lits
  <1>1. /\ e \in Core /\ TrailOK(e) /\ DbOK(e) /\ CausesOK(e, lemmas) /\ e.trail = a.c.trail
        /\ p \in Lit /\ D > 0 /\ D \in Nat /\ k \in 1..Len(e.trail) /\ Len(e.trail) \in Nat /\ r >= 0
        /\ s.c = e /\ Analysing(s) /\ OpenBelow(s, k - 1) /\ k - 1 \in Nat /\ (s.done <=> s.pathC = 0)
    BY BeforeFacts, CoreFields DEF After, Good
  <1>2. LevelOf(e, p) \in Nat /\ LevelOf(e, p) = D
    <2>1. LevelOf(e, p) \in 0..D
      BY <1>1, AssignedFacts
    <2> QED BY <1>1, <2>1
  <1>3. PICK u \in TopVars(e, s.seen) : \E n \in 1..(k - 1) : VarOf(e.trail[n]) = u
    BY <1>1, EmptyOpen DEF OpenBelow
  <1>4. PICK n \in 1..(k - 1) : VarOf(e.trail[n]) = u
    BY <1>3
  <1>5. CauseOK(e, lemmas, k)
    BY <1>1 DEF CausesOK
  <1>6. r # 0
    <2> SUFFICES ASSUME r = 0 PROVE FALSE
      OBVIOUS
    <2>1. k = e.trail_lim[D] + 1
      BY <1>1, <1>2, <1>5 DEF CauseOK, Decision
    <2>2. n \in 1..Len(e.trail) /\ D \in 1..D /\ e.trail_lim[D] \in Nat
      <3> DEFINE N == Len(e.trail)
      <3>1. N \in Nat /\ k \in 1..N /\ e \in Core /\ D \in Nat /\ D > 0
        BY <1>1
      <3> HIDE DEF N, D
      <3>2. n \in 1..N /\ D \in 1..D
        BY <3>1
      <3>3. e.trail_lim[D] \in Nat
        BY <3>1, <3>2, CoreFields DEF D
      <3> QED BY <3>2, <3>3 DEF N, D
    <2>3. n <= e.trail_lim[D]
      <3> DEFINE z == e.trail_lim[D]
      <3> HIDE DEF z
      <3> QED BY <2>1, <2>2, <1>1 DEF z
    <2>4. LevelOf(e, e.trail[n]) < D
      BY <1>1, <2>2, <2>3 DEF TrailOK
    <2>5. LevelOf(e, e.trail[n]) >= D
      BY <1>3, <1>4 DEF TopVars, LevelOf
    <2>6. LevelOf(e, e.trail[n]) \in Nat
      BY <1>1, <2>2, AssignedFacts
    <2> QED BY <1>1, <2>4, <2>5, <2>6
  <1>7. r \in Int /\ r > 0
    <2>1. r \in Int
      BY <1>1, CoreFields
    <2> HIDE DEF r
    <2> QED BY <1>1, <1>6, <2>1
  <1>8. ByClause(e, k, r)
    BY <1>1, <1>5, <1>7 DEF CauseOK
  <1>9. r \in Live(e) /\ lits[1] = p /\ Because(e, k, Lits(e, r) \ {p})
    BY <1>1, <1>8 DEF ByClause
  <1>10. lits \in Seq(Lit) /\ Len(lits) \in Nat /\ Len(lits) >= 2 /\ Distinct(lits) /\ Lits(e, r) \subseteq Lit
         /\ Lits(e, r) = Range(lits)
    BY <1>1, <1>9, ClauseFacts DEF Lits
  <1>11. Tail(lits) \in Seq(Lit) /\ Range(Tail(lits)) = Lits(e, r) \ {p} /\ p \in Lits(e, r)
    <2>1. Len(lits) >= 1
      BY <1>10
    <2>2. /\ Tail(lits) \in Seq(Lit) /\ Range(lits) = {lits[1]} \cup Range(Tail(lits))
          /\ lits[1] \notin Range(Tail(lits))
      BY <1>10, <2>1, TailFacts
    <2> QED BY <1>9, <1>10, <2>2
  <1>12. ASSUME NEW q \in Lits(e, r) \ {p}
         PROVE  q \in Lit /\ -q \in e.assigns /\ \E m \in 1..(k - 1) : e.trail[m] = -q
    <2>1. PICK m \in 1..(k - 1) : e.trail[m] = -q
      BY <1>9 DEF Because
    <2>2. m \in 1..Len(e.trail)
      BY <1>1
    <2> QED BY <1>1, <1>10, <2>1, <2>2, AssignedFacts
  <1> QED BY <1>3, <1>7, <1>9, <1>10, <1>11, <1>12

LEMMA ResolvedGood ==
    ASSUME NEW c, NEW cr, NEW lemmas, NEW M, NEW a, NEW k, Before(c, cr, lemmas, M, a, k),
           NEW e, ExplainedTo(a.c, k, lemmas, M, e), NEW s, Taken(a, e, a.c.trail[k], s),
           After(c, cr, lemmas, M, a, k, e, s), ~(LevelOf(e, a.c.trail[k]) < DecisionLevel(e)),
           s.missed = a.missed, ~s.done
    PROVE  WalkInv(c, cr, lemmas, M, Resolve(s, a.c.trail[k]), k - 1)
  <1> DEFINE p == a.c.trail[k]
             v == VarOf(p)
             r == ReasonOf(e, p)
             T == Tail(e.ca[r].lits)
             O == TopVars(e, s.seen)
             t == Resolve(s, p)
             P == TopVars(e, t.seen)
  <1>1. /\ r > 0 /\ r \in Live(e) /\ T \in Seq(Lit) /\ Range(T) = Lits(e, r) \ {p} /\ p \in Lits(e, r)
        /\ \A q \in Range(T) : q \in Lit /\ -q \in e.assigns /\ \E n \in 1..(k - 1) : e.trail[n] = -q
        /\ \E u \in O : \E n \in 1..(k - 1) : VarOf(e.trail[n]) = u
    <2>1. /\ r > 0 /\ r \in Live(e) /\ e.ca[r].lits \in Seq(Lit) /\ Len(e.ca[r].lits) >= 2
          /\ T \in Seq(Lit) /\ Range(T) = Lits(e, r) \ {p} /\ p \in Lits(e, r)
          /\ \A q \in Lits(e, r) \ {p} : q \in Lit /\ -q \in e.assigns
                /\ \E n \in 1..(k - 1) : e.trail[n] = -q
          /\ \E u \in O : \E n \in 1..(k - 1) : VarOf(e.trail[n]) = u
      BY ONLY Before(c, cr, lemmas, M, a, k), After(c, cr, lemmas, M, a, k, e, s),
         ~(LevelOf(e, a.c.trail[k]) < DecisionLevel(e)), ~s.done, ReasonThere
    <2> HIDE DEF T, r, O
    <2> QED BY <2>1
  <1>2. t = MeetAll(s, T)
    BY <1>1 DEF Resolve, MeetAll, CRef_Undef, After
  <1>3. MetTo(s, Range(T), t)
    <2>1. Analysing(s) /\ s.c = e
      BY DEF After
    <2> HIDE DEF T, t
    <2> QED BY <1>1, <1>2, <2>1, MeetAllGood
  <1>4. /\ Analysing(t) /\ t.c = e /\ t.missed = a.missed /\ t.done = FALSE
        /\ t.seen = s.seen \cup {VarOf(q) : q \in {x \in Range(T) : LevelOf(e, x) > 0}}
    <2>1. s.done = FALSE /\ s.c = e
      BY DEF After, WalkState
    <2> HIDE DEF T, t
    <2> QED BY <1>3, <2>1 DEF MetTo
  <1>5. /\ e \in Core /\ e.trail = a.c.trail /\ DecisionLevel(e) > 0 /\ DecisionLevel(e) \in Nat
        /\ O = TopVars(a.c, a.seen) \ {v} /\ OpenBelow(s, k - 1) /\ s.c = e
        /\ k - 1 \in Nat /\ \A n \in 1..(k - 1) : n \in 1..k /\ VarOf(e.trail[n]) # v
        /\ TrailOK(e) /\ k \in 1..Len(e.trail) /\ p \in Lit
    BY BeforeFacts, CoreFields DEF After, Good
  <1> HIDE DEF t, T
  <1>6. O \subseteq P /\ \A u \in P : u \in O \/ \E q \in Range(T) : u = VarOf(q) /\ Top(e, q)
    BY <1>4 DEF TopVars, Top, LevelOf
  <1>7. ASSUME NEW q \in Range(T), Top(e, q) PROVE VarOf(q) \in P
    <2>1. LevelOf(e, q) \in Nat /\ LevelOf(e, q) >= DecisionLevel(e)
      BY <1>1, <1>5, <1>7, CoreFields DEF Top
    <2>2. LevelOf(e, q) > 0
      BY <1>5, <2>1
    <2> QED BY <1>4, <2>1, <2>2 DEF TopVars, LevelOf
  <1>8. OpenBelow(t, k - 1)
    <2> SUFFICES ASSUME NEW u \in P PROVE \E n \in 1..(k - 1) : VarOf(e.trail[n]) = u
      BY <1>4 DEF OpenBelow
    <2>1. CASE u \in O
      BY <1>5, <2>1 DEF OpenBelow
    <2>2. CASE \E q \in Range(T) : u = VarOf(q)
      BY <1>1, <2>2, LitFacts
    <2> QED BY <1>6, <2>1, <2>2
  <1>9. t.pathC # 0
    BY <1>1, <1>4, <1>6, EmptyOpen
  <1>10. ASSUME Covered(a.c, k), Recorded(a, cr, k) PROVE Known(c, cr, t, k - 1)
    <2>1. LevelOf(e, p) # 0
      BY <1>5
    <2>2. PICK W : /\ \A n \in 1..k : VarOf(e.trail[n]) \notin W
                   /\ TopIn(e, cr, (W \cup {v}) \cup O) /\ Visited(e, W, (W \cup {v}) \cup O, FALSE)
      BY <1>10, <2>1, RecordAfter
    <2> DEFINE X == W \cup {v}
               V == X \cup P
    <2>3. \A n \in 1..(k - 1) : VarOf(e.trail[n]) \notin X
      BY <1>5, <2>2
    <2>4. TopIn(e, cr, V)
      BY <1>6, <2>2 DEF TopIn
    <2>5. TopIn(e, r, V)
      BY <1>1, <1>7 DEF TopIn
    <2>6. Visited(e, X, V, FALSE)
      <3> SUFFICES ASSUME NEW n \in 1..Len(e.trail), VarOf(e.trail[n]) \in X
                   PROVE  LET x == ReasonOf(e, e.trail[n])
                          IN x >= 0 /\ (x > 0 => TopIn(e, x, V))
        BY DEF Visited
      <3>1. CASE VarOf(e.trail[n]) \in W
        BY <1>6, <2>2, <3>1 DEF Visited, TopIn
      <3>2. CASE VarOf(e.trail[n]) = v
        <4>1. n = k
          BY <1>5, <3>2, AssignedFacts
        <4> QED BY <1>1, <1>5, <2>5, <4>1 DEF After
      <3> QED BY <3>1, <3>2
    <2>7. Recorded(t, cr, k - 1)
      <3> HIDE DEF X
      <3> QED BY <1>4, <2>3, <2>4, <2>6 DEF Recorded
    <2>8. Covered(e, k - 1)
      BY <1>10 DEF After
    <2> QED BY <1>4, <2>7, <2>8 DEF Known
  <1>11. ASSUME a.c = c, ~a.missed, NEW V, TopVars(c, a.seen) \subseteq V, Visited(c, V, V, TRUE)
         PROVE  Known(c, cr, t, k - 1)
    <2>1. v \in V /\ k \in 1..Len(c.trail)
      BY <1>11, BeforeFacts
    <2>2. ReasonOf(c, p) >= 0
      BY <1>5, <1>11, <2>1 DEF Visited
    <2>3. e = c
      BY <1>11, <2>2 DEF After
    <2>4. TopIn(c, r, V) \/ Lowest(c, k, V)
      BY <1>1, <1>5, <1>11, <2>1, <2>3 DEF Visited
    <2>5. ~Lowest(c, k, V)
      BY <1>1, <1>5, <1>11, <2>3 DEF Lowest
    <2>6. P \subseteq V
      BY <1>1, <1>5, <1>6, <1>11, <2>3, <2>4, <2>5 DEF TopIn
    <2> QED BY <1>4, <1>11, <2>3, <2>6 DEF Known
  <1>12. Known(c, cr, t, k - 1)
    BY <1>10, <1>11 DEF Before, WalkInv, Known
  <1>13. Steps(c, t.c, lemmas, M) /\ Keeps(c, t.c)
    BY <1>4 DEF After
  <1>14. WalkInv(c, cr, lemmas, M, t, k - 1)
    BY <1>4, <1>8, <1>9, <1>12, <1>13 DEF WalkInv
  <1> QED BY <1>14 DEF t

-----------------------------------------------------------------------------
LEMMA VisitGood ==
    ASSUME NEW c, NEW cr, NEW lemmas, NEW M, NEW a, NEW k, AtWalk(c, cr, lemmas, M),
           WalkInv(c, cr, lemmas, M, a, k), k \in 1..Len(c.trail)
    PROVE  WalkInv(c, cr, lemmas, M, Visit(lemmas, a, c.trail[k]), k - 1)
  <1> DEFINE p == a.c.trail[k]
             e == Explained(a.c, p, lemmas)
  <1>1. a.c \in Core /\ a.c.trail = c.trail /\ a \in WalkState
    BY DEF WalkInv, Steps, Keeps, Analysing
  <1>2. CASE ~Met(a, k)
    <2>1. Visit(lemmas, a, p) = a
      BY <1>2 DEF Visit, Met
    <2>2. WalkInv(c, cr, lemmas, M, a, k - 1)
      BY <1>1, <1>2, VisitSkips DEF Met
    <2> QED BY <1>1, <2>1, <2>2
  <1>3. CASE Met(a, k)
    <2>1. Before(c, cr, lemmas, M, a, k)
      BY <1>1, <1>3 DEF Before
    <2>2. ReasonOf(a.c, p) >= 0 \/ p \in Held(a.c)
      BY <2>1, Explainable
    <2>3. Good(a.c, lemmas) /\ p \in Lit /\ k \in 1..Len(a.c.trail) /\ Honest(lemmas, M)
          /\ LevelOf(a.c, p) >= DecisionLevel(a.c)
      BY <1>1, <2>1, BeforeFacts DEF AtWalk
    <2>4. ExplainedTo(a.c, k, lemmas, M, e)
      BY <1>1, <2>2, <2>3, ExplainedGood
    <2>5. e \in Core /\ DecisionLevel(e) = DecisionLevel(a.c)
      BY <1>1, <2>3, <2>4, ExplainedLevels
    <2>6. LevelOf(e, p) < DecisionLevel(e) => LevelOf(e, p) = 0
      <3>1. LevelOf(e, p) = LevelOf(a.c, p) \/ LevelOf(e, p) = 0
        BY <2>4 DEF ExplainedTo
      <3>2. LevelOf(a.c, p) \in Nat /\ DecisionLevel(a.c) \in Nat
        BY <1>1, <2>3, CoreFields
      <3> QED BY <2>3, <2>5, <3>1, <3>2
    <2> HIDE DEF e
    <2>7. PICK s : /\ Taken(a, e, p, s)
                   /\ \/ LevelOf(e, p) < DecisionLevel(e) /\ s.missed /\ Visit(lemmas, a, p) = s
                      \/ /\ ~(LevelOf(e, p) < DecisionLevel(e)) /\ s.missed = a.missed
                         /\ Visit(lemmas, a, p) = IF s.done THEN s ELSE Resolve(s, p)
      <3>1. ~(a.done \/ VarOf(p) \notin a.seen \/ LevelOf(a.c, p) < DecisionLevel(a.c))
        BY <1>3 DEF Met
      <3>2. e = Explained(a.c, p, lemmas)
        BY DEF e
      <3>3. p \in Lit
        BY <2>3
      <3> HIDE DEF p
      <3> QED BY ONLY <1>1, <3>1, <3>2, <3>3, <2>5, <2>6, VisitCases
    <2>8. After(c, cr, lemmas, M, a, k, e, s)
      BY <2>1, <2>4, <2>7, AfterFacts
    <2>9. CASE LevelOf(e, p) < DecisionLevel(e) /\ s.missed /\ Visit(lemmas, a, p) = s
      BY <1>1, <2>1, <2>4, <2>7, <2>8, <2>9, RelevelledGood
    <2>10. CASE /\ ~(LevelOf(e, p) < DecisionLevel(e)) /\ s.missed = a.missed
                /\ Visit(lemmas, a, p) = IF s.done THEN s ELSE Resolve(s, p)
      <3>1. CASE s.done
        BY <1>1, <2>1, <2>4, <2>7, <2>8, <2>10, <3>1, AssertedGood
      <3>2. CASE ~s.done
        BY <1>1, <2>1, <2>4, <2>7, <2>8, <2>10, <3>2, ResolvedGood
      <3> QED BY <3>1, <3>2
    <2> QED BY <2>7, <2>9, <2>10
  <1> QED BY <1>2, <1>3

\* Where the walk may begin: the conflict has a literal of the decision level, and
\* the theory knows all of the trail, or no reason is left to be built.
LastSize(c) == IF c.trail_lim = <<>> THEN 0 ELSE c.trail_lim[Len(c.trail_lim)]
CanWalk(c, cr, lemmas, M) ==
    /\ AtWalk(c, cr, lemmas, M) /\ \E q \in Lits(c, cr) : Top(c, q)
    /\ Covered(c, LastSize(c)) /\ (Covered(c, Len(c.trail)) \/ Visitable(c, cr))

WalkStart(c) == [c |-> c, seen |-> {}, pathC |-> 0, out |-> <<>>, asserting |-> 0,
                 missed |-> FALSE, done |-> FALSE]
LEMMA WalkStartGood ==
    ASSUME NEW c, NEW cr, NEW lemmas, NEW M, CanWalk(c, cr, lemmas, M)
    PROVE  WalkStart(c).c = c /\ Analysing(WalkStart(c))
  <1> DEFINE a == WalkStart(c)
  <1>1. c \in Core /\ TrailOK(c)
    BY DEF CanWalk, AtWalk, Good
  <1>2. /\ a.c = c /\ a.seen = {} /\ a.pathC = 0 /\ a.out = <<>> /\ a.missed = FALSE /\ a.done = FALSE
        /\ a.asserting = 0 /\ a \in WalkState
    BY <1>1 DEF WalkStart, WalkState
  <1>3. Analysing(a)
    <2>1. TopVars(c, {}) = {} /\ FalseLits(c, {}) = {}
      BY DEF TopVars, FalseLits
    <2>2. Cardinality({}) = 0
      BY FS_EmptySet
    <2>3. Distinct(<<>>) /\ Range(<<>>) = {}
      BY DEF Distinct, Range
    <2> HIDE DEF a
    <2>4. a.seen \ TopVars(a.c, a.seen) = {}
      BY <1>2
    <2> QED BY <1>1, <1>2, <2>1, <2>2, <2>3, <2>4 DEF Analysing
  <1> QED BY <1>2, <1>3

LEMMA WalkStarts ==
    ASSUME NEW c, NEW cr, NEW lemmas, NEW M, CanWalk(c, cr, lemmas, M)
    PROVE  WalkInv(c, cr, lemmas, M, MeetAll(WalkStart(c), c.ca[cr].lits), Len(c.trail))
  <1> DEFINE a == WalkStart(c)
             s == c.ca[cr].lits
             b == MeetAll(a, s)
             O == TopVars(c, b.seen)
  <1>1. /\ c \in Core /\ TrailOK(c) /\ Good(c, lemmas) /\ cr \in Live(c) /\ Range(s) = Lits(c, cr)
        /\ s \in Seq(Lit) /\ \A q \in Range(s) : q \in Lit /\ -q \in c.assigns
        /\ DecisionLevel(c) > 0 /\ DecisionLevel(c) \in Nat
    <2>1. c \in Core /\ cr \in Live(c) /\ Good(c, lemmas) /\ \A q \in Lits(c, cr) : -q \in c.assigns
      BY DEF CanWalk, AtWalk, AllFalse, IsFalse
    <2>2. TrailOK(c) /\ DbOK(c)
      BY <2>1 DEF Good
    <2>3. s \in Seq(Lit) /\ Lits(c, cr) \subseteq Lit
      BY <2>1, <2>2, ClauseFacts
    <2> QED BY <2>1, <2>2, <2>3, CoreFields DEF CanWalk, AtWalk, Lits
  <1>2. /\ a.c = c /\ a.seen = {} /\ a.pathC = 0 /\ a.out = <<>> /\ a.missed = FALSE /\ a.done = FALSE
        /\ a.asserting = 0 /\ a \in WalkState
    BY <1>1 DEF WalkStart, WalkState
  <1>3. Analysing(a)
    BY WalkStartGood
  <1>4. MetTo(a, Range(s), b)
    <2> HIDE DEF a, s
    <2> QED BY <1>1, <1>2, <1>3, MeetAllGood
  <1> HIDE DEF a, s, b
  <1>5. /\ Analysing(b) /\ b.c = c /\ b.missed = FALSE /\ b.done = FALSE
        /\ b.seen = {VarOf(q) : q \in {x \in Range(s) : LevelOf(c, x) > 0}}
    BY <1>2, <1>4 DEF MetTo
  <1>6. ASSUME NEW q \in Range(s), Top(c, q) PROVE VarOf(q) \in O
    <2>1. LevelOf(c, q) \in Nat /\ LevelOf(c, q) >= DecisionLevel(c)
      BY <1>1, <1>6, CoreFields DEF Top
    <2>2. LevelOf(c, q) > 0
      BY <1>1, <2>1
    <2> QED BY <1>5, <2>1, <2>2 DEF TopVars, LevelOf
  <1>7. \A u \in O : \E q \in Range(s) : u = VarOf(q) /\ Top(c, q)
    BY <1>5 DEF TopVars, Top, LevelOf
  <1>8. OpenBelow(b, Len(c.trail))
    <2> SUFFICES ASSUME NEW u \in O PROVE \E n \in 1..Len(c.trail) : VarOf(c.trail[n]) = u
      BY <1>5 DEF OpenBelow
    <2>1. PICK q \in Range(s) : u = VarOf(q)
      BY <1>7
    <2>2. PICK n \in 1..Len(c.trail) : c.trail[n] = -q
      BY <1>1, <2>1, AssignedFacts
    <2> QED BY <1>1, <2>1, <2>2, LitFacts
  <1>9. b.pathC # 0
    <2>1. O # {}
      BY <1>1, <1>6 DEF CanWalk
    <2> QED BY <1>5, <2>1, EmptyOpen
  <1>10. Covered(c, Len(c.trail)) => Recorded(b, cr, Len(c.trail))
    <2>1. TopIn(c, cr, {} \cup O) /\ Visited(c, {}, {} \cup O, b.done)
      BY <1>1, <1>6 DEF TopIn, Visited
    <2> QED BY <1>5, <2>1 DEF Recorded
  <1>11. ASSUME Visitable(c, cr)
         PROVE  \E V : O \subseteq V /\ Visited(c, V, V, TRUE)
    BY <1>1, <1>7, <1>11 DEF Visitable, TopIn
  <1>12. Known(c, cr, b, Len(c.trail))
    BY <1>5, <1>10, <1>11 DEF CanWalk, Known
  <1>13. Steps(c, c, lemmas, M) /\ Keeps(c, c)
    BY <1>1, StepsSelf DEF Keeps
  <1>14. WalkInv(c, cr, lemmas, M, b, Len(c.trail))
    BY <1>5, <1>8, <1>9, <1>12, <1>13 DEF WalkInv
  <1> QED BY <1>14 DEF b, a, s

\* What analyze makes of the solver.
WalkedTo(c, cr, lemmas, M, a) ==
    /\ Analysing(a) /\ Steps(c, a.c, lemmas, M) /\ Keeps(c, a.c) /\ Covered(a.c, LastSize(c))
    /\ a.done /\ TopVars(a.c, a.seen) = {}
    /\ a.missed => Visitable(a.c, cr)
    /\ ~a.missed => Asserted(a)
LEMMA WalkEnds ==
    ASSUME NEW c, NEW cr, NEW lemmas, NEW M, CanWalk(c, cr, lemmas, M),
           NEW a, WalkInv(c, cr, lemmas, M, a, LastSize(c))
    PROVE  WalkedTo(c, cr, lemmas, M, a)
  <1> DEFINE D == DecisionLevel(c)
             L == LastSize(c)
             O == TopVars(a.c, a.seen)
  <1>1. /\ c \in Core /\ TrailOK(c) /\ D \in Nat /\ D > 0 /\ a.c \in Core /\ TrailOK(a.c)
        /\ a.c.trail = c.trail /\ a.c.trail_lim = c.trail_lim /\ DecisionLevel(a.c) = D /\ Analysing(a)
        /\ a.missed \in BOOLEAN /\ a.done \in BOOLEAN
    BY CoreFields DEF CanWalk, AtWalk, Good, WalkInv, Keeps, Steps, DecisionLevel, Analysing, WalkState
  <1>2. L = c.trail_lim[D] /\ D \in 1..D /\ L \in Nat /\ L <= Len(c.trail)
    <2>1. D \in 1..D
      BY <1>1
    <2>2. c.trail_lim # <<>> /\ L = c.trail_lim[D]
      BY <1>1 DEF LastSize, DecisionLevel
    <2> QED BY <1>1, <2>1, <2>2, CoreFields DEF TrailOK, LimitsOK
  <1>3. O = {}
    <2> SUFFICES ASSUME NEW u \in O PROVE FALSE
      OBVIOUS
    <2>1. PICK n \in 1..L : VarOf(c.trail[n]) = u
      BY <1>1 DEF WalkInv, OpenBelow
    <2>2. n \in 1..Len(c.trail) /\ n <= c.trail_lim[D] /\ Len(c.trail) \in Nat
      <3> DEFINE N == Len(c.trail)
      <3>1. N \in Nat
        BY <1>1, CoreFields
      <3>2. L <= N /\ n <= L
        BY <1>2
      <3> HIDE DEF N, L
      <3>3. n \in 1..N
        BY <1>2, <3>1, <3>2
      <3> QED BY <1>2, <3>1, <3>2, <3>3 DEF N
    <2>3. LevelOf(a.c, a.c.trail[n]) < D
      BY <1>1, <1>2, <2>2 DEF TrailOK
    <2>4. LevelOf(a.c, a.c.trail[n]) >= D
      BY <1>1, <2>1 DEF TopVars, LevelOf
    <2>5. LevelOf(a.c, a.c.trail[n]) \in Nat
      BY <1>1, <2>2, AssignedFacts
    <2> QED BY <1>1, <2>3, <2>4, <2>5
  <1>4. a.done
    BY <1>1, <1>3, EmptyOpen DEF WalkInv
  <1>5. Covered(a.c, L)
    BY DEF WalkInv, Known, CanWalk
  <1>6. ASSUME a.missed PROVE Visitable(a.c, cr)
    <2>1. PICK W : TopIn(a.c, cr, W \cup O) /\ Visited(a.c, W, W \cup O, a.done)
      BY <1>6 DEF WalkInv, Known, Recorded
    <2>2. W \cup O = W /\ a.done = TRUE
      BY <1>1, <1>3, <1>4
    <2> QED BY <2>1, <2>2 DEF Visitable
  <1> QED BY <1>3, <1>4, <1>5, <1>6 DEF WalkInv, WalkedTo

\* The walk, turn by turn down the trail.
LEMMA WalkTurns ==
    ASSUME NEW c, NEW cr, NEW lemmas, NEW M, CanWalk(c, cr, lemmas, M)
    PROVE  LET N == Len(c.trail)
               L == LastSize(c)
           IN /\ N \in Nat /\ L \in Nat /\ L <= N
              /\ \E f : /\ f[0] = MeetAll(WalkStart(c), c.ca[cr].lits)
                       /\ Walk(c, cr, lemmas) = f[N - L]
                       /\ \A i \in 1..(N - L) : f[i] = Visit(lemmas, f[i - 1], c.trail[(N - i) + 1])
  <1> DEFINE start == MeetAll(WalkStart(c), c.ca[cr].lits)
             N == Len(c.trail)
             L == LastSize(c)
             level == SubSeq(c.trail, L + 1, N)
             s == Reverse(level)
  <1>1. AtWalk(c, cr, lemmas, M) /\ c \in Core /\ c.trail \in Seq(Lit) /\ N \in Nat
        /\ L \in Nat /\ L <= N /\ c.trail_lim # <<>>
    <2>1. c \in Core /\ TrailOK(c) /\ DecisionLevel(c) > 0 /\ AtWalk(c, cr, lemmas, M)
      BY DEF CanWalk, AtWalk, Good
    <2>2. DecisionLevel(c) \in Nat
      BY <2>1, CoreFields
    <2>3. DecisionLevel(c) \in 1..DecisionLevel(c) /\ c.trail_lim # <<>>
      BY <2>1, <2>2 DEF DecisionLevel
    <2>4. L = c.trail_lim[DecisionLevel(c)]
      BY <2>3 DEF LastSize, DecisionLevel
    <2> QED BY <2>1, <2>3, <2>4, CoreFields DEF TrailOK, LimitsOK
  <1>2. Walk(c, cr, lemmas) = VisitAll(lemmas, start, s)
    <2>1. Last(c.trail_lim) = L
      BY <1>1 DEF LastSize, Last
    <2> QED BY <2>1 DEF Walk, VisitAll, MeetAll, WalkStart
  <1>3. level \in Seq(Lit) /\ Len(level) = N - L /\ \A i \in 1..(N - L) : level[i] = c.trail[L + i]
    <2> HIDE DEF L, level, N
    <2> QED BY <1>1, SubFacts DEF level, N
  <1>4. s \in Seq(Lit) /\ Len(s) = N - L /\ \A i \in 1..(N - L) : s[i] = c.trail[(N - i) + 1]
    <2>1. s \in Seq(Lit) /\ Len(s) = N - L /\ \A i \in 1..(N - L) : s[i] = level[((N - L) - i) + 1]
      <3> HIDE DEF level
      <3> QED BY <1>3, ReverseFacts
    <2> HIDE DEF s, level, N, L
    <2>2. ASSUME NEW i \in 1..(N - L) PROVE s[i] = c.trail[(N - i) + 1]
      <3>1. ((N - L) - i) + 1 \in 1..(N - L) /\ L + (((N - L) - i) + 1) = (N - i) + 1
        BY <1>1
      <3> QED BY <1>3, <2>1, <3>1
    <2> QED BY <2>1, <2>2
  <1>5. PICK f : /\ f[0] = start /\ VisitAll(lemmas, start, s) = f[Len(s)]
                 /\ \A i \in 1..Len(s) : f[i] = Visit(lemmas, f[i - 1], s[i])
    <2>1. s \in Seq(Lit)
      BY <1>4
    <2> HIDE DEF s, start
    <2> QED BY ONLY <2>1, VisitTurns
  <1> HIDE DEF s, start, L
  <1>6. Walk(c, cr, lemmas) = f[N - L] /\ \A i \in 1..(N - L) : f[i] = Visit(lemmas, f[i - 1], c.trail[(N - i) + 1])
    BY <1>2, <1>4, <1>5
  <1> QED BY <1>1, <1>5, <1>6 DEF start, L

LEMMA WalkGood ==
    ASSUME NEW c, NEW cr, NEW lemmas, NEW M, CanWalk(c, cr, lemmas, M)
    PROVE  WalkedTo(c, cr, lemmas, M, Walk(c, cr, lemmas))
  <1> DEFINE start == MeetAll(WalkStart(c), c.ca[cr].lits)
             N == Len(c.trail)
             L == LastSize(c)
             n == N - L
  <1>1. N \in Nat /\ L \in Nat /\ L <= N /\ AtWalk(c, cr, lemmas, M)
    BY WalkTurns DEF CanWalk
  <1>2. PICK f : /\ f[0] = start /\ Walk(c, cr, lemmas) = f[n]
                 /\ \A i \in 1..n : f[i] = Visit(lemmas, f[i - 1], c.trail[(N - i) + 1])
    BY WalkTurns
  <1> DEFINE T == {i \in 0..n : WalkInv(c, cr, lemmas, M, f[i], N - i)}
  <1>6. n \in Nat
    BY <1>1
  <1>7. 0 \in T
    <2>1. WalkInv(c, cr, lemmas, M, start, N)
      BY WalkStarts
    <2>2. N - 0 = N /\ 0 \in 0..n
      BY <1>1
    <2> HIDE DEF start, N, n
    <2> QED BY <1>2, <2>1, <2>2
  <1> HIDE DEF start, L
  <1>8. ASSUME NEW i \in 1..n, i - 1 \in T PROVE i \in T
    <2> DEFINE k == N - (i - 1)
    <2>1. WalkInv(c, cr, lemmas, M, f[i - 1], k)
      BY <1>8
    <2>2. k \in 1..N /\ k = (N - i) + 1 /\ k - 1 = N - i /\ i \in 0..n
      BY <1>1
    <2>3. f[i] = Visit(lemmas, f[i - 1], c.trail[k])
      BY <1>2, <2>2
    <2> HIDE DEF k
    <2>4. WalkInv(c, cr, lemmas, M, f[i], k - 1)
      BY <1>1, <2>1, <2>2, <2>3, VisitGood
    <2> QED BY <2>2, <2>4
  <1> HIDE DEF T
  <1>9. \A i \in 0..n : i \in T
    <2> HIDE DEF n
    <2> QED BY ONLY <1>6, <1>7, <1>8, UpTo
  <1>10. WalkInv(c, cr, lemmas, M, f[n], N - n) /\ N - n = L
    <2>1. n \in T
      BY <1>6, <1>9
    <2> QED BY <1>1, <2>1 DEF T
  <1> QED BY <1>2, <1>10, WalkEnds DEF L

-----------------------------------------------------------------------------
(***************************************************************************)
(* The learnt clause.                                                      *)
(***************************************************************************)
LEMMA Largest ==
    ASSUME NEW D \in Nat, NEW T, T \subseteq 0..D, T # {}
    PROVE  \E n \in T : \A m \in T : m <= n
  <1> DEFINE U == {D - l : l \in T}
  <1>1. U \subseteq Nat /\ U # {}
    <2>1. \A l \in T : D - l \in Nat
      OBVIOUS
    <2>2. PICK l \in T : TRUE
      OBVIOUS
    <2>3. D - l \in U
      OBVIOUS
    <2> QED BY <2>1, <2>3
  <1>2. PICK u \in U : \A x \in U : u <= x
    BY <1>1, Smallest
  <1>3. PICK l \in T : u = D - l
    BY <1>2
  <1>4. \A m \in T : D - m \in U
    OBVIOUS
  <1> HIDE DEF U
  <1>5. ASSUME NEW m \in T PROVE m <= l
    <2>1. D - l <= D - m
      BY <1>2, <1>3, <1>4
    <2>2. m \in 0..D /\ l \in 0..D
      BY <1>3
    <2> QED BY <2>1, <2>2
  <1> QED BY <1>5

\* The first literal of the highest level goes first.
LEMMA HighestFirstGood ==
    ASSUME NEW c, c \in Core, TrailOK(c), NEW s, s \in Seq(Lit), Distinct(s),
           \A q \in Range(s) : -q \in c.assigns
    PROVE  /\ Shuffled(s, HighestFirst(c, s))
           /\ s # <<>> => \A q \in Range(s) : LevelOf(c, q) <= LevelOf(c, HighestFirst(c, s)[1])
  <1> DEFINE t == HighestFirst(c, s)
             n == Len(s)
             D == DecisionLevel(c)
             top == {i \in DOMAIN s : \A j \in DOMAIN s : LevelOf(c, s[j]) <= LevelOf(c, s[i])}
             i0 == CHOOSE i \in top : \A j \in top : i <= j
  <1>1. /\ n \in Nat /\ DOMAIN s = 1..n /\ \A i \in 1..n : s[i] \in Range(s) /\ s[i] \in Lit
        /\ \A x : x \in Range(s) <=> \E i \in 1..n : s[i] = x
    BY RangeFacts
  <1>2. CASE s = <<>>
    <2>1. t = s
      BY <1>2 DEF HighestFirst
    <2> QED BY <1>2, <2>1 DEF Shuffled
  <1>3. CASE s # <<>>
    <2>1. n # 0
      BY <1>3
    <2>2. 1 \in 1..n
      BY <1>1, <2>1
    <2> DEFINE T == {LevelOf(c, s[i]) : i \in 1..n}
    <2>3. D \in Nat /\ T \subseteq 0..D /\ T # {}
      <3>1. ASSUME NEW i \in 1..n PROVE LevelOf(c, s[i]) \in 0..D
        <4>1. LevelOf(c, -s[i]) = LevelOf(c, s[i]) /\ -s[i] \in c.assigns
          BY <1>1, CoreFields
        <4> QED BY <4>1, AssignedFacts
      <3> QED BY <2>2, <3>1, CoreFields
    <2>4. PICK l \in T : \A m \in T : m <= l
      <3> HIDE DEF T, D
      <3> QED BY <2>3, Largest
    <2>5. top # {} /\ top \subseteq Nat
      <3>1. PICK i \in 1..n : l = LevelOf(c, s[i])
        BY <2>4
      <3> QED BY <1>1, <2>4, <3>1
    <2>6. i0 \in top
      <3>1. \E i \in top : \A j \in top : i <= j
        <4> HIDE DEF top
        <4> QED BY <2>5, Smallest
      <3> HIDE DEF top
      <3> QED BY <3>1
    <2>7. t = Swap(s, 1, i0)
      BY <1>3 DEF HighestFirst
    <2>8. i0 \in 1..n /\ \A j \in 1..n : LevelOf(c, s[j]) <= LevelOf(c, s[i0])
      BY <1>1, <2>6
    <2> HIDE DEF i0, t, n
    <2>9. Shuffled(s, t) /\ t[1] = s[i0]
      BY <2>2, <2>7, <2>8, SwapShuffles DEF n
    <2> QED BY <1>1, <2>8, <2>9 DEF t
  <1> QED BY <1>2, <1>3

\* A clause of which search enqueues the first literal, after going back.
CanLearn(c, s, lemmas) ==
    /\ c \in Core /\ Good(c, lemmas) /\ s \in Seq(Lit) /\ Distinct(s) /\ Len(s) >= 1
    /\ -s[1] \in c.assigns /\ Top(c, s[1])
    /\ BacktrackLevel(c, s) \in Nat /\ BacktrackLevel(c, s) < DecisionLevel(c)
    /\ \A i \in 2..Len(s) : -s[i] \in c.assigns /\ LevelOf(c, s[i]) <= BacktrackLevel(c, s)

LEMMA LearntClauseGood ==
    ASSUME NEW c, NEW cr, NEW lemmas, NEW M, NEW a, AtWalk(c, cr, lemmas, M),
           WalkedTo(c, cr, lemmas, M, a), ~a.missed
    PROVE  /\ CanLearn(a.c, LearntClause(a), lemmas)
           /\ Minimised(a) \in Seq(Lit) /\ Distinct(Minimised(a)) /\ Range(Minimised(a)) \subseteq Range(a.out)
           /\ Range(LearntClause(a)) = {a.asserting} \cup Range(Minimised(a))
  <1> DEFINE d == a.c
             D == DecisionLevel(d)
             out == Minimised(a)
             rest == HighestFirst(d, out)
             s == LearntClause(a)
             p == a.asserting
             lev == BacktrackLevel(d, s)
  <1>1. /\ d \in Core /\ Good(d, lemmas) /\ TrailOK(d) /\ D \in Nat /\ D > 0
        /\ p \in Lit /\ -p \in d.assigns /\ LevelOf(d, p) >= D
        /\ a.out \in Seq(Lit) /\ Distinct(a.out) /\ Range(a.out) = FalseLits(d, a.seen)
        /\ TopVars(d, a.seen) = {}
    <2>1. d \in Core /\ Good(d, lemmas) /\ TrailOK(d) /\ TopVars(d, a.seen) = {}
      BY DEF WalkedTo, Steps, Good
    <2>2. a \in WalkState /\ a.seen \ {} = a.seen
      BY DEF WalkedTo, Analysing
    <2>3. Distinct(a.out) /\ Range(a.out) = FalseLits(d, a.seen)
      BY <2>1, <2>2 DEF WalkedTo, Analysing
    <2>4. D > 0
      BY DEF WalkedTo, Keeps, AtWalk, DecisionLevel
    <2> QED BY <2>1, <2>2, <2>3, <2>4, WalkStateFields, CoreFields DEF WalkedTo, Asserted, Top
  <1>2. /\ out \in Seq(Lit) /\ Distinct(out) /\ Range(out) \subseteq Range(a.out)
    BY <1>1, KeepFacts DEF Minimised
  <1> HIDE DEF out
  <1>3. ASSUME NEW q \in Range(out) PROVE q \in Lit /\ -q \in d.assigns /\ LevelOf(d, q) \in Nat /\ LevelOf(d, q) < D
    <2>1. q \in FalseLits(d, a.seen)
      BY <1>1, <1>2
    <2>2. q \in Lit /\ -q \in d.assigns /\ VarOf(q) \in a.seen
      BY <2>1 DEF FalseLits
    <2>3. ~(LevelOf(d, q) >= D)
      BY <1>1, <2>2 DEF TopVars, LevelOf
    <2> QED BY <1>1, <2>2, <2>3, CoreFields
  <1>4. Shuffled(out, rest) /\ (out # <<>> => \A q \in Range(out) : LevelOf(d, q) <= LevelOf(d, rest[1]))
    BY <1>1, <1>2, <1>3, HighestFirstGood
  <1> HIDE DEF rest
  <1>5. /\ rest \in Seq(Lit) /\ Len(rest) \in Nat /\ Range(rest) = Range(out) /\ Distinct(rest) /\ Len(rest) = Len(out)
        /\ \A i \in 1..Len(rest) : rest[i] \in Range(out)
    <2>1. rest \in Seq(Lit) /\ Range(rest) = Range(out) /\ Distinct(rest) /\ Len(rest) = Len(out)
      BY <1>4 DEF Shuffled
    <2> QED BY <2>1, RangeFacts
  <1>6. s = <<p>> \o rest
    BY DEF LearntClause, rest, out
  <1>7. /\ s \in Seq(Lit) /\ Len(s) = Len(rest) + 1 /\ s[1] = p
        /\ \A i \in 1..Len(rest) : s[i + 1] = rest[i]
    <2>1. <<p>> \in Seq(Lit) /\ Len(<<p>>) = 1 /\ <<p>>[1] = p
      BY <1>1
    <2> DEFINE z == <<p>>
    <2> HIDE DEF z, s
    <2>2. /\ z \o rest \in Seq(Lit) /\ Len(z \o rest) = Len(z) + Len(rest)
          /\ \A i \in 1..Len(z) : (z \o rest)[i] = z[i]
          /\ \A i \in 1..Len(rest) : (z \o rest)[Len(z) + i] = rest[i]
      BY <1>5, <2>1, ConcatFacts DEF z
    <2>3. Len(z) = 1 /\ z[1] = p /\ s = z \o rest
      BY <1>6, <2>1 DEF z
    <2>4. \A i \in 1..Len(rest) : i + 1 = 1 + i
      OBVIOUS
    <2> QED BY <1>5, <2>2, <2>3, <2>4
  <1> HIDE DEF s
  <1>8. \A i \in 2..Len(s) : i - 1 \in 1..Len(rest) /\ s[i] = rest[i - 1] /\ s[i] \in Range(out)
    <2> SUFFICES ASSUME NEW i \in 2..Len(s) PROVE i - 1 \in 1..Len(rest) /\ s[i] = rest[i - 1]
      BY <1>5
    <2>1. i - 1 \in 1..Len(rest) /\ (i - 1) + 1 = i
      BY <1>5, <1>7
    <2> QED BY <1>7, <2>1
  <1>9. Range(s) = {p} \cup Range(out)
    <2>1. /\ \A x : x \in Range(s) <=> \E i \in 1..Len(s) : s[i] = x
          /\ \A x : x \in Range(rest) <=> \E i \in 1..Len(rest) : rest[i] = x
      BY <1>5, <1>7, RangeFacts
    <2>2. \A i : i \in 1..Len(s) <=> (i = 1 \/ i \in 2..Len(s))
      BY <1>5, <1>7
    <2>3. \A i \in 1..Len(rest) : i + 1 \in 1..Len(s)
      BY <1>5, <1>7
    <2>4. \A x \in Range(s) : x \in {p} \cup Range(out)
      BY <1>7, <1>8, <2>1, <2>2
    <2>5. \A x \in {p} \cup Range(out) : x \in Range(s)
      <3>1. 1 \in 1..Len(s)
        BY <1>5, <1>7
      <3> QED BY <1>5, <1>7, <2>1, <2>3, <3>1
    <2> QED BY <2>4, <2>5
  <1>10. p \notin Range(out) /\ LevelOf(d, p) \in Nat
    BY <1>1, <1>3, CoreFields
  <1>11. Distinct(s)
    <2> SUFFICES ASSUME NEW i \in 1..Len(s), NEW j \in 1..Len(s), s[i] = s[j] PROVE i = j
      BY <1>7 DEF Distinct
    <2>1. i = 1 \/ i \in 2..Len(s)
      BY <1>5, <1>7
    <2>2. j = 1 \/ j \in 2..Len(s)
      BY <1>5, <1>7
    <2>3. CASE i \in 2..Len(s) /\ j \in 2..Len(s)
      <3>1. i - 1 = j - 1
        BY <1>5, <1>8, <2>3 DEF Distinct
      <3> QED BY <2>3, <3>1
    <2>4. CASE i = 1 \/ j = 1
      BY <1>7, <1>8, <1>10, <2>1, <2>2, <2>4
    <2> QED BY <2>1, <2>2, <2>3, <2>4
  <1>12. /\ lev \in Nat /\ lev < D
         /\ \A i \in 2..Len(s) : LevelOf(d, s[i]) <= lev
    <2>1. CASE Len(s) = 1
      <3>1. lev = 0 /\ ~\E i : i \in 2..Len(s)
        BY <2>1 DEF BacktrackLevel
      <3> QED BY <1>1, <3>1
    <2>2. CASE Len(s) # 1
      <3>1. 2 \in 2..Len(s) /\ 1 \in 1..Len(rest) /\ Len(rest) # 0
        BY <1>5, <1>7, <2>2
      <3>2. lev = LevelOf(d, s[2]) /\ s[2] = rest[1]
        BY <1>8, <2>2, <3>1 DEF BacktrackLevel
      <3>3. out # <<>>
        BY <1>5, <3>1
      <3> QED BY <1>3, <1>4, <1>8, <3>1, <3>2, <3>3
    <2> QED BY <2>1, <2>2
  <1>13. Len(s) >= 1 /\ Top(d, s[1])
    BY <1>1, <1>5, <1>7 DEF Top
  <1>14. CanLearn(d, s, lemmas)
    BY <1>1, <1>3, <1>7, <1>8, <1>11, <1>12, <1>13 DEF CanLearn
  <1> QED BY <1>2, <1>9, <1>14 DEF s, out

\* After going back its first literal is not assigned, and the others are false.
LEMMA LearntAsserting ==
    ASSUME NEW c, NEW s, NEW lemmas, CanLearn(c, s, lemmas)
    PROVE  LET d == CancelUntil(c, BacktrackLevel(c, s))
           IN /\ Cancelled(c, d, BacktrackLevel(c, s), lemmas)
              /\ IsUndef(d, s[1]) /\ s[1] \in Lit
              /\ \A i \in 2..Len(s) : IsFalse(d, s[i])
              /\ FalseAt(d, Range(s) \ {s[1]}, BacktrackLevel(c, s))
  <1> DEFINE lev == BacktrackLevel(c, s)
             d == CancelUntil(c, lev)
             p == s[1]
  <1>1. /\ c \in Core /\ Good(c, lemmas) /\ s \in Seq(Lit) /\ -p \in c.assigns /\ LevelOf(c, p) >= DecisionLevel(c)
        /\ lev \in Nat /\ lev < DecisionLevel(c) /\ DecisionLevel(c) \in Nat /\ TrailOK(c)
        /\ \A i \in 2..Len(s) : -s[i] \in c.assigns /\ LevelOf(c, s[i]) <= lev
        /\ Len(s) \in Nat /\ Len(s) >= 1
    BY CoreFields DEF CanLearn, Top, Good
  <1> HIDE DEF lev
  <1>2. Cancelled(c, d, lev, lemmas)
    BY <1>1, CancelStep
  <1> HIDE DEF d
  <1>3. d.assigns = {q \in c.assigns : LevelOf(c, q) <= lev} /\ \A q : LevelOf(d, q) = LevelOf(c, q)
    BY <1>2 DEF Cancelled, LevelOf
  <1>4. \A i \in 1..Len(s) : s[i] \in Lit /\ LevelOf(c, -s[i]) = LevelOf(c, s[i]) /\ LevelOf(c, s[i]) \in Nat
    BY <1>1, RangeFacts, CoreFields
  <1>5. IsUndef(d, p) /\ p \in Lit
    <2>1. 1 \in 1..Len(s)
      BY <1>1
    <2>2. p \in Lit /\ LevelOf(c, -p) = LevelOf(c, p) /\ LevelOf(c, p) \in Nat
      BY <1>4, <2>1
    <2> HIDE DEF p
    <2>3. ~(LevelOf(c, p) <= lev)
      BY <1>1, <2>2
    <2> QED BY <1>3, <2>2, <2>3 DEF IsUndef, IsTrue, IsFalse
  <1>6. ASSUME NEW i \in 2..Len(s) PROVE -s[i] \in d.assigns /\ LevelOf(d, -s[i]) <= lev
    <2>1. i \in 1..Len(s)
      BY <1>1
    <2> QED BY <1>1, <1>3, <1>4, <2>1
  <1>7. FalseAt(d, Range(s) \ {p}, lev)
    <2> SUFFICES ASSUME NEW q \in Range(s) \ {p} PROVE -q \in d.assigns /\ LevelOf(d, -q) <= lev
      BY DEF FalseAt
    <2>1. PICK i \in 1..Len(s) : s[i] = q
      BY <1>1, RangeFacts
    <2>2. i \in 2..Len(s)
      BY <1>1, <2>1
    <2> QED BY <1>6, <2>1, <2>2
  <1> QED BY <1>2, <1>5, <1>6, <1>7 DEF lev, d, IsFalse

-----------------------------------------------------------------------------
\* The theory knows all that is below the decision level: it does still.
LEMMA LastCovers ==
    ASSUME NEW c, c \in Core, TrailOK(c), NEW lev, lev \in Nat, lev < DecisionLevel(c), Covered(c, LastSize(c))
    PROVE  Covered(c, c.trail_lim[lev + 1])
  <1> DEFINE D == DecisionLevel(c)
  <1>1. D \in Nat /\ D \in 1..D /\ lev + 1 \in 1..D /\ lev + 1 <= D /\ c.trail_lim \in Seq(Nat)
    BY CoreFields
  <1>2. c.trail_lim # <<>> /\ LastSize(c) = c.trail_lim[D]
    BY <1>1 DEF LastSize, DecisionLevel
  <1>3. c.trail_lim[lev + 1] <= c.trail_lim[D] /\ c.trail_lim[lev + 1] \in Nat /\ c.trail_lim[D] \in Nat
    BY <1>1, CoreFields DEF TrailOK, LimitsOK
  <1>4. \A n \in 1..c.trail_lim[lev + 1] : n \in 1..LastSize(c)
    <2> DEFINE x == c.trail_lim[lev + 1]
               y == LastSize(c)
    <2>1. x \in Nat /\ y \in Nat /\ x <= y
      BY <1>2, <1>3
    <2> HIDE DEF x, y
    <2>2. \A n \in 1..x : n \in 1..y
      BY <2>1
    <2> QED BY <2>2 DEF x, y
  <1> QED BY <1>4 DEF Covered

LearntTo(c, d, lemmas, M) ==
    Steps(c, d, lemmas, M) /\ d.ok = c.ok /\ (Covered(c, LastSize(c)) => Covered(d, Len(d.trail)))

LEMMA LearntGood ==
    ASSUME NEW c, NEW s, NEW lemmas, NEW M, CanLearn(c, s, lemmas), Given(c, s, M)
    PROVE  LearntTo(c, Learnt(c, s), lemmas, M)
  <1> DEFINE lev == BacktrackLevel(c, s)
             d == CancelUntil(c, lev)
             e == NewClause(d, s, TRUE)
             p == s[1]
             cr == Len(e.ca)
             u == UncheckedEnqueue(d, p, CRef_Undef)
             w == UncheckedEnqueue(e, p, cr)
  <1>1. /\ c \in Core /\ Good(c, lemmas) /\ TrailOK(c) /\ s \in Seq(Lit) /\ Distinct(s) /\ Len(s) \in Nat /\ Len(s) >= 1
        /\ lev \in Nat /\ lev < DecisionLevel(c) /\ M \subseteq Total
    BY DEF CanLearn, Good, Given
  <1>2. Learnt(c, s) = IF Len(s) = 1 THEN u ELSE w
    BY DEF Learnt
  <1>3. Cancelled(c, d, lev, lemmas) /\ IsUndef(d, p) /\ p \in Lit /\ FalseAt(d, Range(s) \ {p}, lev)
    BY LearntAsserting
  <1>4. lev = 0 \/ Len(s) # 1
    BY DEF BacktrackLevel
  <1> HIDE DEF lev, d, p
  <1>5. /\ d \in Core /\ Good(d, lemmas) /\ Steps(c, d, lemmas, M) /\ d.ok = c.ok /\ DecisionLevel(d) = lev
        /\ TrailOK(d)
    BY <1>3 DEF Cancelled, Good
  <1>6. Covered(c, LastSize(c)) => Covered(d, Len(d.trail))
    BY <1>1, <1>3, LastCovers DEF Cancelled
  <1>7. Given(d, s, M)
    <2>1. \A m \in M : Agrees(m, d) => Agrees(m, c)
      <3>1. /\ d.level = c.level /\ SameDb(c, d) /\ d.ok = c.ok
            /\ d.assigns = {q \in c.assigns : LevelOf(c, q) <= lev}
        BY <1>3 DEF Cancelled
      <3>2. Live(d) = Live(c) /\ \A k : Lits(d, k) = Lits(c, k)
        BY <3>1 DEF SameDb, Live, Lits
      <3>3. \A q \in c.assigns : LevelOf(c, q) = 0 => q \in d.assigns /\ LevelOf(d, q) = 0
        BY <1>1, <3>1 DEF LevelOf
      <3> QED BY <3>1, <3>2, <3>3 DEF Agrees, SameDb
    <2> QED BY <2>1 DEF Given
  <1>8. CASE Len(s) = 1
    <2>1. \A m \in M : Agrees(m, d) => p \in m
      BY <1>7, <1>8, UnitHolds DEF p
    <2>2. Steps(d, u, lemmas, M) /\ Extends(d, u) /\ u.ok = d.ok /\ u \in Core
      <3>1. Steps(d, u, lemmas, M) /\ Extends(d, u) /\ u.ok = d.ok
        BY <1>3, <1>4, <1>5, <1>8, <2>1, RootUnit
      <3> QED BY <3>1 DEF Steps
    <2> HIDE DEF u
    <2>3. Steps(c, u, lemmas, M)
      BY <1>5, <2>2, StepsTwice
    <2>4. Covered(d, Len(d.trail)) => Covered(u, Len(u.trail))
      BY <1>5, <2>2, ExtendsCovers DEF Covers
    <2> QED BY <1>2, <1>5, <1>6, <1>8, <2>2, <2>3, <2>4 DEF LearntTo
  <1>9. CASE Len(s) # 1
    <2>1. Len(s) >= 2
      <3> DEFINE n == Len(s)
      <3>1. n \in Nat /\ n # 1 /\ n >= 1
        BY <1>1, <1>9
      <3> HIDE DEF n
      <3>2. n >= 2
        BY <3>1
      <3> QED BY <3>2 DEF n
    <2>2. AddedTo(d, s, lemmas, M, e)
      BY <1>5, <1>7, <2>1, NewClauseStep DEF CanAdd
    <2> HIDE DEF e
    <2>3. /\ e \in Core /\ Good(e, lemmas) /\ Steps(d, e, lemmas, M) /\ Covers(d, e) /\ e.ok = d.ok
          /\ SameTrail(d, e) /\ cr \in Live(e) /\ e.ca[cr].lits = s /\ Lits(e, cr) = Range(s)
      BY <2>2 DEF AddedTo, Steps
    <2>4. IsUndef(e, p) /\ FalseAt(e, Range(s) \ {p}, lev) /\ DecisionLevel(e) = lev
      BY <1>3, <1>5, <2>3 DEF SameTrail, IsUndef, IsTrue, IsFalse, FalseAt, LevelOf, DecisionLevel
    <2> HIDE DEF cr
    <2>5. w = Enqueued(e, p, lev, cr)
      BY <2>4, UncheckedIs
    <2>6. EnqueuedTo(e, lemmas, p, lev, cr, M, w) /\ cr # 0
      <3>1. p = e.ca[cr].lits[1] /\ lev <= DecisionLevel(e)
        BY <1>1, <2>3, <2>4 DEF p
      <3> QED BY <1>1, <2>3, <2>4, <2>5, <3>1, EnqueueFrom
    <2> HIDE DEF w
    <2>7. Steps(e, w, lemmas, M) /\ Covers(e, w) /\ w.ok = e.ok
      BY <2>3, <2>6, AfterEnqueue
    <2>8. Steps(c, w, lemmas, M)
      BY <1>5, <2>3, <2>7, StepsTwice
    <2> QED BY <1>2, <1>5, <1>6, <1>9, <2>3, <2>7, <2>8 DEF LearntTo, Covers
  <1> QED BY <1>8, <1>9

-----------------------------------------------------------------------------
(***************************************************************************)
(* The small steps of search.                                              *)
(***************************************************************************)
\* The solver skips what is left of its queue.
LEMMA SkipQueue ==
    ASSUME NEW c, NEW lemmas, NEW M, c \in Core, Good(c, lemmas)
    PROVE  LET d == [c EXCEPT !.qhead = Len(c.trail)]
           IN Steps(c, d, lemmas, M) /\ Covers(c, d) /\ d.trail_lim = c.trail_lim /\ d.ok = c.ok
              /\ \A cr : AllFalse(c, cr) => AllFalse(d, cr)
  <1> DEFINE d == [c EXCEPT !.qhead = Len(c.trail)]
  <1>1. Len(c.trail) \in Nat /\ TrailOK(c) /\ DbOK(c)
    BY CoreFields DEF Good
  <1>2. /\ d \in Core /\ SameTrail(c, d) /\ d.reason = c.reason /\ d.told = c.told
        /\ d.theory_level = c.theory_level /\ SameDb(c, d) /\ d.ok = c.ok /\ d.qhead = Len(c.trail)
    BY <1>1 DEF Core, SameTrail, SameDb
  <1> HIDE DEF d
  <1>3. KeepsReasons(c, d) /\ Live(d) = Live(c) /\ \A cr : Lits(d, cr) = Lits(c, cr)
    BY <1>2 DEF KeepsReasons, SameDb, Live, Lits
  <1>4. DbOK(d)
    BY <1>1, <1>2, DbFrame
  <1>5. d.qhead <= Len(d.trail)
    BY <1>1, <1>2 DEF SameTrail
  <1>6. Good(d, lemmas) /\ NoDecision(c, d) /\ Extends(c, d)
    BY <1>1, <1>2, <1>3, <1>4, <1>5, DbChangeGood
  <1>7. Follows(c, d, M)
    BY <1>2, <1>3, SameClauses DEF SameDb
  <1>8. Covers(c, d)
    BY <1>1, <1>2, <1>6, ExtendsCovers
  <1>9. \A cr : AllFalse(c, cr) => AllFalse(d, cr)
    BY <1>2, <1>3 DEF AllFalse, IsFalse, SameTrail
  <1> QED BY <1>2, <1>6, <1>7, <1>8, <1>9 DEF Steps, SameTrail, d

\* The last of the delayed clauses is taken.
LEMMA TakeDelayed ==
    ASSUME NEW c, NEW lemmas, NEW M, c \in Core, Good(c, lemmas), c.delayed # <<>>
    PROVE  LET d == [c EXCEPT !.delayed = Front(c.delayed)]
           IN Steps(c, d, lemmas, M) /\ Covers(c, d) /\ d.trail_lim = c.trail_lim /\ d.ok = c.ok
              /\ \A cr : AllFalse(c, cr) => AllFalse(d, cr)
  <1> DEFINE f == Front(c.delayed)
             d == [c EXCEPT !.delayed = f]
  <1>0. c.delayed \in Seq(Seq(Lit)) /\ TrailOK(c) /\ DbOK(c)
    BY CoreFields DEF Good
  <1>1. f \in Seq(Seq(Lit)) /\ DOMAIN f \subseteq DOMAIN c.delayed
        /\ \A i \in DOMAIN f : f[i] = c.delayed[i]
    BY <1>0 DEF Front
  <1> HIDE DEF f
  <1>2. /\ d \in Core /\ SameTrail(c, d) /\ d.reason = c.reason /\ d.told = c.told
        /\ d.theory_level = c.theory_level /\ d.ok = c.ok /\ d.qhead = c.qhead
        /\ d.ca = c.ca /\ d.watches = c.watches /\ d.delayed = f
    BY <1>1 DEF Core, SameTrail
  <1> HIDE DEF d
  <1>3. KeepsReasons(c, d) /\ Live(d) = Live(c) /\ \A cr : Lits(d, cr) = Lits(c, cr)
    BY <1>2 DEF KeepsReasons, Live, Lits
  <1>4. DbOK(d)
    BY <1>0, <1>1, <1>2 DEF DbOK
  <1>5. d.qhead <= Len(d.trail)
    BY <1>0, <1>2 DEF SameTrail, TrailOK
  <1>6. Good(d, lemmas) /\ NoDecision(c, d) /\ Extends(c, d)
    BY <1>2, <1>3, <1>4, <1>5, DbChangeGood
  <1>7. Follows(c, d, M)
    BY <1>1, <1>2, <1>3 DEF Follows, Agrees, SameTrail, LevelOf
  <1>8. Covers(c, d)
    BY <1>0, <1>2, <1>6, ExtendsCovers
  <1>9. \A cr : AllFalse(c, cr) => AllFalse(d, cr)
    BY <1>2, <1>3 DEF AllFalse, IsFalse, SameTrail
  <1> QED BY <1>2, <1>6, <1>7, <1>8, <1>9 DEF Steps, SameTrail, d, f

LEMMA DelayedGiven ==
    ASSUME NEW c, NEW lemmas, NEW M, c \in Core, Good(c, lemmas), c.delayed # <<>>, M \subseteq Total
    PROVE  Given(c, Last(c.delayed), M)
  <1>1. c.delayed \in Seq(Seq(Lit)) /\ DbOK(c)
    BY CoreFields DEF Good
  <1>2. PICK i \in DOMAIN c.delayed : Last(c.delayed) = c.delayed[i] /\ c.delayed[i] \in Seq(Lit)
    BY <1>1 DEF Last
  <1>3. Distinct(c.delayed[i])
    BY <1>1 DEF DbOK
  <1>4. \A m \in M : Agrees(m, c) => m \cap Range(c.delayed[i]) # {}
    BY DEF Agrees
  <1> QED BY <1>2, <1>3, <1>4 DEF Given

\* What opens a level.
Opened(c, d, lemmas, M) ==
    /\ Steps(c, d, lemmas, M) /\ Covers(c, d) /\ d.ok = c.ok
    /\ d.trail = c.trail /\ d.assigns = c.assigns /\ d.delayed = c.delayed /\ d.qhead = c.qhead
LEMMA NewLevelStep ==
    ASSUME NEW c, NEW lemmas, NEW M, c \in Core, Good(c, lemmas)
    PROVE  LET d == NewDecisionLevel(c)
           IN Opened(c, d, lemmas, M) /\ DecisionLevel(d) = DecisionLevel(c) + 1
              /\ d.trail_lim[DecisionLevel(d)] = Len(d.trail)
  <1> DEFINE d == NewDecisionLevel(c)
  <1>1. /\ Good(d, lemmas) /\ DecisionLevel(d) = DecisionLevel(c) + 1
        /\ d.trail_lim[DecisionLevel(c) + 1] = Len(c.trail)
        /\ \A l \in 1..DecisionLevel(c) : d.trail_lim[l] = c.trail_lim[l]
        /\ d.trail = c.trail /\ d.assigns = c.assigns /\ Held(d) = Held(c)
        /\ d.ok = c.ok /\ d.delayed = c.delayed /\ d.qhead = c.qhead
        /\ \A K : Follows(c, d, K)
        /\ NoDecision(c, d)
    BY NewLevelGood
  <1> HIDE DEF d
  <1>2. d \in Core /\ TrailOK(d) /\ TrailOK(c) /\ DecisionLevel(c) \in Nat
    BY <1>1, CoreFields DEF Good
  <1>3. RootSize(d) = RootSize(c)
    <2>1. d.trail_lim # <<>>
      BY <1>1, <1>2, RootFacts
    <2>2. RootSize(d) = d.trail_lim[1]
      BY <2>1 DEF RootSize
    <2>3. CASE DecisionLevel(c) = 0
      <3>1. c.trail_lim = <<>>
        BY <1>2, <2>3, RootFacts
      <3>2. RootSize(c) = Len(c.trail)
        BY <3>1 DEF RootSize
      <3> QED BY <1>1, <2>2, <2>3, <3>2
    <2>4. CASE DecisionLevel(c) # 0
      <3>1. c.trail_lim # <<>> /\ 1 \in 1..DecisionLevel(c)
        BY <1>2, <2>4, RootFacts
      <3>2. RootSize(c) = c.trail_lim[1]
        BY <3>1 DEF RootSize
      <3> QED BY <1>1, <2>2, <3>1, <3>2
    <2> QED BY <2>3, <2>4
  <1>4. Covers(c, d)
    BY <1>1, <1>3 DEF Covers, Covered
  <1> QED BY <1>1, <1>2, <1>4 DEF Opened, Steps, d

LEMMA OpenedTwice ==
    ASSUME NEW b, NEW c, NEW d, NEW lemmas, NEW M, Opened(b, c, lemmas, M), Opened(c, d, lemmas, M)
    PROVE  Opened(b, d, lemmas, M)
  BY StepsTwice, CoversTwice DEF Opened

-----------------------------------------------------------------------------
\* A level for each assumption that is true already.
LevelAll(c, s) == Fold(LAMBDA x, i : NewDecisionLevel(x), c, s)

LEMMA LevelTurns ==
    ASSUME NEW T, NEW s \in Seq(T), NEW r
    PROVE  \E f : /\ f[0] = r /\ LevelAll(r, s) = f[Len(s)]
                  /\ \A i \in 1..Len(s) : f[i] = NewDecisionLevel(f[i - 1])
  <1> DEFINE B(f) == f = [i \in 0..Len(s) |-> IF i = 0 THEN r ELSE NewDecisionLevel(f[i - 1])]
             k == CHOOSE f : B(f)
  <1>1. Len(s) \in Nat
    OBVIOUS
  <1>2. PICK f : Turns(f, "level", 0, r, s, Len(s))
    BY <1>1, TurnsExist
  <1>3. B(f)
    BY <1>2 DEF Turns, Turn
  <1>4. B(k)
    BY <1>3
  <1>5. LevelAll(r, s) = k[Len(s)]
    BY DEF Fold, LevelAll
  <1> HIDE DEF k
  <1>6. k[0] = r
    BY <1>1, <1>4, 0 \in 0..Len(s)
  <1>7. ASSUME NEW i \in 1..Len(s) PROVE k[i] = NewDecisionLevel(k[i - 1])
    BY <1>1, <1>4, i \in 0..Len(s), i # 0
  <1> QED BY <1>5, <1>6, <1>7

LEMMA LevelsOpened ==
    ASSUME NEW c, NEW lemmas, NEW M, c \in Core, Good(c, lemmas), NEW s \in Seq(Int)
    PROVE  Opened(c, LevelAll(c, s), lemmas, M)
           /\ DecisionLevel(LevelAll(c, s)) = DecisionLevel(c) + Len(s)
  <1> DEFINE end == LevelAll(c, s)
             n == Len(s)
             top == DecisionLevel(c)
  <1>1. n \in Nat /\ top \in Nat
    BY CoreFields
  <1>2. PICK f : f[0] = c /\ end = f[n] /\ \A i \in 1..n : f[i] = NewDecisionLevel(f[i - 1])
    BY LevelTurns
  <1>3. Opened(c, c, lemmas, M)
    BY StepsSelf DEF Opened, Covers
  <1> HIDE DEF end, n
  <1> DEFINE S == {i \in 0..n : Opened(c, f[i], lemmas, M) /\ DecisionLevel(f[i]) = top + i}
  <1>4. 0 \in S
    BY <1>1, <1>2, <1>3
  <1>5. ASSUME NEW i \in 1..n, i - 1 \in S PROVE i \in S
    <2> DEFINE x == f[i - 1]
               d == NewDecisionLevel(x)
    <2>1. Opened(c, x, lemmas, M) /\ DecisionLevel(x) = top + (i - 1) /\ f[i] = d /\ i \in 0..n
      BY <1>1, <1>2, <1>5
    <2> HIDE DEF x
    <2>2. x \in Core /\ Good(x, lemmas)
      BY <2>1 DEF Opened, Steps
    <2>3. Opened(x, d, lemmas, M) /\ DecisionLevel(d) = DecisionLevel(x) + 1
      BY <2>2, NewLevelStep
    <2> HIDE DEF d
    <2>4. Opened(c, d, lemmas, M)
      BY <2>1, <2>3, OpenedTwice
    <2>5. DecisionLevel(d) = top + i
      BY <1>1, <2>1, <2>3
    <2> QED BY <2>1, <2>4, <2>5
  <1> HIDE DEF S
  <1>6. \A i \in 0..n : i \in S
    BY <1>1, <1>4, <1>5, UpTo
  <1>7. n \in S
    BY <1>1, <1>6
  <1> QED BY <1>2, <1>7 DEF S, n, end

\* A decision.
DecidedTo(c, d, lemmas, M) ==
    /\ d \in Core /\ Good(d, lemmas) /\ Follows(c, d, M) /\ Covers(c, d) /\ d.ok = c.ok
LEMMA DecideGood ==
    ASSUME NEW c, NEW p, NEW lemmas, NEW M, c \in Core, Good(c, lemmas), p \in Lit, IsUndef(c, p)
    PROVE  DecidedTo(c, UncheckedEnqueue(NewDecisionLevel(c), p, CRef_Undef), lemmas, M)
  <1> DEFINE b == NewDecisionLevel(c)
             lev == DecisionLevel(b)
             d == UncheckedEnqueue(b, p, CRef_Undef)
  <1>1. Opened(c, b, lemmas, M) /\ lev = DecisionLevel(c) + 1 /\ b.trail_lim[lev] = Len(b.trail)
    BY NewLevelStep
  <1> HIDE DEF b
  <1>2. b \in Core /\ Good(b, lemmas) /\ Follows(c, b, M) /\ Covers(c, b) /\ b.ok = c.ok
    BY <1>1 DEF Opened, Steps
  <1>3. lev \in Nat /\ lev > 0 /\ TrailOK(b)
    BY <1>1, <1>2, CoreFields DEF Good
  <1>4. IsUndef(b, p)
    BY <1>1 DEF Opened, IsUndef, IsTrue, IsFalse
  <1>5. CauseFor(b, lemmas, p, lev, 0)
    BY <1>1, <1>3 DEF CauseFor
  <1>6. CanEnqueue(b, lemmas, p, lev, 0, M)
    BY <1>2, <1>3, <1>4, <1>5 DEF CanEnqueue
  <1>7. d = Enqueued(b, p, lev, 0)
    BY UncheckedIs DEF CRef_Undef
  <1>8. EnqueuedTo(b, lemmas, p, lev, 0, M, d)
    BY <1>6, <1>7, EnqueuedStep
  <1> HIDE DEF d
  <1>9. d \in Core /\ Good(d, lemmas) /\ Follows(b, d, M) /\ Extends(b, d) /\ d.ok = b.ok
    BY <1>8 DEF EnqueuedTo
  <1>10. Covers(b, d)
    BY <1>2, <1>3, <1>9, ExtendsCovers
  <1>11. Covers(c, d) /\ Follows(c, d, M)
    BY <1>2, <1>9, <1>10, CoversTwice DEF Follows
  <1> QED BY <1>2, <1>9, <1>11 DEF DecidedTo, d, b

-----------------------------------------------------------------------------
\* The theory is told literals it may hold already.
Retold(c, d) ==
    /\ d \in Core /\ ToldOK(d) /\ SameTrail(c, d) /\ d.reason = c.reason /\ d.qhead = c.qhead
    /\ SameDb(c, d) /\ d.ok = c.ok /\ d.initialPropagate = c.initialPropagate
    /\ Held(c) \subseteq Held(d)
LEMMA RetoldSame ==
    ASSUME NEW c, NEW d, Retold(c, d)
    PROVE  /\ d \in Core /\ ToldOK(d) /\ d.trail = c.trail /\ d.assigns = c.assigns
           /\ DecisionLevel(d) = DecisionLevel(c) /\ \A p : LevelOf(d, p) = LevelOf(c, p)
  BY DEF Retold, SameTrail, DecisionLevel, LevelOf

LEMMA TellAgain ==
    ASSUME NEW c, NEW d, NEW p, c \in Core, TrailOK(c), DecisionLevel(c) = 0, Retold(c, d),
           p \in c.assigns
    PROVE  Retold(c, Tell(d, p))
  <1> DEFINE e == Tell(d, p)
  <1>1. /\ d \in Core /\ ToldOK(d) /\ d.trail = c.trail /\ d.assigns = c.assigns
        /\ DecisionLevel(d) = 0 /\ LevelOf(d, p) = LevelOf(c, p)
    BY RetoldSame
  <1>2. p \in Lit /\ LevelOf(c, p) \in 0..DecisionLevel(c) /\ Distinct(c.trail)
    BY AssignedFacts DEF TrailOK
  <1>3. \A i \in 1..Len(d.told) : d.told[i].lit \in Lit
    BY <1>1, HeldFacts
  <1>4. \A i \in 1..Len(d.told) : d.told[i].lit # 0
    BY <1>3, LitFacts
  <1>5. ToldBut(d, p)
    BY <1>1, <1>4 DEF ToldOK, ToldBut
  <1>6. HasTheory(p) \/ p \notin Held(d)
    <2>1. ASSUME p \in Held(d) PROVE HasTheory(p)
      <3>1. PICK i \in 1..Len(d.told) : d.told[i].lit = p
        BY <1>1, <2>1, HeldFacts
      <3>2. HeldAt(d, d.told[i])
        BY <1>1, <1>4 DEF ToldOK, ToldBut
      <3> QED BY <3>1, <3>2 DEF HeldAt
    <2> QED BY <2>1
  <1>7. LevelOf(d, p) <= DecisionLevel(d)
    BY <1>1, <1>2
  <1>8. Distinct(d.trail) /\ p \in d.assigns
    BY <1>1, <1>2
  <1>9. /\ e \in Core /\ ToldOK(e)
        /\ e = [d EXCEPT !.told = e.told, !.theory_level = e.theory_level]
        /\ SameTrail(d, e)
        /\ Held(e) = IF HasTheory(p) THEN Held(d) \cup {p} ELSE Held(d)
    BY <1>1, <1>2, <1>5, <1>6, <1>7, <1>8, TellKeeps
  <1> DEFINE t == e.told
             l == e.theory_level
  <1>10. e = [d EXCEPT !.told = t, !.theory_level = l]
    BY <1>9
  <1>11. /\ e.reason = d.reason /\ e.qhead = d.qhead /\ SameDb(d, e) /\ e.ok = d.ok
         /\ e.initialPropagate = d.initialPropagate
    <2> HIDE DEF t, l, e
    <2> QED BY <1>1, <1>10 DEF Core, SameDb
  <1>12. Held(d) \subseteq Held(e)
    BY <1>9
  <1> HIDE DEF e
  <1> QED BY <1>9, <1>11, <1>12 DEF Retold, SameTrail, SameDb, e

LEMMA RetoldGood ==
    ASSUME NEW c, NEW d, NEW lemmas, NEW M, c \in Core, Good(c, lemmas), Retold(c, d)
    PROVE  Steps(c, d, lemmas, M) /\ Covers(c, d)
  <1>1. /\ d \in Core /\ ToldOK(d) /\ SameTrail(c, d) /\ d.reason = c.reason /\ d.qhead = c.qhead
        /\ SameDb(c, d) /\ d.ok = c.ok /\ Held(c) \subseteq Held(d)
    BY DEF Retold
  <1>2. TrailOK(c) /\ DbOK(c) /\ CausesOK(c, lemmas)
    BY DEF Good
  <1>3. DbOK(d)
    BY <1>1, <1>2, DbFrame
  <1>4. TrailOK(d)
    BY <1>1, <1>2 DEF TrailOK, LimitsOK, SameTrail, DecisionLevel, LevelOf
  <1>5. CausesOK(d, lemmas)
    <2> SUFFICES ASSUME NEW i \in 1..Len(c.trail) PROVE CauseOK(d, lemmas, i)
      BY <1>1 DEF CausesOK, SameTrail
    <2>1. /\ d.trail = c.trail /\ d.trail_lim = c.trail_lim /\ DecisionLevel(d) = DecisionLevel(c)
          /\ \A p : LevelOf(d, p) = LevelOf(c, p) /\ ReasonOf(d, p) = ReasonOf(c, p)
          /\ Live(d) = Live(c) /\ d.ca = c.ca /\ \A cr : Lits(d, cr) = Lits(c, cr)
      BY <1>1 DEF SameTrail, SameDb, DecisionLevel, LevelOf, ReasonOf, Live, Lits
    <2>2. CauseOK(c, lemmas, i) /\ LevelOf(c, c.trail[i]) <= DecisionLevel(c)
      BY <1>2 DEF CausesOK, TrailOK
    <2>3. DecisionLevel(c) \in Nat
      BY CoreFields
    <2> QED BY <1>1, <2>1, <2>2, <2>3, CauseFrame
  <1>6. NoDecision(c, d)
    BY <1>1 DEF NoDecision, SameTrail, LevelOf, ReasonOf
  <1>7. Live(d) = Live(c) /\ (\A cr \in Live(c) : Lits(d, cr) = Lits(c, cr)) /\ d.delayed = c.delayed
    BY <1>1 DEF SameDb, Live, Lits
  <1>8. Follows(c, d, M)
    BY <1>1, <1>7, SameClauses
  <1>9. Covers(c, d)
    BY <1>1 DEF Covers, Covered, RootSize, SameTrail
  <1> QED BY <1>1, <1>3, <1>4, <1>5, <1>6, <1>8, <1>9 DEF Steps, Good

-----------------------------------------------------------------------------
LEMMA TellAllGood ==
    ASSUME NEW c, NEW s, c \in Core, TrailOK(c), ToldOK(c), DecisionLevel(c) = 0, s \in Seq(Lit),
           \A i \in 1..Len(s) : s[i] \in c.assigns
    PROVE  Retold(c, TellAll(c, s))
  <1> DEFINE end == TellAll(c, s)
             n == Len(s)
  <1>1. n \in Nat
    OBVIOUS
  <1>2. PICK f : f[0] = c /\ end = f[n] /\ \A i \in 1..n : f[i] = Tell(f[i - 1], s[i])
    BY ToldTurns
  <1>3. Retold(c, c)
    BY DEF Retold, SameTrail, SameDb
  <1> HIDE DEF end, n
  <1> DEFINE S == {i \in 0..n : Retold(c, f[i])}
  <1>4. 0 \in S
    BY <1>1, <1>2, <1>3
  <1>5. ASSUME NEW i \in 1..n, i - 1 \in S PROVE i \in S
    <2> DEFINE x == f[i - 1]
    <2>1. Retold(c, x) /\ f[i] = Tell(x, s[i]) /\ i \in 0..n
      BY <1>1, <1>2, <1>5
    <2> HIDE DEF x
    <2>2. s[i] \in c.assigns
      BY DEF n
    <2>3. Retold(c, Tell(x, s[i]))
      BY <2>1, <2>2, TellAgain
    <2> QED BY <2>1, <2>3
  <1> HIDE DEF S
  <1>6. \A i \in 0..n : i \in S
    BY <1>1, <1>4, <1>5, UpTo
  <1>7. n \in S
    BY <1>1, <1>6
  <1> QED BY <1>2, <1>7 DEF S, end

\* What the theory is told again: what was propagated.
TellQueued(c) == TellAll(c, SubSeq(c.trail, 1, c.qhead))
LEMMA TellQueuedGood ==
    ASSUME NEW c, NEW lemmas, NEW M, c \in Core, Good(c, lemmas), DecisionLevel(c) = 0
    PROVE  Retold(c, TellQueued(c)) /\ Steps(c, TellQueued(c), lemmas, M) /\ Covers(c, TellQueued(c))
  <1> DEFINE s == SubSeq(c.trail, 1, c.qhead)
  <1>1. /\ TrailOK(c) /\ ToldOK(c) /\ c.trail \in Seq(Lit) /\ c.qhead \in Nat /\ c.qhead <= Len(c.trail)
        /\ Len(c.trail) \in Nat
    BY CoreFields DEF Good, TrailOK
  <1>2. s \in Seq(Lit) /\ Len(s) = c.qhead /\ \A i \in 1..c.qhead : s[i] = c.trail[i]
    BY <1>1, PrefixFacts
  <1> HIDE DEF s
  <1>3. \A i \in 1..Len(s) : s[i] \in c.assigns
    <2> SUFFICES ASSUME NEW i \in 1..Len(s) PROVE s[i] \in c.assigns
      OBVIOUS
    <2>1. i \in 1..Len(c.trail) /\ s[i] = c.trail[i]
      BY <1>1, <1>2
    <2> QED BY <1>1, <2>1, AssignedFacts
  <1>4. Retold(c, TellAll(c, s))
    BY <1>1, <1>2, <1>3, TellAllGood
  <1> QED BY <1>4, RetoldGood DEF TellQueued, s

LEMMA Flagged ==
    ASSUME NEW c, NEW d, NEW lemmas, NEW M, c \in Core, Good(c, lemmas), Reflagged(c, d), d.ok = c.ok
    PROVE  Opened(c, d, lemmas, M) /\ d.trail_lim = c.trail_lim /\ d.ca = c.ca
  BY ReflagStep DEF Reflagged, Opened, SameTrail, SameDb

\* Once after clauses were added, propagate queues the theory.
Queued(c, d, lemmas, M) ==
    /\ Steps(c, d, lemmas, M) /\ Covers(c, d) /\ d.ok = c.ok /\ d.trail_lim = c.trail_lim
    /\ d.assigns = c.assigns /\ d.ca = c.ca
LEMMA QueuedTwice ==
    ASSUME NEW b, NEW c, NEW d, NEW lemmas, NEW M, Queued(b, c, lemmas, M), Queued(c, d, lemmas, M)
    PROVE  Queued(b, d, lemmas, M)
  BY StepsTwice, CoversTwice DEF Queued
LEMMA QueuedFlag ==
    ASSUME NEW c, NEW d, NEW lemmas, NEW M, c \in Core, Good(c, lemmas), Reflagged(c, d), d.ok = c.ok
    PROVE  Queued(c, d, lemmas, M)
  BY Flagged DEF Queued, Opened
LEMMA QueuedAll ==
    ASSUME NEW c, NEW lemmas, NEW M, c \in Core, Good(c, lemmas), DecisionLevel(c) = 0
    PROVE  /\ Queued(c, TellQueued(c), lemmas, M)
           /\ Queued(c, [TellQueued(c) EXCEPT !.theory_queue = TRUE, !.initialPropagate = FALSE], lemmas, M)
  <1> DEFINE b == TellQueued(c)
             e == [b EXCEPT !.theory_queue = TRUE]
             d == [e EXCEPT !.initialPropagate = FALSE]
  <1>1. Retold(c, b) /\ Steps(c, b, lemmas, M) /\ Covers(c, b)
    BY TellQueuedGood
  <1> HIDE DEF b
  <1>2. Queued(c, b, lemmas, M)
    BY <1>1 DEF Queued, Retold, SameTrail, SameDb
  <1>3. b \in Core /\ Good(b, lemmas)
    BY <1>1 DEF Steps
  <1>4. Reflagged(b, e) /\ e.ok = b.ok
    BY <1>3, FlagFields
  <1>5. d = [b EXCEPT !.theory_queue = TRUE, !.initialPropagate = FALSE]
    BY <1>3 DEF Core
  <1> HIDE DEF e
  <1>6. Queued(b, e, lemmas, M)
    BY <1>3, <1>4, QueuedFlag
  <1>7. e \in Core /\ Good(e, lemmas)
    BY <1>6 DEF Queued, Steps
  <1>8. Reflagged(e, d) /\ d.ok = e.ok
    BY <1>7, FlagFields
  <1> HIDE DEF d
  <1>9. Queued(e, d, lemmas, M)
    BY <1>7, <1>8, QueuedFlag
  <1>10. Queued(c, d, lemmas, M)
    BY <1>2, <1>6, <1>9, QueuedTwice
  <1> QED BY <1>2, <1>5, <1>10 DEF b

-----------------------------------------------------------------------------
(***************************************************************************)
(* Removing clauses.                                                       *)
(***************************************************************************)
\* The reasons that go, first; then the clauses.
Unreasoned(c, heads) == [c EXCEPT !.reason = [v \in Var |-> IF v \in heads THEN CRef_Undef ELSE c.reason[v]]]
LEMMA UnreasonedGood ==
    ASSUME NEW c, NEW lemmas, NEW heads, c \in Core, Good(c, lemmas),
           heads = {} \/ DecisionLevel(c) = 0
    PROVE  LET d == Unreasoned(c, heads)
           IN /\ d \in Core /\ Good(d, lemmas) /\ SameTrail(c, d) /\ d.told = c.told
              /\ d.theory_level = c.theory_level /\ SameDb(c, d) /\ d.ok = c.ok /\ d.qhead = c.qhead
              /\ \A v \in Var : d.reason[v] = IF v \in heads THEN 0 ELSE c.reason[v]
  <1> DEFINE d == Unreasoned(c, heads)
  <1>1. /\ d \in Core /\ SameTrail(c, d) /\ d.told = c.told
        /\ d.theory_level = c.theory_level /\ SameDb(c, d) /\ d.ok = c.ok /\ d.qhead = c.qhead
        /\ \A v \in Var : d.reason[v] = IF v \in heads THEN 0 ELSE c.reason[v]
    <2> DEFINE R == [v \in Var |-> IF v \in heads THEN CRef_Undef ELSE c.reason[v]]
    <2>1. c.reason \in [Var -> Int]
      BY CoreFields
    <2>2. R \in [Var -> Int] /\ \A v \in Var : R[v] = IF v \in heads THEN 0 ELSE c.reason[v]
      BY <2>1 DEF CRef_Undef
    <2>3. d = [c EXCEPT !.reason = R]
      BY DEF Unreasoned
    <2> HIDE DEF R, d
    <2>4. /\ d \in Core /\ SameTrail(c, d) /\ d.told = c.told /\ d.reason = R
          /\ d.theory_level = c.theory_level /\ SameDb(c, d) /\ d.ok = c.ok /\ d.qhead = c.qhead
      BY <2>2, <2>3 DEF Core, SameTrail, SameDb
    <2> QED BY <2>2, <2>4
  <1> HIDE DEF d
  <1>2. TrailOK(c) /\ ToldOK(c) /\ DbOK(c) /\ CausesOK(c, lemmas)
    BY DEF Good
  <1>3. /\ d.trail = c.trail /\ d.trail_lim = c.trail_lim /\ DecisionLevel(d) = DecisionLevel(c)
        /\ d.assigns = c.assigns /\ d.ca = c.ca
        /\ \A p : LevelOf(d, p) = LevelOf(c, p)
        /\ Live(d) = Live(c) /\ \A cr : Lits(d, cr) = Lits(c, cr)
    BY <1>1 DEF SameTrail, SameDb, DecisionLevel, LevelOf, Live, Lits
  <1>4. DbOK(d)
    BY <1>1, <1>2, DbFrame
  <1>5. TrailOK(d)
    BY <1>1, <1>2, <1>3 DEF TrailOK, LimitsOK
  <1>6. ToldOK(d)
    BY <1>1, <1>2, <1>3 DEF ToldOK, ToldBut, HeldAt, InOrder
  <1>7. CausesOK(d, lemmas)
    <2> SUFFICES ASSUME NEW i \in 1..Len(c.trail) PROVE CauseOK(d, lemmas, i)
      BY <1>3 DEF CausesOK
    <2>1. CauseOK(c, lemmas, i) /\ LevelOf(c, c.trail[i]) <= DecisionLevel(c) /\ c.trail[i] \in Lit
      BY <1>2, CoreFields DEF CausesOK, TrailOK
    <2>2. VarOf(c.trail[i]) \in Var /\ LevelOf(c, c.trail[i]) \in Nat /\ DecisionLevel(c) \in Nat
      BY <2>1, LitFacts, CoreFields
    <2>3. CASE VarOf(c.trail[i]) \in heads
      <3>1. LevelOf(c, c.trail[i]) = 0 /\ ReasonOf(d, c.trail[i]) = 0
        BY <1>1, <2>1, <2>2, <2>3 DEF ReasonOf
      <3> QED BY <1>3, <3>1 DEF CauseOK, Decision
    <2>4. CASE VarOf(c.trail[i]) \notin heads
      <3>1. ReasonOf(d, c.trail[i]) = ReasonOf(c, c.trail[i])
        BY <1>1, <2>2, <2>4 DEF ReasonOf
      <3> QED BY <1>1, <1>3, <2>1, <2>2, <3>1, CauseFrame
    <2> QED BY <2>3, <2>4
  <1> QED BY <1>1, <1>4, <1>5, <1>6, <1>7 DEF Good, d

\* A part of a watch list.
LEMMA WatchPart ==
    ASSUME NEW ca, NEW q, NEW s \in Seq(Watcher), WatchOK(ca, q, s), NEW S
    PROVE  WatchOK(ca, q, Keep(s, S))
  <1> DEFINE t == Keep(s, S)
             n == Len(s)
  <1>1. PICK e : t \in Seq(Watcher) /\ Embeds(e, t, s, S, n)
    BY KeepEmbeds
  <1> HIDE DEF t
  <1>2. n \in Nat /\ Len(t) \in Nat
    BY <1>1
  <1>3. \A j \in 1..Len(t) : e[j] \in 1..n /\ t[j] = s[e[j]]
    BY <1>1 DEF Embeds
  <1>4. \A j, l \in 1..Len(t) : e[j] = e[l] => j = l
    <2> SUFFICES ASSUME NEW j \in 1..Len(t), NEW l \in 1..Len(t), e[j] = e[l], j # l PROVE FALSE
      OBVIOUS
    <2>1. j < l \/ l < j
      BY <1>2
    <2>2. e[j] < e[l] \/ e[l] < e[j]
      BY <1>1, <2>1 DEF Embeds
    <2>3. e[j] \in Nat
      BY <1>2, <1>3
    <2> QED BY <2>2, <2>3
  <1>5. /\ \A i \in 1..n : Watches(ca, q, s[i])
        /\ \A i, j \in 1..n : s[i].cref = s[j].cref => i = j
    BY DEF WatchOK
  <1> HIDE DEF n
  <1>6. \A j \in 1..Len(t) : Watches(ca, q, t[j])
    BY <1>3, <1>5
  <1>7. ASSUME NEW i \in 1..Len(t), NEW j \in 1..Len(t), t[i].cref = t[j].cref PROVE i = j
    BY <1>3, <1>4, <1>5, <1>7
  <1> QED BY <1>6, <1>7 DEF WatchOK, t

-----------------------------------------------------------------------------
Heads(c, R) == {VarOf(c.ca[cr].lits[1]) : cr \in {r \in R : Locked(c, r)}}
KeptWatches(c, R) == [p \in Lit |-> Keep(c.watches[p], {w \in Range(c.watches[p]) : w.cref \notin R})]
KeptClauses(c, R) ==
    [cr \in DOMAIN c.ca |-> IF cr \in R THEN [c.ca[cr] EXCEPT !.lits = <<>>] ELSE c.ca[cr]]
Unlinked(c, R) == [c EXCEPT !.watches = KeptWatches(c, R), !.ca = KeptClauses(c, R)]
LEMMA RemoveIs ==
    ASSUME NEW c, NEW R, c \in Core
    PROVE  RemoveClauses(c, R) = Unlinked(Unreasoned(c, Heads(c, R)), R)
  <1> DEFINE H == [v \in Var |-> IF v \in Heads(c, R) THEN CRef_Undef ELSE c.reason[v]]
             b == Unreasoned(c, Heads(c, R))
             W == KeptWatches(c, R)
             K == KeptClauses(c, R)
  <1>1. RemoveClauses(c, R) = [c EXCEPT !.reason = H, !.watches = W, !.ca = K]
    BY DEF RemoveClauses, Heads, KeptWatches, KeptClauses
  <1>2. b = [c EXCEPT !.reason = H]
    BY DEF Unreasoned
  <1>3. b.watches = c.watches /\ b.ca = c.ca
    <2> HIDE DEF H, b
    <2> QED BY <1>2 DEF Core
  <1> HIDE DEF b
  <1>4. Unlinked(b, R) = [b EXCEPT !.watches = W, !.ca = K]
    BY <1>3 DEF Unlinked, KeptWatches, KeptClauses
  <1> HIDE DEF H, W, K
  <1>5. Unlinked(b, R) = [c EXCEPT !.reason = H, !.watches = W, !.ca = K]
    BY <1>2, <1>4 DEF Core
  <1> QED BY <1>1, <1>5 DEF b

LEMMA KeptFacts ==
    ASSUME NEW c, NEW R, c \in Core, DbOK(c)
    PROVE  LET K == KeptClauses(c, R)
               W == KeptWatches(c, R)
           IN /\ K \in Seq(Clause) /\ DOMAIN K = DOMAIN c.ca
              /\ \A cr \in DOMAIN c.ca : K[cr].lits = IF cr \in R THEN <<>> ELSE c.ca[cr].lits
              /\ W \in [Lit -> Seq(Watcher)] /\ \A p \in Lit : WatchOK(K, p, W[p])
  <1> DEFINE K == KeptClauses(c, R)
             W == KeptWatches(c, R)
  <1>1. /\ c.ca \in Seq(Clause) /\ c.watches \in [Lit -> Seq(Watcher)] /\ Len(c.ca) \in Nat
        /\ DOMAIN c.ca = 1..Len(c.ca) /\ \A cr \in DOMAIN c.ca : c.ca[cr] \in Clause
    <2>1. c.ca \in Seq(Clause) /\ c.watches \in [Lit -> Seq(Watcher)]
      BY CoreFields DEF Clause, Watcher
    <2> QED BY ONLY <2>1, RangeFacts
  <1>2. \A cr \in DOMAIN c.ca : K[cr] \in Clause /\ K[cr].lits = IF cr \in R THEN <<>> ELSE c.ca[cr].lits
    <2> SUFFICES ASSUME NEW cr \in DOMAIN c.ca
                 PROVE  K[cr] \in Clause /\ K[cr].lits = IF cr \in R THEN <<>> ELSE c.ca[cr].lits
      OBVIOUS
    <2>1. c.ca[cr] \in Clause
      BY <1>1
    <2>2. K[cr] = IF cr \in R THEN [c.ca[cr] EXCEPT !.lits = <<>>] ELSE c.ca[cr]
      BY DEF KeptClauses
    <2>3. <<>> \in Seq(Lit)
      OBVIOUS
    <2> QED BY <2>1, <2>2, <2>3 DEF Clause
  <1>3. DOMAIN K = DOMAIN c.ca
    BY DEF KeptClauses
  <1> HIDE DEF K
  <1>4. K \in Seq(Clause)
    <2>1. K = [cr \in 1..Len(c.ca) |-> K[cr]]
      BY <1>1, <1>3 DEF K, KeptClauses
    <2>2. \A cr \in 1..Len(c.ca) : K[cr] \in Clause
      BY <1>1, <1>2
    <2>3. K \in [1..Len(c.ca) -> Clause]
      BY <2>1, <2>2
    <2> QED BY <1>1, <2>3
  <1>5. ASSUME NEW p \in Lit PROVE W[p] \in Seq(Watcher) /\ WatchOK(K, p, W[p])
    <2> DEFINE s == c.watches[p]
               S == {w \in Range(s) : w.cref \notin R}
               t == Keep(s, S)
    <2>1. s \in Seq(Watcher) /\ W[p] = t
      BY <1>1 DEF KeptWatches
    <2>2. WatchOK(c.ca, p, s)
      BY DEF DbOK
    <2> HIDE DEF s
    <2>3. t \in Seq(Watcher) /\ WatchOK(c.ca, p, t) /\ Range(t) = Range(s) \cap S
      BY <2>1, <2>2, WatchPart, KeepFacts
    <2> HIDE DEF t
    <2>4. \A i \in 1..Len(t) : t[i] \in S
      BY <2>3, RangeFacts
    <2>5. \A i \in 1..Len(t) : t[i].cref \notin R
      BY <2>4
    <2>6. WatchOK(K, p, t)
      BY <1>2, <1>3, <2>3, <2>5 DEF WatchOK, Watches
    <2> QED BY <2>1, <2>3, <2>6
  <1>6. W \in [Lit -> Seq(Watcher)]
    BY <1>5 DEF KeptWatches
  <1> QED BY <1>2, <1>3, <1>4, <1>5, <1>6 DEF K

LEMMA RemoveGood ==
    ASSUME NEW c, NEW R, NEW lemmas, NEW M, c \in Core, Good(c, lemmas), R \subseteq Live(c),
           (\A cr \in R : ~Locked(c, cr)) \/ DecisionLevel(c) = 0
    PROVE  LET d == RemoveClauses(c, R)
           IN Steps(c, d, lemmas, M) /\ Covers(c, d) /\ d.ok = c.ok /\ d.trail_lim = c.trail_lim
  <1> DEFINE H == Heads(c, R)
             b == Unreasoned(c, H)
             d == Unlinked(b, R)
             W == KeptWatches(b, R)
             K == KeptClauses(b, R)
  <1>1. H = {} \/ DecisionLevel(c) = 0
    BY DEF Heads
  <1> HIDE DEF H
  <1>2. /\ b \in Core /\ Good(b, lemmas) /\ SameTrail(c, b) /\ b.told = c.told
        /\ b.theory_level = c.theory_level /\ SameDb(c, b) /\ b.ok = c.ok /\ b.qhead = c.qhead
        /\ \A v \in Var : b.reason[v] = IF v \in H THEN 0 ELSE c.reason[v]
    BY ONLY <1>1, c \in Core, Good(c, lemmas), UnreasonedGood
  <1> HIDE DEF b
  <1>3. TrailOK(b) /\ DbOK(b) /\ CausesOK(c, lemmas) /\ TrailOK(c)
    BY <1>2 DEF Good
  <1>4. /\ K \in Seq(Clause) /\ DOMAIN K = DOMAIN b.ca
        /\ \A cr \in DOMAIN b.ca : K[cr].lits = IF cr \in R THEN <<>> ELSE b.ca[cr].lits
        /\ W \in [Lit -> Seq(Watcher)] /\ \A p \in Lit : WatchOK(K, p, W[p])
    BY <1>2, <1>3, KeptFacts
  <1>5. d = [b EXCEPT !.watches = W, !.ca = K]
    BY DEF Unlinked
  <1> HIDE DEF W, K, d
  <1>6. /\ d \in Core /\ SameTrail(b, d) /\ d.reason = b.reason /\ d.told = b.told
        /\ d.theory_level = b.theory_level /\ d.ok = b.ok /\ d.qhead = b.qhead
        /\ d.ca = K /\ d.watches = W /\ d.delayed = b.delayed
    BY <1>2, <1>4, <1>5 DEF Core, SameTrail, Clause, Watcher
  <1>7. DbOK(d)
    BY <1>3, <1>4, <1>6 DEF DbOK, ClauseOK
  <1>8. \A cr \in Live(b) \ R : cr \in Live(d) /\ d.ca[cr].lits = b.ca[cr].lits
    BY <1>4, <1>6 DEF Live
  <1>9. \A cr \in Live(d) : cr \in Live(b) \ R
    BY <1>4, <1>6 DEF Live
  <1>10. KeepsReasons(b, d)
    <2> SUFFICES ASSUME NEW i \in 1..Len(b.trail), ReasonOf(b, b.trail[i]) \in Live(b)
                 PROVE  ReasonOf(b, b.trail[i]) \notin R
      BY <1>8 DEF KeepsReasons, Lits
    <2> DEFINE p == c.trail[i]
               r == ReasonOf(b, p)
    <2>0. b.trail = c.trail /\ c.assigns = b.assigns /\ b.ca = c.ca
      BY <1>2 DEF SameTrail, SameDb
    <2>1. p \in Lit /\ VarOf(p) \in Var /\ p \in c.assigns
      BY <1>3, <2>0, AssignedFacts, LitFacts
    <2>2. r \in 1..Len(b.ca) /\ Len(b.ca) \in Nat
      <3>1. r \in Live(b)
        BY <2>0
      <3> HIDE DEF r
      <3>2. b \in Core /\ DbOK(b)
        BY <1>2, <1>3
      <3>3. r \in 1..Len(b.ca)
        BY <3>1, <3>2, ClauseFacts
      <3>4. b.ca \in Seq([lits : Seq(Lit), learnt : BOOLEAN])
        BY <3>2, CoreFields
      <3> QED BY <3>3, <3>4
    <2> HIDE DEF r
    <2>3. r = IF VarOf(p) \in H THEN 0 ELSE ReasonOf(c, p)
      BY <1>2, <2>1 DEF ReasonOf, r
    <2>4. VarOf(p) \notin H /\ ReasonOf(c, p) = r /\ r > 0
      BY <2>2, <2>3
    <2>5. ByClause(c, i, r)
      BY <1>3, <2>0, <2>4 DEF CausesOK, CauseOK
    <2>6. c.ca[r].lits[1] = p
      BY <2>5 DEF ByClause
    <2>7. Locked(c, r)
      BY <2>1, <2>4, <2>6 DEF Locked, IsTrue
    <2> HIDE DEF p
    <2>8. r \notin R
      BY <2>4, <2>6, <2>7 DEF H, Heads
    <2> QED BY <2>0, <2>8 DEF r, p
  <1>11. d.qhead <= Len(d.trail)
    BY <1>3, <1>6 DEF TrailOK, SameTrail
  <1>12. Good(d, lemmas) /\ Held(d) = Held(b)
    BY <1>2, <1>6, <1>7, <1>10, <1>11, DbChangeGood
  <1>13. \A cr \in Live(d) : cr \in Live(c) /\ Lits(d, cr) = Lits(c, cr)
    BY <1>2, <1>8, <1>9 DEF Lits, Live, SameDb
  <1>14. SameTrail(c, d) /\ d.delayed = c.delayed /\ d.ok = c.ok
    BY <1>2, <1>6 DEF SameTrail, SameDb
  <1>15. Follows(c, d, M)
    BY <1>13, <1>14 DEF Follows, Agrees, SameTrail, LevelOf
  <1>16. NoDecision(c, d)
    <2> SUFFICES ASSUME NEW p \in d.assigns, ReasonOf(d, p) = 0, LevelOf(d, p) > 0
                 PROVE  p \in c.assigns /\ ReasonOf(c, p) = 0 /\ LevelOf(c, p) = LevelOf(d, p)
      BY DEF NoDecision
    <2>1. p \in c.assigns /\ LevelOf(d, p) = LevelOf(c, p)
      BY <1>14 DEF SameTrail, LevelOf
    <2>2. p \in Lit /\ VarOf(p) \in Var /\ LevelOf(c, p) \in 0..DecisionLevel(c)
      BY <1>3, <2>1, AssignedFacts, LitFacts
    <2>3. CASE H = {}
      <3>1. ReasonOf(d, p) = ReasonOf(c, p)
        BY <1>2, <1>6, <2>2, <2>3 DEF ReasonOf
      <3> QED BY <2>1, <3>1
    <2>4. CASE DecisionLevel(c) = 0
      BY <2>1, <2>2, <2>4
    <2> QED BY <1>1, <2>3, <2>4
  <1>17. Held(d) = Held(c)
    BY <1>2, <1>12 DEF Held
  <1>18. Covers(c, d)
    BY <1>14, <1>17, SameTrailCovers DEF SameTrail
  <1>19. RemoveClauses(c, R) = d
    BY RemoveIs DEF d, b, H
  <1> QED BY <1>6, <1>12, <1>14, <1>15, <1>16, <1>18, <1>19 DEF Steps, SameTrail

-----------------------------------------------------------------------------
(***************************************************************************)
(* analyzeFinal.                                                           *)
(***************************************************************************)
FinalState(a) == a = [c |-> a.c, seen |-> a.seen, out |-> a.out, ub |-> a.ub]
\* p is the assumption that is false, negated; the theory has what is below the k-th literal.
FinalInv(c, p, lemmas, M, a, k) ==
    /\ FinalState(a) /\ Steps(c, a.c, lemmas, M) /\ Keeps(c, a.c) /\ Covered(a.c, k) /\ p \in a.out

LEMMA VisitFinalIs ==
    ASSUME NEW lemmas, NEW a, NEW q, FinalState(a), NEW p, p \in a.out
    PROVE  LET b == VisitFinal(lemmas, a, q)
           IN /\ FinalState(b) /\ p \in b.out
              /\ b.c = IF VarOf(q) \in a.seen THEN Explained(a.c, q, lemmas) ELSE a.c
  <1> DEFINE e == Explained(a.c, q, lemmas)
             S == a.seen \ {VarOf(q)}
             b == [a EXCEPT !.c = e, !.seen = @ \ {VarOf(q)}]
             cr == ReasonOf(b.c, q)
             rest == {x \in Range(Tail(b.c.ca[cr].lits)) : LevelOf(b.c, x) > 0}
             d == VisitFinal(lemmas, a, q)
             V == (b.seen \cup {VarOf(x) : x \in rest}) \ {VarOf(q)}
  <1>1. a = [c |-> a.c, seen |-> a.seen, out |-> a.out, ub |-> a.ub]
    BY DEF FinalState
  <1>2. CASE VarOf(q) \notin a.seen
    <2>1. d = a
      BY <1>2 DEF VisitFinal
    <2> QED BY <1>2, <2>1
  <1>3. CASE VarOf(q) \in a.seen
    <2>1. \/ d = [b EXCEPT !.out = b.out \cup {-q}]
          \/ d = [b EXCEPT !.ub = TRUE]
          \/ d = [b EXCEPT !.seen = V]
      BY <1>3 DEF VisitFinal
    <2>2. b = [c |-> e, seen |-> S, out |-> a.out, ub |-> a.ub]
      <3> DEFINE ac == a.c
                 sn == a.seen
                 o == a.out
                 u == a.ub
      <3>1. a = [c |-> ac, seen |-> sn, out |-> o, ub |-> u]
        BY <1>1
      <3>2. b = [a EXCEPT !.c = e, !.seen = S]
        OBVIOUS
      <3> HIDE DEF ac, sn, o, u, b, e, S
      <3>3. b = [c |-> e, seen |-> S, out |-> o, ub |-> u]
        BY <3>1, <3>2
      <3> QED BY <3>3 DEF o, u
    <2> HIDE DEF b, d, V, e, S
    <2>3. FinalState(d) /\ p \in d.out /\ d.c = e
      BY <2>1, <2>2 DEF FinalState
    <2> QED BY <1>3, <2>3 DEF d, e
  <1> QED BY <1>2, <1>3

\* Above the first level, a literal the theory gave is not of level 0 yet.
LEMMA FinalExplains ==
    ASSUME NEW c, NEW k, NEW lemmas, NEW M, c \in Core, Good(c, lemmas), Honest(lemmas, M),
           DecisionLevel(c) > 0, k \in 1..Len(c.trail), k > c.trail_lim[1], Covered(c, k)
    PROVE  LET d == Explained(c, c.trail[k], lemmas)
           IN Steps(c, d, lemmas, M) /\ Keeps(c, d) /\ Covered(d, k - 1)
  <1> DEFINE q == c.trail[k]
             d == Explained(c, q, lemmas)
             r == ReasonOf(c, q)
  <1>1. q \in Lit /\ r \in Int /\ LevelOf(c, q) \in Nat /\ DecisionLevel(c) \in Nat /\ k \in Nat
        /\ CausesOK(c, lemmas)
    BY CoreFields DEF Good
  <1>2. ASSUME r < 0 PROVE q \in Held(c) /\ LevelOf(c, q) > 0
    <2>1. CauseOK(c, lemmas, k)
      BY <1>1 DEF CausesOK
    <2>2. -r \in DOMAIN lemmas /\ ByLemma(c, k, lemmas[-r]) /\ InPlace(c, k)
      BY <1>2, <2>1 DEF CauseOK
    <2>3. HasTheory(q)
      BY <2>2 DEF ByLemma, Honest
    <2>4. q \in Held(c)
      BY <1>1, <2>3 DEF Covered
    <2>5. c.trail_lim[1] \in Nat
      BY <1>1, CoreFields
    <2>6. LevelOf(c, q) # 0
      <3> SUFFICES ASSUME LevelOf(c, q) = 0 PROVE FALSE
        OBVIOUS
      <3>1. k <= c.trail_lim[0 + 1]
        BY <1>1, <2>2 DEF InPlace
      <3> QED BY <1>1, <2>5, <3>1
    <2> QED BY <1>1, <2>4, <2>6
  <1>3. r >= 0 \/ q \in Held(c)
    BY <1>1, <1>2
  <1>4. ExplainedTo(c, k, lemmas, M, d)
    BY <1>3, ExplainedGood
  <1> HIDE DEF d
  <1>5. Keeps(c, d) /\ Steps(c, d, lemmas, M)
    BY <1>4, ExplainedKeeps DEF ExplainedTo
  <1>6. k - 1 \in 0..k /\ k - 1 \in Nat /\ Covered(c, k - 1)
    BY <1>1 DEF Covered
  <1>7. Covered(d, k - 1)
    <2>1. CASE r >= 0
      <3>1. d = c
        BY <1>4, <2>1 DEF ExplainedTo
      <3> QED BY <1>6, <3>1
    <2>2. CASE r < 0
      BY <1>2, <1>4, <1>6, <2>2 DEF ExplainedTo
    <2> QED BY <1>1, <2>1, <2>2
  <1> QED BY <1>5, <1>7 DEF d

LEMMA VisitFinalGood ==
    ASSUME NEW c, NEW p, NEW lemmas, NEW M, NEW a, NEW k, c \in Core, Good(c, lemmas), Honest(lemmas, M),
           DecisionLevel(c) > 0, FinalInv(c, p, lemmas, M, a, k), k \in 1..Len(c.trail),
           k > c.trail_lim[1]
    PROVE  FinalInv(c, p, lemmas, M, VisitFinal(lemmas, a, c.trail[k]), k - 1)
  <1> DEFINE e == a.c
             q == c.trail[k]
             b == VisitFinal(lemmas, a, q)
  <1>1. /\ FinalState(a) /\ Steps(c, e, lemmas, M) /\ Keeps(c, e) /\ Covered(e, k) /\ p \in a.out
    BY DEF FinalInv
  <1>2. FinalState(b) /\ p \in b.out
        /\ b.c = IF VarOf(q) \in a.seen THEN Explained(e, q, lemmas) ELSE e
    BY <1>1, VisitFinalIs
  <1> HIDE DEF b, e
  <1>3. e \in Core /\ Good(e, lemmas) /\ e.trail = c.trail /\ e.trail_lim = c.trail_lim
        /\ DecisionLevel(e) > 0
    BY <1>1 DEF Steps, Keeps, DecisionLevel
  <1>4. Len(c.trail) \in Nat
    BY CoreFields
  <1>5. LET d == Explained(e, q, lemmas)
        IN Steps(e, d, lemmas, M) /\ Keeps(e, d) /\ Covered(d, k - 1)
    BY <1>1, <1>3, FinalExplains
  <1>6. Covered(e, k - 1)
    BY <1>1, <1>4 DEF Covered
  <1>7. Steps(c, b.c, lemmas, M) /\ Keeps(c, b.c) /\ Covered(b.c, k - 1)
    <2>1. CASE VarOf(q) \in a.seen
      BY <1>1, <1>2, <1>5, <2>1, StepsTwice, KeepsTwice
    <2>2. CASE VarOf(q) \notin a.seen
      BY <1>1, <1>2, <1>6, <2>2
    <2> QED BY <2>1, <2>2
  <1> QED BY <1>2, <1>7 DEF FinalInv, b

-----------------------------------------------------------------------------
FinalTo(c, p, lemmas, M, a) ==
    /\ Steps(c, a.c, lemmas, M) /\ Keeps(c, a.c) /\ Covered(a.c, RootSize(a.c)) /\ p \in a.out
LEMMA AnalyzeFinalGood ==
    ASSUME NEW c, NEW p, NEW lemmas, NEW M, c \in Core, Good(c, lemmas), Honest(lemmas, M),
           Covered(c, Len(c.trail))
    PROVE  FinalTo(c, p, lemmas, M, AnalyzeFinal(c, p, lemmas))
  <1> DEFINE start == [c |-> c, seen |-> {VarOf(p)}, out |-> {p}, ub |-> FALSE]
             N == Len(c.trail)
             L == c.trail_lim[1]
             above == SubSeq(c.trail, L + 1, N)
             s == Reverse(above)
  <1>1. /\ TrailOK(c) /\ c.trail \in Seq(Lit) /\ N \in Nat /\ DecisionLevel(c) \in Nat
        /\ RootSize(c) \in 0..N /\ (DecisionLevel(c) = 0 <=> c.trail_lim = <<>>)
    BY CoreFields, RootFacts DEF Good
  <1>2. Steps(c, c, lemmas, M) /\ Keeps(c, c)
    BY StepsSelf DEF Keeps
  <1>3. start.c = c /\ p \in start.out /\ FinalState(start)
    BY DEF FinalState
  <1>4. CASE DecisionLevel(c) = 0
    <2>1. AnalyzeFinal(c, p, lemmas) = start
      BY <1>4 DEF AnalyzeFinal
    <2>2. Covered(c, RootSize(c))
      BY <1>1 DEF Covered
    <2> HIDE DEF start
    <2> QED BY <1>2, <1>3, <2>1, <2>2 DEF FinalTo
  <1>5. CASE DecisionLevel(c) > 0
    <2>1. L = RootSize(c) /\ L \in Nat /\ L <= N
      BY <1>1, <1>5 DEF RootSize
    <2>2. AnalyzeFinal(c, p, lemmas) = FinalAll(lemmas, start, s)
      <3>1. DecisionLevel(c) # 0
        BY <1>5
      <3> QED BY <3>1, Zenon DEF AnalyzeFinal, FinalAll
    <2>3. above \in Seq(Lit) /\ Len(above) = N - L /\ \A i \in 1..(N - L) : above[i] = c.trail[L + i]
      <3> HIDE DEF L, above, N
      <3> QED BY <1>1, <2>1, SubFacts DEF above, N
    <2>4. s \in Seq(Lit) /\ Len(s) = N - L /\ \A i \in 1..(N - L) : s[i] = c.trail[(N - i) + 1]
      <3>1. s \in Seq(Lit) /\ Len(s) = N - L /\ \A i \in 1..(N - L) : s[i] = above[((N - L) - i) + 1]
        <4> HIDE DEF above
        <4> QED BY <2>3, ReverseFacts
      <3> HIDE DEF s, above, N, L
      <3>2. ASSUME NEW i \in 1..(N - L) PROVE s[i] = c.trail[(N - i) + 1]
        <4>1. ((N - L) - i) + 1 \in 1..(N - L) /\ L + (((N - L) - i) + 1) = (N - i) + 1
          BY <1>1, <2>1
        <4> QED BY <2>3, <3>1, <4>1
      <3> QED BY <3>1, <3>2
    <2>5. PICK f : /\ f[0] = start /\ FinalAll(lemmas, start, s) = f[Len(s)]
                   /\ \A i \in 1..Len(s) : f[i] = VisitFinal(lemmas, f[i - 1], s[i])
      <3>1. s \in Seq(Lit)
        BY <2>4
      <3> HIDE DEF s, start
      <3> QED BY ONLY <3>1, FinalTurns
    <2> DEFINE n == N - L
               T == {i \in 0..n : FinalInv(c, p, lemmas, M, f[i], N - i)}
    <2>6. n \in Nat
      BY <1>1, <2>1
    <2>7. 0 \in T
      <3>1. FinalInv(c, p, lemmas, M, start, N)
        <4> HIDE DEF start
        <4> QED BY <1>2, <1>3 DEF FinalInv
      <3>2. N - 0 = N /\ 0 \in 0..n
        BY <1>1, <2>6
      <3> HIDE DEF start, N, n
      <3> QED BY <2>5, <3>1, <3>2
    <2> HIDE DEF s, start
    <2>8. ASSUME NEW i \in 1..n, i - 1 \in T PROVE i \in T
      <3> DEFINE k == N - (i - 1)
      <3>1. FinalInv(c, p, lemmas, M, f[i - 1], k)
        BY <2>8
      <3>2. k \in 1..N /\ k > L /\ k = (N - i) + 1 /\ k - 1 = N - i /\ i \in 0..n
        <4> HIDE DEF L, N
        <4> QED BY <1>1, <2>1, <2>6
      <3>3. f[i] = VisitFinal(lemmas, f[i - 1], c.trail[k])
        BY <2>4, <2>5, <3>2
      <3> HIDE DEF k
      <3>4. FinalInv(c, p, lemmas, M, f[i], k - 1)
        BY <1>5, <3>1, <3>2, <3>3, VisitFinalGood
      <3> QED BY <3>2, <3>4
    <2> HIDE DEF T, n
    <2>9. \A i \in 0..n : i \in T
      BY ONLY <2>6, <2>7, <2>8, UpTo
    <2>10. FinalInv(c, p, lemmas, M, f[n], N - n) /\ N - n = L /\ n = Len(s)
      <3>1. n \in T
        BY <2>6, <2>9
      <3>2. N - n = L /\ n = Len(s)
        <4> HIDE DEF L, N
        <4> QED BY <1>1, <2>1, <2>4 DEF n
      <3> QED BY <3>1, <3>2 DEF T
    <2> DEFINE e == f[n]
    <2>11. FinalInv(c, p, lemmas, M, e, L) /\ AnalyzeFinal(c, p, lemmas) = e
      BY <2>2, <2>5, <2>10
    <2> HIDE DEF e
    <2>12. RootSize(e.c) = RootSize(c)
      BY <2>11 DEF FinalInv, Keeps, RootSize
    <2> QED BY <2>1, <2>11, <2>12 DEF FinalTo, FinalInv
  <1> QED BY <1>1, <1>4, <1>5

-----------------------------------------------------------------------------
LEMMA UncheckedLims ==
    ASSUME NEW c, NEW p, NEW from, "trail_lim" \in DOMAIN c
    PROVE  UncheckedEnqueue(c, p, from).trail_lim = c.trail_lim
  <1> DEFINE a == Assign(c, p, DecisionLevel(c), from)
             t == Tell(a, p)
  <1>1. "trail_lim" \in DOMAIN a /\ a.trail_lim = c.trail_lim
    BY DEF Assign
  <1> HIDE DEF a
  <1>2. "trail_lim" \in DOMAIN t /\ t.trail_lim = c.trail_lim
    BY <1>1 DEF Tell
  <1> HIDE DEF t
  <1>3. UncheckedEnqueue(c, p, from) = TellAndQueue(a, p)
    BY DEF UncheckedEnqueue, a
  <1>4. TellAndQueue(a, p) = a \/ TellAndQueue(a, p) = [t EXCEPT !.theory_queue = TRUE]
    BY DEF TellAndQueue, t
  <1> QED BY <1>1, <1>2, <1>3, <1>4

\* addConflictClause opens no level.
LEMMA ConflictAtRoot ==
    ASSUME NEW c, NEW cl, NEW permanent, c \in Core, TrailOK(c), cl \in Seq(Lit),
           DecisionLevel(c) = 0
    PROVE  AddConflictClause(c, cl, permanent).c.trail_lim = c.trail_lim
  <1> DEFINE ps == WithoutRoot(c, cl)
             d == NewClause(c, Watched(c, ps), ~permanent)
             root == CancelUntil(c, 0)
             m == MaxLevel(c, ps)
             back == CancelUntil(d, m)
             r == AddConflictClause(c, cl, permanent)
             e1 == UncheckedEnqueue(root, ps[1], CRef_Undef)
             e2 == UncheckedEnqueue(back, d.ca[Len(d.ca)].lits[1], Len(d.ca))
  <1>1. root = c
    BY CancelNone
  <1>2. ps \in Seq(Lit)
    BY KeepFacts DEF WithoutRoot
  <1>3. m \in Nat
    BY <1>2, MaxLevelFacts
  <1>0. "trail_lim" \in DOMAIN c
    BY DEF Core
  <1>4. d.trail_lim = c.trail_lim /\ "trail_lim" \in DOMAIN d
    BY <1>0 DEF NewClause, AttachClause
  <1> HIDE DEF d, m, root
  <1>5. back = d
    <2>1. DecisionLevel(d) <= m
      BY <1>3, <1>4 DEF DecisionLevel
    <2> QED BY <2>1, CancelNone
  <1>6. r.c \in {c, [root EXCEPT !.ok = FALSE], e1, root, d, e2}
    <2> HIDE DEF ps, e1, e2
    <2> QED BY DEF AddConflictClause, ps, d, root, e1, e2, back, m
  <1>7. UncheckedEnqueue(c, ps[1], CRef_Undef).trail_lim = c.trail_lim
    BY <1>0, UncheckedLims
  <1>8. e2.trail_lim = c.trail_lim
    BY <1>4, <1>5, UncheckedLims
  <1>9. [c EXCEPT !.ok = FALSE].trail_lim = c.trail_lim
    BY DEF Core
  <1>10. e1.trail_lim = c.trail_lim
    BY <1>1, <1>7
  <1>11. [root EXCEPT !.ok = FALSE].trail_lim = c.trail_lim
    BY <1>1, <1>9
  <1> DEFINE x == r.c
  <1>12. x \in {c, [root EXCEPT !.ok = FALSE], e1, root, d, e2}
    BY <1>6
  <1> HIDE DEF x, r, e1, e2
  <1>13. x.trail_lim = c.trail_lim
    BY <1>1, <1>4, <1>8, <1>10, <1>11, <1>12
  <1> QED BY <1>13 DEF x, r

-----------------------------------------------------------------------------
\* The level of a conflict, which search goes back to.
LEMMA ConflictLevelFacts ==
    ASSUME NEW c, NEW cr, c \in Core, TrailOK(c), DbOK(c), AllFalse(c, cr)
    PROVE  /\ ConflictLevel(c, cr) \in 0..DecisionLevel(c)
           /\ \A q \in Lits(c, cr) : -q \in c.assigns /\ LevelOf(c, q) \in Nat
                                     /\ LevelOf(c, q) <= ConflictLevel(c, cr)
           /\ ConflictLevel(c, cr) > 0 => \E q \in Lits(c, cr) : LevelOf(c, q) = ConflictLevel(c, cr)
  <1> DEFINE ls == {LevelOf(c, q) : q \in Lits(c, cr)} \cup {0}
             lev == ConflictLevel(c, cr)
  <1>1. cr \in Live(c) /\ Lits(c, cr) \subseteq Lit /\ DecisionLevel(c) \in Nat
    BY ClauseFacts, CoreFields DEF AllFalse
  <1>2. ASSUME NEW q \in Lits(c, cr)
        PROVE  -q \in c.assigns /\ LevelOf(c, q) \in 0..DecisionLevel(c)
    <2>1. q \in Lit /\ -q \in c.assigns
      BY <1>1 DEF AllFalse, IsFalse
    <2>2. LevelOf(c, -q) \in 0..DecisionLevel(c) /\ LevelOf(c, -q) = LevelOf(c, q)
      BY <2>1, AssignedFacts, CoreFields
    <2> QED BY <2>1, <2>2
  <1>3. ls \subseteq 0..DecisionLevel(c) /\ ls # {}
    BY <1>1, <1>2
  <1>4. \E l \in ls : \A m \in ls : m <= l
    <2> HIDE DEF ls
    <2> QED BY <1>1, <1>3, Largest
  <1>5. lev \in ls /\ \A m \in ls : m <= lev
    BY <1>4 DEF ConflictLevel
  <1> HIDE DEF lev
  <1>6. \A q \in Lits(c, cr) : -q \in c.assigns /\ LevelOf(c, q) \in Nat /\ LevelOf(c, q) <= lev
    BY <1>2, <1>5
  <1>7. lev > 0 => \E q \in Lits(c, cr) : LevelOf(c, q) = lev
    BY <1>5
  <1> QED BY <1>3, <1>5, <1>6, <1>7 DEF lev

\* Search is at a conflict: what analyze rests on.
AtConflict(c, cr, lemmas, M) ==
    /\ AtWalk(c, cr, lemmas, M)
    /\ Covered(c, Len(c.trail)) \/ (Covered(c, LastSize(c)) /\ Visitable(c, cr))
LEMMA LastSizeFacts ==
    ASSUME NEW c, c \in Core, TrailOK(c)
    PROVE  /\ LastSize(c) \in 0..Len(c.trail)
           /\ DecisionLevel(c) > 0 => RootSize(c) <= LastSize(c) /\ RootSize(c) \in Nat
           /\ Covered(c, Len(c.trail)) => Covered(c, LastSize(c))
  <1>1. DecisionLevel(c) \in Nat /\ Len(c.trail) \in Nat
    BY CoreFields
  <1>2. CASE DecisionLevel(c) = 0
    <2>1. LastSize(c) = 0
      BY <1>2, RootFacts DEF LastSize
    <2> QED BY <1>1, <1>2, <2>1 DEF Covered
  <1>3. CASE DecisionLevel(c) > 0
    <2>1. c.trail_lim # <<>> /\ DecisionLevel(c) \in 1..DecisionLevel(c) /\ 1 \in 1..DecisionLevel(c)
      BY <1>1, <1>3, RootFacts
    <2>2. LastSize(c) = c.trail_lim[DecisionLevel(c)] /\ RootSize(c) = c.trail_lim[1]
      BY <2>1 DEF LastSize, RootSize, DecisionLevel
    <2>3. c.trail_lim[DecisionLevel(c)] \in Nat /\ c.trail_lim[1] \in Nat
          /\ c.trail_lim[DecisionLevel(c)] <= Len(c.trail)
          /\ c.trail_lim[1] <= c.trail_lim[DecisionLevel(c)]
      <3>1. LimitsOK(c) /\ \A l \in 1..DecisionLevel(c) : c.trail_lim[l] \in Nat
        BY CoreFields DEF TrailOK
      <3> QED BY <1>1, <1>3, <2>1, <3>1 DEF LimitsOK
    <2> HIDE DEF LastSize, RootSize
    <2> QED BY <1>1, <2>2, <2>3 DEF Covered
  <1> QED BY <1>1, <1>2, <1>3

\* After going back to the level of the conflict the walk may begin.
LEMMA BackToConflict ==
    ASSUME NEW c, NEW cr, NEW lemmas, NEW M, AtConflict(c, cr, lemmas, M), ConflictLevel(c, cr) > 0
    PROVE  LET d == CancelUntil(c, ConflictLevel(c, cr))
           IN CanWalk(d, cr, lemmas, M) /\ Steps(c, d, lemmas, M) /\ d.ok = c.ok
  <1> DEFINE lev == ConflictLevel(c, cr)
             d == CancelUntil(c, lev)
  <1>1. /\ c \in Core /\ Good(c, lemmas) /\ Honest(lemmas, M) /\ DecisionLevel(c) > 0
        /\ AllFalse(c, cr) /\ TrailOK(c) /\ DbOK(c) /\ DecisionLevel(c) \in Nat /\ Len(c.trail) \in Nat
    BY CoreFields DEF AtConflict, AtWalk, Good
  <1>2. /\ lev \in 0..DecisionLevel(c)
        /\ \A q \in Lits(c, cr) : -q \in c.assigns /\ LevelOf(c, q) \in Nat /\ LevelOf(c, q) <= lev
        /\ \E q \in Lits(c, cr) : LevelOf(c, q) = lev
    BY <1>1, ConflictLevelFacts
  <1>3. Covered(c, LastSize(c))
    BY <1>1, LastSizeFacts DEF AtConflict
  <1> HIDE DEF lev
  <1>4. CASE lev = DecisionLevel(c)
    <2>1. d = c
      BY <1>1, <1>4, CancelNone
    <2>2. \E q \in Lits(c, cr) : Top(c, q)
      BY <1>1, <1>2, <1>4 DEF Top
    <2>3. CanWalk(c, cr, lemmas, M)
      BY <1>3, <2>2 DEF CanWalk, AtConflict
    <2>4. Steps(c, c, lemmas, M)
      BY <1>1, StepsSelf
    <2> QED BY <2>1, <2>3, <2>4 DEF lev
  <1>5. CASE lev < DecisionLevel(c)
    <2>1. lev \in Nat /\ lev <= DecisionLevel(c) /\ lev > 0
      BY <1>1, <1>2, <1>5 DEF lev
    <2>2. Cancelled(c, d, lev, lemmas)
      BY <1>1, <2>1, CancelStep
    <2> HIDE DEF d
    <2>3. /\ d \in Core /\ Good(d, lemmas) /\ Steps(c, d, lemmas, M) /\ DecisionLevel(d) = lev
          /\ d.assigns = {p \in c.assigns : LevelOf(c, p) <= lev}
          /\ d.level = c.level /\ SameDb(c, d) /\ d.ok = c.ok
      BY <2>2 DEF Cancelled
    <2>4. Covered(c, c.trail_lim[lev + 1])
      BY <1>1, <1>3, <1>5, <2>1, LastCovers
    <2>5. Covered(d, Len(d.trail)) /\ TrailOK(d)
      BY <1>5, <2>2, <2>3, <2>4 DEF Cancelled, Good
    <2>6. Live(d) = Live(c) /\ Lits(d, cr) = Lits(c, cr) /\ \A p : LevelOf(d, p) = LevelOf(c, p)
      BY <2>3 DEF SameDb, Live, Lits, LevelOf
    <2>7. AllFalse(d, cr)
      <3> SUFFICES ASSUME NEW q \in Lits(c, cr) PROVE -q \in d.assigns
        BY <1>1, <2>6 DEF AllFalse, IsFalse
      <3>1. q \in Lit
        BY <1>1, ClauseFacts DEF AllFalse
      <3>2. LevelOf(c, -q) = LevelOf(c, q)
        BY <1>1, <3>1, CoreFields
      <3> QED BY <1>2, <2>3, <3>2
    <2>8. AtWalk(d, cr, lemmas, M)
      BY <1>1, <2>1, <2>3, <2>7 DEF AtWalk
    <2>9. \E q \in Lits(d, cr) : Top(d, q)
      BY <1>2, <2>1, <2>3, <2>6 DEF Top
    <2>10. Covered(d, LastSize(d))
      BY <2>3, <2>5, LastSizeFacts
    <2>11. CanWalk(d, cr, lemmas, M)
      BY <2>5, <2>8, <2>9, <2>10 DEF CanWalk
    <2> QED BY <2>3, <2>11 DEF d, lev
  <1> QED BY <1>1, <1>2, <1>4, <1>5

-----------------------------------------------------------------------------
(***************************************************************************)
(* The invariant of search.                                                *)
(***************************************************************************)
Pcs == {"idle", "solve_", "propagate", "theory", "propagated", "reduce", "decide", "undefined"}
\* analyze is to be repeated: what it looks at is known, although the theory took
\* back what it knew of the decision level.
Repeated(c, at, simp, cr) ==
    /\ at = "propagated" /\ ~simp /\ cr # 0
    /\ Covered(c, LastSize(c)) /\ Visitable(c, cr)
SearchOK(c, at, simp, cr) ==
    /\ c \in Core /\ Good(c, Lemmas)
    /\ at \in Pcs /\ simp \in BOOLEAN /\ cr \in Nat
    /\ cr # 0 => at \in {"propagated", "undefined"}
    /\ at = "propagated" /\ cr # 0 => AllFalse(c, cr)
    /\ simp => DecisionLevel(c) = 0 /\ at \in {"propagate", "theory", "propagated"}
    /\ ~c.ok => DecisionLevel(c) = 0
    /\ at \in {"reduce", "decide"} => c.ok
    /\ Covered(c, RootSize(c))
    /\ at \notin {"idle", "undefined", "solve_"} =>
         Covered(c, Len(c.trail)) \/ Repeated(c, at, simp, cr)
IInv == SearchOK(core, pc, in_simplify, confl) /\ assumptions \in Seq(Lit)

\* One step of search, for the assignments in M.
Advanced(c, d, M) ==
    /\ d \in Core /\ Good(d, Lemmas) /\ Follows(c, d, M) /\ Covers(c, d)
    /\ ~d.ok => DecisionLevel(d) = 0
Moved(c, d, M) == Advanced(c, d, M) /\ NoDecision(c, d)
Resting == {"idle", "undefined", "solve_"}
Decides == Assume \/ \E p \in Lit : Decide(p)
Undecided == pc' \in Resting \/ NoDecision(core, core') \/ Decides
Stepped(M) == IInv' /\ Follows(core, core', M) /\ Undecided

LEMMA SearchFacts ==
    ASSUME NEW c, NEW at, NEW simp, NEW cr, SearchOK(c, at, simp, cr)
    PROVE  /\ c \in Core /\ Good(c, Lemmas) /\ TrailOK(c) /\ DbOK(c) /\ cr \in Nat
           /\ DecisionLevel(c) \in Nat /\ c.ok \in BOOLEAN
           /\ Len(c.trail) \in Nat /\ RootSize(c) \in 0..Len(c.trail)
  BY CoreFields, RootFacts DEF SearchOK, Good

\* Search goes on.
LEMMA MoveOK ==
    ASSUME NEW c, NEW at, NEW simp, NEW cr, SearchOK(c, at, simp, cr),
           at \notin {"idle", "undefined", "solve_"}, ~Repeated(c, at, simp, cr),
           NEW d, NEW M, Advanced(c, d, M), NEW to \in Pcs, NEW s2 \in BOOLEAN, NEW cr2 \in Nat,
           cr2 # 0 => to = "propagated" /\ AllFalse(d, cr2),
           s2 => DecisionLevel(d) = 0 /\ to \in {"propagate", "theory", "propagated"},
           to \in {"reduce", "decide"} => d.ok
    PROVE  SearchOK(d, to, s2, cr2)
  BY DEF SearchOK, Advanced, Covers

\* The call returns, or nothing is said any more.
LEMMA RestOK ==
    ASSUME NEW d, d \in Core, Good(d, Lemmas), Covered(d, RootSize(d)), ~d.ok => DecisionLevel(d) = 0,
           NEW to \in {"idle", "undefined"}, NEW cr \in Nat, cr # 0 => to = "undefined"
    PROVE  SearchOK(d, to, FALSE, cr)
  BY DEF SearchOK, Pcs

LEMMA HonestNothing == Honest(Lemmas, {})
  <1>1. Lemmas \in Seq(Seq(Lit))
    BY SolverAssumption
  <1>2. ASSUME NEW k \in DOMAIN Lemmas
        PROVE  Distinct(Lemmas[k]) /\ \A q \in Range(Lemmas[k]) : HasTheory(q)
    <2>1. Lemmas[k] \in Seq(Lit) /\ Lemmas[k] \in Range(Lemmas)
      BY <1>1 DEF Range
    <2>2. Distinct(Lemmas[k])
      BY <2>1, SolverAssumption DEF Distinct
    <2>3. \A i \in DOMAIN Lemmas[k] : VarOf(Lemmas[k][i]) \in TheoryVar
      BY SolverAssumption
    <2>4. \A q \in Range(Lemmas[k]) : \E i \in DOMAIN Lemmas[k] : Lemmas[k][i] = q
      BY DEF Range
    <2> QED BY <2>2, <2>3, <2>4 DEF HasTheory
  <1> QED BY <1>1, <1>2 DEF Honest, LemmasOK

LEMMA LemmaGiven ==
    ASSUME NEW c, NEW M, Honest(Lemmas, M), NEW k \in DOMAIN Lemmas
    PROVE  Given(c, Lemmas[k], M)
  BY DEF Given, Honest, LemmasOK

-----------------------------------------------------------------------------
(***************************************************************************)
(* The steps of search.                                                    *)
(***************************************************************************)
LEMMA IInvFacts ==
    ASSUME IInv
    PROVE  /\ core \in Core /\ Good(core, Lemmas) /\ TrailOK(core) /\ DbOK(core) /\ confl \in Nat
           /\ DecisionLevel(core) \in Nat /\ core.ok \in BOOLEAN
           /\ Len(core.trail) \in Nat /\ RootSize(core) \in 0..Len(core.trail)
           /\ SearchOK(core, pc, in_simplify, confl) /\ assumptions \in Seq(Lit)
           /\ in_simplify \in BOOLEAN /\ pc \in Pcs
           /\ confl # 0 => pc \in {"propagated", "undefined"}
           /\ ~core.ok => DecisionLevel(core) = 0
           /\ in_simplify => DecisionLevel(core) = 0
           /\ in_simplify => pc \in {"propagate", "theory", "propagated"}
           /\ pc \in {"reduce", "decide"} => core.ok
           /\ pc = "propagated" /\ confl # 0 => AllFalse(core, confl)
  <1>1. SearchOK(core, pc, in_simplify, confl) /\ assumptions \in Seq(Lit)
    BY DEF IInv
  <1>2. /\ core \in Core /\ Good(core, Lemmas) /\ TrailOK(core) /\ DbOK(core) /\ confl \in Nat
        /\ DecisionLevel(core) \in Nat /\ core.ok \in BOOLEAN
        /\ Len(core.trail) \in Nat /\ RootSize(core) \in 0..Len(core.trail)
    BY <1>1, SearchFacts
  <1> QED BY <1>1, <1>2 DEF SearchOK

\* Search goes on.
LEMMA GoesOn ==
    ASSUME IInv, pc \notin Resting, ~Repeated(core, pc, in_simplify, confl), NEW M,
           Moved(core, core', M), pc' \in Pcs, in_simplify' \in BOOLEAN, confl' \in Nat,
           confl' # 0 => pc' = "propagated" /\ AllFalse(core', confl'),
           in_simplify' => DecisionLevel(core') = 0 /\ pc' \in {"propagate", "theory", "propagated"},
           pc' \in {"reduce", "decide"} => (core').ok, assumptions' = assumptions
    PROVE  Stepped(M)
  <1>1. SearchOK(core, pc, in_simplify, confl) /\ assumptions' \in Seq(Lit)
    BY DEF IInv
  <1>2. Advanced(core, core', M) /\ NoDecision(core, core')
    BY DEF Moved
  <1>3. SearchOK(core', pc', in_simplify', confl')
    BY <1>1, <1>2, MoveOK DEF Resting
  <1> QED BY <1>1, <1>2, <1>3 DEF Stepped, Undecided, Advanced, IInv

\* Without a conflict nothing is repeated.
LEMMA Fresh ==
    ASSUME confl = 0 \/ in_simplify \/ pc # "propagated"
    PROVE  ~Repeated(core, pc, in_simplify, confl)
  BY DEF Repeated

\* The call returns, or nothing is said any more.
LEMMA ComesToRest ==
    ASSUME IInv, NEW M, core' \in Core, Good(core', Lemmas), Covered(core', RootSize(core')),
           ~(core').ok => DecisionLevel(core') = 0, pc' \in {"idle", "undefined"}, in_simplify' = FALSE,
           confl' \in Nat, confl' # 0 => pc' = "undefined", assumptions' \in Seq(Lit),
           Follows(core, core', M)
    PROVE  Stepped(M)
  <1>1. SearchOK(core', pc', FALSE, confl')
    BY RestOK
  <1> QED BY <1>1 DEF Stepped, Undecided, Resting, IInv

LEMMA MovedBy ==
    ASSUME NEW c, NEW d, NEW M, Steps(c, d, Lemmas, M), Covers(c, d), ~d.ok => DecisionLevel(d) = 0
    PROVE  Moved(c, d, M)
  BY DEF Moved, Advanced, Steps

\* Where a step keeps what is known of level 0 and the solver consistent.
LEMMA RootCovered ==
    ASSUME NEW c, NEW d, NEW at, NEW simp, NEW cr, SearchOK(c, at, simp, cr), Covers(c, d)
    PROVE  Covered(d, RootSize(d))
  BY DEF SearchOK, Covers

\* What is so of c stays so of d: its conflict, its levels and whether it is consistent.
Likewise(c, d, M) ==
    /\ Steps(c, d, Lemmas, M) /\ Covers(c, d) /\ d.ok = c.ok /\ d.trail_lim = c.trail_lim
    /\ \A cr : AllFalse(c, cr) => AllFalse(d, cr)

LEMMA LikewiseTwice ==
    ASSUME NEW b, NEW c, NEW d, NEW M, Likewise(b, c, M), Likewise(c, d, M)
    PROVE  Likewise(b, d, M)
  BY StepsTwice, CoversTwice DEF Likewise

LEMMA LikewiseSelf ==
    ASSUME NEW c, NEW M, c \in Core, Good(c, Lemmas)
    PROVE  Likewise(c, c, M)
  BY StepsSelf DEF Likewise, Covers

LEMMA QueuedLikewise ==
    ASSUME NEW c, NEW d, NEW M, Queued(c, d, Lemmas, M)
    PROVE  Likewise(c, d, M)
  BY DEF Queued, Likewise, AllFalse, Live, Lits, IsFalse

LEMMA CallTheoryLikewise ==
    ASSUME NEW c, NEW M, c \in Core, Good(c, Lemmas)
    PROVE  Likewise(c, CallTheory(c), M)
  <1>1. Reflagged(c, CallTheory(c)) /\ CallTheory(c).ok = c.ok
    BY FlagFields, FALSE \in BOOLEAN DEF CallTheory
  <1>2. Queued(c, CallTheory(c), Lemmas, M)
    BY <1>1, QueuedFlag
  <1> QED BY <1>2, QueuedLikewise

LEMMA InitialTheoriesLikewise ==
    ASSUME NEW c, NEW M, c \in Core, Good(c, Lemmas)
    PROVE  Likewise(c, InitialTheories(c), M)
  <1>1. CASE c.initialPropagate /\ DecisionLevel(c) = 0
    <2>1. InitialTheories(c) = [TellQueued(c) EXCEPT !.theory_queue = TRUE, !.initialPropagate = FALSE]
      BY <1>1 DEF InitialTheories, TellPropagated, TellQueued, TellAll
    <2>3. Queued(c, [TellQueued(c) EXCEPT !.theory_queue = TRUE, !.initialPropagate = FALSE], Lemmas, M)
      BY <1>1, QueuedAll, Zenon
    <2>2. Queued(c, InitialTheories(c), Lemmas, M)
      BY <2>1, <2>3, Zenon
    <2> QED BY <2>2, QueuedLikewise
  <1>2. CASE ~(c.initialPropagate /\ DecisionLevel(c) = 0)
    BY <1>2, LikewiseSelf DEF InitialTheories
  <1> QED BY <1>1, <1>2

-----------------------------------------------------------------------------
LEMMA UnitsStep ==
    ASSUME NEW c, NEW M, NEW r, c \in Core, Good(c, Lemmas), PropagatedTo(c, Lemmas, M, r)
    PROVE  /\ Steps(c, r.c, Lemmas, M) /\ Covers(c, r.c) /\ r.c.ok = c.ok /\ r.c.trail_lim = c.trail_lim
           /\ r.c \in Core /\ Good(r.c, Lemmas)
           /\ r.confl \in Nat /\ (r.confl # 0 => AllFalse(r.c, r.confl))
  <1>1. /\ r.c \in Core /\ Good(r.c, Lemmas) /\ Grows(c, r.c, M)
        /\ r.confl \in Nat /\ (r.confl # 0 => AllFalse(r.c, r.confl))
    BY DEF PropagatedTo
  <1>2. Covers(c, r.c)
    BY <1>1, ExtendsCovers DEF Grows, Good
  <1> QED BY <1>1, <1>2 DEF Grows, Steps, Extends

LEMMA HonestTotal == ASSUME NEW M, Honest(Lemmas, M) PROVE M \subseteq Total
  BY DEF Honest

LEMMA PropagateStep ==
    ASSUME IInv, NEW M, Honest(Lemmas, M), Propagate
    PROVE  Stepped(M)
  <1> DEFINE r == PropagateUnits(core)
             c == InitialTheories(r.c)
  <1>1. /\ pc = "propagate" /\ confl' = r.confl
        /\ (core' = CallTheory(c) /\ pc' = "theory" /\ r.confl = 0) \/ (core' = c /\ pc' = "propagated")
        /\ in_simplify' = in_simplify /\ assumptions' = assumptions
    BY DEF Propagate, call, CRef_Undef
  <1>2. /\ core \in Core /\ Good(core, Lemmas) /\ DecisionLevel(core) \in Nat
        /\ ~core.ok => DecisionLevel(core) = 0
        /\ in_simplify => DecisionLevel(core) = 0
        /\ in_simplify \in BOOLEAN
    BY IInvFacts
  <1>3. PropagatedTo(core, Lemmas, M, r)
    BY <1>2, HonestTotal, PropagateUnitsGood
  <1> HIDE DEF r
  <1>4. /\ Steps(core, r.c, Lemmas, M) /\ Covers(core, r.c) /\ r.c.ok = core.ok
        /\ r.c.trail_lim = core.trail_lim /\ r.c \in Core /\ Good(r.c, Lemmas)
        /\ r.confl \in Nat /\ (r.confl # 0 => AllFalse(r.c, r.confl))
    BY <1>2, <1>3, UnitsStep
  <1>5. Likewise(r.c, c, M)
    BY <1>4, InitialTheoriesLikewise
  <1>6. c \in Core /\ Good(c, Lemmas)
    BY <1>5 DEF Likewise, Steps
  <1> HIDE DEF c
  <1>7. Likewise(r.c, CallTheory(c), M)
    BY <1>5, <1>6, CallTheoryLikewise, LikewiseTwice
  <1>8. Likewise(r.c, core', M)
    BY <1>1, <1>5, <1>7
  <1>9. /\ Steps(core, core', Lemmas, M) /\ Covers(core, core') /\ (core').ok = core.ok
        /\ (core').trail_lim = core.trail_lim
        /\ r.confl # 0 => AllFalse(core', r.confl)
    BY <1>4, <1>8, StepsTwice, CoversTwice DEF Likewise
  <1>10. DecisionLevel(core') = DecisionLevel(core)
    BY <1>9 DEF DecisionLevel
  <1>11. Moved(core, core', M)
    BY <1>2, <1>9, <1>10, MovedBy
  <1>12. pc \notin Resting /\ ~Repeated(core, pc, in_simplify, confl)
    BY <1>1, Fresh DEF Resting
  <1>13. pc' \in Pcs /\ pc' \in {"theory", "propagated"}
    BY <1>1 DEF Pcs
  <1> QED BY <1>1, <1>2, <1>4, <1>9, <1>10, <1>11, <1>12, <1>13, GoesOn

-----------------------------------------------------------------------------
LEMMA ContinueIs ==
    ASSUME NEW c, Continue(c)
    PROVE  (core' = c \/ core' = CallTheory(c)) /\ pc' \in {"propagate", "theory", "propagated"}
  BY DEF Continue

\* The theory keeps to the level, and search goes on.
LEMMA TheoryGoesOn ==
    ASSUME IInv, pc = "theory", NEW M, Steps(core, core', Lemmas, M), Covers(core, core'),
           ~(core').ok => DecisionLevel(core') = 0, DecisionLevel(core) = 0 => DecisionLevel(core') = 0,
           pc' \in {"propagate", "theory", "propagated"}, in_simplify' = in_simplify,
           assumptions' = assumptions, confl' \in Nat,
           confl' # 0 => pc' = "propagated" /\ AllFalse(core', confl')
    PROVE  Stepped(M)
  <1>1. in_simplify \in BOOLEAN /\ (in_simplify => DecisionLevel(core) = 0)
    BY IInvFacts
  <1>2. Moved(core, core', M)
    BY MovedBy
  <1>3. pc \notin Resting /\ ~Repeated(core, pc, in_simplify, confl)
    BY Fresh DEF Resting
  <1>4. pc' \in Pcs
    BY DEF Pcs
  <1> QED BY <1>1, <1>2, <1>3, <1>4, GoesOn

LEMMA TheoryReturnStep ==
    ASSUME IInv, NEW M, TheoryReturn
    PROVE  Stepped(M)
  <1>1. /\ pc = "theory" /\ Continue(core) /\ in_simplify' = in_simplify /\ confl' = confl
        /\ assumptions' = assumptions
    BY DEF TheoryReturn, call
  <1>2. /\ core \in Core /\ Good(core, Lemmas)
        /\ (~core.ok => DecisionLevel(core) = 0)
        /\ confl \in Nat /\ (confl # 0 => pc \in {"propagated", "undefined"})
    BY IInvFacts
  <1>3. Likewise(core, core', M) /\ pc' \in {"propagate", "theory", "propagated"}
    BY <1>1, <1>2, ContinueIs, CallTheoryLikewise, LikewiseSelf
  <1>4. DecisionLevel(core') = DecisionLevel(core)
    BY <1>3 DEF Likewise, DecisionLevel
  <1>5. confl' = 0
    BY <1>1, <1>2
  <1> QED BY <1>1, <1>2, <1>3, <1>4, <1>5, TheoryGoesOn DEF Likewise

LEMMA TheoryAddStep ==
    ASSUME IInv, NEW M, Honest(Lemmas, M), NEW k \in DOMAIN Lemmas, TheoryAdd(k)
    PROVE  Stepped(M)
  <1>1. /\ pc = "theory" /\ core' = AddClauseSafely(core, Lemmas[k]) /\ in_simplify' = in_simplify
        /\ confl' = confl /\ assumptions' = assumptions /\ pc' = pc
    BY DEF TheoryAdd, call
  <1>2. /\ core \in Core /\ Good(core, Lemmas) /\ DecisionLevel(core) \in Nat
        /\ (~core.ok => DecisionLevel(core) = 0)
        /\ confl \in Nat /\ (confl # 0 => pc \in {"propagated", "undefined"})
    BY IInvFacts
  <1>3. Given(core, Lemmas[k], M)
    BY LemmaGiven
  <1>4. /\ Steps(core, core', Lemmas, M) /\ Covers(core, core') /\ (core').trail_lim = core.trail_lim
        /\ DecisionLevel(core) > 0 => (core').ok = core.ok
    BY <1>1, <1>2, <1>3, AddClauseSafelyGood
  <1>5. DecisionLevel(core') = DecisionLevel(core)
    BY <1>4 DEF DecisionLevel
  <1>6. ~(core').ok => DecisionLevel(core') = 0
    BY <1>2, <1>4, <1>5
  <1>7. confl' = 0
    BY <1>1, <1>2
  <1> QED BY <1>1, <1>4, <1>5, <1>6, <1>7, TheoryGoesOn

LEMMA TheoryConflictStep ==
    ASSUME IInv, NEW M, Honest(Lemmas, M), NEW k \in DOMAIN Lemmas, TheoryConflict(k)
    PROVE  Stepped(M)
  <1> DEFINE r == AddConflictClause(core, Lemmas[k], FALSE)
  <1>1. /\ pc = "theory" /\ in_simplify' = in_simplify
        /\ confl' = r.confl /\ assumptions' = assumptions
        /\ \/ r.fine /\ Continue(r.c)
           \/ ~r.fine /\ core' = [r.c EXCEPT !.qhead = Len(r.c.trail)] /\ pc' = "propagated"
    BY DEF TheoryConflict, call
  <1>2. /\ core \in Core /\ Good(core, Lemmas) /\ TrailOK(core) /\ DecisionLevel(core) \in Nat
        /\ (~core.ok => DecisionLevel(core) = 0)
    BY IInvFacts
  <1>3. Given(core, Lemmas[k], M) /\ Lemmas[k] \in Seq(Lit)
    BY LemmaGiven DEF Given
  <1>4. Conflicted(core, Lemmas, M, r)
    BY <1>2, <1>3, AddConflictGood, FALSE \in BOOLEAN
  <1>5. DecisionLevel(core) = 0 => r.c.trail_lim = core.trail_lim
    BY <1>2, <1>3, ConflictAtRoot
  <1> HIDE DEF r
  <1>6. /\ Steps(core, r.c, Lemmas, M) /\ Covers(core, r.c) /\ r.confl \in Nat
        /\ r.confl # 0 => ~r.fine /\ AllFalse(r.c, r.confl) /\ r.c.ok = core.ok
        /\ ~r.fine /\ r.confl = 0 => ~r.c.ok /\ DecisionLevel(r.c) = 0
        /\ r.fine => r.c.ok = core.ok
        /\ r.c \in Core /\ Good(r.c, Lemmas)
    BY <1>4 DEF Conflicted, Steps
  <1>7. Likewise(r.c, core', M) /\ pc' \in {"propagate", "theory", "propagated"}
    <2>1. CASE r.fine /\ Continue(r.c)
      BY <1>6, <2>1, ContinueIs, CallTheoryLikewise, LikewiseSelf
    <2>2. CASE ~r.fine /\ core' = [r.c EXCEPT !.qhead = Len(r.c.trail)] /\ pc' = "propagated"
      BY <1>6, <2>2, SkipQueue DEF Likewise
    <2> QED BY <1>1, <2>1, <2>2
  <1>8. /\ Steps(core, core', Lemmas, M) /\ Covers(core, core') /\ (core').ok = r.c.ok
        /\ (core').trail_lim = r.c.trail_lim
        /\ r.confl # 0 => AllFalse(core', r.confl)
    BY <1>6, <1>7, StepsTwice, CoversTwice DEF Likewise
  <1>9. DecisionLevel(core') = DecisionLevel(r.c)
    BY <1>8 DEF DecisionLevel
  <1>10. DecisionLevel(core) = 0 => DecisionLevel(r.c) = 0
    BY <1>5 DEF DecisionLevel
  <1>11. ~(core').ok => DecisionLevel(core') = 0
    BY <1>2, <1>6, <1>8, <1>9, <1>10
  <1>12. confl' \in Nat /\ (confl' # 0 => pc' = "propagated" /\ AllFalse(core', confl'))
    BY <1>1, <1>6, <1>8
  <1> QED BY <1>1, <1>7, <1>8, <1>9, <1>10, <1>11, <1>12, TheoryGoesOn

-----------------------------------------------------------------------------
\* What the theory holds is true.
LEMMA ToldHeld ==
    ASSUME NEW c, c \in Core, Good(c, Lemmas)
    PROVE  Held(c) \subseteq c.assigns
  <1>1. ASSUME NEW p \in Held(c) PROVE p \in c.assigns
    <2>1. PICK i \in 1..Len(c.told) : c.told[i].lit = p
      BY <1>1, HeldFacts
    <2>2. c.told[i].lit # 0
      BY <2>1, HeldFacts, LitFacts
    <2>3. HeldAt(c, c.told[i])
      BY <2>1, <2>2 DEF Good, ToldOK, ToldBut
    <2> QED BY <2>1, <2>3 DEF HeldAt
  <1> QED BY <1>1

LEMMA TheoryEnqueueStep ==
    ASSUME IInv, NEW M, Honest(Lemmas, M), NEW k \in DOMAIN Lemmas, NEW p \in Range(Lemmas[k]),
           TheoryEnqueue(k, p)
    PROVE  Stepped(M)
  <1>1. /\ pc = "theory" /\ UnitFor(k, p) /\ IsUndef(core, p)
        /\ core' = UncheckedEnqueue(core, p, -k) /\ in_simplify' = in_simplify
        /\ confl' = confl /\ assumptions' = assumptions /\ pc' = pc
    BY DEF TheoryEnqueue, call
  <1>2. /\ core \in Core /\ Good(core, Lemmas) /\ TrailOK(core) /\ DecisionLevel(core) \in Nat
        /\ (~core.ok => DecisionLevel(core) = 0)
        /\ confl \in Nat /\ (confl # 0 => pc \in {"propagated", "undefined"})
    BY IInvFacts
  <1>3. /\ Given(core, Lemmas[k], M) /\ Lemmas[k] \in Seq(Lit) /\ M \subseteq Total
        /\ \A m \in M : Agrees(m, core) => m \cap Range(Lemmas[k]) # {}
    BY LemmaGiven DEF Given
  <1>4. p \in Lit /\ Range(Lemmas[k]) \subseteq Lit
    BY <1>3, RangeFacts
  <1>5. ASSUME NEW q \in Range(Lemmas[k]) \ {p}
        PROVE  -q \in core.assigns /\ LevelOf(core, -q) <= DecisionLevel(core)
    <2>1. PICK i \in DOMAIN Lemmas[k] : Lemmas[k][i] = q
      BY <1>3, RangeFacts
    <2>2. -q \in Told
      BY <1>1, <2>1 DEF UnitFor
    <2>3. -q \in Held(core)
      BY <2>2 DEF Told, Held
    <2>4. -q \in core.assigns
      BY <1>2, <2>3, ToldHeld
    <2>5. LevelOf(core, -q) \in 0..DecisionLevel(core)
      BY <1>2, <2>4, AssignedFacts
    <2> QED BY <1>2, <2>4, <2>5
  <1>6. k \in Nat /\ k > 0 /\ -k \in Int /\ -k < 0 /\ -(-k) = k
    <2>1. k \in 1..Len(Lemmas) /\ Len(Lemmas) \in Nat
      BY SolverAssumption
    <2> QED BY <2>1
  <1>7. CauseFor(core, Lemmas, p, DecisionLevel(core), -k)
    BY <1>5, <1>6 DEF CauseFor, FalseAt
  <1>8. ASSUME DecisionLevel(core) = 0, NEW m \in M, Agrees(m, core) PROVE p \in m
    <2>1. PICK q \in Range(Lemmas[k]) : q \in m
      BY <1>3, <1>8
    <2>2. CASE q # p
      <3>1. -q \in core.assigns
        BY <1>5, <2>2
      <3>2. LevelOf(core, -q) = 0
        BY <1>2, <1>8, <3>1, RootLevel
      <3>3. -q \in m /\ q \in Lit
        BY <1>4, <1>8, <3>1, <3>2 DEF Agrees
      <3> QED BY <1>3, <2>1, <3>3 DEF Total
    <2> QED BY <2>1, <2>2
  <1>9. CanEnqueue(core, Lemmas, p, DecisionLevel(core), -k, M)
    BY <1>1, <1>2, <1>4, <1>6, <1>7, <1>8 DEF CanEnqueue
  <1>10. EnqueuedTo(core, Lemmas, p, DecisionLevel(core), -k, M, core')
    BY <1>1, <1>9, UncheckedIs, EnqueuedStep
  <1>11. /\ Steps(core, core', Lemmas, M) /\ Covers(core, core') /\ (core').trail_lim = core.trail_lim
         /\ (core').ok = core.ok
    BY <1>2, <1>6, <1>10, AfterEnqueue
  <1>12. DecisionLevel(core') = DecisionLevel(core)
    BY <1>11 DEF DecisionLevel
  <1>13. confl' = 0
    BY <1>1, <1>2
  <1> QED BY <1>1, <1>2, <1>11, <1>12, <1>13, TheoryGoesOn

-----------------------------------------------------------------------------
LEMMA FailFacts ==
    ASSUME NEW c, NEW out, c \in Core, Fail(c, out)
    PROVE  /\ Reflagged(c, core') /\ (core').ok = (c.ok /\ out # {})
           /\ pc' = "idle" /\ in_simplify' = FALSE /\ confl' = 0 /\ assumptions' = <<>>
  <1> DEFINE b == c.ok /\ out # {}
  <1>1. c.ok \in BOOLEAN
    BY CoreFields
  <1>2. b \in BOOLEAN
    OBVIOUS
  <1>3. core' = [c EXCEPT !.ok = b]
    BY DEF Fail
  <1>4. pc' = "idle" /\ in_simplify' = FALSE /\ confl' = 0 /\ assumptions' = <<>>
    BY DEF Fail, Return, CRef_Undef
  <1> HIDE DEF b
  <1>5. Reflagged(c, core') /\ (core').ok = b
    BY <1>2, <1>3, FlagFields
  <1> QED BY <1>4, <1>5 DEF b

\* The call ends without a model.
LEMMA Failing ==
    ASSUME IInv, NEW M, NEW c, NEW out, c \in Core, Good(c, Lemmas), Fail(c, out), Follows(core, c, M),
           Covered(c, RootSize(c)), ~c.ok => DecisionLevel(c) = 0,
           out = {} => DecisionLevel(c) = 0 /\ \A m \in M : ~Agrees(m, c)
    PROVE  Stepped(M)
  <1>1. /\ Reflagged(c, core') /\ (core').ok = (c.ok /\ out # {})
        /\ pc' = "idle" /\ in_simplify' = FALSE /\ confl' = 0 /\ assumptions' = <<>>
    BY FailFacts
  <1>2. c.ok \in BOOLEAN
    BY CoreFields
  <1>3. (core').ok = c.ok \/ \A m \in M : ~Agrees(m, c)
    BY <1>1, <1>2
  <1>4. Steps(c, core', Lemmas, M) /\ Covers(c, core')
    BY <1>1, <1>3, ReflagStep
  <1>5. DecisionLevel(core') = DecisionLevel(c)
    BY <1>1 DEF Reflagged, SameTrail, DecisionLevel
  <1>6. ~(core').ok => DecisionLevel(core') = 0
    BY <1>1, <1>5
  <1>7. core' \in Core /\ Good(core', Lemmas) /\ Follows(core, core', M)
    BY <1>4 DEF Steps, Follows
  <1>8. Covered(core', RootSize(core'))
    BY <1>4 DEF Covers
  <1>9. assumptions' \in Seq(Lit)
    BY <1>1
  <1> QED BY <1>1, <1>6, <1>7, <1>8, <1>9, ComesToRest, 0 \in Nat

LEMMA FollowsSelf == ASSUME NEW c, NEW M PROVE Follows(c, c, M)
  BY DEF Follows

LEMMA IInvCovered == ASSUME IInv PROVE Covered(core, RootSize(core))
  BY DEF IInv, SearchOK

\* A conflict at level 0.
LEMMA RootConflict ==
    ASSUME IInv, NEW M, Honest(Lemmas, M), pc = "propagated", DecisionLevel(core) = 0,
           confl # 0 \/ ~core.ok, Fail(core, {})
    PROVE  Stepped(M)
  <1>1. /\ core \in Core /\ Good(core, Lemmas) /\ TrailOK(core) /\ DbOK(core)
        /\ pc = "propagated" /\ confl # 0 => AllFalse(core, confl)
    BY IInvFacts
  <1>2. \A m \in M : ~Agrees(m, core)
    <2>1. CASE ~core.ok
      BY <2>1 DEF Agrees
    <2>2. CASE confl # 0
      BY <1>1, <2>2, HonestTotal, FalseAtLevelZero
    <2> QED BY <2>1, <2>2
  <1> QED BY <1>1, <1>2, FollowsSelf, IInvCovered, Failing

LEMMA LevelZeroConflictStep ==
    ASSUME IInv, NEW M, Honest(Lemmas, M), LevelZeroConflict
    PROVE  Stepped(M)
  BY RootConflict DEF LevelZeroConflict, InConflict, CRef_Undef

LEMMA SimplifyFailsStep ==
    ASSUME IInv, NEW M, Honest(Lemmas, M), SimplifyFails
    PROVE  Stepped(M)
  <1>1. in_simplify => DecisionLevel(core) = 0
    BY IInvFacts
  <1> QED BY <1>1, RootConflict DEF SimplifyFails, CRef_Undef

\* Back at level 0.
LEMMA ToLevelZero ==
    ASSUME NEW c, NEW M, c \in Core, Good(c, Lemmas)
    PROVE  LET d == CancelUntil(c, 0)
           IN /\ d \in Core /\ Good(d, Lemmas) /\ Steps(c, d, Lemmas, M) /\ Covers(c, d)
              /\ DecisionLevel(d) = 0 /\ d.ok = c.ok
              /\ Covered(c, RootSize(c)) => Covered(d, Len(d.trail)) /\ Covered(d, RootSize(d))
  <1> DEFINE d == CancelUntil(c, 0)
  <1>1. DecisionLevel(c) \in Nat /\ TrailOK(c)
    BY CoreFields DEF Good
  <1>2. Cancelled(c, d, 0, Lemmas)
    BY <1>1, CancelStep
  <1> HIDE DEF d
  <1>3. /\ d \in Core /\ Good(d, Lemmas) /\ Steps(c, d, Lemmas, M) /\ Covers(c, d)
        /\ DecisionLevel(d) = 0 /\ d.ok = c.ok
        /\ Covered(c, IF 0 < DecisionLevel(c) THEN c.trail_lim[0 + 1] ELSE Len(c.trail))
             => Covered(d, Len(d.trail))
    BY <1>2 DEF Cancelled
  <1>4. RootSize(c) = IF 0 < DecisionLevel(c) THEN c.trail_lim[0 + 1] ELSE Len(c.trail)
    <2>1. DecisionLevel(c) = 0 <=> c.trail_lim = <<>>
      BY <1>1, RootFacts
    <2> QED BY <1>1, <2>1 DEF RootSize
  <1>5. Covered(c, RootSize(c)) => Covered(d, RootSize(d))
    BY <1>3 DEF Covers
  <1> QED BY <1>3, <1>4, <1>5 DEF d

LEMMA StartInconsistentStep ==
    ASSUME IInv, NEW M, StartInconsistent
    PROVE  Stepped(M)
  <1> DEFINE d == CancelUntil(core, 0)
  <1>1. pc = "solve_" /\ ~core.ok /\ Fail(d, {})
    BY DEF StartInconsistent
  <1>2. core \in Core /\ Good(core, Lemmas)
    BY IInvFacts
  <1>3. /\ d \in Core /\ Good(d, Lemmas) /\ Steps(core, d, Lemmas, M)
        /\ DecisionLevel(d) = 0 /\ d.ok = core.ok /\ Covered(d, RootSize(d))
    BY <1>2, ToLevelZero, IInvCovered
  <1> HIDE DEF d
  <1>4. \A m \in M : ~Agrees(m, d)
    BY <1>1, <1>3 DEF Agrees
  <1> QED BY <1>1, <1>3, <1>4, Failing DEF Steps

LEMMA AnalyzeAtRootStep ==
    ASSUME IInv, NEW M, AnalyzeAtRoot
    PROVE  Stepped(M)
  <1>1. /\ core' = CancelUntil(core, 0) /\ pc' = "undefined" /\ in_simplify' = FALSE
        /\ confl' = confl /\ assumptions' = assumptions
    <2>1. in_simplify \in BOOLEAN
      BY IInvFacts
    <2> QED BY <2>1 DEF AnalyzeAtRoot, InConflict, call
  <1>2. core \in Core /\ Good(core, Lemmas) /\ confl \in Nat /\ assumptions \in Seq(Lit)
    BY IInvFacts
  <1>3. /\ core' \in Core /\ Good(core', Lemmas) /\ Steps(core, core', Lemmas, M)
        /\ DecisionLevel(core') = 0 /\ Covered(core', RootSize(core'))
    BY <1>1, <1>2, ToLevelZero, IInvCovered
  <1> QED BY <1>1, <1>2, <1>3, ComesToRest DEF Steps

LEMMA RestartStep ==
    ASSUME IInv, NEW M, Restart
    PROVE  Stepped(M)
  <1>1. /\ pc = "propagated" /\ confl = 0 /\ ~in_simplify /\ core.ok
        /\ core' = CancelUntil(core, 0) /\ pc' = "propagate" /\ in_simplify' = in_simplify
        /\ confl' = confl /\ assumptions' = assumptions
    BY DEF Restart, Quiet, call, CRef_Undef
  <1>2. core \in Core /\ Good(core, Lemmas) /\ in_simplify \in BOOLEAN
    BY IInvFacts
  <1>3. /\ core' \in Core /\ Good(core', Lemmas) /\ Steps(core, core', Lemmas, M)
        /\ DecisionLevel(core') = 0 /\ Covers(core, core')
    BY <1>1, <1>2, ToLevelZero
  <1>4. Moved(core, core', M)
    BY <1>3, MovedBy
  <1>5. pc \notin Resting /\ ~Repeated(core, pc, in_simplify, confl) /\ pc' \in Pcs
    BY <1>1, Fresh DEF Resting, Pcs
  <1> QED BY <1>1, <1>2, <1>3, <1>4, <1>5, GoesOn

LEMMA CallSimplifyStep ==
    ASSUME IInv, NEW M, CallSimplify
    PROVE  Stepped(M)
  <1>1. /\ pc = "propagated" /\ confl = 0 /\ ~in_simplify /\ core.ok /\ DecisionLevel(core) = 0
        /\ core' = core /\ pc' = "propagate" /\ in_simplify' = TRUE
        /\ confl' = confl /\ assumptions' = assumptions
    BY DEF CallSimplify, Quiet, call, CRef_Undef
  <1>2. core \in Core /\ Good(core, Lemmas)
    BY IInvFacts
  <1>3. Moved(core, core', M)
    BY <1>1, <1>2, LikewiseSelf, MovedBy DEF Likewise
  <1>4. pc \notin Resting /\ ~Repeated(core, pc, in_simplify, confl) /\ pc' \in Pcs
    BY <1>1, Fresh DEF Resting, Pcs
  <1> QED BY <1>1, <1>2, <1>3, <1>4, GoesOn

\* Clauses go.
LEMMA RemovedStep ==
    ASSUME IInv, NEW M, NEW R \in SUBSET Live(core), core' = RemoveClauses(core, R),
           (\A cr \in R : ~Locked(core, cr)) \/ DecisionLevel(core) = 0
    PROVE  Moved(core, core', M) /\ (core').ok = core.ok
  <1>1. core \in Core /\ Good(core, Lemmas) /\ (~core.ok => DecisionLevel(core) = 0)
    BY IInvFacts
  <1>2. /\ Steps(core, core', Lemmas, M) /\ Covers(core, core') /\ (core').ok = core.ok
        /\ (core').trail_lim = core.trail_lim
    BY <1>1, RemoveGood
  <1>3. DecisionLevel(core') = DecisionLevel(core)
    BY <1>2 DEF DecisionLevel
  <1> QED BY <1>1, <1>2, <1>3, MovedBy

LEMMA SimplifyStep ==
    ASSUME IInv, NEW M, Simplify
    PROVE  Stepped(M)
  <1>1. /\ pc = "propagated" /\ confl = 0 /\ in_simplify /\ core.ok
        /\ core' \in {core, RemoveSatisfied(core)} /\ pc' = "reduce" /\ in_simplify' = FALSE
        /\ confl' = confl /\ assumptions' = assumptions
    BY DEF Simplify, call, CRef_Undef
  <1>2. core \in Core /\ Good(core, Lemmas) /\ (in_simplify => DecisionLevel(core) = 0)
    BY IInvFacts
  <1>3. Moved(core, core', M) /\ (core').ok = core.ok
    <2>1. CASE core' = core
      BY <1>1, <1>2, <2>1, LikewiseSelf, MovedBy DEF Likewise
    <2>2. CASE core' = RemoveSatisfied(core)
      <3> DEFINE R == {cr \in Live(core) : Satisfied(core, cr)}
      <3>1. core' = RemoveClauses(core, R) /\ R \in SUBSET Live(core)
        BY <2>2 DEF RemoveSatisfied
      <3> HIDE DEF R
      <3> QED BY <1>1, <1>2, <3>1, RemovedStep
    <2> QED BY <1>1, <2>1, <2>2
  <1>4. pc \notin Resting /\ ~Repeated(core, pc, in_simplify, confl) /\ pc' \in Pcs
    BY <1>1, Fresh DEF Resting, Pcs
  <1> QED BY <1>1, <1>3, <1>4, GoesOn

LEMMA ReduceDBStep ==
    ASSUME IInv, NEW M, ReduceDB
    PROVE  Stepped(M)
  <1>2. PICK R \in SUBSET Live(core) : core' = RemoveClauses(core, R) /\ \A cr \in R : ~Locked(core, cr)
    BY DEF ReduceDB
  <1>3. /\ confl # 0 => pc \in {"propagated", "undefined"}
        /\ in_simplify => pc \in {"propagate", "theory", "propagated"}
        /\ pc \in {"reduce", "decide"} => core.ok
        /\ in_simplify \in BOOLEAN
    BY IInvFacts
  <1>4. pc' = "decide" /\ in_simplify' = in_simplify /\ confl' = confl /\ assumptions' = assumptions
    BY DEF ReduceDB, call
  <1>5. confl = 0 /\ ~in_simplify /\ core.ok /\ pc \in {"reduce", "propagated"}
    BY <1>3 DEF ReduceDB, Quiet, CRef_Undef
  <1>6. Moved(core, core', M) /\ (core').ok = core.ok
    BY <1>2, RemovedStep
  <1>7. pc \notin Resting /\ ~Repeated(core, pc, in_simplify, confl) /\ pc' \in Pcs
    BY <1>4, <1>5, Fresh DEF Resting, Pcs
  <1> QED BY <1>3, <1>4, <1>5, <1>6, <1>7, GoesOn

-----------------------------------------------------------------------------
LEMMA KeepsFalse ==
    ASSUME NEW c, NEW d, NEW cr, Keeps(c, d), AllFalse(c, cr)
    PROVE  AllFalse(d, cr)
  BY DEF Keeps, AllFalse, IsFalse

\* Search is at a conflict.
LEMMA AtConflictNow ==
    ASSUME IInv, NEW M, Honest(Lemmas, M), InConflict, DecisionLevel(core) > 0
    PROVE  AtConflict(core, confl, Lemmas, M) /\ core.ok /\ confl # 0 /\ pc = "propagated" /\ ~in_simplify
  <1>1. pc = "propagated" /\ ~in_simplify /\ (confl # 0 \/ ~core.ok)
    BY DEF InConflict, CRef_Undef
  <1>2. /\ core \in Core /\ Good(core, Lemmas) /\ (~core.ok => DecisionLevel(core) = 0)
        /\ pc = "propagated" /\ confl # 0 => AllFalse(core, confl)
        /\ SearchOK(core, pc, in_simplify, confl)
    BY IInvFacts
  <1>3. core.ok /\ confl # 0
    BY <1>1, <1>2
  <1>4. AtWalk(core, confl, Lemmas, M)
    BY <1>1, <1>2, <1>3 DEF AtWalk
  <1>5. Covered(core, Len(core.trail)) \/ Repeated(core, pc, in_simplify, confl)
    BY <1>1, <1>2 DEF SearchOK
  <1> QED BY <1>1, <1>3, <1>4, <1>5 DEF AtConflict, Repeated

\* The walk of analyze.
LEMMA AnalyzedGood ==
    ASSUME IInv, NEW M, Honest(Lemmas, M), InConflict, DecisionLevel(core) > 0, ConflictLevel(core, confl) > 0
    PROVE  LET d == CancelUntil(core, ConflictLevel(core, confl))
           IN /\ CanWalk(d, confl, Lemmas, M) /\ WalkedTo(d, confl, Lemmas, M, Analyzed)
              /\ Steps(core, d, Lemmas, M) /\ d.ok = core.ok /\ core.ok
  <1> DEFINE d == CancelUntil(core, ConflictLevel(core, confl))
  <1>1. AtConflict(core, confl, Lemmas, M) /\ core.ok
    BY AtConflictNow
  <1>2. CanWalk(d, confl, Lemmas, M) /\ Steps(core, d, Lemmas, M) /\ d.ok = core.ok
    BY <1>1, BackToConflict
  <1>3. WalkedTo(d, confl, Lemmas, M, Analyzed)
    BY <1>2, WalkGood DEF Analyzed
  <1> QED BY <1>1, <1>2, <1>3

LEMMA AnalyzeAgainStep ==
    ASSUME IInv, NEW M, Honest(Lemmas, M), AnalyzeAgain
    PROVE  Stepped(M)
  <1> DEFINE d == CancelUntil(core, ConflictLevel(core, confl))
  <1>1. /\ InConflict /\ DecisionLevel(core) > 0 /\ ConflictLevel(core, confl) > 0 /\ Analyzed.missed
        /\ core' = Analyzed.c /\ pc' = pc /\ in_simplify' = in_simplify /\ confl' = confl
        /\ assumptions' = assumptions
    BY DEF AnalyzeAgain, call
  <1>2. /\ CanWalk(d, confl, Lemmas, M) /\ WalkedTo(d, confl, Lemmas, M, Analyzed)
        /\ Steps(core, d, Lemmas, M) /\ d.ok = core.ok /\ core.ok
    BY <1>1, AnalyzedGood
  <1>3. pc = "propagated" /\ in_simplify = FALSE /\ confl # 0
    BY <1>1, AtConflictNow, IInvFacts
  <1>4. confl \in Nat /\ assumptions \in Seq(Lit)
    BY IInvFacts
  <1> HIDE DEF d
  <1>5. /\ Steps(d, core', Lemmas, M) /\ Keeps(d, core') /\ Covered(core', LastSize(d))
        /\ Visitable(core', confl)
    BY <1>1, <1>2 DEF WalkedTo
  <1>6. AllFalse(d, confl) /\ DecisionLevel(d) > 0
    BY <1>2 DEF CanWalk, AtWalk
  <1>7. AllFalse(core', confl)
    BY <1>5, <1>6, KeepsFalse
  <1>8. (core').trail_lim = d.trail_lim /\ (core').ok
    BY <1>2, <1>5 DEF Keeps
  <1>9. LastSize(core') = LastSize(d) /\ DecisionLevel(core') > 0
    BY <1>6, <1>8 DEF LastSize, DecisionLevel
  <1>10. Steps(core, core', Lemmas, M)
    BY <1>2, <1>5, StepsTwice
  <1>11. core' \in Core /\ Good(core', Lemmas) /\ Follows(core, core', M) /\ Undecided
    BY <1>10 DEF Steps, Undecided
  <1>12. Covered(core', RootSize(core'))
    <2>1. RootSize(core') <= LastSize(core') /\ RootSize(core') \in Nat /\ LastSize(core') \in Nat
      BY <1>9, <1>11, LastSizeFacts DEF Good
    <2>2. \A n \in 1..RootSize(core') : n \in 1..LastSize(core')
      BY <2>1
    <2> QED BY <1>5, <1>9, <2>2 DEF Covered
  <1>13. Repeated(core', pc', in_simplify', confl')
    BY <1>1, <1>3, <1>5, <1>9 DEF Repeated
  <1>14. SearchOK(core', pc', in_simplify', confl')
    BY <1>1, <1>3, <1>4, <1>7, <1>8, <1>11, <1>12, <1>13 DEF SearchOK, Pcs
  <1> QED BY <1>1, <1>4, <1>11, <1>14 DEF Stepped, IInv

\* Everything the theory should know it knows.
LEMMA Resumes ==
    ASSUME NEW d, d \in Core, Good(d, Lemmas), Covered(d, Len(d.trail)), ~d.ok => DecisionLevel(d) = 0
    PROVE  SearchOK(d, "propagate", FALSE, 0)
  <1>1. RootSize(d) \in 0..Len(d.trail)
    BY RootFacts DEF Good
  <1>2. Covered(d, RootSize(d))
    BY <1>1 DEF Covered
  <1> QED BY <1>2 DEF SearchOK, Pcs

LearntHolds(M) ==
    \A m \in M : Agrees(m, Analyzed.c) => m \cap Range(LearntClause(Analyzed)) # {}

LEMMA LearnStep ==
    ASSUME IInv, NEW M, Honest(Lemmas, M), Learn, LearntHolds(M)
    PROVE  Stepped(M)
  <1> DEFINE d == CancelUntil(core, ConflictLevel(core, confl))
  <1>1. /\ InConflict /\ DecisionLevel(core) > 0 /\ ConflictLevel(core, confl) > 0 /\ ~Analyzed.missed
        /\ core' = Learnt(Analyzed.c, LearntClause(Analyzed)) /\ pc' = "propagate"
        /\ in_simplify' = in_simplify /\ confl' = 0 /\ assumptions' = assumptions
    BY DEF Learn, call, CRef_Undef
  <1>2. /\ CanWalk(d, confl, Lemmas, M) /\ WalkedTo(d, confl, Lemmas, M, Analyzed)
        /\ Steps(core, d, Lemmas, M) /\ d.ok = core.ok /\ core.ok
    BY <1>1, AnalyzedGood
  <1>3. in_simplify = FALSE
    BY <1>1, AtConflictNow, IInvFacts
  <1>4. assumptions \in Seq(Lit)
    BY IInvFacts
  <1> HIDE DEF d
  <1>5. AtWalk(d, confl, Lemmas, M)
    BY <1>2 DEF CanWalk
  <1>6. CanLearn(Analyzed.c, LearntClause(Analyzed), Lemmas)
    BY <1>1, <1>2, <1>5, LearntClauseGood
  <1>7. LearntClause(Analyzed) \in Seq(Lit) /\ Distinct(LearntClause(Analyzed))
    BY <1>6 DEF CanLearn
  <1>8. Given(Analyzed.c, LearntClause(Analyzed), M)
    BY <1>7, HonestTotal DEF Given, LearntHolds
  <1>9. LearntTo(Analyzed.c, core', Lemmas, M)
    BY <1>1, <1>6, <1>8, LearntGood
  <1>10. /\ Steps(d, Analyzed.c, Lemmas, M) /\ Keeps(d, Analyzed.c) /\ Covered(Analyzed.c, LastSize(d))
    BY <1>2 DEF WalkedTo
  <1>11. LastSize(Analyzed.c) = LastSize(d) /\ Analyzed.c.ok
    BY <1>2, <1>10 DEF Keeps, LastSize
  <1>12. Steps(Analyzed.c, core', Lemmas, M) /\ (core').ok /\ Covered(core', Len((core').trail))
    BY <1>9, <1>10, <1>11 DEF LearntTo
  <1>13. Steps(core, core', Lemmas, M)
    BY <1>2, <1>10, <1>12, StepsTwice
  <1>14. core' \in Core /\ Good(core', Lemmas) /\ Follows(core, core', M) /\ Undecided
    BY <1>13 DEF Steps, Undecided
  <1>15. SearchOK(core', "propagate", FALSE, 0)
    BY <1>12, <1>14, Resumes
  <1> QED BY <1>1, <1>3, <1>4, <1>14, <1>15 DEF Stepped, IInv

LEMMA StartStep ==
    ASSUME IInv, NEW M, Start
    PROVE  Stepped(M)
  <1> DEFINE d == CancelUntil(core, 0)
  <1>1. /\ pc = "solve_" /\ core.ok /\ core' = TellQueued(d) /\ pc' = "propagate"
        /\ in_simplify' = in_simplify /\ confl' = confl /\ assumptions' = assumptions
    BY DEF Start, call, TellPropagated, TellQueued, TellAll
  <1>2. /\ core \in Core /\ Good(core, Lemmas) /\ assumptions \in Seq(Lit)
        /\ confl = 0 /\ in_simplify = FALSE
    BY <1>1, IInvFacts
  <1>3. /\ d \in Core /\ Good(d, Lemmas) /\ Steps(core, d, Lemmas, M)
        /\ DecisionLevel(d) = 0 /\ d.ok = core.ok /\ Covered(d, Len(d.trail))
    BY <1>2, ToLevelZero, IInvCovered
  <1> HIDE DEF d
  <1>4. Steps(d, core', Lemmas, M) /\ Covers(d, core') /\ Queued(d, core', Lemmas, M)
    BY <1>1, <1>3, TellQueuedGood, QueuedAll
  <1>5. Steps(core, core', Lemmas, M) /\ Covered(core', Len((core').trail)) /\ (core').ok
    BY <1>1, <1>3, <1>4, StepsTwice DEF Covers, Queued
  <1>6. core' \in Core /\ Good(core', Lemmas) /\ Follows(core, core', M) /\ Undecided
    BY <1>5 DEF Steps, Undecided
  <1>7. SearchOK(core', "propagate", FALSE, 0)
    BY <1>5, <1>6, Resumes
  <1> QED BY <1>1, <1>2, <1>6, <1>7 DEF Stepped, IInv

LEMMA SolveStep ==
    ASSUME IInv, NEW M, NEW assumps \in Assumptions, Solve(assumps)
    PROVE  Stepped(M)
  <1>1. /\ pc = "idle" /\ core' = core /\ pc' = "solve_" /\ assumptions' = assumps
        /\ in_simplify' = in_simplify /\ confl' = confl
    BY DEF Solve
  <1>2. /\ SearchOK(core, pc, in_simplify, confl) /\ confl = 0 /\ in_simplify = FALSE
        /\ core \in Core /\ Good(core, Lemmas) /\ (~core.ok => DecisionLevel(core) = 0)
    BY <1>1, IInvFacts
  <1>3. SearchOK(core, "solve_", FALSE, 0)
    BY <1>2, IInvCovered DEF SearchOK, Pcs
  <1>4. assumps \in Seq(Lit)
    BY SolverAssumption
  <1> QED BY <1>1, <1>2, <1>3, <1>4, FollowsSelf DEF Stepped, Undecided, Resting, IInv

\* The clause is one that counts.
LEMMA AddClauseStep ==
    ASSUME IInv, NEW M, M \subseteq Total, NEW ps \in Problem, \A m \in M : m \cap Range(ps) # {},
           AddClause(ps)
    PROVE  Stepped(M)
  <1> DEFINE d == CancelUntil(core, 0)
  <1>1. /\ pc = "idle" /\ core' = AddClause_(d, ps) /\ pc' = pc /\ assumptions' = assumptions
        /\ in_simplify' = in_simplify /\ confl' = confl
    BY DEF AddClause, call
  <1>2. /\ core \in Core /\ Good(core, Lemmas) /\ assumptions \in Seq(Lit)
        /\ confl = 0 /\ in_simplify = FALSE
    BY <1>1, IInvFacts
  <1>3. /\ d \in Core /\ Good(d, Lemmas) /\ Steps(core, d, Lemmas, M) /\ Covers(core, d)
        /\ DecisionLevel(d) = 0
    BY <1>2, ToLevelZero
  <1> HIDE DEF d
  <1>4. Given(d, ps, M)
    BY SolverAssumption DEF Given, Distinct
  <1>5. Steps(d, core', Lemmas, M) /\ Covers(d, core') /\ (core').trail_lim = d.trail_lim
    BY <1>1, <1>3, <1>4, AddClause_Good
  <1>6. DecisionLevel(core') = 0
    BY <1>3, <1>5 DEF DecisionLevel
  <1>7. Steps(core, core', Lemmas, M) /\ Covered(core', RootSize(core'))
    BY <1>3, <1>5, StepsTwice, IInvCovered DEF Covers
  <1> QED BY <1>1, <1>2, <1>6, <1>7, ComesToRest, 0 \in Nat DEF Steps

LEMMA AddDelayedStep ==
    ASSUME IInv, NEW M, Honest(Lemmas, M), AddDelayed
    PROVE  Stepped(M)
  <1> DEFINE r == AddConflictClause(core, Last(core.delayed), TRUE)
  <1>1. /\ Quiet /\ core.delayed # <<>> /\ core' = [r.c EXCEPT !.delayed = Front(r.c.delayed)]
        /\ confl' = r.confl
        /\ pc' = pc /\ in_simplify' = in_simplify /\ assumptions' = assumptions
    BY DEF AddDelayed, call
  <1>2. pc = "propagated" /\ ~in_simplify /\ confl = 0 /\ core.ok
    BY <1>1 DEF Quiet, CRef_Undef
  <1>3. core \in Core /\ Good(core, Lemmas) /\ in_simplify \in BOOLEAN
    BY IInvFacts
  <1>4. Given(core, Last(core.delayed), M)
    BY <1>1, <1>3, HonestTotal, DelayedGiven
  <1>5. Conflicted(core, Lemmas, M, r)
    BY <1>3, <1>4, AddConflictGood, TRUE \in BOOLEAN
  <1> HIDE DEF r
  <1>6. /\ Steps(core, r.c, Lemmas, M) /\ Covers(core, r.c) /\ r.confl \in Nat
        /\ r.confl # 0 => ~r.fine /\ AllFalse(r.c, r.confl) /\ r.c.ok = core.ok
        /\ ~r.fine /\ r.confl = 0 => ~r.c.ok /\ DecisionLevel(r.c) = 0
        /\ r.fine => r.c.ok = core.ok
        /\ r.c \in Core /\ Good(r.c, Lemmas) /\ r.c.delayed # <<>>
    BY <1>1, <1>5 DEF Conflicted, Steps
  <1>7. Likewise(r.c, core', M)
    BY <1>1, <1>6, TakeDelayed DEF Likewise
  <1>8. /\ Steps(core, core', Lemmas, M) /\ Covers(core, core') /\ (core').ok = r.c.ok
        /\ (core').trail_lim = r.c.trail_lim
        /\ r.confl # 0 => AllFalse(core', r.confl)
    BY <1>6, <1>7, StepsTwice, CoversTwice DEF Likewise
  <1>9. DecisionLevel(core') = DecisionLevel(r.c)
    BY <1>8 DEF DecisionLevel
  <1>10. ~(core').ok => DecisionLevel(core') = 0
    BY <1>2, <1>6, <1>8, <1>9
  <1>11. Moved(core, core', M)
    BY <1>8, <1>10, MovedBy
  <1>12. pc \notin Resting /\ ~Repeated(core, pc, in_simplify, confl) /\ pc' \in Pcs
    BY <1>1, <1>2, Fresh DEF Resting, Pcs
  <1> QED BY <1>1, <1>2, <1>3, <1>6, <1>8, <1>11, <1>12, GoesOn

-----------------------------------------------------------------------------
LEMMA FirstOpenFacts ==
    ASSUME IInv
    PROVE  /\ FirstOpen \in Nat /\ FirstOpen >= 1 /\ FirstOpen <= Len(assumptions) + 1
           /\ PendingAssumptions # {} => FirstOpen - 1 - DecisionLevel(core) \in Nat
  <1> DEFINE L == Len(assumptions)
             D == DecisionLevel(core)
             open == {i \in PendingAssumptions : ~IsTrue(core, assumptions[i])}
  <1>1. L \in Nat /\ DOMAIN assumptions = 1..L /\ D \in Nat
    BY IInvFacts
  <1>2. PendingAssumptions = {i \in 1..L : i > D}
    BY <1>1 DEF PendingAssumptions
  <1>3. FirstOpen = IF open = {} THEN L + 1 ELSE CHOOSE i \in open : \A j \in open : i <= j
    BY DEF FirstOpen
  <1>4. open \subseteq {i \in 1..L : i > D}
    BY <1>2
  <1> HIDE DEF L, D, open
  <1>5. CASE open = {}
    <2>1. FirstOpen = L + 1
      BY <1>3, <1>5
    <2>2. ASSUME PendingAssumptions # {} PROVE (L + 1) - 1 - D \in Nat
      <3>1. PICK i \in 1..L : i > D
        BY <1>2, <2>2
      <3> QED BY <1>1, <3>1
    <2> QED BY <1>1, <2>1, <2>2 DEF L, D
  <1>6. CASE open # {}
    <2>1. open \subseteq Nat
      BY <1>1, <1>4
    <2>2. \E i \in open : \A j \in open : i <= j
      BY <1>6, <2>1, Smallest
    <2>3. FirstOpen \in open
      BY <1>3, <1>6, <2>2
    <2>4. FirstOpen \in 1..L /\ FirstOpen > D
      BY <1>4, <2>3
    <2> QED BY <1>1, <2>4 DEF L, D
  <1> QED BY <1>5, <1>6

\* The levels of the assumptions that are true already.
LEMMA AtAssumptionsOpened ==
    ASSUME IInv, NEW M
    PROVE  Opened(core, AtAssumptions, Lemmas, M)
  <1>1. core \in Core /\ Good(core, Lemmas)
    BY IInvFacts
  <1>2. CASE PendingAssumptions = {}
    <2>1. AtAssumptions = core
      BY <1>2 DEF AtAssumptions
    <2> QED BY <1>1, <2>1, StepsSelf DEF Opened, Covers
  <1>3. CASE PendingAssumptions # {}
    <2> DEFINE n == FirstOpen - 1 - DecisionLevel(core)
               s == [i \in 1..n |-> i]
    <2>1. n \in Nat
      BY <1>3, FirstOpenFacts
    <2>2. AtAssumptions = Dummies(n)
      BY <1>3 DEF AtAssumptions
    <2> HIDE DEF n
    <2>3. Dummies(n) = LevelAll(core, s)
      BY DEF Dummies, LevelAll
    <2>4. s \in Seq(Int)
      BY <2>1
    <2> HIDE DEF s
    <2>5. Opened(core, LevelAll(core, s), Lemmas, M)
      BY <1>1, <2>4, LevelsOpened
    <2> QED BY <2>2, <2>3, <2>5
  <1> QED BY <1>2, <1>3

\* Search decides.
LEMMA AtDecide ==
    ASSUME IInv, pc = "decide"
    PROVE  /\ core.ok /\ confl = 0 /\ in_simplify = FALSE /\ Covered(core, Len(core.trail))
           /\ pc \notin Resting /\ ~Repeated(core, pc, in_simplify, confl)
           /\ core \in Core /\ Good(core, Lemmas)
  <1>1. /\ core.ok /\ confl = 0 /\ in_simplify = FALSE /\ SearchOK(core, pc, in_simplify, confl)
        /\ core \in Core /\ Good(core, Lemmas)
    BY IInvFacts
  <1>2. ~Repeated(core, pc, in_simplify, confl)
    BY Fresh
  <1>3. Covered(core, Len(core.trail))
    BY <1>1, <1>2 DEF SearchOK
  <1> QED BY <1>1, <1>2, <1>3 DEF Resting

LEMMA DecidesOn ==
    ASSUME IInv, NEW M, pc = "decide", (core').ok, core' \in Core, Good(core', Lemmas),
           Follows(core, core', M), Covers(core, core'), pc' = "propagate", in_simplify' = in_simplify,
           confl' = confl, assumptions' = assumptions, NoDecision(core, core') \/ Decides
    PROVE  Stepped(M)
  <1>1. /\ confl = 0 /\ in_simplify = FALSE
        /\ pc \notin Resting /\ ~Repeated(core, pc, in_simplify, confl)
    BY AtDecide
  <1>2. SearchOK(core, pc, in_simplify, confl) /\ assumptions \in Seq(Lit)
    BY IInvFacts
  <1>3. Advanced(core, core', M) /\ pc' \in Pcs
    BY DEF Advanced, Pcs
  <1>4. SearchOK(core', pc', in_simplify', confl')
    BY <1>1, <1>2, <1>3, MoveOK, 0 \in Nat DEF Resting
  <1> QED BY <1>2, <1>4 DEF Stepped, Undecided, IInv

LEMMA DecideStep ==
    ASSUME IInv, NEW M, NEW p \in Lit, Decide(p)
    PROVE  Stepped(M)
  <1>1. /\ pc = "decide" /\ IsUndef(core, p) /\ pc' = "propagate" /\ in_simplify' = in_simplify
        /\ core' = UncheckedEnqueue(NewDecisionLevel(core), p, CRef_Undef)
        /\ confl' = confl /\ assumptions' = assumptions
    BY DEF Decide, DecideOn, call
  <1>2. core \in Core /\ Good(core, Lemmas) /\ core.ok
    BY <1>1, AtDecide
  <1>3. DecidedTo(core, core', Lemmas, M)
    BY <1>1, <1>2, DecideGood
  <1>4. Decides
    BY DEF Decides
  <1> QED BY <1>1, <1>2, <1>3, <1>4, DecidesOn DEF DecidedTo

LEMMA FollowsTwice ==
    ASSUME NEW b, NEW c, NEW d, NEW M, Follows(b, c, M), Follows(c, d, M) PROVE Follows(b, d, M)
  BY DEF Follows

LEMMA AssumeStep ==
    ASSUME IInv, NEW M, Assume
    PROVE  Stepped(M)
  <1> DEFINE p == assumptions[FirstOpen]
  <1>1. /\ pc = "decide" /\ IsUndef(core, p) /\ pc' = "propagate" /\ in_simplify' = in_simplify
        /\ core' = UncheckedEnqueue(NewDecisionLevel(AtAssumptions), p, CRef_Undef)
        /\ confl' = confl /\ assumptions' = assumptions /\ FirstOpen <= Len(assumptions)
    BY DEF Assume, DecideOn, call
  <1>2. core \in Core /\ Good(core, Lemmas) /\ core.ok
    BY <1>1, AtDecide
  <1>3. p \in Lit
    <2>1. FirstOpen \in 1..Len(assumptions) /\ assumptions \in Seq(Lit)
      BY <1>1, FirstOpenFacts, IInvFacts
    <2> QED BY <2>1
  <1> HIDE DEF p
  <1>4. /\ Steps(core, AtAssumptions, Lemmas, M) /\ Covers(core, AtAssumptions)
        /\ AtAssumptions.ok = core.ok /\ AtAssumptions.assigns = core.assigns
        /\ AtAssumptions \in Core /\ Good(AtAssumptions, Lemmas) /\ Follows(core, AtAssumptions, M)
    BY AtAssumptionsOpened DEF Opened, Steps
  <1>5. IsUndef(AtAssumptions, p)
    BY <1>1, <1>4 DEF IsUndef, IsTrue, IsFalse
  <1>6. DecidedTo(AtAssumptions, core', Lemmas, M)
    BY <1>1, <1>3, <1>4, <1>5, DecideGood
  <1>7. /\ core' \in Core /\ Good(core', Lemmas) /\ (core').ok /\ Follows(AtAssumptions, core', M)
        /\ Covers(AtAssumptions, core')
    BY <1>2, <1>4, <1>6 DEF DecidedTo
  <1>8. Decides
    BY DEF Decides
  <1> QED BY <1>1, <1>4, <1>7, <1>8, DecidesOn, FollowsTwice, CoversTwice

LEMMA AssumptionsTrueStep ==
    ASSUME IInv, NEW M, AssumptionsTrue
    PROVE  Stepped(M)
  <1>1. /\ pc = "decide" /\ core' = AtAssumptions /\ pc' = "propagate" /\ in_simplify' = in_simplify
        /\ confl' = confl /\ assumptions' = assumptions
    BY DEF AssumptionsTrue, call
  <1>2. core.ok
    BY <1>1, AtDecide
  <1>3. Opened(core, core', Lemmas, M)
    BY <1>1, AtAssumptionsOpened
  <1> QED BY <1>1, <1>2, <1>3, DecidesOn DEF Opened, Steps

\* analyzeFinal.
LEMMA FinalAnalysisGood ==
    ASSUME IInv, NEW M, Honest(Lemmas, M), pc = "decide"
    PROVE  /\ Steps(core, FinalAnalysis.c, Lemmas, M) /\ FinalAnalysis.c.ok
           /\ Covered(FinalAnalysis.c, RootSize(FinalAnalysis.c)) /\ FinalAnalysis.out # {}
           /\ FinalAnalysis.c \in Core /\ Good(FinalAnalysis.c, Lemmas) /\ Follows(core, FinalAnalysis.c, M)
  <1> DEFINE p == -assumptions[FirstOpen]
  <1>1. core.ok /\ Covered(core, Len(core.trail))
    BY AtDecide
  <1>2. /\ Steps(core, AtAssumptions, Lemmas, M) /\ Covers(core, AtAssumptions)
        /\ AtAssumptions.ok = core.ok /\ AtAssumptions \in Core /\ Good(AtAssumptions, Lemmas)
    BY AtAssumptionsOpened DEF Opened, Steps
  <1>3. Covered(AtAssumptions, Len(AtAssumptions.trail))
    BY <1>1, <1>2 DEF Covers
  <1>4. FinalTo(AtAssumptions, p, Lemmas, M, FinalAnalysis)
    BY <1>2, <1>3, AnalyzeFinalGood DEF FinalAnalysis
  <1>5. /\ Steps(AtAssumptions, FinalAnalysis.c, Lemmas, M) /\ FinalAnalysis.c.ok = AtAssumptions.ok
        /\ Covered(FinalAnalysis.c, RootSize(FinalAnalysis.c)) /\ p \in FinalAnalysis.out
    BY <1>4 DEF FinalTo, Keeps
  <1>6. Steps(core, FinalAnalysis.c, Lemmas, M)
    BY <1>2, <1>5, StepsTwice
  <1> QED BY <1>1, <1>2, <1>5, <1>6 DEF Steps

LEMMA AssumptionFalseStep ==
    ASSUME IInv, NEW M, Honest(Lemmas, M), AssumptionFalse
    PROVE  Stepped(M)
  <1>1. pc = "decide" /\ Fail(FinalAnalysis.c, FinalAnalysis.out)
    BY DEF AssumptionFalse, AssumptionRefuted
  <1>2. /\ FinalAnalysis.c.ok
        /\ Covered(FinalAnalysis.c, RootSize(FinalAnalysis.c)) /\ FinalAnalysis.out # {}
        /\ FinalAnalysis.c \in Core /\ Good(FinalAnalysis.c, Lemmas) /\ Follows(core, FinalAnalysis.c, M)
    BY <1>1, FinalAnalysisGood
  <1> QED BY <1>1, <1>2, Failing

LEMMA AssumptionFalseUndefinedStep ==
    ASSUME IInv, NEW M, Honest(Lemmas, M), AssumptionFalseUndefined
    PROVE  Stepped(M)
  <1>1. /\ pc = "decide" /\ core' = FinalAnalysis.c /\ pc' = "undefined" /\ in_simplify' = in_simplify
        /\ confl' = confl /\ assumptions' = assumptions
    BY DEF AssumptionFalseUndefined, AssumptionRefuted, call
  <1>2. /\ (core').ok /\ Covered(core', RootSize(core'))
        /\ core' \in Core /\ Good(core', Lemmas) /\ Follows(core, core', M)
    BY <1>1, FinalAnalysisGood
  <1>3. confl = 0 /\ in_simplify = FALSE /\ assumptions \in Seq(Lit)
    BY <1>1, AtDecide, IInvFacts
  <1> QED BY <1>1, <1>2, <1>3, ComesToRest, 0 \in Nat

-----------------------------------------------------------------------------
\* A level for solveTheory.
LEMMA LevelOpened ==
    ASSUME IInv, NEW M, pc = "decide"
    PROVE  LET d == NewDecisionLevel(core)
           IN /\ Steps(core, d, Lemmas, M) /\ Covers(core, d) /\ d.ok
              /\ d \in Core /\ Good(d, Lemmas) /\ Follows(core, d, M)
  <1>1. core.ok /\ core \in Core /\ Good(core, Lemmas)
    BY AtDecide
  <1>2. Opened(core, NewDecisionLevel(core), Lemmas, M)
    BY <1>1, NewLevelStep
  <1> QED BY <1>1, <1>2 DEF Opened, Steps

LEMMA SolveTheoryPendingStep ==
    ASSUME IInv, NEW M, SolveTheoryPending
    PROVE  Stepped(M)
  <1>1. /\ pc = "decide" /\ core' = NewDecisionLevel(core) /\ pc' = "propagate"
        /\ in_simplify' = in_simplify /\ confl' = confl /\ assumptions' = assumptions
    BY DEF SolveTheoryPending, Full, call
  <1>2. /\ (core').ok /\ Covers(core, core') /\ NoDecision(core, core')
        /\ core' \in Core /\ Good(core', Lemmas) /\ Follows(core, core', M)
    BY <1>1, LevelOpened DEF Steps
  <1> QED BY <1>1, <1>2, DecidesOn

LEMMA ModelFoundStep ==
    ASSUME IInv, NEW M, ModelFound
    PROVE  Stepped(M)
  <1>1. /\ pc = "decide" /\ core' = NewDecisionLevel(core) /\ pc' = "idle"
        /\ in_simplify' = FALSE /\ confl' = 0 /\ assumptions' = <<>>
    BY DEF ModelFound, Full, Return, CRef_Undef
  <1>2. /\ (core').ok /\ Covers(core, core')
        /\ core' \in Core /\ Good(core', Lemmas) /\ Follows(core, core', M)
    BY <1>1, LevelOpened
  <1>3. Covered(core', RootSize(core'))
    BY <1>2, IInvCovered DEF Covers
  <1>4. assumptions' \in Seq(Lit)
    BY <1>1
  <1> QED BY <1>1, <1>2, <1>3, <1>4, ComesToRest, 0 \in Nat

LEMMA SolveTheoryConflictStep ==
    ASSUME IInv, NEW M, Honest(Lemmas, M), NEW k \in DOMAIN Lemmas, SolveTheoryConflict(k)
    PROVE  Stepped(M)
  <1> DEFINE d == NewDecisionLevel(core)
             r == AddConflictClause(d, Lemmas[k], FALSE)
  <1>1. /\ pc = "decide" /\ core' = r.c /\ confl' = r.confl
        /\ pc' = (IF r.fine THEN "propagate" ELSE "propagated")
        /\ in_simplify' = in_simplify /\ assumptions' = assumptions
    BY DEF SolveTheoryConflict, Full, call
  <1>2. /\ confl = 0 /\ in_simplify = FALSE
        /\ pc \notin Resting /\ ~Repeated(core, pc, in_simplify, confl)
    BY <1>1, AtDecide
  <1>3. /\ Steps(core, d, Lemmas, M) /\ Covers(core, d) /\ d.ok /\ d \in Core /\ Good(d, Lemmas)
    BY <1>1, LevelOpened
  <1> HIDE DEF d
  <1>4. Given(d, Lemmas[k], M)
    BY LemmaGiven
  <1>5. Conflicted(d, Lemmas, M, r)
    BY <1>3, <1>4, AddConflictGood, FALSE \in BOOLEAN
  <1> HIDE DEF r
  <1>6. /\ Steps(d, r.c, Lemmas, M) /\ Covers(d, r.c) /\ r.confl \in Nat
        /\ r.confl # 0 => ~r.fine /\ AllFalse(r.c, r.confl) /\ r.c.ok = d.ok
        /\ ~r.fine /\ r.confl = 0 => ~r.c.ok /\ DecisionLevel(r.c) = 0
        /\ r.fine => r.c.ok = d.ok
    BY <1>5 DEF Conflicted
  <1>7. Steps(core, core', Lemmas, M) /\ Covers(core, core')
    BY <1>1, <1>3, <1>6, StepsTwice, CoversTwice
  <1>8. ~(core').ok => DecisionLevel(core') = 0
    BY <1>1, <1>3, <1>6
  <1>9. Moved(core, core', M)
    BY <1>7, <1>8, MovedBy
  <1>10. confl' \in Nat /\ (confl' # 0 => pc' = "propagated" /\ AllFalse(core', confl'))
    BY <1>1, <1>6
  <1>11. pc' \in Pcs /\ pc' \notin {"reduce", "decide"}
    BY <1>1 DEF Pcs
  <1> QED BY <1>1, <1>2, <1>9, <1>10, <1>11, GoesOn

-----------------------------------------------------------------------------
LEMMA InitOK == Init => IInv
  <1> SUFFICES ASSUME Init PROVE IInv
    OBVIOUS
  <1>1. /\ core.assigns = {} /\ core.trail = <<>> /\ core.trail_lim = <<>> /\ core.qhead = 0
        /\ core.told = <<>> /\ core.theory_level = 0 /\ core.ca = <<>> /\ core.delayed = <<>>
        /\ core.ok = TRUE /\ core.watches = [p \in Lit |-> <<>>]
    BY DEF Init
  <1>2. core \in Core
    <2>1. [v \in Var |-> 0] \in [Var -> Nat] /\ [v \in Var |-> CRef_Undef] \in [Var -> Int]
      BY DEF CRef_Undef
    <2>2. [p \in Lit |-> <<>>] \in [Lit -> Seq([cref : Nat, blocker : Lit])]
      OBVIOUS
    <2>3. \A T : <<>> \in Seq(T)
      OBVIOUS
    <2>4. {} \in SUBSET Lit /\ 0 \in Nat
      OBVIOUS
    <2>5. core = [assigns |-> {}, level |-> [v \in Var |-> 0],
               reason |-> [v \in Var |-> CRef_Undef], trail |-> <<>>,
               trail_lim |-> <<>>, qhead |-> 0, told |-> <<>>,
               theory_level |-> 0,
               theory_queue |-> FALSE, ca |-> <<>>,
               watches |-> [p \in Lit |-> <<>>], delayed |-> <<>>,
               ok |-> TRUE, initialPropagate |-> TRUE]
      BY DEF Init
    <2> QED BY <2>1, <2>2, <2>3, <2>4, <2>5 DEF Core
  <1>3. /\ Len(core.trail) = 0 /\ Len(core.trail_lim) = 0 /\ Len(core.told) = 0
        /\ DecisionLevel(core) = 0 /\ DOMAIN core.ca = {} /\ DOMAIN core.delayed = {} /\ DOMAIN core.trail = {}
    <2>1. Len(<<>>) = 0 /\ DOMAIN <<>> = {}
      OBVIOUS
    <2> QED BY <1>1, <2>1 DEF DecisionLevel
  <1>4. TrailOK(core)
    <2>1. Range(core.trail) = {}
      BY <1>3 DEF Range
    <2> QED BY <1>1, <1>3, <2>1 DEF TrailOK, LimitsOK, Distinct
  <1>5. ToldOK(core)
    BY <1>1, <1>3 DEF ToldOK, ToldBut
  <1>6. DbOK(core)
    <2>1. ASSUME NEW p \in Lit PROVE WatchOK(core.ca, p, core.watches[p])
      <3>1. core.watches[p] = <<>> /\ Len(<<>>) = 0
        BY <1>1
      <3> QED BY <3>1 DEF WatchOK
    <2> QED BY <1>3, <2>1 DEF DbOK
  <1>7. CausesOK(core, Lemmas)
    BY <1>3 DEF CausesOK
  <1>8. Good(core, Lemmas)
    BY <1>2, <1>4, <1>5, <1>6, <1>7 DEF Good
  <1>9. Covered(core, RootSize(core))
    BY <1>1, <1>3 DEF Covered, RootSize
  <1>10. pc = "idle" /\ in_simplify = FALSE /\ confl = 0 /\ assumptions = <<>>
    BY DEF Init, CRef_Undef
  <1>11. SearchOK(core, pc, in_simplify, confl)
    BY <1>1, <1>2, <1>8, <1>9, <1>10 DEF SearchOK, Pcs
  <1>12. assumptions \in Seq(Lit)
    BY <1>10
  <1> QED BY <1>11, <1>12 DEF IInv

\* One step of search.
LEMMA SearchStep ==
    ASSUME IInv, NEW M, Honest(Lemmas, M), Search, Learn => LearntHolds(M)
    PROVE  Stepped(M)
  <1>1. CASE Start
    BY <1>1, StartStep
  <1>2. CASE StartInconsistent
    BY <1>2, StartInconsistentStep
  <1>3. CASE Propagate
    BY <1>3, PropagateStep
  <1>4. CASE TheoryReturn
    BY <1>4, TheoryReturnStep
  <1>5. ASSUME NEW k \in DOMAIN Lemmas,
               \/ TheoryAdd(k) \/ TheoryConflict(k) \/ SolveTheoryConflict(k)
               \/ \E p \in Range(Lemmas[k]) : TheoryEnqueue(k, p)
        PROVE  Stepped(M)
    <2>1. CASE TheoryAdd(k)
      BY <2>1, TheoryAddStep
    <2>2. CASE TheoryConflict(k)
      BY <2>2, TheoryConflictStep
    <2>3. CASE SolveTheoryConflict(k)
      BY <2>3, SolveTheoryConflictStep
    <2>4. CASE \E p \in Range(Lemmas[k]) : TheoryEnqueue(k, p)
      BY <2>4, TheoryEnqueueStep
    <2> QED BY <1>5, <2>1, <2>2, <2>3, <2>4
  <1>6. CASE LevelZeroConflict
    BY <1>6, LevelZeroConflictStep
  <1>7. CASE AnalyzeAtRoot
    BY <1>7, AnalyzeAtRootStep
  <1>8. CASE AnalyzeAgain
    BY <1>8, AnalyzeAgainStep
  <1>9. CASE Learn
    BY <1>9, LearnStep
  <1>10. CASE AddDelayed
    BY <1>10, AddDelayedStep
  <1>11. CASE Restart
    BY <1>11, RestartStep
  <1>12. CASE CallSimplify
    BY <1>12, CallSimplifyStep
  <1>13. CASE SimplifyFails
    BY <1>13, SimplifyFailsStep
  <1>14. CASE Simplify
    BY <1>14, SimplifyStep
  <1>15. CASE ReduceDB
    BY <1>15, ReduceDBStep
  <1>16. CASE AssumptionFalse
    BY <1>16, AssumptionFalseStep
  <1>17. CASE AssumptionFalseUndefined
    BY <1>17, AssumptionFalseUndefinedStep
  <1>18. CASE Assume
    BY <1>18, AssumeStep
  <1>19. CASE AssumptionsTrue
    BY <1>19, AssumptionsTrueStep
  <1>20. CASE \E p \in Lit : Decide(p)
    BY <1>20, DecideStep
  <1>21. CASE SolveTheoryPending
    BY <1>21, SolveTheoryPendingStep
  <1>22. CASE ModelFound
    BY <1>22, ModelFoundStep
  <1> QED
    BY <1>1, <1>2, <1>3, <1>4, <1>5, <1>6, <1>7, <1>8, <1>9, <1>10, <1>11, <1>12, <1>13, <1>14,
       <1>15, <1>16, <1>17, <1>18, <1>19, <1>20, <1>21, <1>22 DEF Search

LEMMA StuttersOK ==
    ASSUME IInv, UNCHANGED vars, NEW M
    PROVE  Stepped(M)
  <1>1. /\ core' = core /\ pc' = pc /\ in_simplify' = in_simplify /\ confl' = confl
        /\ assumptions' = assumptions
    BY DEF vars
  <1>2. NoDecision(core, core')
    BY <1>1 DEF NoDecision
  <1> QED BY <1>1, <1>2, FollowsSelf DEF Stepped, Undecided, IInv

\* One step, for assignments that satisfy what the user adds and what is learnt.
LEMMA NextStep ==
    ASSUME IInv, [Next]_vars, NEW M, Honest(Lemmas, M), Learn => LearntHolds(M),
           \A ps \in Problem : AddClause(ps) => \A m \in M : m \cap Range(ps) # {}
    PROVE  Stepped(M)
  <1>1. ASSUME NEW ps \in Problem, AddClause(ps) PROVE Stepped(M)
    BY <1>1, HonestTotal, AddClauseStep
  <1>2. ASSUME NEW assumps \in Assumptions, Solve(assumps) PROVE Stepped(M)
    BY <1>2, SolveStep
  <1>3. CASE Search
    BY <1>3, SearchStep
  <1>4. CASE Rest
    BY <1>4, StuttersOK DEF Rest
  <1>5. CASE UNCHANGED vars
    BY <1>5, StuttersOK
  <1> QED BY <1>1, <1>2, <1>3, <1>4, <1>5 DEF Next

LEMMA IInvStep == IInv /\ [Next]_vars => IInv'
  <1> SUFFICES ASSUME IInv, [Next]_vars PROVE IInv'
    OBVIOUS
  <1>1. Honest(Lemmas, {})
    BY HonestNothing
  <1>2. LearntHolds({})
    BY DEF LearntHolds
  <1>3. Stepped({})
    BY <1>1, <1>2, NextStep
  <1> QED BY <1>3 DEF Stepped

\* The invariant of search: the trail, the clauses and what the theory was told fit
\* together through every call of solve, analyze and cancelUntil.
THEOREM IInvAlways == Spec => []IInv
  <1> QED BY InitOK, IInvStep, PTL DEF Spec

-----------------------------------------------------------------------------
LEMMA PositionIs ==
    ASSUME IInv, NEW i \in 1..Len(core.trail)
    PROVE  Position(core.trail[i]) = i
  <1>1. core \in Core /\ TrailOK(core)
    BY IInvFacts
  <1>2. DOMAIN core.trail = 1..Len(core.trail)
    BY <1>1, CoreFields, RangeFacts
  <1>3. \A j \in 1..Len(core.trail) : core.trail[j] = core.trail[i] => j = i
    BY <1>1, AssignedFacts
  <1> QED BY <1>2, <1>3 DEF Position

\* What is false because of what is before the i-th literal.
LEMMA BecausePositions ==
    ASSUME IInv, NEW i \in 1..Len(core.trail), NEW C, Because(core, i, C), NEW q \in C, q \in Lit
    PROVE  /\ IsFalse(core, q) /\ Position(-q) < Position(core.trail[i])
           /\ LevelOf(core, q) <= LevelOf(core, core.trail[i])
  <1>1. core \in Core /\ TrailOK(core) /\ Len(core.trail) \in Nat
    BY IInvFacts
  <1>2. PICK j \in 1..(i - 1) : core.trail[j] = -q /\ LevelOf(core, core.trail[j]) <= LevelOf(core, core.trail[i])
    BY DEF Because
  <1>3. j \in 1..Len(core.trail) /\ j < i
    BY <1>1
  <1>4. Position(-q) = j /\ Position(core.trail[i]) = i
    BY <1>2, <1>3, PositionIs
  <1>5. -q \in core.assigns
    BY <1>1, <1>2, <1>3, AssignedFacts
  <1>6. LevelOf(core, -q) = LevelOf(core, q)
    BY <1>1, CoreFields
  <1> QED BY <1>2, <1>3, <1>4, <1>5, <1>6 DEF IsFalse

LEMMA ReasonsValidNow == IInv => ReasonsValid
  <1> SUFFICES ASSUME IInv, NEW p \in core.assigns, IsClause(ReasonOf(core, p))
               PROVE  LET cr == ReasonOf(core, p)
                          rest == Range(Tail(core.ca[cr].lits))
                      IN /\ cr \in Live(core) /\ Head(core.ca[cr].lits) = p
                         /\ \A q \in rest : /\ IsFalse(core, q)
                                            /\ Position(-q) < Position(p)
                                            /\ LevelOf(core, q) <= LevelOf(core, p)
    BY DEF ReasonsValid
  <1> DEFINE cr == ReasonOf(core, p)
             s == core.ca[cr].lits
  <1>1. core \in Core /\ TrailOK(core) /\ DbOK(core) /\ CausesOK(core, Lemmas)
    BY IInvFacts DEF Good
  <1>2. PICK i \in 1..Len(core.trail) : core.trail[i] = p
    BY <1>1, AssignedFacts
  <1>3. ByClause(core, i, cr)
    BY <1>1, <1>2 DEF CausesOK, CauseOK, IsClause
  <1>4. cr \in Live(core) /\ s[1] = p /\ Because(core, i, Lits(core, cr) \ {p})
    BY <1>2, <1>3 DEF ByClause
  <1>5. s \in Seq(Lit) /\ Len(s) >= 2 /\ Distinct(s) /\ Lits(core, cr) \subseteq Lit
    BY <1>1, <1>4, ClauseFacts
  <1>6. Lits(core, cr) = Range(s)
    BY DEF Lits
  <1> HIDE DEF cr, s
  <1>7. Range(Tail(s)) = Lits(core, cr) \ {p} /\ Head(s) = p
    BY <1>4, <1>5, <1>6, TailFacts
  <1>8. \A q \in Range(Tail(s)) : /\ IsFalse(core, q) /\ Position(-q) < Position(p)
                                  /\ LevelOf(core, q) <= LevelOf(core, p)
    BY <1>2, <1>4, <1>5, <1>7, BecausePositions
  <1> QED BY <1>4, <1>7, <1>8 DEF cr, s

LEMMA TheoryReasonsValidNow == IInv => TheoryReasonsValid
  <1> SUFFICES ASSUME IInv, NEW p \in core.assigns, IsTheoryCause(ReasonOf(core, p)),
                      NEW q \in Range(Lemmas[-ReasonOf(core, p)]) \ {p}
               PROVE  IsFalse(core, q) /\ Position(-q) < Position(p)
    BY DEF TheoryReasonsValid
  <1> DEFINE k == -ReasonOf(core, p)
  <1>1. core \in Core /\ TrailOK(core) /\ CausesOK(core, Lemmas)
    BY IInvFacts DEF Good
  <1>2. PICK i \in 1..Len(core.trail) : core.trail[i] = p
    BY <1>1, AssignedFacts
  <1>3. k \in DOMAIN Lemmas /\ ByLemma(core, i, Lemmas[k])
    BY <1>1, <1>2 DEF CausesOK, CauseOK, IsTheoryCause
  <1> HIDE DEF k
  <1>4. Because(core, i, Range(Lemmas[k]) \ {p})
    BY <1>2, <1>3 DEF ByLemma
  <1>5. Lemmas[k] \in Seq(Lit)
    BY <1>3, SolverAssumption
  <1>6. q \in Range(Lemmas[k]) \ {p} /\ q \in Lit
    BY <1>5, RangeFacts DEF k
  <1> QED BY <1>2, <1>4, <1>6, BecausePositions

-----------------------------------------------------------------------------
\* The levels that begin below the n-th place.
LEMMA LevelAtLeast ==
    ASSUME IInv, NEW n \in 1..Len(core.trail), NEW k \in Nat, k <= DecisionLevel(core),
           \A l \in 1..DecisionLevel(core) : n <= core.trail_lim[l] => k < l
    PROVE  k <= LevelAt(n)
  <1> DEFINE D == DecisionLevel(core)
             S == {l \in 1..D : core.trail_lim[l] < n}
  <1>1. core \in Core /\ D \in Nat /\ Len(core.trail) \in Nat
    BY IInvFacts
  <1>2. DOMAIN core.trail_lim = 1..D /\ \A l \in 1..D : core.trail_lim[l] \in Nat
    BY <1>1, CoreFields DEF DecisionLevel
  <1>3. LevelAt(n) = Cardinality(S)
    BY <1>2 DEF LevelAt
  <1>4. 1..k \subseteq S
    <2>1. ASSUME NEW l \in 1..k PROVE l \in 1..D /\ core.trail_lim[l] < n
      <3>1. l \in 1..D /\ ~(k < l)
        BY <1>1
      <3>2. ~(n <= core.trail_lim[l]) /\ core.trail_lim[l] \in Nat /\ n \in Nat
        BY <1>1, <1>2, <3>1
      <3> QED BY <3>1, <3>2
    <2> QED BY <2>1
  <1>5. IsFiniteSet(S)
    <2>1. IsFiniteSet(1..D) /\ S \subseteq 1..D
      BY <1>1, FS_Interval, 1 \in Int
    <2> QED BY <2>1, FS_Subset
  <1> HIDE DEF S
  <1>6. IsFiniteSet(1..k) /\ Cardinality(1..k) = k
    <2>1. IsFiniteSet(1..k) /\ Cardinality(1..k) = IF 1 > k THEN 0 ELSE k - 1 + 1
      BY FS_Interval, 1 \in Int
    <2> QED BY <2>1
  <1>7. Cardinality(1..k) <= Cardinality(S)
    BY <1>4, <1>5, FS_Subset
  <1> QED BY <1>3, <1>6, <1>7

LEMMA TheoryInSyncNow == IInv => TheoryInSync
  <1> SUFFICES ASSUME IInv, Running, pc # "solve_", ~InConflict
               PROVE  /\ Told = {p \in core.assigns : HasTheory(p)}
                      /\ \A r \in Range(core.told) :
                           LevelOf(core, r.lit) <= r.at /\ r.at <= LevelAt(Position(r.lit))
    BY DEF TheoryInSync
  <1>1. /\ core \in Core /\ Good(core, Lemmas) /\ TrailOK(core) /\ ToldOK(core)
        /\ SearchOK(core, pc, in_simplify, confl) /\ DecisionLevel(core) \in Nat
    BY IInvFacts DEF Good
  <1>2. Covered(core, Len(core.trail))
    <2>1. ~Repeated(core, pc, in_simplify, confl)
      BY DEF Repeated, InConflict, CRef_Undef
    <2> QED BY <1>1, <2>1 DEF SearchOK, Running
  <1>3. Told = Held(core)
    BY DEF Told, Held
  <1>4. ASSUME NEW i \in 1..Len(core.told) PROVE HeldAt(core, core.told[i])
    <2>1. core.told[i].lit # 0
      BY <1>1, HeldFacts, LitFacts
    <2> QED BY <1>1, <2>1 DEF ToldOK, ToldBut
  <1>5. ASSUME NEW p \in Held(core) PROVE p \in core.assigns /\ HasTheory(p)
    <2>1. PICK i \in 1..Len(core.told) : core.told[i].lit = p
      BY <1>1, HeldFacts
    <2> QED BY <1>4, <2>1 DEF HeldAt
  <1>6. ASSUME NEW p \in core.assigns, HasTheory(p) PROVE p \in Held(core)
    <2>1. PICK i \in 1..Len(core.trail) : core.trail[i] = p
      BY <1>1, AssignedFacts
    <2> QED BY <1>2, <1>6, <2>1 DEF Covered
  <1>7. ASSUME NEW r \in Range(core.told)
        PROVE  LevelOf(core, r.lit) <= r.at /\ r.at <= LevelAt(Position(r.lit))
    <2>1. PICK i \in 1..Len(core.told) : core.told[i] = r
      <3>1. core.told \in Seq(ToldEntry)
        BY <1>1, CoreFields
      <3> QED BY <3>1, RangeFacts
    <2>2. HeldAt(core, r) /\ r.at \in Nat
      BY <1>1, <1>4, <2>1, HeldFacts
    <2>3. PICK n \in 1..Len(core.trail) : core.trail[n] = r.lit
      BY <1>1, <2>2, AssignedFacts DEF HeldAt
    <2>4. Position(r.lit) = n
      BY <2>3, PositionIs
    <2>5. r.at <= DecisionLevel(core)
      <3>1. core.theory_level \in Nat /\ core.theory_level <= DecisionLevel(core) /\ r.at <= core.theory_level
        BY <1>1, <2>2, CoreFields DEF ToldOK, ToldBut, HeldAt
      <3> QED BY <1>1, <2>2, <3>1
    <2>6. \A l \in 1..DecisionLevel(core) : n <= core.trail_lim[l] => r.at < l
      BY <2>2, <2>3 DEF HeldAt
    <2>7. r.at <= LevelAt(n)
      BY <2>2, <2>5, <2>6, LevelAtLeast
    <2> QED BY <2>2, <2>4, <2>7 DEF HeldAt
  <1>8. Told = {p \in core.assigns : HasTheory(p)}
    BY <1>3, <1>5, <1>6
  <1> QED BY <1>7, <1>8

LEMMA LearntAssertsNow == IInv => LearntAsserts
  <1> SUFFICES ASSUME IInv, InConflict, DecisionLevel(core) > 0, ConflictLevel(core, confl) > 0,
                      ~Analyzed.missed
               PROVE  LET learnt == LearntClause(Analyzed)
                          c == CancelUntil(Analyzed.c, BacktrackLevel(Analyzed.c, learnt))
                      IN /\ Analyzed.done
                         /\ IsUndef(c, learnt[1])
                         /\ \A i \in 2..Len(learnt) : IsFalse(c, learnt[i])
    BY DEF LearntAsserts
  <1> DEFINE d == CancelUntil(core, ConflictLevel(core, confl))
  <1>1. Honest(Lemmas, {})
    BY HonestNothing
  <1>2. CanWalk(d, confl, Lemmas, {}) /\ WalkedTo(d, confl, Lemmas, {}, Analyzed)
    BY <1>1, AnalyzedGood
  <1> HIDE DEF d
  <1>3. AtWalk(d, confl, Lemmas, {}) /\ Analyzed.done
    BY <1>2 DEF CanWalk, WalkedTo
  <1>4. CanLearn(Analyzed.c, LearntClause(Analyzed), Lemmas)
    BY <1>2, <1>3, LearntClauseGood
  <1> QED BY <1>3, <1>4, LearntAsserting
-----------------------------------------------------------------------------
\* What analyze walks along: the reason of a literal (reason(v), set by
\* uncheckedEnqueue) is a clause that is there, with the literal first, and its
\* other literals false earlier on the trail and at no higher level.
THEOREM ReasonsValidAlways == Spec => []ReasonsValid
  <1> QED BY IInvAlways, ReasonsValidNow, PTL

\* A literal that the theory gave (a marker for its reason) has the rest of its
\* lemma false in front of it, so that buildReason can give it as a clause.
THEOREM TheoryReasonsValidAlways == Spec => []TheoryReasonsValid
  <1> QED BY IInvAlways, TheoryReasonsValidNow, PTL

\* Whenever the theory is asked it was told of the solver's assignment
\* (enqueueTheory, cancelUntil, the lazy literals that are queued again), each
\* literal at a level between its own and the one it stands at.
THEOREM TheoryInSyncAlways == Spec => []TheoryInSync
  <1> QED BY IInvAlways, TheoryInSyncNow, PTL

\* analyze ends at a clause that asserts: after cancelUntil its first literal is
\* unassigned and all others are false, also when reasons turn up late and
\* literals move to lower levels during the analysis.
THEOREM LearntAssertsAlways == Spec => []LearntAsserts
  <1> QED BY IInvAlways, LearntAssertsNow, PTL

-----------------------------------------------------------------------------
(***************************************************************************)
(* What the learnt clause follows from.                                    *)
(***************************************************************************)
\* What an assignment makes true against the trail is not of level 0.
LEMMA AboveRoot ==
    ASSUME NEW c \in Core, NEW m \in Total, Agrees(m, c), NEW x \in Lit, x \in m, -x \in c.assigns
    PROVE  LevelOf(c, x) \in Nat /\ LevelOf(c, x) > 0
  <1>1. LevelOf(c, x) \in Nat /\ LevelOf(c, -x) = LevelOf(c, x)
    BY CoreFields
  <1>2. LevelOf(c, x) # 0
    <2> SUFFICES ASSUME LevelOf(c, x) = 0 PROVE FALSE
      OBVIOUS
    <2>1. -x \in m
      BY <1>1 DEF Agrees
    <2> QED BY <2>1 DEF Total
  <1> QED BY <1>1, <1>2

\* The clause derived so far is one that m satisfies.
Derives(a, m) ==
    ~a.missed =>
      \/ \E x \in FalseLits(a.c, a.seen) : x \in m
      \/ a.done /\ a.asserting \in m

LEMMA MetDerives ==
    ASSUME NEW a, NEW C, NEW b, MetTo(a, C, b), a.c \in Core, NEW m \in Total, Agrees(m, a.c),
           NEW x \in C, x \in m, x \in Lit, -x \in a.c.assigns
    PROVE  Derives(b, m)
  <1>1. LevelOf(a.c, x) > 0
    BY AboveRoot
  <1>2. b.c = a.c /\ VarOf(x) \in b.seen
    BY <1>1 DEF MetTo
  <1>3. x \in FalseLits(b.c, b.seen)
    BY <1>2 DEF FalseLits
  <1> QED BY <1>3 DEF Derives

\* p, the k-th literal, taken from those still to be visited.
LEMMA TakenDerives ==
    ASSUME NEW a, NEW k, NEW e, NEW s, NEW m, Derives(a, m), ~a.missed, ~a.done,
           Taken(a, e, a.c.trail[k], s), e.assigns = a.c.assigns, a.c \in Core, TrailOK(a.c),
           k \in 1..Len(a.c.trail)
    PROVE  -a.c.trail[k] \in m \/ \E x \in FalseLits(e, s.seen) : x \in m
  <1> DEFINE p == a.c.trail[k]
  <1>1. PICK x \in FalseLits(a.c, a.seen) : x \in m
    BY DEF Derives
  <1>2. x \in Lit /\ -x \in a.c.assigns /\ VarOf(x) \in a.seen
    BY <1>1 DEF FalseLits
  <1>3. s.seen = a.seen \ {VarOf(p)}
    BY DEF Taken
  <1>4. p \in Lit /\ p \in a.c.assigns /\ -p \notin a.c.assigns
    BY AssignedFacts
  <1>5. CASE VarOf(x) = VarOf(p)
    <2>1. x = p \/ x = -p
      BY <1>2, <1>4, <1>5, LitFacts
    <2>2. x # p
      BY <1>2, <1>4
    <2> QED BY <1>1, <2>1, <2>2
  <1>6. CASE VarOf(x) # VarOf(p)
    <2>1. VarOf(x) \in s.seen
      BY <1>2, <1>3, <1>6
    <2>2. x \in FalseLits(e, s.seen)
      BY <1>2, <2>1 DEF FalseLits
    <2> QED BY <1>1, <2>2
  <1> QED BY <1>5, <1>6

LEMMA ResolveMet ==
    ASSUME NEW c, NEW cr, NEW lemmas, NEW M, NEW a, NEW k, Before(c, cr, lemmas, M, a, k),
           NEW e, NEW s, After(c, cr, lemmas, M, a, k, e, s),
           ~(LevelOf(e, a.c.trail[k]) < DecisionLevel(e)), ~s.done
    PROVE  LET C == Lits(e, ReasonOf(e, a.c.trail[k])) \ {a.c.trail[k]}
           IN /\ ReasonOf(e, a.c.trail[k]) \in Live(e)
              /\ MetTo(s, C, Resolve(s, a.c.trail[k]))
              /\ \A q \in C : q \in Lit /\ -q \in e.assigns
  <1> DEFINE p == a.c.trail[k]
             r == ReasonOf(e, p)
             T == Tail(e.ca[r].lits)
             t == Resolve(s, p)
  <1>1. /\ r > 0 /\ r \in Live(e)
        /\ T \in Seq(Lit) /\ Range(T) = Lits(e, r) \ {p} /\ p \in Lits(e, r)
        /\ \A q \in Lits(e, r) \ {p} : q \in Lit /\ -q \in e.assigns
    BY ONLY Before(c, cr, lemmas, M, a, k), After(c, cr, lemmas, M, a, k, e, s),
       ~(LevelOf(e, a.c.trail[k]) < DecisionLevel(e)), ~s.done, ReasonThere
  <1>2. t = MeetAll(s, T)
    BY <1>1 DEF Resolve, MeetAll, CRef_Undef, After
  <1> HIDE DEF T, r
  <1>3. MetTo(s, Range(T), t)
    <2>1. Analysing(s) /\ s.c = e
      BY DEF After
    <2> HIDE DEF t
    <2> QED BY <1>1, <1>2, <2>1, MeetAllGood
  <1> QED BY <1>1, <1>3 DEF r

LEMMA ResolveDerives ==
    ASSUME NEW c, NEW cr, NEW lemmas, NEW M, NEW a, NEW k, Before(c, cr, lemmas, M, a, k),
           NEW e, NEW s, Taken(a, e, a.c.trail[k], s),
           After(c, cr, lemmas, M, a, k, e, s), ~(LevelOf(e, a.c.trail[k]) < DecisionLevel(e)),
           ~s.done, ~a.missed, ~a.done,
           NEW m \in Total, Agrees(m, e), Derives(a, m)
    PROVE  Derives(Resolve(s, a.c.trail[k]), m)
  <1> DEFINE p == a.c.trail[k]
             r == ReasonOf(e, p)
             C == Lits(e, r) \ {p}
             t == Resolve(s, p)
  <1>1. r \in Live(e) /\ MetTo(s, C, t) /\ \A q \in C : q \in Lit /\ -q \in e.assigns
    BY ONLY Before(c, cr, lemmas, M, a, k), After(c, cr, lemmas, M, a, k, e, s),
       ~(LevelOf(e, a.c.trail[k]) < DecisionLevel(e)), ~s.done, ResolveMet
  <1> HIDE DEF r
  <1>4. t.c = e /\ s.c = e /\ s.seen \subseteq t.seen /\ e \in Core
    BY <1>1 DEF MetTo, After
  <1>5. e.assigns = a.c.assigns /\ a.c \in Core /\ TrailOK(a.c) /\ k \in 1..Len(a.c.trail) /\ p \in Lit
    BY BeforeFacts DEF After, Keeps, Good
  <1>6. -p \in m \/ \E x \in FalseLits(e, s.seen) : x \in m
    BY <1>5, TakenDerives
  <1> HIDE DEF t
  <1>7. CASE \E x \in FalseLits(e, s.seen) : x \in m
    <2>1. FalseLits(e, s.seen) \subseteq FalseLits(t.c, t.seen)
      BY <1>4 DEF FalseLits
    <2> QED BY <1>7, <2>1 DEF Derives, t
  <1>8. CASE -p \in m
    <2>1. p \notin m
      BY <1>5, <1>8 DEF Total
    <2>2. PICK x \in Lits(e, r) : x \in m
      BY <1>1 DEF Agrees
    <2>3. x \in C /\ x \in Lit /\ -x \in s.c.assigns
      BY <1>1, <1>4, <2>1, <2>2
    <2>4. Derives(t, m)
      BY <1>1, <1>4, <2>2, <2>3, MetDerives
    <2> QED BY <2>4 DEF t
  <1> QED BY <1>6, <1>7, <1>8

LEMMA VisitDerives ==
    ASSUME NEW c, NEW cr, NEW lemmas, NEW M, NEW a, NEW k, AtWalk(c, cr, lemmas, M),
           WalkInv(c, cr, lemmas, M, a, k), k \in 1..Len(c.trail),
           NEW m \in M, Agrees(m, c), Derives(a, m)
    PROVE  Derives(Visit(lemmas, a, c.trail[k]), m)
  <1> DEFINE p == a.c.trail[k]
             e == Explained(a.c, p, lemmas)
  <1>1. a.c \in Core /\ a.c.trail = c.trail /\ a \in WalkState
    BY DEF WalkInv, Steps, Keeps, Analysing
  <1>2. CASE ~Met(a, k)
    <2>1. Visit(lemmas, a, p) = a
      BY <1>2 DEF Visit, Met
    <2> QED BY <1>1, <2>1
  <1>3. CASE Met(a, k)
    <2>1. Before(c, cr, lemmas, M, a, k)
      BY <1>1, <1>3 DEF Before
    <2>2. ReasonOf(a.c, p) >= 0 \/ p \in Held(a.c)
      BY <2>1, Explainable
    <2>3. Good(a.c, lemmas) /\ p \in Lit /\ k \in 1..Len(a.c.trail) /\ Honest(lemmas, M)
          /\ LevelOf(a.c, p) >= DecisionLevel(a.c)
      BY <1>1, <2>1, BeforeFacts DEF AtWalk
    <2>4. ExplainedTo(a.c, k, lemmas, M, e)
      BY <1>1, <2>2, <2>3, ExplainedGood
    <2>5. e \in Core /\ DecisionLevel(e) = DecisionLevel(a.c)
      BY <1>1, <2>3, <2>4, ExplainedLevels
    <2>6. LevelOf(e, p) < DecisionLevel(e) => LevelOf(e, p) = 0
      <3>1. LevelOf(e, p) = LevelOf(a.c, p) \/ LevelOf(e, p) = 0
        BY <2>4 DEF ExplainedTo
      <3>2. LevelOf(a.c, p) \in Nat /\ DecisionLevel(a.c) \in Nat
        BY <1>1, <2>3, CoreFields
      <3> QED BY <2>3, <2>5, <3>1, <3>2
    <2> HIDE DEF e
    <2>7. PICK s : /\ Taken(a, e, p, s)
                   /\ \/ LevelOf(e, p) < DecisionLevel(e) /\ s.missed /\ Visit(lemmas, a, p) = s
                      \/ /\ ~(LevelOf(e, p) < DecisionLevel(e)) /\ s.missed = a.missed
                         /\ Visit(lemmas, a, p) = IF s.done THEN s ELSE Resolve(s, p)
      <3>1. ~(a.done \/ VarOf(p) \notin a.seen \/ LevelOf(a.c, p) < DecisionLevel(a.c))
        BY <1>3 DEF Met
      <3>2. e = Explained(a.c, p, lemmas)
        BY DEF e
      <3>3. p \in Lit
        BY <2>3
      <3> HIDE DEF p
      <3> QED BY ONLY <1>1, <3>1, <3>2, <3>3, <2>5, <2>6, VisitCases
    <2>8. After(c, cr, lemmas, M, a, k, e, s)
      BY <2>1, <2>4, <2>7, AfterFacts
    <2>9. CASE LevelOf(e, p) < DecisionLevel(e) /\ s.missed /\ Visit(lemmas, a, p) = s
      BY <1>1, <2>9 DEF Derives
    <2>10. CASE /\ ~(LevelOf(e, p) < DecisionLevel(e)) /\ s.missed = a.missed
                /\ Visit(lemmas, a, p) = IF s.done THEN s ELSE Resolve(s, p)
      <3>1. m \in Total /\ Agrees(m, e) /\ e.assigns = a.c.assigns /\ s.c = e /\ s.asserting = -p
            /\ TrailOK(a.c)
        <4>1. Steps(c, e, lemmas, M)
          BY <2>8 DEF After
        <4> QED BY <2>3, <2>8, <4>1, Zenon DEF After, Steps, Follows, Honest, Keeps, Good
      <3>2. ~a.done
        BY <1>3 DEF Met
      <3>3. CASE a.missed
        <4>1. s.missed
          BY <2>10, <3>3
        <4>2. CASE s.done
          BY <1>1, <2>10, <4>1, <4>2 DEF Derives
        <4>3. CASE ~s.done
          <5>1. WalkInv(c, cr, lemmas, M, Resolve(s, p), k - 1) /\ Resolve(s, p).missed = s.missed
            <6>1. WalkInv(c, cr, lemmas, M, Resolve(s, p), k - 1)
              BY <2>1, <2>4, <2>7, <2>8, <2>10, <4>3, ResolvedGood
            <6>2. s \in WalkState
              BY <2>8 DEF After
            <6>3. Resolve(s, p).missed = s.missed
              BY ONLY <2>1, <2>8, <2>10, <4>3, ResolveMet DEF MetTo
            <6> QED BY <6>1, <6>3
          <5> QED BY <1>1, <2>10, <4>1, <4>3, <5>1 DEF Derives
        <4> QED BY <4>2, <4>3
      <3>4. CASE ~a.missed /\ s.done
        <4>1. -p \in m \/ \E x \in FalseLits(e, s.seen) : x \in m
          BY <1>1, <2>3, <2>7, <3>1, <3>2, <3>4, TakenDerives
        <4>2. Derives(s, m)
          BY <3>1, <3>4, <4>1 DEF Derives
        <4> QED BY <1>1, <2>10, <3>4, <4>2
      <3>5. CASE ~a.missed /\ ~s.done
        <4>1. Derives(Resolve(s, p), m)
          BY <2>1, <2>7, <2>8, <2>10, <3>1, <3>2, <3>5, ResolveDerives
        <4> QED BY <1>1, <2>10, <3>5, <4>1
      <3> QED BY <3>3, <3>4, <3>5
    <2> QED BY <2>7, <2>9, <2>10
  <1> QED BY <1>2, <1>3

-----------------------------------------------------------------------------
\* The conflict holds in m.
LEMMA StartDerives ==
    ASSUME NEW c, NEW cr, NEW lemmas, NEW M, CanWalk(c, cr, lemmas, M),
           NEW m \in M, Agrees(m, c)
    PROVE  Derives(MeetAll(WalkStart(c), c.ca[cr].lits), m)
  <1> DEFINE a == WalkStart(c)
             s == c.ca[cr].lits
  <1>1. /\ c \in Core /\ TrailOK(c) /\ cr \in Live(c) /\ Range(s) = Lits(c, cr)
        /\ s \in Seq(Lit) /\ \A q \in Range(s) : q \in Lit /\ -q \in c.assigns
        /\ m \in Total
    <2>1. /\ c \in Core /\ cr \in Live(c) /\ Good(c, lemmas) /\ \A q \in Lits(c, cr) : -q \in c.assigns
          /\ m \in Total
      BY DEF CanWalk, AtWalk, AllFalse, IsFalse, Honest
    <2>2. TrailOK(c) /\ DbOK(c)
      BY <2>1 DEF Good
    <2>3. s \in Seq(Lit) /\ Lits(c, cr) \subseteq Lit
      BY <2>1, <2>2, ClauseFacts
    <2> QED BY <2>1, <2>2, <2>3, CoreFields DEF CanWalk, AtWalk, Lits
  <1>2. a.c = c /\ Analysing(a)
    BY WalkStartGood
  <1> HIDE DEF a, s
  <1>3. MetTo(a, Range(s), MeetAll(a, s))
    BY <1>1, <1>2, MeetAllGood
  <1>4. PICK x \in Range(s) : x \in m
    BY <1>1 DEF Agrees
  <1>5. Derives(MeetAll(a, s), m)
    BY <1>1, <1>2, <1>3, <1>4, MetDerives
  <1> QED BY <1>5 DEF a, s

\* At the end of the walk what was derived is the literal that asserts, and out.
LEMMA WalkDerives ==
    ASSUME NEW c, NEW cr, NEW lemmas, NEW M, CanWalk(c, cr, lemmas, M),
           NEW m \in M, Agrees(m, c), ~Walk(c, cr, lemmas).missed
    PROVE  LET a == Walk(c, cr, lemmas)
           IN a.asserting \in m \/ \E x \in Range(a.out) : x \in m
  <1> DEFINE start == MeetAll(WalkStart(c), c.ca[cr].lits)
             N == Len(c.trail)
             L == LastSize(c)
             n == N - L
  <1>1. /\ N \in Nat /\ L \in Nat /\ L <= N /\ AtWalk(c, cr, lemmas, M) /\ c \in Core
        /\ TrailOK(c) /\ m \in Total
    BY WalkTurns DEF CanWalk, AtWalk, Good, Honest
  <1>2. PICK f : /\ f[0] = start /\ Walk(c, cr, lemmas) = f[n]
                 /\ \A i \in 1..n : f[i] = Visit(lemmas, f[i - 1], c.trail[(N - i) + 1])
    BY WalkTurns
  <1> DEFINE T == {i \in 0..n : WalkInv(c, cr, lemmas, M, f[i], N - i) /\ Derives(f[i], m)}
  <1>6. n \in Nat
    BY <1>1
  <1>7. 0 \in T
    <2>1. WalkInv(c, cr, lemmas, M, start, N)
      BY WalkStarts
    <2>2. N - 0 = N /\ 0 \in 0..n
      BY <1>1
    <2>3. Derives(start, m)
      BY StartDerives
    <2> HIDE DEF start, N, n
    <2> QED BY <1>2, <2>1, <2>2, <2>3
  <1> HIDE DEF start, L
  <1>8. ASSUME NEW i \in 1..n, i - 1 \in T PROVE i \in T
    <2> DEFINE k == N - (i - 1)
    <2>1. WalkInv(c, cr, lemmas, M, f[i - 1], k) /\ Derives(f[i - 1], m)
      BY <1>8
    <2>2. k \in 1..N /\ k = (N - i) + 1 /\ k - 1 = N - i /\ i \in 0..n
      BY <1>1
    <2>3. f[i] = Visit(lemmas, f[i - 1], c.trail[k])
      BY <1>2, <2>2
    <2> HIDE DEF k
    <2>4. WalkInv(c, cr, lemmas, M, f[i], k - 1)
      BY <1>1, <2>1, <2>2, <2>3, VisitGood
    <2>5. Derives(f[i], m)
      BY <1>1, <2>1, <2>2, <2>3, VisitDerives
    <2> QED BY <2>2, <2>4, <2>5
  <1> HIDE DEF T
  <1>9. \A i \in 0..n : i \in T
    <2> HIDE DEF n
    <2> QED BY ONLY <1>6, <1>7, <1>8, UpTo
  <1> DEFINE a == Walk(c, cr, lemmas)
  <1>10. Derives(a, m) /\ WalkInv(c, cr, lemmas, M, a, L)
    <2>1. n \in T
      BY <1>6, <1>9
    <2>2. N - n = L
      BY <1>1
    <2> QED BY <1>2, <2>1, <2>2 DEF T
  <1>11. WalkedTo(c, cr, lemmas, M, a)
    BY <1>10, WalkEnds DEF L
  <1> HIDE DEF a
  <1>12. TopVars(a.c, a.seen) = {} /\ Analysing(a)
    BY <1>11 DEF WalkedTo
  <1>13. ~a.missed
    BY DEF a
  <1>14. Range(a.out) = FalseLits(a.c, a.seen)
    <2>1. a.seen \ {} = a.seen
      OBVIOUS
    <2> QED BY <1>12, <1>13, <2>1 DEF Analysing
  <1> QED BY <1>10, <1>13, <1>14 DEF Derives, a

-----------------------------------------------------------------------------
(***************************************************************************)
(* What litRedundant drops follows from what it leaves.                    *)
(***************************************************************************)
\* All the variables that v rests on.
AllRests(c, seen, v) ==
    LET grow(V, i) == RestsOn(c, seen, V) IN Fold(grow, {v}, [i \in 1..NVars |-> i])

GrownBy(f, c, seen, v) ==
    /\ f[0] = {v} /\ AllRests(c, seen, v) = f[NVars]
    /\ \A i \in 1..NVars : f[i] = RestsOn(c, seen, f[i - 1])
LEMMA GrowTurns ==
    ASSUME NEW c, NEW seen, NEW v
    PROVE  \E f : GrownBy(f, c, seen, v)
  <1> DEFINE s == [i \in 1..NVars |-> i]
             B(f) == f = [i \in 0..Len(s) |-> IF i = 0 THEN {v} ELSE RestsOn(c, seen, f[i - 1])]
             k == CHOOSE f : B(f)
  <1>1. Len(s) = NVars /\ NVars \in Nat
    BY TrailAssumption
  <1>2. PICK f : Turns(f, "grow", <<c, seen>>, {v}, s, Len(s))
    BY <1>1, TurnsExist
  <1>3. B(f)
    <2>1. <<c, seen>>[1] = c /\ <<c, seen>>[2] = seen
      OBVIOUS
    <2> HIDE DEF s
    <2> QED BY <1>2, <2>1 DEF Turns, Turn
  <1>4. B(k)
    BY <1>3
  <1>5. AllRests(c, seen, v) = k[Len(s)]
    BY DEF AllRests, Fold
  <1> HIDE DEF k, s
  <1>6. k[0] = {v}
    BY <1>1, <1>4, 0 \in 0..NVars
  <1>7. ASSUME NEW i \in 1..NVars PROVE k[i] = RestsOn(c, seen, k[i - 1])
    BY <1>1, <1>4, i \in 0..NVars, i # 0
  <1> QED BY <1>1, <1>5, <1>6, <1>7 DEF GrownBy

RestsBy(c, seen, v, u) ==
    /\ IsClause(c.reason[v])
    /\ \E s \in Range(Tail(c.ca[c.reason[v]].lits)) :
         VarOf(s) \notin seen /\ LevelOf(c, s) > 0 /\ u = VarOf(s)
LEMMA RestsOnIs ==
    ASSUME NEW c, NEW seen, NEW V
    PROVE  \A u : u \in RestsOn(c, seen, V) <=> u \in V \/ \E v \in V : RestsBy(c, seen, v, u)
  BY DEF RestsOn, RestsBy

Assigned(c) == {VarOf(p) : p \in c.assigns}

\* What a reason rests on is assigned before.
LEMMA ReasonRests ==
    ASSUME NEW c \in Core, NEW lemmas, TrailOK(c), DbOK(c), CausesOK(c, lemmas),
           NEW i \in 1..Len(c.trail), IsClause(ReasonOf(c, c.trail[i]))
    PROVE  LET p == c.trail[i]
               r == ReasonOf(c, p)
           IN /\ r \in Live(c) /\ Lits(c, r) \subseteq Lit /\ p \in Lits(c, r)
              /\ Range(Tail(c.ca[r].lits)) = Lits(c, r) \ {p}
              /\ \A x \in Lits(c, r) \ {p} : -x \in c.assigns /\ \E j \in 1..(i - 1) : c.trail[j] = -x
  <1> DEFINE p == c.trail[i]
             r == ReasonOf(c, p)
             s == c.ca[r].lits
  <1>1. ByClause(c, i, r)
    BY DEF CausesOK, CauseOK, IsClause
  <1>2. r \in Live(c) /\ s[1] = p /\ Because(c, i, Lits(c, r) \ {p})
    BY <1>1 DEF ByClause
  <1>3. s \in Seq(Lit) /\ Len(s) >= 2 /\ Distinct(s) /\ Lits(c, r) \subseteq Lit
    BY <1>2, ClauseFacts
  <1>4. Lits(c, r) = Range(s)
    BY DEF Lits
  <1> HIDE DEF r, s
  <1>5. Range(Tail(s)) = Lits(c, r) \ {p} /\ p \in Lits(c, r)
    BY <1>2, <1>3, <1>4, TailFacts
  <1>6. ASSUME NEW x \in Lits(c, r) \ {p}
        PROVE  -x \in c.assigns /\ \E j \in 1..(i - 1) : c.trail[j] = -x
    <2>1. PICK j \in 1..(i - 1) : c.trail[j] = -x
      BY <1>2 DEF Because
    <2>2. j \in 1..Len(c.trail)
      BY CoreFields
    <2> QED BY <2>1, <2>2, AssignedFacts
  <1> QED BY <1>2, <1>3, <1>5, <1>6 DEF r, s

LEMMA RestsAssigned ==
    ASSUME NEW c \in Core, NEW lemmas, TrailOK(c), DbOK(c), CausesOK(c, lemmas), NEW seen,
           NEW V, V \subseteq Assigned(c)
    PROVE  RestsOn(c, seen, V) \subseteq Assigned(c)
  <1> SUFFICES ASSUME NEW v \in V, NEW u, RestsBy(c, seen, v, u) PROVE u \in Assigned(c)
    BY RestsOnIs
  <1>1. PICK p \in c.assigns : v = VarOf(p)
    BY DEF Assigned
  <1>2. PICK i \in 1..Len(c.trail) : c.trail[i] = p
    BY <1>1, AssignedFacts
  <1>3. ReasonOf(c, p) = c.reason[v] /\ IsClause(ReasonOf(c, p))
    BY <1>1 DEF RestsBy, ReasonOf
  <1>4. PICK s \in Range(Tail(c.ca[ReasonOf(c, p)].lits)) : u = VarOf(s)
    BY <1>3 DEF RestsBy
  <1>5. s \in Lit /\ -s \in c.assigns
    <2> DEFINE r == ReasonOf(c, c.trail[i])
    <2>1. /\ Lits(c, r) \subseteq Lit /\ Range(Tail(c.ca[r].lits)) = Lits(c, r) \ {p}
          /\ \A x \in Lits(c, r) \ {p} : -x \in c.assigns
      BY <1>2, <1>3, ReasonRests
    <2>2. s \in Range(Tail(c.ca[r].lits))
      BY <1>2, <1>4
    <2> QED BY <2>1, <2>2
  <1>6. VarOf(-s) = VarOf(s)
    BY <1>5, LitFacts
  <1> QED BY <1>4, <1>5, <1>6 DEF Assigned

\* NVars turns are enough: a set that still grows gets a variable each turn.
LEMMA RestsClosed ==
    ASSUME NEW c \in Core, NEW lemmas, TrailOK(c), DbOK(c), CausesOK(c, lemmas), NEW seen,
           NEW v \in Assigned(c)
    PROVE  LET V == AllRests(c, seen, v)
           IN v \in V /\ V \subseteq Assigned(c) /\ RestsOn(c, seen, V) \subseteq V
  <1>0. PICK f : GrownBy(f, c, seen, v)
    BY GrowTurns
  <1>1. /\ f[0] = {v} /\ AllRests(c, seen, v) = f[NVars]
        /\ \A i \in 1..NVars : f[i] = RestsOn(c, seen, f[i - 1])
    BY <1>0 DEF GrownBy
  <1> DEFINE Closed(W) == RestsOn(c, seen, W) \subseteq W
             T == {i \in 0..NVars : /\ v \in f[i] /\ f[i] \subseteq Assigned(c)
                                    /\ Closed(f[i]) \/ Cardinality(f[i]) > i}
  <1>2. NVars \in Nat /\ NVars > 0 /\ IsFiniteSet(Var) /\ Cardinality(Var) = NVars
    <2>1. NVars \in Nat /\ NVars > 0
      BY TrailAssumption
    <2>2. IsFiniteSet(1..NVars) /\ Cardinality(1..NVars) = NVars - 1 + 1
      BY <2>1, FS_Interval, 1 \in Int
    <2> QED BY <2>1, <2>2 DEF Var
  <1>3. Assigned(c) \subseteq Var
    BY AssignedFacts, LitFacts DEF Assigned
  <1>4. 0 \in T
    <2>1. Cardinality({v}) = 1
      BY FS_Singleton
    <2> QED BY <1>1, <1>2, <2>1
  <1>5. ASSUME NEW i \in 1..NVars, i - 1 \in T PROVE i \in T
    <2> DEFINE V == f[i - 1]
               W == f[i]
    <2>1. /\ v \in V /\ V \subseteq Assigned(c)
          /\ Closed(V) \/ Cardinality(V) > i - 1
      BY <1>5
    <2>2. W = RestsOn(c, seen, V) /\ i \in 0..NVars
      BY <1>1, <1>2
    <2> HIDE DEF V, W
    <2>3. V \subseteq W /\ W \subseteq Assigned(c)
      BY <2>1, <2>2, RestsOnIs, RestsAssigned
    <2>4. CASE Closed(V)
      <3>1. W = V
        BY <2>2, <2>3, <2>4
      <3>2. i \in T
        BY <2>1, <2>2, <2>3, <2>4, <3>1 DEF W
      <3> QED BY <3>2
    <2>5. CASE ~Closed(V)
      <3>1. W # V
        BY <2>2, <2>5
      <3>2. IsFiniteSet(W)
        BY <1>2, <1>3, <2>3, FS_Subset
      <3>3. Cardinality(V) < Cardinality(W) /\ Cardinality(V) \in Nat /\ Cardinality(W) \in Nat
        <4>1. IsFiniteSet(V) /\ Cardinality(V) <= Cardinality(W)
              /\ (Cardinality(V) = Cardinality(W) => V = W)
          BY <2>3, <3>2, FS_Subset
        <4>2. Cardinality(V) \in Nat /\ Cardinality(W) \in Nat
          BY <3>2, <4>1, FS_CardinalityType
        <4> QED BY <3>1, <4>1, <4>2
      <3>4. Cardinality(V) > i - 1
        BY <2>1, <2>5
      <3>5. Cardinality(W) > i
        BY <3>3, <3>4
      <3> QED BY <2>1, <2>2, <2>3, <3>5 DEF W
    <2> QED BY <2>4, <2>5
  <1> HIDE DEF T
  <1>6. \A i \in 0..NVars : i \in T
    BY <1>2, <1>4, <1>5, UpTo
  <1> DEFINE V == f[NVars]
  <1>7. /\ v \in V /\ V \subseteq Assigned(c)
        /\ Closed(V) \/ Cardinality(V) > NVars
    <2>1. NVars \in T
      BY <1>2, <1>6
    <2> QED BY <2>1 DEF T
  <1>8. Cardinality(V) <= NVars /\ Cardinality(V) \in Nat
    <2> HIDE DEF V
    <2>1. V \subseteq Var
      BY <1>3, <1>7
    <2>2. IsFiniteSet(V) /\ Cardinality(V) <= NVars
      BY <1>2, <2>1, FS_Subset
    <2> QED BY <2>2, FS_CardinalityType
  <1>9. Closed(V)
    BY <1>2, <1>7, <1>8
  <1> QED BY <1>1, <1>7, <1>9

-----------------------------------------------------------------------------
Redundant(c, q, seen, levels) ==
    /\ VarOf(q) \in AllRests(c, seen, VarOf(q))
    /\ AllRests(c, seen, VarOf(q)) \subseteq Assigned(c)
    /\ RestsOn(c, seen, AllRests(c, seen, VarOf(q))) \subseteq AllRests(c, seen, VarOf(q))
    /\ \A v \in AllRests(c, seen, VarOf(q)) : IsClause(c.reason[v])

LEMMA RedundantFacts ==
    ASSUME NEW c \in Core, NEW lemmas, TrailOK(c), DbOK(c), CausesOK(c, lemmas), NEW seen, NEW levels,
           NEW q \in Lit, -q \in c.assigns, LitRedundant(c, q, seen, levels)
    PROVE  Redundant(c, q, seen, levels)
  <1> DEFINE V == AllRests(c, seen, VarOf(q))
  <1>1. VarOf(q) \in Assigned(c)
    <2>1. VarOf(-q) = VarOf(q)
      BY LitFacts
    <2> QED BY <2>1 DEF Assigned
  <1>2. VarOf(q) \in V /\ V \subseteq Assigned(c) /\ RestsOn(c, seen, V) \subseteq V
    BY <1>1, RestsClosed
  <1>3. \A v \in V : IsClause(c.reason[v])
    BY DEF LitRedundant, AllRests
  <1> QED BY <1>2, <1>3 DEF Redundant

\* A redundant literal that m makes true, or one it rests on, is not without
\* another such one before it.
Lost(a, m, i) ==
    LET levels == {LevelOf(a.c, x) : x \in Range(a.out)}
    IN /\ a.c.trail[i] \notin m
       /\ \E q \in Range(a.out) : /\ Redundant(a.c, q, a.seen, levels)
                                  /\ VarOf(a.c.trail[i]) \in AllRests(a.c, a.seen, VarOf(q))

LEMMA LostBefore ==
    ASSUME NEW a, NEW lemmas, a.c \in Core, Good(a.c, lemmas), NEW m \in Total, Agrees(m, a.c),
           a.out \in Seq(Lit), Range(a.out) = FalseLits(a.c, a.seen),
           \A q \in Range(a.out) : q \in m =>
             Redundant(a.c, q, a.seen, {LevelOf(a.c, x) : x \in Range(a.out)}),
           NEW i \in 1..Len(a.c.trail), Lost(a, m, i)
    PROVE  \E j \in 1..(i - 1) : Lost(a, m, j)
  <1> DEFINE c == a.c
             p == c.trail[i]
             r == ReasonOf(c, p)
             levels == {LevelOf(c, x) : x \in Range(a.out)}
  <1>1. PICK q \in Range(a.out) : Redundant(c, q, a.seen, levels) /\ VarOf(p) \in AllRests(c, a.seen, VarOf(q))
    BY DEF Lost
  <1> DEFINE V == AllRests(c, a.seen, VarOf(q))
  <1>2. TrailOK(c) /\ DbOK(c) /\ CausesOK(c, lemmas) /\ p \in Lit /\ p \notin m
    BY AssignedFacts DEF Good, Lost
  <1>3. IsClause(r)
    BY <1>1 DEF Redundant, ReasonOf
  <1> HIDE DEF levels
  <1>4. /\ r \in Live(c) /\ Lits(c, r) \subseteq Lit
        /\ Range(Tail(c.ca[r].lits)) = Lits(c, r) \ {p}
        /\ \A x \in Lits(c, r) \ {p} : -x \in c.assigns /\ \E j \in 1..(i - 1) : c.trail[j] = -x
    BY <1>2, <1>3, ReasonRests
  <1>5. PICK x \in Lits(c, r) : x \in m
    BY <1>4 DEF Agrees
  <1>6. x \in Lits(c, r) \ {p} /\ x \in Lit
    BY <1>2, <1>4, <1>5
  <1>7. PICK j \in 1..(i - 1) : c.trail[j] = -x
    BY <1>4, <1>6
  <1>8. -x \notin m /\ VarOf(-x) = VarOf(x) /\ -x \in c.assigns
    BY <1>4, <1>5, <1>6, LitFacts DEF Total
  <1>9. LevelOf(c, x) > 0
    BY <1>5, <1>6, <1>8, AboveRoot
  <1>10. CASE VarOf(x) \in a.seen
    <2>1. x \in Range(a.out)
      BY <1>6, <1>8, <1>10 DEF FalseLits
    <2>2. Redundant(c, x, a.seen, levels)
      BY <1>5, <2>1 DEF levels
    <2>3. VarOf(c.trail[j]) \in AllRests(c, a.seen, VarOf(x))
      BY <1>7, <1>8, <2>2 DEF Redundant
    <2>4. Lost(a, m, j)
      BY <1>7, <1>8, <2>1, <2>2, <2>3 DEF Lost, levels
    <2> QED BY <2>4
  <1>11. CASE VarOf(x) \notin a.seen
    <2>1. RestsBy(c, a.seen, VarOf(p), VarOf(x))
      <3>1. x \in Range(Tail(c.ca[c.reason[VarOf(p)]].lits)) /\ IsClause(c.reason[VarOf(p)])
        BY <1>3, <1>4, <1>6 DEF ReasonOf
      <3> QED BY <1>9, <1>11, <3>1 DEF RestsBy
    <2>2. VarOf(x) \in V
      <3>1. VarOf(x) \in RestsOn(c, a.seen, V)
        BY <1>1, <2>1, RestsOnIs
      <3> QED BY <1>1, <3>1 DEF Redundant
    <2>3. VarOf(c.trail[j]) \in V
      BY <1>7, <1>8, <2>2
    <2>4. Lost(a, m, j)
      BY <1>1, <1>7, <1>8, <2>3 DEF Lost, levels
    <2> QED BY <2>4
  <1> QED BY <1>10, <1>11

LEMMA NothingLost ==
    ASSUME NEW a, NEW lemmas, a.c \in Core, Good(a.c, lemmas), NEW m \in Total, Agrees(m, a.c),
           a.out \in Seq(Lit), Range(a.out) = FalseLits(a.c, a.seen),
           \A q \in Range(a.out) : q \in m =>
             Redundant(a.c, q, a.seen, {LevelOf(a.c, x) : x \in Range(a.out)})
    PROVE  \A i \in 1..Len(a.c.trail) : ~Lost(a, m, i)
  <1> DEFINE T == {i \in 1..Len(a.c.trail) : Lost(a, m, i)}
  <1> SUFFICES ASSUME T # {} PROVE FALSE
    OBVIOUS
  <1>1. Len(a.c.trail) \in Nat /\ T \subseteq Nat
    BY CoreFields
  <1>2. PICK i \in T : \A j \in T : i <= j
    <2> HIDE DEF T
    <2> QED BY <1>1, Smallest
  <1>3. PICK j \in 1..(i - 1) : Lost(a, m, j)
    BY <1>2, LostBefore
  <1>4. j \in T /\ ~(i <= j)
    BY <1>1, <1>2, <1>3
  <1> QED BY <1>2, <1>4

\* The clause learnt is one that m satisfies, when the one derived is.
LEMMA MinimisedHolds ==
    ASSUME NEW a, NEW lemmas, a.c \in Core, Good(a.c, lemmas), NEW m \in Total, Agrees(m, a.c),
           a.out \in Seq(Lit), Range(a.out) = FalseLits(a.c, a.seen),
           NEW x \in Range(a.out), x \in m
    PROVE  \E y \in Range(Minimised(a)) : y \in m
  <1> DEFINE levels == {LevelOf(a.c, q) : q \in Range(a.out)}
             needed == {q \in Range(a.out) : ~LitRedundant(a.c, q, a.seen, levels)}
  <1> SUFFICES ASSUME \A y \in Range(Minimised(a)) : y \notin m PROVE FALSE
    OBVIOUS
  <1>1. Range(Minimised(a)) = Range(a.out) \cap needed
    <2>1. Minimised(a) = Keep(a.out, needed)
      BY DEF Minimised
    <2> HIDE DEF needed
    <2> QED BY <2>1, KeepFacts
  <1>2. TrailOK(a.c) /\ DbOK(a.c) /\ CausesOK(a.c, lemmas)
    BY DEF Good
  <1>3. \A q \in Range(a.out) : q \in Lit /\ -q \in a.c.assigns
    BY DEF FalseLits
  <1>4. ASSUME NEW q \in Range(a.out), q \in m PROVE Redundant(a.c, q, a.seen, levels)
    <2>1. LitRedundant(a.c, q, a.seen, levels)
      BY <1>1, <1>4
    <2> HIDE DEF levels
    <2> QED BY <1>2, <1>3, <2>1, RedundantFacts
  <1>5. -x \in a.c.assigns /\ -x \notin m /\ VarOf(-x) = VarOf(x)
    BY <1>3, LitFacts DEF Total
  <1>6. PICK i \in 1..Len(a.c.trail) : a.c.trail[i] = -x
    BY <1>2, <1>5, AssignedFacts
  <1>7. VarOf(x) \in AllRests(a.c, a.seen, VarOf(x))
    BY <1>4 DEF Redundant
  <1>8. Lost(a, m, i)
    BY <1>4, <1>5, <1>6, <1>7 DEF Lost
  <1> QED BY <1>4, <1>8, NothingLost

-----------------------------------------------------------------------------
(***************************************************************************)
(* What the user's clauses and the theory leave possible.                  *)
(***************************************************************************)
Satisfies(m) ==
    /\ \A ps \in given : m \cap Range(ps) # {}
    /\ \A k \in DOMAIN Lemmas : m \cap Range(Lemmas[k]) # {}
\* The solver excludes none of it.
EntailedInv == \A m \in Total : Satisfies(m) => Agrees(m, core)

LEMMA LearntHoldsNow ==
    ASSUME IInv, NEW M, Honest(Lemmas, M), Learn, \A m \in M : Agrees(m, core)
    PROVE  LearntHolds(M)
  <1> DEFINE d == CancelUntil(core, ConflictLevel(core, confl))
  <1>1. /\ InConflict /\ DecisionLevel(core) > 0 /\ ConflictLevel(core, confl) > 0 /\ ~Analyzed.missed
    BY DEF Learn
  <1>2. /\ CanWalk(d, confl, Lemmas, M) /\ WalkedTo(d, confl, Lemmas, M, Analyzed)
        /\ Steps(core, d, Lemmas, M)
    BY <1>1, AnalyzedGood
  <1>3. Analyzed = Walk(d, confl, Lemmas)
    BY DEF Analyzed
  <1> HIDE DEF d
  <1>4. SUFFICES ASSUME NEW m \in M, Agrees(m, Analyzed.c)
                 PROVE  m \cap Range(LearntClause(Analyzed)) # {}
    BY DEF LearntHolds
  <1>5. Agrees(m, d) /\ m \in Total
    BY <1>2, HonestTotal DEF Steps, Follows
  <1>6. Analyzed.asserting \in m \/ \E x \in Range(Analyzed.out) : x \in m
    BY <1>1, <1>2, <1>3, <1>5, WalkDerives
  <1>7. Range(LearntClause(Analyzed)) = {Analyzed.asserting} \cup Range(Minimised(Analyzed))
    <2>1. AtWalk(d, confl, Lemmas, M)
      BY <1>2 DEF CanWalk
    <2> QED BY <1>1, <1>2, <2>1, LearntClauseGood
  <1>8. CASE Analyzed.asserting \in m
    BY <1>7, <1>8
  <1>9. CASE \E x \in Range(Analyzed.out) : x \in m
    <2>1. Analysing(Analyzed) /\ TopVars(Analyzed.c, Analyzed.seen) = {}
      BY <1>2 DEF WalkedTo
    <2>2. Range(Analyzed.out) = FalseLits(Analyzed.c, Analyzed.seen)
      <3>1. Analyzed.seen \ {} = Analyzed.seen
        OBVIOUS
      <3> QED BY <1>1, <2>1, <3>1 DEF Analysing
    <2>3. Analyzed.c \in Core /\ Good(Analyzed.c, Lemmas) /\ Analyzed.out \in Seq(Lit)
      BY <1>2, <2>1 DEF WalkedTo, Steps, Analysing, WalkState
    <2>4. \E y \in Range(Minimised(Analyzed)) : y \in m
      BY <1>4, <1>5, <1>9, <2>2, <2>3, MinimisedHolds
    <2> QED BY <1>7, <2>4
  <1> QED BY <1>6, <1>8, <1>9

-----------------------------------------------------------------------------
\* The user's clauses only grow, by what the user adds.
GivenGrows == given \subseteq given' /\ \A ps \in Problem : AddClause(ps) => ps \in given'
LEMMA GivenSame ==
    ASSUME [Next]_vars, \A ps \in Problem : ~AddClause(ps)
    PROVE  given' = given
  <1>1. ASSUME NEW assumps \in Assumptions, Solve(assumps) PROVE given' = given
    BY <1>1 DEF Solve
  <1>2. ASSUME NEW k \in DOMAIN Lemmas,
               \/ TheoryAdd(k) \/ TheoryConflict(k) \/ SolveTheoryConflict(k)
               \/ \E p \in Range(Lemmas[k]) : TheoryEnqueue(k, p)
        PROVE  given' = given
    BY <1>2 DEF TheoryAdd, TheoryConflict, SolveTheoryConflict, TheoryEnqueue
  <1>3. ASSUME Start \/ StartInconsistent \/ Propagate \/ TheoryReturn \/ LevelZeroConflict
        PROVE given' = given
    BY <1>3 DEF Start, StartInconsistent, Propagate, TheoryReturn, LevelZeroConflict, Fail, Return
  <1>4. ASSUME AnalyzeAtRoot \/ AnalyzeAgain \/ Learn \/ AddDelayed \/ Restart \/ CallSimplify
        PROVE given' = given
    BY <1>4 DEF AnalyzeAtRoot, AnalyzeAgain, Learn, AddDelayed, Restart, CallSimplify
  <1>5. ASSUME SimplifyFails \/ Simplify \/ ReduceDB \/ AssumptionFalse \/ AssumptionFalseUndefined
        PROVE given' = given
    BY <1>5 DEF SimplifyFails, Simplify, ReduceDB, AssumptionFalse, AssumptionFalseUndefined, Fail, Return
  <1>6. ASSUME Assume \/ AssumptionsTrue \/ SolveTheoryPending \/ ModelFound \/ \E p \in Lit : Decide(p)
        PROVE given' = given
    BY <1>6 DEF Assume, AssumptionsTrue, SolveTheoryPending, ModelFound, Decide, Return
  <1>7. CASE Search
    BY <1>2, <1>3, <1>4, <1>5, <1>6, <1>7 DEF Search
  <1>8. CASE Rest \/ UNCHANGED vars
    BY <1>8 DEF Rest, vars
  <1> QED BY <1>1, <1>7, <1>8 DEF Next

LEMMA GivenOnlyGrows ==
    ASSUME [Next]_vars
    PROVE  GivenGrows
  <1>1. CASE \A ps \in Problem : ~AddClause(ps)
    BY <1>1, GivenSame DEF GivenGrows
  <1>2. ASSUME NEW ps \in Problem, AddClause(ps) PROVE given \subseteq given'
    BY <1>2 DEF AddClause
  <1>3. ASSUME NEW ps \in Problem, AddClause(ps) PROVE ps \in given'
    BY <1>3 DEF AddClause
  <1> QED BY <1>1, <1>2, <1>3 DEF GivenGrows

LEMMA EntailedInit == Init => EntailedInv
  <1> SUFFICES ASSUME Init, NEW m \in Total PROVE Agrees(m, core)
    BY DEF EntailedInv
  <1>1. /\ core.assigns = {} /\ core.ca = <<>> /\ core.delayed = <<>> /\ core.ok = TRUE
    BY DEF Init
  <1>2. DOMAIN core.ca = {} /\ DOMAIN core.delayed = {}
    <2>1. DOMAIN <<>> = {}
      OBVIOUS
    <2> QED BY <1>1, <2>1
  <1>3. Live(core) = {}
    BY <1>2 DEF Live
  <1> QED BY <1>1, <1>2, <1>3 DEF Agrees

LEMMA EntailedStep == IInv /\ EntailedInv /\ [Next]_vars => EntailedInv'
  <1> SUFFICES ASSUME IInv, EntailedInv, [Next]_vars, NEW m \in Total, Satisfies(m)'
               PROVE  Agrees(m, core')
    BY DEF EntailedInv
  <1>1. given \subseteq given' /\ \A ps \in Problem : AddClause(ps) => ps \in given'
    BY GivenOnlyGrows DEF GivenGrows
  <1>2. /\ \A ps \in given' : m \cap Range(ps) # {}
        /\ \A k \in DOMAIN Lemmas : m \cap Range(Lemmas[k]) # {}
    BY DEF Satisfies
  <1>3. Satisfies(m)
    BY <1>1, <1>2 DEF Satisfies
  <1>4. Agrees(m, core)
    BY <1>3 DEF EntailedInv
  <1> DEFINE M == {m}
  <1>5. Honest(Lemmas, M)
    <2>1. Honest(Lemmas, {})
      BY HonestNothing
    <2> QED BY <1>2, <2>1 DEF Honest
  <1>6. Learn => LearntHolds(M)
    <2>1. \A w \in M : Agrees(w, core)
      BY <1>4
    <2> HIDE DEF M
    <2> QED BY <1>5, <2>1, LearntHoldsNow
  <1>7. \A ps \in Problem : AddClause(ps) => \A w \in M : w \cap Range(ps) # {}
    BY <1>1, <1>2
  <1>8. Stepped(M)
    <2> HIDE DEF M
    <2> QED BY <1>5, <1>6, <1>7, NextStep
  <1> QED BY <1>4, <1>8 DEF Stepped, Follows

\* An assignment chosen variable by variable has one literal of each.
LEMMA ChosenTotal ==
    ASSUME NEW f \in [Var -> BOOLEAN]
    PROVE  {IF f[v] THEN v ELSE -v : v \in Var} \in Total
  <1> DEFINE m == {IF f[v] THEN v ELSE -v : v \in Var}
  <1>1. \A v \in Var : v \in Int /\ v > 0 /\ v \in Lit /\ -v \in Lit /\ -(-v) = v
    BY TrailAssumption DEF Var, Lit
  <1>2. m \subseteq Lit
    BY <1>1
  <1>3. ASSUME NEW v \in Var PROVE v \in m <=> f[v]
    <2>1. ASSUME v \in m PROVE f[v]
      <3>1. PICK u \in Var : v = IF f[u] THEN u ELSE -u
        BY <2>1
      <3>2. v # -u
        BY <1>1
      <3> QED BY <3>1, <3>2
    <2> QED BY <2>1
  <1>4. ASSUME NEW v \in Var PROVE -v \in m <=> ~f[v]
    <2>1. ASSUME -v \in m PROVE ~f[v]
      <3>1. PICK u \in Var : -v = IF f[u] THEN u ELSE -u
        BY <2>1
      <3>2. -v # u /\ (-v = -u => v = u)
        BY <1>1
      <3> QED BY <3>1, <3>2
    <2> QED BY <2>1
  <1> HIDE DEF m
  <1>5. ASSUME NEW p \in Lit PROVE p \in m <=> -p \notin m
    <2>1. PICK v \in Var : p = v \/ p = -v
      BY DEF Lit
    <2> QED BY <1>1, <1>3, <1>4, <2>1
  <1>6. m \in Total
    BY <1>2, <1>5 DEF Total
  <1> QED BY <1>6 DEF m

LEMMA SoundNow == EntailedInv => Sound
  <1> SUFFICES ASSUME EntailedInv, NEW f \in [Var -> BOOLEAN],
                      \A C \in {Range(ps) : ps \in given} \cup {Range(Lemmas[k]) : k \in DOMAIN Lemmas} :
                        {IF f[v] THEN v ELSE -v : v \in Var} \cap C # {},
                      NEW C \in {Lits(core, cr) : cr \in Live(core)}
                                \cup {{p} : p \in {q \in core.assigns : LevelOf(core, q) = 0}}
               PROVE  {IF f[v] THEN v ELSE -v : v \in Var} \cap C # {}
    BY DEF Sound
  <1> DEFINE m == {IF f[v] THEN v ELSE -v : v \in Var}
  <1>1. m \in Total
    BY ChosenTotal
  <1>2. Satisfies(m)
    <2> HIDE DEF m
    <2>1. \A D \in {Range(ps) : ps \in given} \cup {Range(Lemmas[k]) : k \in DOMAIN Lemmas} : m \cap D # {}
      BY DEF m
    <2> QED BY <2>1 DEF Satisfies
  <1> HIDE DEF m
  <1>3. Agrees(m, core)
    BY <1>1, <1>2 DEF EntailedInv
  <1>4. m \cap C # {}
    BY <1>3 DEF Agrees
  <1> QED BY <1>4 DEF m

\* Every clause of the database, learnt ones included, and every literal of level 0
\* follows from what addClause was given and the theory: the derivation of analyze,
\* what litRedundant drops from it, and what the theory explains hold together.
THEOREM SoundAlways == Spec => []Sound
  <1>1. Spec => [](IInv /\ EntailedInv)
    <2>1. Init => IInv /\ EntailedInv
      BY InitOK, EntailedInit
    <2>2. IInv /\ EntailedInv /\ [Next]_vars => (IInv /\ EntailedInv)'
      BY IInvStep, EntailedStep
    <2> QED BY <2>1, <2>2, PTL DEF Spec
  <1> QED BY <1>1, SoundNow, PTL

-----------------------------------------------------------------------------
(***************************************************************************)
(* What is decided below the last assumption is an assumption.             *)
(***************************************************************************)
Decided(c) == {p \in c.assigns : ReasonOf(c, p) = 0 /\ LevelOf(c, p) > 0}
OnlyAssumed ==
    \A p \in Decided(core) : LevelOf(core, p) <= Len(assumptions) => p \in Range(assumptions)
Called == pc \notin {"idle", "undefined"}
AssumedInv ==
    /\ Called => asked = assumptions
    /\ pc \notin Resting => OnlyAssumed

LEMMA DecidedIs ==
    ASSUME NEW c, NEW p, NEW lemmas, c \in Core, Good(c, lemmas), p \in Lit, IsUndef(c, p)
    PROVE  LET d == DecideOn(c, p)
           IN /\ d.assigns = c.assigns \cup {p} /\ LevelOf(d, p) = DecisionLevel(c) + 1
              /\ \A q \in c.assigns : LevelOf(d, q) = LevelOf(c, q) /\ ReasonOf(d, q) = ReasonOf(c, q)
  <1> DEFINE b == NewDecisionLevel(c)
             d == UncheckedEnqueue(b, p, CRef_Undef)
  <1>1. Opened(c, b, lemmas, {}) /\ DecisionLevel(b) = DecisionLevel(c) + 1
    BY NewLevelStep
  <1>2. b.level = c.level /\ b.reason = c.reason
    <2>1. c \in Core
      OBVIOUS
    <2> QED BY <2>1 DEF NewDecisionLevel, Core
  <1> HIDE DEF b
  <1>3. b \in Core /\ Good(b, lemmas) /\ b.assigns = c.assigns
    BY <1>1 DEF Opened, Steps
  <1>4. IsUndef(b, p) /\ DecisionLevel(b) \in Nat
    BY <1>3, CoreFields DEF IsUndef, IsTrue, IsFalse
  <1>5. d = Enqueued(b, p, DecisionLevel(b), 0)
    BY UncheckedIs DEF CRef_Undef
  <1>6. CauseFor(b, lemmas, p, DecisionLevel(b), 0) /\ DecisionLevel(b) > 0
    <2>1. b.trail_lim[DecisionLevel(b)] = Len(b.trail)
      BY NewLevelStep DEF b
    <2>2. DecisionLevel(c) \in Nat
      BY CoreFields
    <2> QED BY <1>1, <1>4, <2>1, <2>2 DEF CauseFor
  <1>7. /\ d.assigns = b.assigns \cup {p} /\ LevelOf(d, p) = DecisionLevel(b)
        /\ \A q \in b.assigns : LevelOf(d, q) = LevelOf(b, q) /\ ReasonOf(d, q) = ReasonOf(b, q)
    BY <1>3, <1>4, <1>5, <1>6, EnqueuedGood
  <1> HIDE DEF d
  <1>8. \A q : LevelOf(b, q) = LevelOf(c, q) /\ ReasonOf(b, q) = ReasonOf(c, q)
    BY <1>2 DEF LevelOf, ReasonOf
  <1>9. DecideOn(c, p) = d
    BY DEF DecideOn, d, b
  <1> QED BY <1>1, <1>3, <1>7, <1>8, <1>9

\* No step but solve changes the assumptions while a call runs, and none begins one.
LEMMA CallKept ==
    ASSUME [Next]_vars, \A assumps \in Assumptions : ~Solve(assumps), Called'
    PROVE  Called /\ assumptions' = assumptions /\ asked' = asked
  <1>1. ASSUME NEW ps \in Problem, AddClause(ps) PROVE FALSE
    BY <1>1 DEF AddClause, Called
  <1>2. ASSUME NEW k \in DOMAIN Lemmas,
               \/ TheoryAdd(k) \/ TheoryConflict(k) \/ SolveTheoryConflict(k)
               \/ \E p \in Range(Lemmas[k]) : TheoryEnqueue(k, p)
        PROVE  Called /\ assumptions' = assumptions /\ asked' = asked
    BY <1>2 DEF TheoryAdd, TheoryConflict, SolveTheoryConflict, TheoryEnqueue, Full, Called, call
  <1>3. ASSUME Start \/ StartInconsistent \/ Propagate \/ TheoryReturn \/ LevelZeroConflict
        PROVE Called /\ assumptions' = assumptions /\ asked' = asked
    BY <1>3 DEF Start, StartInconsistent, Propagate, TheoryReturn, LevelZeroConflict, Fail, Return, InConflict,
                Called, call
  <1>4. ASSUME AnalyzeAtRoot \/ AnalyzeAgain \/ Learn \/ AddDelayed \/ Restart \/ CallSimplify
        PROVE Called /\ assumptions' = assumptions /\ asked' = asked
    BY <1>4 DEF AnalyzeAtRoot, AnalyzeAgain, Learn, AddDelayed, Restart, CallSimplify, InConflict, Quiet,
                Called, call
  <1>5. ASSUME SimplifyFails \/ Simplify \/ ReduceDB \/ AssumptionFalse \/ AssumptionFalseUndefined
        PROVE Called /\ assumptions' = assumptions /\ asked' = asked
    BY <1>5 DEF SimplifyFails, Simplify, ReduceDB, AssumptionFalse, AssumptionFalseUndefined, Fail, Return,
                AssumptionRefuted, Quiet, Called, call
  <1>6. ASSUME Assume \/ AssumptionsTrue \/ SolveTheoryPending \/ ModelFound \/ \E p \in Lit : Decide(p)
        PROVE Called /\ assumptions' = assumptions /\ asked' = asked
    BY <1>6 DEF Assume, AssumptionsTrue, SolveTheoryPending, ModelFound, Decide, Return, Full, Called, call
  <1>7. CASE Search
    BY <1>2, <1>3, <1>4, <1>5, <1>6, <1>7 DEF Search
  <1>8. CASE Rest \/ UNCHANGED vars
    BY <1>8 DEF Rest, vars, Called
  <1> QED BY <1>1, <1>7, <1>8 DEF Next

\* A call begins at level 0.
LEMMA BeginsAtRoot ==
    ASSUME IInv, [Next]_vars, pc \in Resting, pc' \notin Resting
    PROVE  Decided(core') = {}
  <1>1. Start
    <2>1. ASSUME NEW ps \in Problem, AddClause(ps) PROVE FALSE
      BY <2>1 DEF AddClause, Resting
    <2>2. ASSUME NEW assumps \in Assumptions, Solve(assumps) PROVE FALSE
      BY <2>2 DEF Solve, Resting
    <2>3. ASSUME NEW k \in DOMAIN Lemmas,
                 \/ TheoryAdd(k) \/ TheoryConflict(k) \/ SolveTheoryConflict(k)
                 \/ \E p \in Range(Lemmas[k]) : TheoryEnqueue(k, p)
          PROVE FALSE
      BY <2>3 DEF TheoryAdd, TheoryConflict, SolveTheoryConflict, TheoryEnqueue, Full, Resting
    <2>4. ASSUME StartInconsistent \/ Propagate \/ TheoryReturn \/ LevelZeroConflict PROVE FALSE
      BY <2>4 DEF StartInconsistent, Propagate, TheoryReturn, LevelZeroConflict, Fail, Return, InConflict, Resting
    <2>5. ASSUME AnalyzeAtRoot \/ AnalyzeAgain \/ Learn \/ AddDelayed \/ Restart \/ CallSimplify PROVE FALSE
      BY <2>5 DEF AnalyzeAtRoot, AnalyzeAgain, Learn, AddDelayed, Restart, CallSimplify, InConflict, Quiet, Resting
    <2>6. ASSUME SimplifyFails \/ Simplify \/ ReduceDB \/ AssumptionFalse \/ AssumptionFalseUndefined PROVE FALSE
      BY <2>6 DEF SimplifyFails, Simplify, ReduceDB, AssumptionFalse, AssumptionFalseUndefined, Fail, Return,
                  AssumptionRefuted, Quiet, Resting
    <2>7. ASSUME Assume \/ AssumptionsTrue \/ SolveTheoryPending \/ ModelFound \/ \E p \in Lit : Decide(p)
          PROVE  FALSE
      BY <2>7 DEF Assume, AssumptionsTrue, SolveTheoryPending, ModelFound, Decide, Return, Full, Resting
    <2>8. CASE Search
      BY <2>3, <2>4, <2>5, <2>6, <2>7, <2>8 DEF Search
    <2>9. CASE Rest \/ UNCHANGED vars
      BY <2>9 DEF Rest, vars
    <2> QED BY <2>1, <2>2, <2>8, <2>9 DEF Next
  <1> DEFINE d == CancelUntil(core, 0)
  <1>2. core' = TellQueued(d) /\ pc = "solve_"
    BY <1>1 DEF Start, TellPropagated, TellQueued, TellAll
  <1>3. core \in Core /\ Good(core, Lemmas)
    BY IInvFacts
  <1>4. /\ d \in Core /\ Good(d, Lemmas) /\ DecisionLevel(d) = 0
    BY <1>3, ToLevelZero, IInvCovered
  <1> HIDE DEF d
  <1>5. Queued(d, core', Lemmas, {})
    BY <1>2, <1>4, TellQueuedGood, QueuedAll
  <1>6. core' \in Core /\ TrailOK(core') /\ DecisionLevel(core') = 0
    BY <1>4, <1>5 DEF Queued, Steps, Good, DecisionLevel
  <1> QED BY <1>6, RootLevel DEF Decided

LEMMA AssumedInit == Init => AssumedInv
  BY DEF Init, AssumedInv, Called, Resting

-----------------------------------------------------------------------------
LEMMA DecidedSame ==
    ASSUME OnlyAssumed, NoDecision(core, core'), assumptions' = assumptions
    PROVE  OnlyAssumed'
  BY DEF OnlyAssumed, Decided, NoDecision

LEMMA DecideAssumed ==
    ASSUME IInv, OnlyAssumed, NEW p \in Lit, Decide(p)
    PROVE  OnlyAssumed'
  <1>1. /\ PendingAssumptions = {} /\ IsUndef(core, p) /\ core' = DecideOn(core, p)
        /\ assumptions' = assumptions
    BY DEF Decide, call
  <1>2. /\ core \in Core /\ Good(core, Lemmas) /\ DecisionLevel(core) \in Nat
        /\ assumptions \in Seq(Lit)
    BY IInvFacts
  <1>3. /\ (core').assigns = core.assigns \cup {p} /\ LevelOf(core', p) = DecisionLevel(core) + 1
        /\ \A q \in core.assigns : LevelOf(core', q) = LevelOf(core, q) /\ ReasonOf(core', q) = ReasonOf(core, q)
    BY <1>1, <1>2, DecidedIs
  <1>4. Len(assumptions) <= DecisionLevel(core)
    <2> SUFFICES ASSUME Len(assumptions) > DecisionLevel(core) PROVE FALSE
      BY <1>2
    <2>1. Len(assumptions) \in DOMAIN assumptions
      BY <1>2
    <2> QED BY <1>1, <2>1 DEF PendingAssumptions
  <1>5. ASSUME NEW q \in Decided(core'), LevelOf(core', q) <= Len(assumptions)
        PROVE  q \in Range(assumptions)
    <2>1. q # p
      BY <1>2, <1>3, <1>4, <1>5
    <2>2. q \in Decided(core) /\ LevelOf(core, q) <= Len(assumptions)
      BY <1>3, <1>5, <2>1 DEF Decided
    <2> QED BY <2>2 DEF OnlyAssumed
  <1> QED BY <1>1, <1>5 DEF OnlyAssumed

LEMMA AssumeAssumed ==
    ASSUME IInv, OnlyAssumed, Assume
    PROVE  OnlyAssumed'
  <1> DEFINE p == assumptions[FirstOpen]
  <1>1. /\ FirstOpen <= Len(assumptions) /\ IsUndef(core, p) /\ core' = DecideOn(AtAssumptions, p)
        /\ assumptions' = assumptions
    BY DEF Assume, call
  <1>2. p \in Lit /\ p \in Range(assumptions)
    <2>1. FirstOpen \in 1..Len(assumptions) /\ assumptions \in Seq(Lit)
      BY <1>1, FirstOpenFacts, IInvFacts
    <2> QED BY <2>1 DEF Range
  <1> HIDE DEF p
  <1>3. /\ Steps(core, AtAssumptions, Lemmas, {}) /\ AtAssumptions.assigns = core.assigns
        /\ AtAssumptions \in Core /\ Good(AtAssumptions, Lemmas) /\ NoDecision(core, AtAssumptions)
    BY AtAssumptionsOpened DEF Opened, Steps
  <1>4. IsUndef(AtAssumptions, p)
    BY <1>1, <1>3 DEF IsUndef, IsTrue, IsFalse
  <1>5. /\ (core').assigns = core.assigns \cup {p}
        /\ \A q \in core.assigns : /\ LevelOf(core', q) = LevelOf(AtAssumptions, q)
                                   /\ ReasonOf(core', q) = ReasonOf(AtAssumptions, q)
    BY <1>1, <1>2, <1>3, <1>4, DecidedIs
  <1>6. ASSUME NEW q \in Decided(core'), LevelOf(core', q) <= Len(assumptions), q # p
        PROVE  q \in Range(assumptions)
    <2>1. q \in Decided(core) /\ LevelOf(core, q) <= Len(assumptions)
      BY <1>3, <1>5, <1>6 DEF Decided, NoDecision
    <2> QED BY <2>1 DEF OnlyAssumed
  <1> QED BY <1>1, <1>2, <1>6 DEF OnlyAssumed

LEMMA AssumedStep == IInv /\ AssumedInv /\ [Next]_vars => AssumedInv'
  <1> SUFFICES ASSUME IInv, AssumedInv, [Next]_vars PROVE AssumedInv'
    OBVIOUS
  <1>1. ASSUME NEW assumps \in Assumptions, Solve(assumps) PROVE AssumedInv'
    BY <1>1 DEF Solve, AssumedInv, Called, Resting
  <1>2. ASSUME \A assumps \in Assumptions : ~Solve(assumps) PROVE AssumedInv'
    <2>1. Called' => Called /\ assumptions' = assumptions /\ asked' = asked
      BY <1>2, CallKept
    <2>2. Called' => asked' = assumptions'
      BY <2>1 DEF AssumedInv
    <2>3. ASSUME pc' \notin Resting, pc \in Resting PROVE OnlyAssumed'
      <3>1. Decided(core') = {}
        BY <2>3, BeginsAtRoot
      <3> QED BY <3>1 DEF OnlyAssumed
    <2>4. ASSUME pc' \notin Resting, pc \notin Resting PROVE OnlyAssumed'
      <3>1. Called' /\ OnlyAssumed
        BY <2>4 DEF AssumedInv, Called, Resting
      <3>2. CASE Decides
        BY <3>1, <3>2, DecideAssumed, AssumeAssumed DEF Decides
      <3>3. CASE ~Decides
        <4>1. Honest(Lemmas, {}) /\ LearntHolds({})
          BY HonestNothing DEF LearntHolds
        <4>2. Stepped({})
          BY <4>1, NextStep
        <4>3. NoDecision(core, core')
          BY <2>4, <3>3, <4>2 DEF Stepped, Undecided
        <4> QED BY <2>1, <3>1, <4>3, DecidedSame
      <3> QED BY <3>2, <3>3
    <2> QED BY <2>2, <2>3, <2>4 DEF AssumedInv
  <1> QED BY <1>1, <1>2

-----------------------------------------------------------------------------
\* What agrees with the database and with every decision agrees with the trail.
Below(c, m) == {i \in Nat : \A j \in 1..i : j <= Len(c.trail) => c.trail[j] \in m}
LEMMA BecauseFalse ==
    ASSUME NEW c, c \in Core, TrailOK(c), NEW i \in 1..Len(c.trail), NEW C, Because(c, i, C),
           NEW m \in Total, i - 1 \in Below(c, m)
    PROVE  \A q \in C \cap Lit : q \notin m
  <1> SUFFICES ASSUME NEW q \in C, q \in Lit PROVE q \notin m
    OBVIOUS
  <1>1. PICK j \in 1..(i - 1) : c.trail[j] = -q
    BY DEF Because
  <1>2. Len(c.trail) \in Nat
    BY CoreFields
  <1>3. j \in 1..Len(c.trail) /\ j <= Len(c.trail)
    BY <1>2
  <1>4. -q \in m
    BY <1>1, <1>3 DEF Below
  <1> QED BY <1>4 DEF Total

LEMMA NextAgrees ==
    ASSUME NEW c, c \in Core, Good(c, Lemmas), NEW m \in Total, Agrees(m, c), Decided(c) \subseteq m,
           \A k \in DOMAIN Lemmas : m \cap Range(Lemmas[k]) # {},
           NEW i \in 1..Len(c.trail), i - 1 \in Below(c, m)
    PROVE  c.trail[i] \in m
  <1> DEFINE p == c.trail[i]
  <1>1. /\ TrailOK(c) /\ DbOK(c) /\ p \in c.assigns /\ p \in Lit /\ LevelOf(c, p) \in Nat
        /\ ReasonOf(c, p) \in Int
    BY AssignedFacts, CoreFields DEF Good
  <1>2. CauseOK(c, Lemmas, i)
    BY DEF Good, CausesOK
  <1>3. CASE ReasonOf(c, p) = 0 /\ LevelOf(c, p) > 0
    BY <1>1, <1>3 DEF Decided
  <1>4. CASE LevelOf(c, p) = 0
    BY <1>1, <1>4 DEF Agrees
  <1>5. CASE ReasonOf(c, p) > 0
    <2> DEFINE cr == ReasonOf(c, p)
    <2>1. cr \in Live(c) /\ Because(c, i, Lits(c, cr) \ {p})
      BY <1>2, <1>5 DEF CauseOK, ByClause
    <2>2. PICK q \in Lits(c, cr) : q \in m
      BY <2>1 DEF Agrees
    <2>3. q \in Lit
      BY <2>2 DEF Total
    <2> QED BY <1>1, <2>1, <2>2, <2>3, BecauseFalse
  <1>6. CASE ReasonOf(c, p) < 0
    <2> DEFINE k == -ReasonOf(c, p)
    <2>1. k \in DOMAIN Lemmas /\ Because(c, i, Range(Lemmas[k]) \ {p})
      BY <1>2, <1>6 DEF CauseOK, ByLemma
    <2>2. PICK q \in Range(Lemmas[k]) : q \in m
      BY <2>1
    <2>3. q \in Lit
      BY <2>2 DEF Total
    <2> QED BY <1>1, <2>1, <2>2, <2>3, BecauseFalse
  <1> QED BY <1>1, <1>3, <1>4, <1>5, <1>6

LEMMA TrailAgrees ==
    ASSUME NEW c, c \in Core, Good(c, Lemmas), NEW m \in Total, Agrees(m, c), Decided(c) \subseteq m,
           \A k \in DOMAIN Lemmas : m \cap Range(Lemmas[k]) # {}
    PROVE  c.assigns \subseteq m
  <1> DEFINE n == Len(c.trail)
             S == Below(c, m)
  <1>1. n \in Nat /\ TrailOK(c)
    BY CoreFields DEF Good
  <1>2. 0 \in S
    BY DEF Below
  <1>3. ASSUME NEW i \in 1..n, i - 1 \in S PROVE i \in S
    <2>1. c.trail[i] \in m
      BY <1>3, NextAgrees
    <2>2. ASSUME NEW j \in 1..i, j <= n PROVE c.trail[j] \in m
      <3>1. j = i \/ j \in 1..(i - 1)
        BY <1>1
      <3> QED BY <1>3, <2>1, <2>2, <3>1 DEF Below
    <2> QED BY <1>1, <2>2 DEF Below
  <1>4. n \in S
    <2> HIDE DEF S, n
    <2>1. \A i \in 0..n : i \in S
      BY <1>1, <1>2, <1>3, UpTo
    <2> QED BY <1>1, <2>1
  <1>5. \A j \in 1..n : c.trail[j] \in m
    BY <1>1, <1>4 DEF Below
  <1>6. \A p \in c.assigns : \E i \in 1..n : c.trail[i] = p
    BY <1>1, AssignedFacts
  <1> QED BY <1>5, <1>6

-----------------------------------------------------------------------------
LEMMA RefutesHow ==
    ASSUME IInv, [Next]_vars, Returns("False")
    PROVE  (core').ok = FALSE \/ AssumptionFalse
  <1>1. pc # "idle" /\ pc' = "idle" /\ status' = "False"
    BY DEF Returns
  <1>2. ASSUME NEW ps \in Problem, AddClause(ps) PROVE FALSE
    BY <1>1, <1>2 DEF AddClause
  <1>3. ASSUME NEW assumps \in Assumptions, Solve(assumps) PROVE FALSE
    BY <1>1, <1>3 DEF Solve
  <1>4. ASSUME NEW c, Fail(c, {}), c \in Core PROVE (core').ok = FALSE
    <2>1. core' = [c EXCEPT !.ok = FALSE]
      BY <1>4, CoreFields DEF Fail
    <2> QED BY <1>4, <2>1 DEF Core
  <1>5. ASSUME NEW k \in DOMAIN Lemmas,
               \/ TheoryAdd(k) \/ TheoryConflict(k) \/ SolveTheoryConflict(k)
               \/ \E p \in Range(Lemmas[k]) : TheoryEnqueue(k, p)
        PROVE  FALSE
    BY <1>1, <1>5 DEF TheoryAdd, TheoryConflict, SolveTheoryConflict, TheoryEnqueue, Continue
  <1>6. ASSUME Start \/ Propagate \/ TheoryReturn \/ ModelFound PROVE FALSE
    BY <1>1, <1>6 DEF Start, Propagate, TheoryReturn, ModelFound, Continue, Return
  <1>7. ASSUME AnalyzeAtRoot \/ AnalyzeAgain \/ Learn \/ AddDelayed \/ Restart \/ CallSimplify PROVE FALSE
    BY <1>1, <1>7 DEF AnalyzeAtRoot, AnalyzeAgain, Learn, AddDelayed, Restart, CallSimplify, InConflict, Quiet
  <1>8. ASSUME Simplify \/ ReduceDB \/ AssumptionFalseUndefined PROVE FALSE
    BY <1>1, <1>8 DEF Simplify, ReduceDB, AssumptionFalseUndefined
  <1>9. ASSUME Assume \/ AssumptionsTrue \/ SolveTheoryPending \/ \E p \in Lit : Decide(p) PROVE FALSE
    BY <1>1, <1>9 DEF Assume, AssumptionsTrue, SolveTheoryPending, Decide
  <1>10. ASSUME StartInconsistent \/ LevelZeroConflict \/ SimplifyFails PROVE (core').ok = FALSE
    <2>1. core \in Core /\ CancelUntil(core, 0) \in Core
      BY IInvFacts, IInvCovered, ToLevelZero
    <2> QED BY <1>4, <1>10, <2>1 DEF StartInconsistent, LevelZeroConflict, SimplifyFails
  <1>11. CASE Search
    BY <1>5, <1>6, <1>7, <1>8, <1>9, <1>10, <1>11 DEF Search
  <1>12. CASE Rest \/ UNCHANGED vars
    BY <1>1, <1>12 DEF Rest, vars
  <1> QED BY <1>2, <1>3, <1>11, <1>12 DEF Next

\* Below the first assumption that is not true everything decided is an assumption.
LEMMA AssumptionExcluded ==
    ASSUME IInv, AssumedInv, AssumptionFalse, NEW m \in Total, Agrees(m, core),
           \A k \in DOMAIN Lemmas : m \cap Range(Lemmas[k]) # {}, Range(asked) \subseteq m
    PROVE  FALSE
  <1>1. /\ pc = "decide" /\ PendingAssumptions # {} /\ FirstOpen <= Len(assumptions)
        /\ IsFalse(core, assumptions[FirstOpen])
    BY DEF AssumptionFalse, AssumptionRefuted
  <1>2. /\ core \in Core /\ Good(core, Lemmas) /\ TrailOK(core) /\ DecisionLevel(core) \in Nat
        /\ assumptions \in Seq(Lit) /\ Len(assumptions) \in Nat
    BY IInvFacts
  <1>3. asked = assumptions /\ OnlyAssumed
    BY <1>1 DEF AssumedInv, Called, Resting
  <1>4. DecisionLevel(core) < Len(assumptions)
    <2>1. PICK i \in DOMAIN assumptions : i > DecisionLevel(core)
      BY <1>1 DEF PendingAssumptions
    <2> QED BY <1>2, <2>1
  <1>5. Decided(core) \subseteq m
    <2> SUFFICES ASSUME NEW p \in Decided(core) PROVE p \in m
      OBVIOUS
    <2>1. LevelOf(core, p) \in 0..DecisionLevel(core)
      BY <1>2, AssignedFacts DEF Decided
    <2>2. LevelOf(core, p) <= Len(assumptions)
      BY <1>2, <1>4, <2>1
    <2> QED BY <1>3, <2>2 DEF OnlyAssumed
  <1>6. core.assigns \subseteq m
    BY <1>2, <1>5, TrailAgrees
  <1>7. assumptions[FirstOpen] \in m /\ assumptions[FirstOpen] \in Lit
    <2>1. FirstOpen \in 1..Len(assumptions)
      BY <1>1, <1>2, FirstOpenFacts
    <2> QED BY <1>2, <1>3, <2>1 DEF Range
  <1>8. -assumptions[FirstOpen] \in m
    BY <1>1, <1>6 DEF IsFalse
  <1> QED BY <1>7, <1>8 DEF Total

LEMMA RefutationRight ==
    ASSUME IInv, EntailedInv, EntailedInv', AssumedInv, [Next]_vars, Returns("False"),
           NEW m \in Total, Satisfies(m), Range(asked) \subseteq m
    PROVE  FALSE
  <1>1. \A ps \in Problem : ~AddClause(ps)
    BY DEF AddClause, Returns
  <1>2. given' = given
    BY <1>1, GivenSame
  <1>3. Agrees(m, core')
    BY <1>2 DEF EntailedInv, Satisfies
  <1>4. CASE (core').ok = FALSE
    BY <1>3, <1>4 DEF Agrees
  <1>5. CASE AssumptionFalse
    <2>1. Agrees(m, core) /\ \A k \in DOMAIN Lemmas : m \cap Range(Lemmas[k]) # {}
      BY DEF EntailedInv, Satisfies
    <2> QED BY <1>5, <2>1, AssumptionExcluded
  <1> QED BY <1>4, <1>5, RefutesHow

LEMMA RefutationStep ==
    ASSUME IInv, EntailedInv, EntailedInv', AssumedInv, [Next]_vars, Returns("False")
    PROVE  Oracle!Entails(Facts, {})
  <1> SUFFICES ASSUME NEW m \in Oracle!Models, Oracle!Satisfies(m, Facts) PROVE FALSE
    BY DEF Oracle!Entails
  <1>1. PICK f \in [Var -> BOOLEAN] : m = {IF f[v] THEN v ELSE -v : v \in Var}
    BY DEF Oracle!Models
  <1>2. m \in Total
    BY <1>1, ChosenTotal
  <1>3. \A C \in Facts : m \cap C # {}
    BY DEF Oracle!Satisfies
  <1>4. Satisfies(m)
    BY <1>3 DEF Satisfies, Facts
  <1>5. ASSUME NEW p \in Range(asked) PROVE p \in m
    <2>1. {p} \in Facts
      BY <1>5 DEF Facts, Oracle!Units
    <2> QED BY <1>3, <2>1
  <1> QED BY <1>2, <1>4, <1>5, RefutationRight

\* The answer "False" is right: no assignment satisfies the clauses addClause was
\* given, the theory and the assumptions of the call, whether search found a conflict
\* at level 0 or came upon an assumption that is false already.
THEOREM RefutationsAreRight == Spec => RefutationsRight
  <1> DEFINE Inv == IInv /\ EntailedInv /\ AssumedInv
  <1>1. Init => Inv
    BY InitOK, EntailedInit, AssumedInit
  <1>2. Inv /\ [Next]_vars => Inv'
    BY IInvStep, EntailedStep, AssumedStep
  <1>3. Inv /\ Inv' /\ [Next]_vars => [Returns("False") => Oracle!Entails(Facts, {})]_vars
    BY RefutationStep
  <1> QED BY <1>1, <1>2, <1>3, PTL DEF Spec, RefutationsRight
=============================================================================
