------------------------- MODULE GraphTheoryProofs --------------------------
(***************************************************************************)
(* Proofs about a graph theory under its solver: its two graphs follow its *)
(* assignment through every operation of its trail, the lazy ones          *)
(* included; its trail is the solver's; what it enqueues is justified; and *)
(* the clauses it builds are false when they are asked for, and valid.     *)
(***************************************************************************)
EXTENDS GraphTheory, TLAPS, WellFoundedInduction, NaturalsInduction, FiniteSetTheorems,
        SequenceTheorems

-----------------------------------------------------------------------------
(***************************************************************************)
(* First, what the operators of GraphTrail do to the lists of a trail, to  *)
(* the theory's assignment and to the detector's counters.                 *)
(***************************************************************************)
(***************************************************************************)
(* Induction over the natural numbers, for sets of them.                   *)
(***************************************************************************)
LEMMA Smallest ==
    ASSUME NEW T, T \subseteq Nat, T # {}
    PROVE  \E n \in T : \A m \in T : n <= m
  <1>1. PICK n \in T : \A m \in T : ~(<<m, n>> \in OpToRel(<, Nat))
    BY NatLessThanWellFounded, WFMin
  <1>2. \A m \in T : ~(m < n)
    BY <1>1 DEF OpToRel
  <1>3. \A m \in T : m \in Nat
    OBVIOUS
  <1>4. \A m \in T : n <= m
    BY <1>2, <1>3
  <1> QED BY <1>4

\* A set with zero that has every successor has all of them.
LEMMA NatSet ==
    ASSUME NEW S, 0 \in S, \A n \in Nat : n \in S => n + 1 \in S
    PROVE  \A n \in Nat : n \in S
  <1> SUFFICES ASSUME Nat \ S # {} PROVE FALSE
    OBVIOUS
  <1>1. PICK n \in Nat \ S : \A m \in Nat \ S : n <= m
    BY Smallest
  <1> QED BY <1>1, n - 1 \in Nat, n # 0

-----------------------------------------------------------------------------
(***************************************************************************)
(* Keep.                                                                   *)
(***************************************************************************)
KeptBy(f, s, S, n) ==
    f = [i \in 0..n |-> IF i = 0 THEN <<>>
                        ELSE IF s[i] \in S THEN Append(f[i - 1], s[i]) ELSE f[i - 1]]

\* The recursive function that defines it exists.
LEMMA KeptExists ==
    ASSUME NEW s, NEW S
    PROVE  \A n \in Nat : \E f : KeptBy(f, s, S, n)
  <1> DEFINE G == {n \in Nat : \E f : KeptBy(f, s, S, n)}
  <1>1. 0 \in G
    <2> DEFINE f == [i \in 0..0 |-> <<>>]
    <2>1. f = [i \in 0..0 |-> IF i = 0 THEN <<>>
                              ELSE IF s[i] \in S THEN Append(f[i - 1], s[i]) ELSE f[i - 1]]
      OBVIOUS
    <2> HIDE DEF f
    <2> QED BY <2>1 DEF KeptBy
  <1>2. ASSUME NEW n \in Nat, n \in G PROVE n + 1 \in G
    <2>1. PICK f : KeptBy(f, s, S, n)
      BY <1>2
    <2> DEFINE h == [i \in 0..(n + 1) |->
                       IF i = n + 1 THEN IF s[i] \in S THEN Append(f[n], s[i]) ELSE f[n]
                       ELSE f[i]]
    <2>2. ASSUME NEW i \in 0..(n + 1)
          PROVE  h[i] = IF i = 0 THEN <<>>
                        ELSE IF s[i] \in S THEN Append(h[i - 1], s[i]) ELSE h[i - 1]
      <3>1. CASE i = 0
        BY <2>1, <3>1, 0 \in 0..n, 0 # n + 1 DEF KeptBy
      <3>2. CASE i # 0 /\ i # n + 1
        <4>1. i \in 0..n /\ i - 1 \in 0..n /\ i - 1 # n + 1 /\ i - 1 \in 0..(n + 1)
          BY <3>2
        <4>2. h[i] = f[i] /\ h[i - 1] = f[i - 1]
          BY <3>2, <4>1
        <4>3. f[i] = IF i = 0 THEN <<>>
                     ELSE IF s[i] \in S THEN Append(f[i - 1], s[i]) ELSE f[i - 1]
          BY <2>1, <4>1 DEF KeptBy
        <4> HIDE DEF h
        <4> QED BY <3>2, <4>2, <4>3
      <3>3. CASE i = n + 1
        <4>1. i - 1 = n /\ n \in 0..(n + 1) /\ n # n + 1 /\ i # 0
          BY <3>3
        <4> QED BY <3>3, <4>1
      <3> QED BY <3>1, <3>2, <3>3
    <2>3. h = [i \in 0..(n + 1) |-> h[i]]
      OBVIOUS
    <2> HIDE DEF h
    <2>4. h = [i \in 0..(n + 1) |->
                 IF i = 0 THEN <<>>
                 ELSE IF s[i] \in S THEN Append(h[i - 1], s[i]) ELSE h[i - 1]]
      BY <2>2, <2>3
    <2>5. KeptBy(h, s, S, n + 1)
      BY <2>4 DEF KeptBy
    <2> QED BY <2>5
  <1> HIDE DEF G
  <1>3. \A n \in Nat : n \in G
    BY <1>1, <1>2, NatSet
  <1> QED BY <1>3 DEF G

\* One element after the other.
Keeping(f, s, S) ==
    /\ f[0] = <<>> /\ Keep(s, S) = f[Len(s)]
    /\ \A i \in 1..Len(s) :
         f[i] = IF s[i] \in S THEN Append(f[i - 1], s[i]) ELSE f[i - 1]
LEMMA KeepSteps ==
    ASSUME NEW T, NEW s \in Seq(T), NEW S
    PROVE  \E f : Keeping(f, s, S)
  <1> DEFINE k == CHOOSE f : KeptBy(f, s, S, Len(s))
  <1>1. Len(s) \in Nat
    OBVIOUS
  <1>2. KeptBy(k, s, S, Len(s))
    BY <1>1, KeptExists
  <1>3. Keep(s, S) = k[Len(s)]
    BY DEF Keep, KeptBy
  <1> HIDE DEF k
  <1>4. k[0] = <<>>
    BY <1>1, <1>2, 0 \in 0..Len(s) DEF KeptBy
  <1>5. ASSUME NEW i \in 1..Len(s)
        PROVE  k[i] = IF s[i] \in S THEN Append(k[i - 1], s[i]) ELSE k[i - 1]
    BY <1>1, <1>2, i \in 0..Len(s), i # 0 DEF KeptBy
  <1> QED BY <1>3, <1>4, <1>5 DEF Keeping

\* Appending adds one element, behind all others.
LEMMA AppendMembers ==
    ASSUME NEW T, NEW q \in Seq(T), NEW x \in T
    PROVE  /\ Append(q, x) \in Seq(T)
           /\ Members(Append(q, x)) = Members(q) \cup {x}
           /\ \A v : Behind(Append(q, x), v) = IF x = v THEN {} ELSE Behind(q, v) \cup {x}
  <1> DEFINE a == Append(q, x)
             n == Len(q)
  <1>1. /\ n \in Nat /\ a \in Seq(T) /\ Len(a) = n + 1 /\ DOMAIN q = 1..n /\ DOMAIN a = 1..(n + 1)
        /\ a[n + 1] = x /\ \A i \in 1..n : a[i] = q[i]
    OBVIOUS
  <1> HIDE DEF a, n
  <1>2. Members(a) = Members(q) \cup {x}
    <2>1. \A i \in 1..(n + 1) : i = n + 1 \/ i \in 1..n
      BY <1>1
    <2>2. 1..n \subseteq 1..(n + 1) /\ n + 1 \in 1..(n + 1)
      BY <1>1
    <2> QED BY <1>1, <2>1, <2>2 DEF Members
  <1>3. ASSUME NEW v PROVE Behind(a, v) = IF x = v THEN {} ELSE Behind(q, v) \cup {x}
    <2>1. \A y : y \in Behind(a, v) <=>
                   \E j \in 1..(n + 1) : a[j] = y /\ \A k \in j..(n + 1) : a[k] # v
      BY <1>1 DEF Behind
    <2>2. \A y : y \in Behind(q, v) <=> \E j \in 1..n : q[j] = y /\ \A k \in j..n : q[k] # v
      BY <1>1 DEF Behind, n
    <2>3. CASE x = v
      <3>1. \A j \in 1..(n + 1) : n + 1 \in j..(n + 1)
        BY <1>1
      <3> QED BY <1>1, <2>1, <2>3, <3>1
    <2>4. CASE x # v
      <3>1. ASSUME NEW y, NEW j \in 1..n, q[j] = y, \A k \in j..n : q[k] # v
            PROVE  y \in Behind(a, v)
        <4>1. ASSUME NEW k \in j..(n + 1) PROVE a[k] # v
          <5>1. k = n + 1 \/ (k \in j..n /\ k \in 1..n)
            BY <1>1
          <5> QED BY <5>1, <1>1, <2>4, <3>1
        <4>2. j \in 1..(n + 1) /\ a[j] = y
          BY <1>1, <3>1
        <4> QED BY <2>1, <4>1, <4>2
      <3>2. x \in Behind(a, v)
        <4>1. n + 1 \in 1..(n + 1) /\ \A k \in (n + 1)..(n + 1) : k = n + 1
          BY <1>1
        <4> QED BY <1>1, <2>1, <2>4, <4>1
      <3>3. ASSUME NEW y \in Behind(a, v), y # x PROVE y \in Behind(q, v)
        <4>1. PICK j \in 1..(n + 1) : a[j] = y /\ \A k \in j..(n + 1) : a[k] # v
          BY <2>1
        <4>2. j \in 1..n /\ q[j] = y
          BY <1>1, <3>3, <4>1
        <4>3. ASSUME NEW k \in j..n PROVE q[k] # v
          BY <1>1, <4>1, <4>2, k \in j..(n + 1), k \in 1..n
        <4> QED BY <2>2, <4>2, <4>3
      <3> QED BY <2>2, <2>4, <3>1, <3>2, <3>3
    <2> QED BY <2>3, <2>4
  <1> QED BY <1>1, <1>2, <1>3 DEF a

\* What is kept: the elements that are in S, those behind another one still
\* behind it.
LEMMA KeepMembers ==
    ASSUME NEW T, NEW s \in Seq(T), NEW S
    PROVE  /\ Keep(s, S) \in Seq(T)
           /\ Members(Keep(s, S)) = Members(s) \cap S
           /\ \A v \in S : Behind(Keep(s, S), v) = Behind(s, v) \cap S
  <1>0. PICK f : Keeping(f, s, S)
    BY KeepSteps
  <1>1. /\ f[0] = <<>> /\ Keep(s, S) = f[Len(s)]
        /\ \A i \in 1..Len(s) :
             f[i] = IF s[i] \in S THEN Append(f[i - 1], s[i]) ELSE f[i - 1]
    BY <1>0 DEF Keeping
  <1> DEFINE n == Len(s)
             P(i) == /\ f[i] \in Seq(T)
                     /\ \A x : x \in Members(f[i]) <=> x \in S /\ \E j \in 1..i : s[j] = x
                     /\ \A x, v : v \in S =>
                          (x \in Behind(f[i], v) <=>
                             x \in S /\ \E j \in 1..i : s[j] = x /\ \A k \in j..i : s[k] # v)
             G == {i \in Nat : i <= n => P(i)}
  <1>2. n \in Nat /\ \A i \in 1..n : s[i] \in T
    OBVIOUS
  <1>3. 0 \in G
    <2>1. Members(<<>>) = {} /\ \A v : Behind(<<>>, v) = {}
      BY DEF Members, Behind
    <2>2. 1..0 = {} /\ f[0] \in Seq(T)
      BY <1>1
    <2> QED BY <1>1, <2>1, <2>2
  <1>4. ASSUME NEW i \in Nat, i \in G PROVE i + 1 \in G
    <2> HIDE DEF n
    <2> SUFFICES ASSUME i + 1 <= n PROVE P(i + 1)
      BY DEF G
    <2>1. P(i) /\ i + 1 \in 1..n /\ (i + 1) - 1 = i /\ s[i + 1] \in T
      BY <1>2, <1>4
    <2>2. f[i + 1] = IF s[i + 1] \in S THEN Append(f[i], s[i + 1]) ELSE f[i]
      BY <1>1, <2>1 DEF n
    <2>3. \A j : j \in 1..(i + 1) <=> j \in 1..i \/ j = i + 1
      OBVIOUS
    <2>4. \A j \in 1..(i + 1) : \A k : k \in j..(i + 1) <=> k \in j..i \/ k = i + 1
      OBVIOUS
    <2>5. CASE s[i + 1] \in S
      <3>1. /\ f[i + 1] \in Seq(T)
            /\ Members(f[i + 1]) = Members(f[i]) \cup {s[i + 1]}
            /\ \A v : Behind(f[i + 1], v) =
                 IF s[i + 1] = v THEN {} ELSE Behind(f[i], v) \cup {s[i + 1]}
        <4> DEFINE q == f[i]
                   x == s[i + 1]
        <4>1. q \in Seq(T) /\ x \in T /\ f[i + 1] = Append(q, x)
          BY <2>1, <2>2, <2>5
        <4> HIDE DEF q, x
        <4>2. /\ Append(q, x) \in Seq(T)
              /\ Members(Append(q, x)) = Members(q) \cup {x}
              /\ \A v : Behind(Append(q, x), v) = IF x = v THEN {} ELSE Behind(q, v) \cup {x}
          BY <4>1, AppendMembers
        <4> QED BY <4>1, <4>2 DEF q, x
      <3>2. \A x : x \in Members(f[i + 1]) <=> x \in S /\ \E j \in 1..(i + 1) : s[j] = x
        BY <2>1, <2>3, <2>5, <3>1
      <3>3. ASSUME NEW x, NEW v \in S
            PROVE  x \in Behind(f[i + 1], v) <=>
                     x \in S /\ \E j \in 1..(i + 1) : s[j] = x /\ \A k \in j..(i + 1) : s[k] # v
        <4>1. x \in Behind(f[i], v) <=>
                x \in S /\ \E j \in 1..i : s[j] = x /\ \A k \in j..i : s[k] # v
          BY <2>1
        <4>2. CASE s[i + 1] = v
          <5>1. \A j \in 1..(i + 1) : i + 1 \in j..(i + 1)
            OBVIOUS
          <5> QED BY <3>1, <4>2, <5>1
        <4>3. CASE s[i + 1] # v
          <5>1. (\E j \in 1..(i + 1) : s[j] = x /\ \A k \in j..(i + 1) : s[k] # v)
                  <=> \/ \E j \in 1..i : s[j] = x /\ \A k \in j..i : s[k] # v
                      \/ x = s[i + 1]
            <6>1. i + 1 \in 1..(i + 1) /\ \A k \in (i + 1)..i : FALSE
              OBVIOUS
            <6> QED BY <2>3, <2>4, <4>3, <6>1
          <5> QED BY <2>5, <3>1, <4>1, <4>3, <5>1
        <4> QED BY <4>2, <4>3
      <3> QED BY <3>1, <3>2, <3>3
    <2>6. CASE s[i + 1] \notin S
      <3>1. f[i + 1] = f[i]
        BY <2>2, <2>6
      <3>2. \A x : x \in Members(f[i + 1]) <=> x \in S /\ \E j \in 1..(i + 1) : s[j] = x
        BY <2>1, <2>3, <2>6, <3>1
      <3>3. ASSUME NEW x, NEW v \in S
            PROVE  x \in Behind(f[i + 1], v) <=>
                     x \in S /\ \E j \in 1..(i + 1) : s[j] = x /\ \A k \in j..(i + 1) : s[k] # v
        <4>1. x \in Behind(f[i], v) <=>
                x \in S /\ \E j \in 1..i : s[j] = x /\ \A k \in j..i : s[k] # v
          BY <2>1
        <4>2. s[i + 1] # v
          BY <2>6
        <4> QED BY <2>3, <2>4, <2>6, <3>1, <4>1, <4>2
      <3> QED BY <2>1, <3>1, <3>2, <3>3
    <2> QED BY <2>5, <2>6
  <1>5. P(n)
    <2> HIDE DEF P
    <2>1. \A i \in Nat : i \in G
      <3> HIDE DEF G
      <3> QED BY <1>3, <1>4, NatSet
    <2> QED BY <1>2, <2>1
  <1>6. \A x : x \in Members(s) <=> \E j \in 1..n : s[j] = x
    BY DEF Members
  <1>7. \A x, v : x \in Behind(s, v) <=> \E j \in 1..n : s[j] = x /\ \A k \in j..n : s[k] # v
    BY DEF Behind
  <1> HIDE DEF n
  <1>8. Keep(s, S) = f[n]
    BY <1>1 DEF n
  <1> QED BY <1>5, <1>6, <1>7, <1>8

\* Nothing is kept twice, or in another order.
LEMMA KeepOrder ==
    ASSUME NEW T, NEW s \in Seq(T), NEW S, NEW i \in DOMAIN Keep(s, S),
           NEW j \in DOMAIN Keep(s, S), i < j
    PROVE  \E a, b \in DOMAIN s : a < b /\ s[a] = Keep(s, S)[i] /\ s[b] = Keep(s, S)[j]
  <1>0. PICK f : Keeping(f, s, S)
    BY KeepSteps
  <1>1. /\ f[0] = <<>> /\ Keep(s, S) = f[Len(s)]
        /\ \A k \in 1..Len(s) :
             f[k] = IF s[k] \in S THEN Append(f[k - 1], s[k]) ELSE f[k - 1]
    BY <1>0 DEF Keeping
  <1> DEFINE n == Len(s)
             One(k, x) == \E a \in 1..k : s[a] = f[k][x]
             Two(k, x, y) == \E a, b \in 1..k : a < b /\ s[a] = f[k][x] /\ s[b] = f[k][y]
             P(k) == /\ f[k] \in Seq(T)
                     /\ \A x \in 1..Len(f[k]) : One(k, x)
                     /\ \A x, y \in 1..Len(f[k]) : x < y => Two(k, x, y)
             G == {k \in Nat : k <= n => P(k)}
  <1>2. n \in Nat /\ \A k \in 1..n : s[k] \in T
    OBVIOUS
  <1>3. 0 \in G
    <2>1. f[0] \in Seq(T) /\ Len(f[0]) = 0 /\ 1..0 = {}
      BY <1>1
    <2> QED BY <2>1
  <1>4. ASSUME NEW k \in Nat, k \in G PROVE k + 1 \in G
    <2> HIDE DEF n
    <2> SUFFICES ASSUME k + 1 <= n PROVE P(k + 1)
      BY DEF G
    <2>1. P(k) /\ k + 1 \in 1..n /\ (k + 1) - 1 = k /\ s[k + 1] \in T
      BY <1>2, <1>4
    <2>2. f[k + 1] = IF s[k + 1] \in S THEN Append(f[k], s[k + 1]) ELSE f[k]
      BY <1>1, <2>1 DEF n
    <2>3. \A a \in 1..k : a \in 1..(k + 1) /\ a < k + 1
      OBVIOUS
    <2>4. k + 1 \in 1..(k + 1)
      OBVIOUS
    <2>5. ASSUME NEW x, NEW y, f[k + 1][x] = f[k][x], f[k + 1][y] = f[k][y]
          PROVE  (One(k, x) => One(k + 1, x)) /\ (Two(k, x, y) => Two(k + 1, x, y))
      BY <2>3, <2>5
    <2>6. CASE s[k + 1] \in S
      <3> DEFINE m == Len(f[k])
      <3>1. /\ m \in Nat /\ Len(f[k + 1]) = m + 1 /\ f[k + 1] \in Seq(T)
            /\ f[k + 1][m + 1] = s[k + 1] /\ \A x \in 1..m : f[k + 1][x] = f[k][x]
        BY <2>1, <2>2, <2>6
      <3>2. /\ \A x \in 1..m : One(k, x)
            /\ \A x, y \in 1..m : x < y => Two(k, x, y)
        BY <2>1
      <3> HIDE DEF m, P, G
      <3>3. ASSUME NEW x \in 1..(m + 1) PROVE One(k + 1, x)
        <4>1. x \in 1..m \/ x = m + 1
          BY <3>1
        <4>2. CASE x \in 1..m
          <5> HIDE DEF One, Two
          <5> QED BY <4>2, <3>1, <3>2, <2>5
        <4>3. CASE x = m + 1
          BY <4>3, <3>1, <2>4
        <4> QED BY <4>1, <4>2, <4>3
      <3>4. ASSUME NEW x \in 1..(m + 1), NEW y \in 1..(m + 1), x < y
            PROVE  Two(k + 1, x, y)
        <4>1. x \in 1..m /\ (y \in 1..m \/ y = m + 1)
          BY <3>1, <3>4
        <4>2. CASE y \in 1..m
          <5> HIDE DEF One, Two
          <5> QED BY <2>5, <3>1, <3>2, <3>4, <4>1, <4>2
        <4>3. CASE y = m + 1
          <5>1. PICK a \in 1..k : s[a] = f[k][x]
            BY <3>2, <4>1
          <5> QED BY <2>3, <2>4, <3>1, <4>1, <4>3, <5>1
        <4> QED BY <4>1, <4>2, <4>3
      <3> HIDE DEF One, Two
      <3> QED BY <3>1, <3>3, <3>4 DEF P
    <2>7. CASE s[k + 1] \notin S
      <3>1. f[k + 1] = f[k]
        BY <2>2, <2>7
      <3>2. \A x, y : (One(k, x) => One(k + 1, x)) /\ (Two(k, x, y) => Two(k + 1, x, y))
        <4> HIDE DEF One, Two
        <4> QED BY <2>5, <3>1
      <3> HIDE DEF One, Two
      <3> QED BY <2>1, <3>1, <3>2
    <2> QED BY <2>6, <2>7
  <1>5. P(n)
    <2> HIDE DEF P
    <2>1. \A k \in Nat : k \in G
      <3> HIDE DEF G
      <3> QED BY <1>3, <1>4, NatSet
    <2> QED BY <1>2, <2>1
  <1>6. Keep(s, S) = f[n] /\ DOMAIN s = 1..n
    BY <1>1
  <1>7. DOMAIN f[n] = 1..Len(f[n])
    BY <1>5
  <1>8. Two(n, i, j)
    <2>1. i \in 1..Len(f[n]) /\ j \in 1..Len(f[n])
      BY <1>6, <1>7
    <2> HIDE DEF Two
    <2> QED BY <1>5, <2>1
  <1> QED BY <1>6, <1>8

\* The elements of S all come first.
LEMMA KeepPrefix ==
    ASSUME NEW T, NEW s \in Seq(T), NEW S, NEW n \in 0..Len(s),
           \A i \in 1..n : s[i] \in S, \A i \in (n + 1)..Len(s) : s[i] \notin S
    PROVE  Keep(s, S) = SubSeq(s, 1, n)
  <1>0. PICK f : Keeping(f, s, S)
    BY KeepSteps
  <1>1. /\ f[0] = <<>> /\ Keep(s, S) = f[Len(s)]
        /\ \A k \in 1..Len(s) :
             f[k] = IF s[k] \in S THEN Append(f[k - 1], s[k]) ELSE f[k - 1]
    BY <1>0 DEF Keeping
  <1> DEFINE l == Len(s)
             P(k) == f[k] = SubSeq(s, 1, IF k <= n THEN k ELSE n)
             G == {k \in Nat : k <= l => P(k)}
  <1>2. l \in Nat /\ n \in Nat /\ n <= l /\ s \in Seq(T)
    OBVIOUS
  <1>3. 0 \in G
    <2>1. SubSeq(s, 1, 0) = <<>>
      BY <1>2
    <2>2. (IF 0 <= n THEN 0 ELSE n) = 0
      BY <1>2
    <2> QED BY <1>1, <2>1, <2>2
  <1>4. ASSUME NEW k \in Nat, k \in G PROVE k + 1 \in G
    <2> HIDE DEF l
    <2> SUFFICES ASSUME k + 1 <= l PROVE P(k + 1)
      BY DEF G
    <2>1. P(k) /\ k + 1 \in 1..l /\ (k + 1) - 1 = k
      BY <1>2, <1>4
    <2>2. f[k + 1] = IF s[k + 1] \in S THEN Append(f[k], s[k + 1]) ELSE f[k]
      BY <1>1, <2>1 DEF l
    <2>3. CASE k + 1 <= n
      <3>1. s[k + 1] \in S /\ k <= n
        BY <2>3
      <3>2. SubSeq(s, 1, k + 1) = Append(SubSeq(s, 1, k), s[k + 1])
        BY <1>2, <2>1 DEF l
      <3> QED BY <2>1, <2>2, <2>3, <3>1, <3>2
    <2>4. CASE ~(k + 1 <= n)
      <3>1. s[k + 1] \notin S
        BY <1>2, <2>1, <2>4 DEF l
      <3>2. (IF k <= n THEN k ELSE n) = n
        BY <1>2, <2>4
      <3> QED BY <2>1, <2>2, <2>4, <3>1, <3>2
    <2> QED BY <2>3, <2>4
  <1>5. P(l)
    <2> HIDE DEF P
    <2>1. \A k \in Nat : k \in G
      <3> HIDE DEF G
      <3> QED BY <1>3, <1>4, NatSet
    <2> QED BY <1>2, <2>1
  <1> QED BY <1>1, <1>2, <1>5

-----------------------------------------------------------------------------
(***************************************************************************)
(* The graphs follow the assignment.                                       *)
(***************************************************************************)
\* The state has its nine fields and every variable a value.
Fields == {"assigns", "decisions", "lazy", "under", "over", "pos", "neg",
           "changed", "requires"}
Shape(h) ==
    /\ h = [f \in Fields |-> h[f]]
    /\ h.assigns \in [Var -> Value]

Follow(h) ==
    /\ h.under = {e \in Edge : h.assigns[e] = "T"}
    /\ h.over = {e \in Edge : h.assigns[e] # "F"}

\* Taking variables off their trail touches neither assignment nor graphs.
LEMMA RemoveFollows ==
    ASSUME NEW h, Shape(h), Follow(h), NEW S
    PROVE Shape(RemoveFromTrail(h, S)) /\ Follow(RemoveFromTrail(h, S))
  BY DEF Fields, Shape, Follow, RemoveFromTrail

\* Nor does putting one on.
LEMMA AppendFollows ==
    ASSUME NEW h, Shape(h), Follow(h), NEW v, NEW lev
    PROVE Shape(AppendToTrail(h, v, lev)) /\ Follow(AppendToTrail(h, v, lev))
  BY DEF Fields, Shape, Follow, AppendToTrail

\* Undoing variables turns exactly their edges back.
LEMMA UndoFollows ==
    ASSUME NEW h, Shape(h), Follow(h), NEW S
    PROVE Shape(Undo(h, S)) /\ Follow(Undo(h, S))
  <1> DEFINE a == UndoEdges(h, S)
             b == UndoProps(a, S)
             c == [b EXCEPT !.assigns = [v \in Var |-> IF v \in S THEN "U" ELSE @[v]]]
  <1>1. /\ a.assigns = h.assigns
        /\ a.under = h.under \ {e \in S : h.assigns[e] # "F"}
        /\ a.over = h.over \cup {e \in S \cap Edge : h.assigns[e] = "F"}
        /\ Shape(a)
    BY DEF Fields, Shape, UndoEdges
  <1>2. b.assigns = a.assigns /\ b.under = a.under /\ b.over = a.over /\ Shape(b)
    <2> HIDE DEF a
    <2> QED BY <1>1 DEF Fields, Shape, UndoProps
  <1>3. /\ c.assigns = [v \in Var |-> IF v \in S THEN "U" ELSE h.assigns[v]]
        /\ c.under = b.under /\ c.over = b.over /\ Shape(c)
    <2>1. "U" \in Value
      BY DEF Value
    <2>2. h.assigns \in [Var -> Value]
      BY DEF Fields, Shape
    <2> HIDE DEF a, b
    <2> QED BY <1>1, <1>2, <2>1, <2>2 DEF Fields, Shape
  <1>4. Follow(c)
    <2>1. Edge \subseteq Var
      BY DEF Var
    <2> HIDE DEF a, b, c
    <2> QED BY <1>1, <1>2, <1>3, <2>1 DEF Follow, Shape, Value
  <1>5. Undo(h, S) = RemoveFromTrail(c, S)
    BY DEF Undo
  <1> HIDE DEF c
  <1> QED BY <1>3, <1>4, <1>5, RemoveFollows

\* Nothing but the assignment and the graphs matters.
LEMMA OtherFields ==
    ASSUME NEW h, Shape(h), Follow(h), NEW d, NEW r, NEW l
    PROVE /\ Shape([h EXCEPT !.decisions = d, !.requires = r])
          /\ Follow([h EXCEPT !.decisions = d, !.requires = r])
          /\ Shape([h EXCEPT !.lazy = l]) /\ Follow([h EXCEPT !.lazy = l])
          /\ Shape([h EXCEPT !.requires = r]) /\ Follow([h EXCEPT !.requires = r])
          /\ Shape([h EXCEPT !.changed = r]) /\ Follow([h EXCEPT !.changed = r])
  BY DEF Fields, Shape, Follow

\* backtrackUntil, to a level or to a literal.
LEMMA BacktrackUntilFollows ==
    ASSUME NEW h, Shape(h), Follow(h), NEW lev
    PROVE Shape(BacktrackUntil(h, lev)) /\ Follow(BacktrackUntil(h, lev))
  <1> DEFINE u == Undo(h, Undone(h, lev))
  <1>1. Shape(u) /\ Follow(u)
    BY UndoFollows
  <1> DEFINE d == SubSeq(u.decisions, 1, IF lev + 1 < Len(u.decisions)
                                          THEN lev + 1 ELSE Len(u.decisions))
             r == u.requires \/ Undone(h, lev) # {}
  <1>2. BacktrackUntil(h, lev) = [u EXCEPT !.decisions = d, !.requires = r]
    BY DEF BacktrackUntil
  <1> HIDE DEF u, d, r
  <1>3. Shape([u EXCEPT !.decisions = d, !.requires = r])
        /\ Follow([u EXCEPT !.decisions = d, !.requires = r])
    BY <1>1, OtherFields
  <1> QED BY <1>2, <1>3

\* Neither does backtracking to a literal.
LEMMA BacktrackBehindFollows ==
    ASSUME NEW h, Shape(h), Follow(h), NEW v, NEW lev
    PROVE Shape(BacktrackBehind(h, v, lev)) /\ Follow(BacktrackBehind(h, v, lev))
  <1> DEFINE k == IF v \in Members(h.lazy) THEN h ELSE BacktrackUntil(h, lev)
             list == IF v \in Members(h.lazy) THEN h.lazy
                     ELSE IF k.decisions = <<>> THEN <<>>
                     ELSE k.decisions[Len(k.decisions)]
             u == Undo(k, Behind(list, v))
  <1>1. Shape(k) /\ Follow(k)
    BY BacktrackUntilFollows
  <1>2. Shape(u) /\ Follow(u)
    <2> HIDE DEF k, list
    <2> QED BY <1>1, UndoFollows
  <1>3. BacktrackBehind(h, v, lev) = [u EXCEPT !.requires = TRUE]
    BY DEF BacktrackBehind
  <1> HIDE DEF u
  <1> QED BY <1>2, <1>3 DEF Fields, Shape, Follow

\* undecideTheory moves variables between trails.
LEMMA UndecideFollows ==
    ASSUME NEW h, Shape(h), Follow(h), NEW s
    PROVE Shape(UndecideTheory(h, s)) /\ Follow(UndecideTheory(h, s))
  <1> DEFINE r == RemoveFromTrail(h, Members(s))
  <1>1. Shape(r) /\ Follow(r)
    BY RemoveFollows
  <1> DEFINE l == s \o r.lazy
  <1>2. UndecideTheory(h, s) = [r EXCEPT !.lazy = l]
    BY DEF UndecideTheory
  <1> HIDE DEF r, l
  <1>3. Shape([r EXCEPT !.lazy = l]) /\ Follow([r EXCEPT !.lazy = l])
    BY <1>1, OtherFields
  <1> QED BY <1>2, <1>3

\* A variable without a value gets one: its edge joins or leaves one graph.
LEMMA SetValueFollows ==
    ASSUME NEW h, Shape(h), Follow(h), NEW v \in Var, NEW b \in BOOLEAN,
           h.assigns[v] = "U"
    PROVE Shape(SetValue(h, v, b)) /\ Follow(SetValue(h, v, b))
  <1> DEFINE s == SetValue(h, v, b)
  <1>1. /\ s.assigns = [h.assigns EXCEPT ![v] = Bool(b)]
        /\ s.under = IF v \in Edge /\ b THEN h.under \cup {v} ELSE h.under
        /\ s.over = IF v \in Edge /\ ~b THEN h.over \ {v} ELSE h.over
        /\ s = [f \in Fields |-> s[f]]
    BY DEF Fields, Shape, SetValue
  <1>2. Bool(b) \in Value /\ (b => Bool(b) = "T") /\ (~b => Bool(b) = "F")
    BY DEF Bool, Value
  <1>3. Edge \subseteq Var /\ h.assigns \in [Var -> Value]
    BY DEF Var, Shape
  <1> HIDE DEF s
  <1>4. Shape(s)
    BY <1>1, <1>2, <1>3 DEF Shape
  <1>5. /\ s.assigns[v] = Bool(b)
        /\ \A e \in Edge : e # v => s.assigns[e] = h.assigns[e]
    BY <1>1, <1>3
  <1>6. /\ \A e : e \in h.under <=> e \in Edge /\ h.assigns[e] = "T"
        /\ \A e : e \in h.over <=> e \in Edge /\ h.assigns[e] # "F"
    BY DEF Follow
  <1>7. ASSUME NEW e PROVE e \in s.under <=> e \in Edge /\ s.assigns[e] = "T"
    BY <1>1, <1>2, <1>5, <1>6, Bool(b) = "T" <=> b DEF Bool
  <1>8. ASSUME NEW e PROVE e \in s.over <=> e \in Edge /\ s.assigns[e] # "F"
    BY <1>1, <1>2, <1>5, <1>6 DEF Bool
  <1>9. Follow(s)
    BY <1>7, <1>8 DEF Follow
  <1> QED BY <1>4, <1>9 DEF s

\* A lazily kept value that the solver has the other way is taken back first.
LEMMA FlipFollows ==
    ASSUME NEW h, Shape(h), Follow(h), NEW v \in Var, NEW b \in BOOLEAN,
           h.assigns[v] # "U", h.assigns[v] # Bool(b)
    PROVE /\ Shape(Flip(h, v, b)) /\ Follow(Flip(h, v, b))
          /\ Flip(h, v, b).assigns[v] = "U"
  <1> DEFINE s == [h EXCEPT !.assigns[v] = "U",
                !.under = IF b THEN @ ELSE @ \ {v},
                !.over = IF b /\ v \in Edge THEN @ \cup {v} ELSE @,
                !.pos = IF v \in Prop /\ b THEN @ + 1 ELSE @,
                !.neg = IF v \in Prop /\ ~b THEN @ + 1 ELSE @,
                !.changed = @ \cup ({v} \cap Prop)]
  <1>1. /\ s.assigns = [h.assigns EXCEPT ![v] = "U"]
        /\ s.under = IF b THEN h.under ELSE h.under \ {v}
        /\ s.over = IF b /\ v \in Edge THEN h.over \cup {v} ELSE h.over
        /\ s = [f \in Fields |-> s[f]]
    BY DEF Fields, Shape
  <1>2. /\ Edge \subseteq Var /\ h.assigns \in [Var -> Value]
        /\ "U" \in Value /\ Bool(b) \in {"T", "F"}
        /\ h.assigns[v] = IF b THEN "F" ELSE "T"
    BY DEF Var, Shape, Bool, Value
  <1>3. Flip(h, v, b) = RemoveFromTrail(s, {v})
    BY DEF Flip
  <1> HIDE DEF s
  <1>4. Shape(s)
    BY <1>1, <1>2 DEF Shape
  <1>5. Follow(s)
    <2>1. CASE b
      BY <1>1, <1>2, <2>1 DEF Follow
    <2>2. CASE ~b
      BY <1>1, <1>2, <2>2 DEF Follow
    <2> QED BY <2>1, <2>2
  <1>6. RemoveFromTrail(s, {v}).assigns[v] = "U"
    BY <1>1, <1>2, <1>4 DEF RemoveFromTrail, Fields, Shape
  <1> QED BY <1>3, <1>4, <1>5, <1>6, RemoveFollows

\* enqueueTheory, in its three cases.
LEMMA EnqueueFollows ==
    ASSUME NEW h, Shape(h), Follow(h), NEW v \in Var, NEW b \in BOOLEAN, NEW lev
    PROVE Shape(EnqueueTheory(h, v, b, lev)) /\ Follow(EnqueueTheory(h, v, b, lev))
  <1>1. CASE h.assigns[v] = Bool(b)
    <2> DEFINE r == RemoveFromTrail(h, {v})
    <2>1. EnqueueTheory(h, v, b, lev) = AppendToTrail(r, v, lev)
      BY <1>1 DEF EnqueueTheory, Bool
    <2>2. Shape(r) /\ Follow(r)
      BY RemoveFollows
    <2> HIDE DEF r
    <2> QED BY <2>1, <2>2, AppendFollows
  <1>2. CASE h.assigns[v] = "U"
    <2> DEFINE s == SetValue(h, v, b)
    <2>1. h.assigns[v] # Bool(b)
      BY <1>2 DEF Bool
    <2>2. EnqueueTheory(h, v, b, lev) = AppendToTrail(s, v, lev)
      BY <1>2, <2>1 DEF EnqueueTheory
    <2>3. Shape(s) /\ Follow(s)
      BY <1>2, SetValueFollows
    <2> HIDE DEF s
    <2> QED BY <2>2, <2>3, AppendFollows
  <1>3. CASE h.assigns[v] # Bool(b) /\ h.assigns[v] # "U"
    <2> DEFINE f == Flip(h, v, b)
               s == SetValue(f, v, b)
    <2>1. EnqueueTheory(h, v, b, lev) = AppendToTrail(s, v, lev)
      BY <1>3 DEF EnqueueTheory
    <2>2. Shape(f) /\ Follow(f) /\ f.assigns[v] = "U"
      BY <1>3, FlipFollows
    <2>3. Shape(s) /\ Follow(s)
      <3> HIDE DEF f
      <3> QED BY <2>2, SetValueFollows
    <2> HIDE DEF s
    <2> QED BY <2>1, <2>3, AppendFollows
  <1> QED BY <1>1, <1>2, <1>3

-----------------------------------------------------------------------------
(***************************************************************************)
(* The trail lists what is assigned, and the counters count it.            *)
(***************************************************************************)
Assigned(h) == {v \in Var : h.assigns[v] # "U"}
Listed(h) == UNION {Members(h.decisions[i]) : i \in DOMAIN h.decisions}

Lists(h) ==
    /\ h.decisions \in Seq(Seq(Var)) /\ Len(h.decisions) >= 1
    /\ h.lazy \in Seq(Var)

Counts(h, D) ==
    /\ h.pos = Cardinality({p \in D : h.assigns[p] # "T"})
    /\ h.neg = Cardinality({p \in D : h.assigns[p] # "F"})

\* D are the property literals the detector knows.
Well(h, D) ==
    /\ Shape(h) /\ Lists(h) /\ Counts(h, D)
    /\ Listed(h) \cup Members(h.lazy) = Assigned(h)
    /\ Listed(h) \cap Members(h.lazy) = {}
    /\ Assigned(h) \subseteq Edge \cup D /\ h.changed \subseteq D

\* A list of variables has variables.
LEMMA ListMembers ==
    ASSUME NEW s \in Seq(Var)
    PROVE  Members(s) \subseteq Var
  BY DEF Members

\* What is left of a list are the others, in their order.
LEMMA WithoutFacts ==
    ASSUME NEW s \in Seq(Var), NEW S
    PROVE  /\ Without(s, S) \in Seq(Var)
           /\ Members(Without(s, S)) = Members(s) \ S
           /\ \A v \in Members(s) \ S : Behind(Without(s, S), v) = Behind(s, v) \ S
           /\ Members(s) \cap S = {} => Without(s, S) = s
           /\ Members(s) \subseteq S => Without(s, S) = <<>>
  <1> DEFINE K == Members(s) \ S
  <1>1. /\ Keep(s, K) \in Seq(Var)
        /\ Members(Keep(s, K)) = Members(s) \cap K
        /\ \A v \in K : Behind(Keep(s, K), v) = Behind(s, v) \cap K
    BY KeepMembers
  <1>2. \A v : Behind(s, v) \subseteq Members(s)
    BY DEF Behind, Members
  <1>3. ASSUME Members(s) \cap S = {} PROVE Keep(s, K) = s
    <2>1. /\ Len(s) \in 0..Len(s)
          /\ \A i \in 1..Len(s) : s[i] \in K
          /\ \A i \in (Len(s) + 1)..Len(s) : s[i] \notin K
      BY <1>3 DEF Members
    <2> HIDE DEF K
    <2>2. Keep(s, K) = SubSeq(s, 1, Len(s))
      BY <2>1, KeepPrefix
    <2> QED BY <2>2
  <1>4. ASSUME Members(s) \subseteq S PROVE Keep(s, K) = <<>>
    <2>1. /\ 0 \in 0..Len(s) /\ \A i \in 1..0 : s[i] \in K
          /\ \A i \in (0 + 1)..Len(s) : s[i] \notin K
      BY <1>4 DEF Members
    <2> HIDE DEF K
    <2>2. Keep(s, K) = SubSeq(s, 1, 0)
      BY <2>1, KeepPrefix
    <2> QED BY <2>2
  <1> QED BY <1>1, <1>2, <1>3, <1>4 DEF Without

\* removeFromTrail.
LEMMA RemoveLists ==
    ASSUME NEW h, Shape(h), Lists(h), NEW S
    PROVE  LET r == RemoveFromTrail(h, S)
           IN /\ Shape(r) /\ Lists(r)
              /\ Listed(r) = Listed(h) \ S
              /\ Members(r.lazy) = Members(h.lazy) \ S
              /\ r.lazy = Without(h.lazy, S)
              /\ DOMAIN r.decisions = DOMAIN h.decisions
              /\ \A i \in DOMAIN h.decisions : r.decisions[i] = Without(h.decisions[i], S)
              /\ r.assigns = h.assigns /\ r.pos = h.pos /\ r.neg = h.neg
              /\ r.changed = h.changed /\ r.under = h.under /\ r.over = h.over
  <1> DEFINE r == RemoveFromTrail(h, S)
             n == Len(h.decisions)
  <1>1. /\ r.lazy = Without(h.lazy, S)
        /\ r.decisions = [i \in DOMAIN h.decisions |-> Without(h.decisions[i], S)]
        /\ r.assigns = h.assigns /\ r.pos = h.pos /\ r.neg = h.neg
        /\ r.changed = h.changed /\ r.under = h.under /\ r.over = h.over
        /\ Shape(r)
    BY DEF Fields, Shape, RemoveFromTrail
  <1> HIDE DEF r
  <1>2. /\ n \in Nat /\ n >= 1 /\ DOMAIN h.decisions = 1..n
        /\ \A i \in 1..n : h.decisions[i] \in Seq(Var)
        /\ h.lazy \in Seq(Var)
    BY DEF Lists
  <1> HIDE DEF n
  <1>3. \A i \in 1..n : /\ r.decisions[i] = Without(h.decisions[i], S)
                        /\ r.decisions[i] \in Seq(Var)
                        /\ Members(r.decisions[i]) = Members(h.decisions[i]) \ S
    BY <1>1, <1>2, WithoutFacts
  <1>4. r.lazy \in Seq(Var) /\ Members(r.lazy) = Members(h.lazy) \ S
    BY <1>1, <1>2, WithoutFacts
  <1>5. DOMAIN r.decisions = 1..n
    BY <1>1, <1>2
  <1>6. r.decisions \in Seq(Seq(Var)) /\ Len(r.decisions) = n
    <2>1. r.decisions = [i \in 1..n |-> r.decisions[i]]
      BY <1>1, <1>2
    <2>2. [i \in 1..n |-> r.decisions[i]] \in Seq(Seq(Var))
      BY <1>2, <1>3
    <2>3. r.decisions \in Seq(Seq(Var))
      BY <2>1, <2>2
    <2> QED BY <1>2, <1>5, <2>3
  <1>7. Listed(r) = Listed(h) \ S
    <2>1. \A x : x \in Listed(r) <=> \E i \in 1..n : x \in Members(r.decisions[i])
      BY <1>5 DEF Listed
    <2>2. \A x : x \in Listed(h) <=> \E i \in 1..n : x \in Members(h.decisions[i])
      BY <1>2 DEF Listed
    <2> QED BY <1>3, <2>1, <2>2
  <1> QED BY <1>1, <1>2, <1>3, <1>4, <1>5, <1>6, <1>7 DEF Lists, r

\* appendToTrail: new levels are empty but for the variable.
LEMMA AppendLists ==
    ASSUME NEW h, Shape(h), Lists(h), NEW v \in Var, NEW lev \in Nat
    PROVE  LET a == AppendToTrail(h, v, lev)
               top == IF lev > TheoryLevel(h) THEN lev + 1 ELSE Len(h.decisions)
           IN /\ Shape(a) /\ Lists(a)
              /\ Listed(a) = Listed(h) \cup {v}
              /\ Len(a.decisions) = top
              /\ \A i \in 1..top :
                   a.decisions[i] =
                     LET l == IF i \in DOMAIN h.decisions THEN h.decisions[i] ELSE <<>>
                     IN IF i = top THEN Append(l, v) ELSE l
              /\ a.lazy = h.lazy
              /\ a.assigns = h.assigns /\ a.pos = h.pos /\ a.neg = h.neg
              /\ a.changed = h.changed /\ a.under = h.under /\ a.over = h.over
  <1> DEFINE a == AppendToTrail(h, v, lev)
             n == Len(h.decisions)
             top == IF lev > TheoryLevel(h) THEN lev + 1 ELSE Len(h.decisions)
             list(i) == IF i \in DOMAIN h.decisions THEN h.decisions[i] ELSE <<>>
  <1>1. /\ a.decisions = [i \in 1..top |-> IF i = top THEN Append(list(i), v) ELSE list(i)]
        /\ a.lazy = h.lazy
        /\ a.assigns = h.assigns /\ a.pos = h.pos /\ a.neg = h.neg
        /\ a.changed = h.changed /\ a.under = h.under /\ a.over = h.over
        /\ Shape(a)
    BY DEF Fields, Shape, AppendToTrail
  <1>2. /\ n \in Nat /\ n >= 1 /\ DOMAIN h.decisions = 1..n
        /\ \A i \in 1..n : h.decisions[i] \in Seq(Var)
        /\ h.lazy \in Seq(Var)
    BY DEF Lists
  <1>3. top \in Nat /\ top >= n
    BY <1>2 DEF TheoryLevel
  <1>4. \A i \in 1..top : list(i) \in Seq(Var)
    BY <1>2
  <1>5. \A x : x \in Listed(h) <=> \E i \in 1..top : x \in Members(list(i))
    <2>1. \A x : x \in Listed(h) <=> \E i \in 1..n : x \in Members(h.decisions[i])
      BY <1>2 DEF Listed
    <2>2. \A i \in 1..n : i \in 1..top /\ list(i) = h.decisions[i]
      BY <1>2, <1>3
    <2>3. \A i \in 1..top : i \notin 1..n => Members(list(i)) = {}
      BY <1>2 DEF Members
    <2> HIDE DEF list, top, n
    <2> QED BY <2>1, <2>2, <2>3
  <1> HIDE DEF a, n, top, list
  <1>6. ASSUME NEW i \in 1..top
        PROVE  /\ a.decisions[i] = IF i = top THEN Append(list(i), v) ELSE list(i)
               /\ a.decisions[i] \in Seq(Var)
               /\ Members(a.decisions[i]) = IF i = top THEN Members(list(i)) \cup {v}
                                            ELSE Members(list(i))
    <2> DEFINE l == list(i)
    <2>1. l \in Seq(Var) /\ a.decisions[i] = IF i = top THEN Append(l, v) ELSE l
      BY <1>1, <1>4
    <2> HIDE DEF l
    <2>2. Append(l, v) \in Seq(Var) /\ Members(Append(l, v)) = Members(l) \cup {v}
      BY <2>1, AppendMembers
    <2> QED BY <2>1, <2>2 DEF l
  <1>7. a.decisions \in Seq(Seq(Var)) /\ Len(a.decisions) = top /\ DOMAIN a.decisions = 1..top
    <2>1. a.decisions = [i \in 1..top |-> a.decisions[i]]
      BY <1>1
    <2>2. \A i \in 1..top : a.decisions[i] \in Seq(Var)
      BY <1>6
    <2>3. [i \in 1..top |-> a.decisions[i]] \in Seq(Seq(Var))
      BY <1>3, <2>2
    <2>4. a.decisions \in Seq(Seq(Var))
      BY <2>1, <2>3
    <2> QED BY <1>1, <1>3, <2>4
  <1>8. Listed(a) = Listed(h) \cup {v}
    <2>1. \A x : x \in Listed(a) <=> \E i \in 1..top : x \in Members(a.decisions[i])
      BY <1>7 DEF Listed
    <2>2. top \in 1..top
      BY <1>2, <1>3
    <2> QED BY <1>5, <1>6, <2>1, <2>2
  <1>9. Lists(a)
    BY <1>1, <1>2, <1>3, <1>7 DEF Lists
  <1> QED BY <1>1, <1>6, <1>7, <1>8, <1>9 DEF a, top, list

\* backtrackAssign, for assigned variables: they leave their lists, and the
\* counters count those among them that are property literals.
Undoes(u, h, D, S) ==
    /\ Well(u, D)
    /\ \A v \in Var : u.assigns[v] = IF v \in S THEN "U" ELSE h.assigns[v]
    /\ Listed(u) = Listed(h) \ S
    /\ u.lazy = Without(h.lazy, S)
    /\ DOMAIN u.decisions = DOMAIN h.decisions
    /\ \A i \in DOMAIN h.decisions : u.decisions[i] = Without(h.decisions[i], S)

\* Lists, counters and assignment still agree after that,
LEMMA UndoWell ==
    ASSUME NEW D \in SUBSET Prop, NEW h, Well(h, D), NEW S, S \subseteq Assigned(h)
    PROVE  Undoes(Undo(h, S), h, D, S)
  <1> DEFINE e == UndoEdges(h, S)
             q == UndoProps(e, S)
             c == [q EXCEPT !.assigns = [v \in Var |-> IF v \in S THEN "U" ELSE @[v]]]
             u == Undo(h, S)
             val(v) == IF v \in S THEN "U" ELSE h.assigns[v]
  <1>1. /\ e.assigns = h.assigns /\ e.decisions = h.decisions /\ e.lazy = h.lazy
        /\ e.pos = h.pos /\ e.neg = h.neg /\ e.changed = h.changed /\ Shape(e)
    BY DEF Fields, Shape, UndoEdges, Well
  <1>2. /\ q.assigns = h.assigns /\ q.decisions = h.decisions /\ q.lazy = h.lazy
        /\ q.pos = h.pos + Cardinality({p \in S \cap Prop : h.assigns[p] # "F"})
        /\ q.neg = h.neg + Cardinality({p \in S \cap Prop : h.assigns[p] = "F"})
        /\ q.changed = h.changed \cup (S \cap Prop) /\ Shape(q)
    <2> HIDE DEF e
    <2> QED BY <1>1 DEF Fields, Shape, UndoProps
  <1>3. /\ c.assigns = [v \in Var |-> val(v)]
        /\ c.decisions = h.decisions /\ c.lazy = h.lazy
        /\ c.pos = q.pos /\ c.neg = q.neg /\ c.changed = q.changed
        /\ Shape(c)
    <2>1. "U" \in Value /\ h.assigns \in [Var -> Value]
      BY DEF Value, Well, Shape
    <2> HIDE DEF e, q
    <2> QED BY <1>2, <2>1 DEF Fields, Shape
  <1> HIDE DEF e, q, c
  <1>4. u = RemoveFromTrail(c, S)
    BY DEF Undo, c, q, e
  <1>5. Shape(c) /\ Lists(c)
    BY <1>3 DEF Lists, Well
  <1>6. Listed(c) = Listed(h)
    BY <1>3 DEF Listed
  <1>7. /\ Shape(u) /\ Lists(u)
        /\ Listed(u) = Listed(h) \ S
        /\ Members(u.lazy) = Members(h.lazy) \ S
        /\ u.lazy = Without(h.lazy, S)
        /\ DOMAIN u.decisions = DOMAIN h.decisions
        /\ \A i \in DOMAIN h.decisions : u.decisions[i] = Without(h.decisions[i], S)
        /\ u.assigns = c.assigns /\ u.pos = q.pos /\ u.neg = q.neg
        /\ u.changed = q.changed
    BY <1>3, <1>4, <1>5, <1>6, RemoveLists
  <1> HIDE DEF u
  <1>8. \A v \in Var : u.assigns[v] = val(v)
    BY <1>3, <1>7
  <1>9. Assigned(u) = Assigned(h) \ S
    BY <1>8 DEF Assigned
  <1>10. /\ S \cap Prop \subseteq D /\ D \subseteq Var
         /\ \A p \in D : h.assigns[p] \in {"T", "F", "U"}
         /\ \A p \in S : h.assigns[p] # "U"
    BY GraphTrailAssumption DEF Well, Assigned, Shape, Var, Value
  <1>11. Counts(u, D)
    <2>1. IsFiniteSet(D)
      BY GraphTrailAssumption, FS_Subset
    <2> DEFINE A == {p \in D : h.assigns[p] # "T"}
               B == {p \in S \cap Prop : h.assigns[p] # "F"}
               E == {p \in D : h.assigns[p] # "F"}
               F == {p \in S \cap Prop : h.assigns[p] = "F"}
    <2>2. IsFiniteSet(A) /\ IsFiniteSet(B) /\ IsFiniteSet(E) /\ IsFiniteSet(F)
      BY <1>10, <2>1, FS_Subset
    <2>3. /\ A \cap B = {} /\ E \cap F = {}
          /\ {p \in D : u.assigns[p] # "T"} = A \cup B
          /\ {p \in D : u.assigns[p] # "F"} = E \cup F
      BY <1>8, <1>10
    <2> HIDE DEF A, B, E, F
    <2>4. /\ Cardinality(A \cup B) = Cardinality(A) + Cardinality(B) - Cardinality({})
          /\ Cardinality(E \cup F) = Cardinality(E) + Cardinality(F) - Cardinality({})
      BY <2>2, <2>3, FS_Union
    <2>5. /\ Cardinality(A) \in Nat /\ Cardinality(B) \in Nat
          /\ Cardinality(E) \in Nat /\ Cardinality(F) \in Nat /\ Cardinality({}) = 0
      BY <2>2, FS_CardinalityType, FS_EmptySet
    <2>6. u.pos = Cardinality(A) + Cardinality(B) /\ u.neg = Cardinality(E) + Cardinality(F)
      BY <1>2, <1>7 DEF Well, Counts, A, B, E, F
    <2>7. u.pos = Cardinality(A \cup B) /\ u.neg = Cardinality(E \cup F)
      BY <2>4, <2>5, <2>6
    <2> QED BY <2>3, <2>7 DEF Counts
  <1>12. u.changed \subseteq D
    BY <1>2, <1>7, <1>10 DEF Well
  <1>13. Well(u, D)
    BY <1>7, <1>9, <1>11, <1>12 DEF Well
  <1> QED BY <1>7, <1>8, <1>13 DEF u, Undoes

\* backtrackUntil(int): the levels above are gone, and all of the lazy trail.
BacktracksUntil(b, h, D, lev) ==
    LET top == IF lev + 1 < Len(h.decisions) THEN lev + 1 ELSE Len(h.decisions)
    IN /\ Well(b, D)
       /\ \A v \in Var : b.assigns[v] = IF v \in Undone(h, lev) THEN "U" ELSE h.assigns[v]
       /\ Listed(b) = Listed(h) \ Undone(h, lev)
       /\ b.lazy = <<>>
       /\ Len(b.decisions) = top
       /\ \A i \in 1..top : b.decisions[i] = Without(h.decisions[i], Undone(h, lev))

\* and here,
LEMMA BacktrackUntilWell ==
    ASSUME NEW D \in SUBSET Prop, NEW h, Well(h, D), NEW lev \in Nat
    PROVE  BacktracksUntil(BacktrackUntil(h, lev), h, D, lev)
  <1> DEFINE b == BacktrackUntil(h, lev)
             S == Undone(h, lev)
             u == Undo(h, S)
             n == Len(h.decisions)
             top == IF lev + 1 < n THEN lev + 1 ELSE n
             d == SubSeq(u.decisions, 1, IF lev + 1 < Len(u.decisions)
                                          THEN lev + 1 ELSE Len(u.decisions))
             r == u.requires \/ Undone(h, lev) # {}
  <1>1. S \subseteq Listed(h) \cup Members(h.lazy)
    BY DEF Undone, Above, Listed
  <1>2. /\ Well(u, D)
        /\ \A v \in Var : u.assigns[v] = IF v \in S THEN "U" ELSE h.assigns[v]
        /\ Listed(u) = Listed(h) \ S
        /\ u.lazy = Without(h.lazy, S)
        /\ DOMAIN u.decisions = DOMAIN h.decisions
        /\ \A i \in DOMAIN h.decisions : u.decisions[i] = Without(h.decisions[i], S)
    <2> HIDE DEF S
    <2>1. S \subseteq Assigned(h)
      BY <1>1 DEF Well
    <2>2. Undoes(u, h, D, S)
      BY <2>1, UndoWell
    <2> QED BY <2>2 DEF Undoes
  <1>3. /\ b = [u EXCEPT !.decisions = d, !.requires = r]
        /\ u = [f \in Fields |-> u[f]]
    BY <1>2 DEF BacktrackUntil, Well, Shape
  <1>4. S = Undone(h, lev)
    OBVIOUS
  <1> HIDE DEF u, b, S, d, r
  <1>5. /\ b.decisions = d /\ b.lazy = u.lazy /\ b.assigns = u.assigns
        /\ b.pos = u.pos /\ b.neg = u.neg /\ b.changed = u.changed /\ Shape(b)
    <2>1. u.assigns \in [Var -> Value]
      BY <1>2 DEF Well, Shape
    <2> QED BY <1>3, <2>1 DEF Fields, Shape
  <1>6. /\ n \in Nat /\ n >= 1 /\ DOMAIN h.decisions = 1..n
        /\ u.decisions \in Seq(Seq(Var)) /\ Len(u.decisions) = n
        /\ u.lazy \in Seq(Var) /\ h.lazy \in Seq(Var)
        /\ \A i \in 1..n : h.decisions[i] \in Seq(Var)
    <2>1. n \in Nat /\ n >= 1 /\ DOMAIN h.decisions = 1..n /\ h.decisions \in Seq(Seq(Var))
          /\ h.lazy \in Seq(Var)
      BY DEF Well, Lists
    <2>2. u.decisions \in Seq(Seq(Var)) /\ u.lazy \in Seq(Var)
      BY <1>2 DEF Well, Lists
    <2>3. Len(u.decisions) = n
      BY <1>2, <2>1, <2>2
    <2> QED BY <2>1, <2>2, <2>3
  <1> HIDE DEF n
  <1>7. top \in 1..n /\ d = SubSeq(u.decisions, 1, top)
    BY <1>6 DEF d
  <1>8. /\ d \in Seq(Seq(Var)) /\ Len(d) = top /\ DOMAIN d = 1..top
        /\ \A i \in 1..top : d[i] = u.decisions[i] /\ i \in 1..n
    <2> HIDE DEF top
    <2> QED BY <1>6, <1>7
  <1>9. \A i \in 1..top : d[i] = Without(h.decisions[i], S)
    BY <1>2, <1>6, <1>8
  <1>10. Listed(b) = Listed(u)
    <2>1. ASSUME NEW i \in 1..n, i \notin 1..top PROVE Members(u.decisions[i]) = {}
      <3>1. i > lev + 1
        BY <1>6, <1>7, <2>1
      <3>2. Members(h.decisions[i]) \subseteq S
        BY <1>4, <1>6, <3>1 DEF Undone, Above
      <3>3. Without(h.decisions[i], S) = <<>>
        BY <1>6, <3>2, WithoutFacts
      <3>4. u.decisions[i] = <<>>
        BY <1>2, <1>6, <3>3
      <3> QED BY <3>4 DEF Members
    <2>2. \A x : x \in Listed(u) <=> \E i \in 1..n : x \in Members(u.decisions[i])
      BY <1>2, <1>6 DEF Listed
    <2>3. \A x : x \in Listed(b) <=> \E i \in 1..top : x \in Members(u.decisions[i])
      BY <1>5, <1>8 DEF Listed
    <2> HIDE DEF top
    <2> QED BY <1>7, <1>8, <2>1, <2>2, <2>3
  <1>11. b.lazy = <<>>
    <2>1. Members(h.lazy) \subseteq S
      BY <1>4 DEF Undone
    <2> QED BY <1>2, <1>5, <1>6, <2>1, WithoutFacts
  <1>12. Well(b, D)
    <2>1. Assigned(b) = Assigned(u) /\ Counts(b, D) /\ Members(b.lazy) = Members(u.lazy)
      BY <1>2, <1>5 DEF Assigned, Counts, Well
    <2>2. Lists(b)
      BY <1>5, <1>6, <1>7, <1>8 DEF Lists
    <2> QED BY <1>2, <1>5, <1>10, <2>1, <2>2 DEF Well
  <1> QED BY <1>2, <1>4, <1>5, <1>8, <1>9, <1>10, <1>11, <1>12 DEF n, b, BacktracksUntil

\* undecideTheory: the variables are still assigned, but lazily.
LEMMA UndecideWell ==
    ASSUME NEW D \in SUBSET Prop, NEW h, Well(h, D),
           NEW s \in Seq(Var), Members(s) \subseteq Listed(h)
    PROVE  LET u == UndecideTheory(h, s)
           IN /\ Well(u, D)
              /\ u.assigns = h.assigns /\ Listed(u) = Listed(h) \ Members(s)
  <1> DEFINE r == RemoveFromTrail(h, Members(s))
             u == UndecideTheory(h, s)
  <1>1. /\ Shape(r) /\ Lists(r)
        /\ Listed(r) = Listed(h) \ Members(s)
        /\ Members(r.lazy) = Members(h.lazy) \ Members(s)
        /\ r.assigns = h.assigns /\ r.pos = h.pos /\ r.neg = h.neg
        /\ r.changed = h.changed
    BY RemoveLists DEF Well
  <1>2. u = [r EXCEPT !.lazy = s \o @]
    BY DEF UndecideTheory
  <1> HIDE DEF r, u
  <1>3. /\ u.lazy = s \o r.lazy /\ u.decisions = r.decisions /\ u.assigns = r.assigns
        /\ u.pos = r.pos /\ u.neg = r.neg /\ u.changed = r.changed /\ Shape(u)
    BY <1>1, <1>2 DEF Fields, Shape
  <1>4. u.lazy \in Seq(Var) /\ Members(u.lazy) = Members(s) \cup Members(r.lazy)
    <2>1. r.lazy \in Seq(Var)
      BY <1>1 DEF Lists
    <2> DEFINE l == r.lazy
    <2>2. l \in Seq(Var)
      BY <2>1
    <2> HIDE DEF l
    <2>3. Range(s \o l) = Range(s) \cup Range(l) /\ s \o l \in Seq(Var)
      BY <2>2, RangeConcatenation
    <2> QED BY <1>3, <2>3 DEF Members, Range, l
  <1>5. Listed(u) = Listed(r) /\ Assigned(u) = Assigned(h)
    BY <1>1, <1>3 DEF Listed, Assigned
  <1>6. Lists(u)
    BY <1>1, <1>3, <1>4 DEF Lists
  <1>7. Well(u, D)
    BY <1>1, <1>3, <1>4, <1>5, <1>6 DEF Well, Counts
  <1> QED BY <1>1, <1>3, <1>5, <1>7 DEF u

\* backtrackUntil(Lit), without a lazy trail: what is behind the variable on the
\* last level that is left goes, too.
BacktracksBehind(b, k, D, v) ==
    LET B == Behind(k.decisions[Len(k.decisions)], v)
    IN /\ Well(b, D)
       /\ \A x \in Var : b.assigns[x] = IF x \in B THEN "U" ELSE k.assigns[x]
       /\ b.lazy = <<>>
       /\ Len(b.decisions) = Len(k.decisions)
       /\ \A i \in 1..Len(k.decisions) : b.decisions[i] = Without(k.decisions[i], B)

\* and here.
LEMMA BacktrackBehindWell ==
    ASSUME NEW D \in SUBSET Prop, NEW h, Well(h, D), h.lazy = <<>>, NEW v, NEW lev \in Nat
    PROVE  BacktracksBehind(BacktrackBehind(h, v, lev), BacktrackUntil(h, lev), D, v)
  <1> DEFINE b == BacktrackBehind(h, v, lev)
             k == BacktrackUntil(h, lev)
             B == Behind(k.decisions[Len(k.decisions)], v)
             u == Undo(k, B)
             n == Len(k.decisions)
  <1>1. Well(k, D) /\ k.lazy = <<>>
    BY BacktrackUntilWell DEF BacktracksUntil
  <1>2. b = [u EXCEPT !.requires = TRUE]
    <2>1. v \notin Members(h.lazy)
      BY DEF Members
    <2>2. k.decisions # <<>>
      <3> HIDE DEF k
      <3> QED BY <1>1 DEF Well, Lists
    <2> HIDE DEF k
    <2> QED BY <2>1, <2>2 DEF BacktrackBehind, k
  <1> HIDE DEF k
  <1>3. n \in Nat /\ n >= 1 /\ k.decisions \in Seq(Seq(Var)) /\ DOMAIN k.decisions = 1..n
    BY <1>1 DEF Well, Lists
  <1>4. B \subseteq Assigned(k)
    <2>1. B \subseteq Members(k.decisions[n])
      BY DEF Behind, Members
    <2>2. Members(k.decisions[n]) \subseteq Listed(k)
      BY <1>3 DEF Listed
    <2> QED BY <1>1, <2>1, <2>2 DEF Well
  <1> HIDE DEF B
  <1>5. /\ Well(u, D)
        /\ \A x \in Var : u.assigns[x] = IF x \in B THEN "U" ELSE k.assigns[x]
        /\ u.lazy = Without(k.lazy, B)
        /\ DOMAIN u.decisions = DOMAIN k.decisions
        /\ \A i \in DOMAIN k.decisions : u.decisions[i] = Without(k.decisions[i], B)
    <2>1. Undoes(u, k, D, B)
      BY <1>1, <1>4, UndoWell
    <2> QED BY <2>1 DEF Undoes
  <1> HIDE DEF u, b
  <1>6. /\ b.decisions = u.decisions /\ b.lazy = u.lazy /\ b.assigns = u.assigns
        /\ b.pos = u.pos /\ b.neg = u.neg /\ b.changed = u.changed /\ Shape(b)
    BY <1>2, <1>5 DEF Fields, Well, Shape
  <1>7. Well(b, D)
    BY <1>5, <1>6 DEF Well, Lists, Counts, Listed, Assigned
  <1>8. u.lazy = <<>>
    <2>1. <<>> \in Seq(Var) /\ Members(<<>>) \subseteq B
      BY DEF Members
    <2> QED BY <1>1, <1>5, <2>1, WithoutFacts
  <1>9. Len(u.decisions) = n
    <2>1. u.decisions \in Seq(Seq(Var))
      BY <1>5 DEF Well, Lists
    <2> QED BY <1>3, <1>5, <2>1
  <1> HIDE DEF n
  <1>10. \A i \in 1..n : b.decisions[i] = Without(k.decisions[i], B)
    BY <1>3, <1>5, <1>6
  <1> QED BY <1>5, <1>6, <1>7, <1>8, <1>9, <1>10 DEF b, k, B, n, BacktracksBehind

\* A variable without a value gets one.
Sets(s, h, D, v, b) ==
    /\ Shape(s) /\ Lists(s) /\ Counts(s, D)
    /\ s.assigns = [h.assigns EXCEPT ![v] = Bool(b)]
    /\ s.lazy = h.lazy /\ s.decisions = h.decisions /\ s.changed = h.changed

\* A first value is counted.
LEMMA SetValueWell ==
    ASSUME NEW D \in SUBSET Prop, NEW h, Shape(h), Lists(h), Counts(h, D),
           NEW v \in Edge \cup D, NEW b \in BOOLEAN, h.assigns[v] = "U"
    PROVE  Sets(SetValue(h, v, b), h, D, v, b)
  <1> DEFINE s == SetValue(h, v, b)
  <1>1. /\ s.assigns = [h.assigns EXCEPT ![v] = Bool(b)]
        /\ s.lazy = h.lazy /\ s.decisions = h.decisions /\ s.changed = h.changed
        /\ s.pos = IF v \in Prop /\ b THEN h.pos - 1 ELSE h.pos
        /\ s.neg = IF v \in Prop /\ ~b THEN h.neg - 1 ELSE h.neg
        /\ s = [f \in Fields |-> s[f]]
    BY DEF Fields, Shape, SetValue
  <1>2. /\ v \in Var /\ D \subseteq Var /\ h.assigns \in [Var -> Value]
        /\ Bool(b) \in Value /\ Bool(b) = IF b THEN "T" ELSE "F"
        /\ v \in Prop => v \in D
    BY GraphTrailAssumption DEF Shape, Var, Value, Bool
  <1> HIDE DEF s
  <1>3. Shape(s) /\ Lists(s)
    BY <1>1, <1>2 DEF Shape, Lists
  <1>4. s.assigns[v] = Bool(b) /\ \A x \in Var : x # v => s.assigns[x] = h.assigns[x]
    BY <1>1, <1>2
  <1>5. Counts(s, D)
    <2> DEFINE A == {p \in D : h.assigns[p] # "T"}
               E == {p \in D : h.assigns[p] # "F"}
    <2>1. IsFiniteSet(A) /\ IsFiniteSet(E)
      <3>1. IsFiniteSet(D)
        BY GraphTrailAssumption, FS_Subset
      <3> QED BY <3>1, FS_Subset
    <2>2. h.pos = Cardinality(A) /\ h.neg = Cardinality(E)
      BY DEF Counts
    <2>3. v \in Prop => v \in A /\ v \in E
      BY <1>2
    <2>4. /\ {p \in D : s.assigns[p] # "T"} = IF v \in Prop /\ b THEN A \ {v} ELSE A
          /\ {p \in D : s.assigns[p] # "F"} = IF v \in Prop /\ ~b THEN E \ {v} ELSE E
      BY <1>2, <1>4
    <2> HIDE DEF A, E
    <2>5. /\ v \in Prop => Cardinality(A \ {v}) = Cardinality(A) - 1
          /\ v \in Prop => Cardinality(E \ {v}) = Cardinality(E) - 1
      BY <2>1, <2>3, FS_RemoveElement
    <2>6. CASE v \in Prop /\ b
      BY <1>1, <2>2, <2>4, <2>5, <2>6 DEF Counts
    <2>7. CASE v \in Prop /\ ~b
      BY <1>1, <2>2, <2>4, <2>5, <2>7 DEF Counts
    <2>8. CASE v \notin Prop
      BY <1>1, <2>2, <2>4, <2>8 DEF Counts
    <2> QED BY <2>6, <2>7, <2>8
  <1> QED BY <1>1, <1>3, <1>5 DEF s, Sets

\* An edge with the other value loses it, and its place on the lazy trail.
Flips(f, h, D, v) ==
    /\ Shape(f) /\ Lists(f) /\ Counts(f, D)
    /\ f.assigns = [h.assigns EXCEPT ![v] = "U"]
    /\ Listed(f) = Listed(h) \ {v}
    /\ Members(f.lazy) = Members(h.lazy) \ {v}
    /\ f.changed = h.changed

\* A turned edge is not counted.
LEMMA FlipWell ==
    ASSUME NEW D \in SUBSET Prop, NEW h, Shape(h), Lists(h), Counts(h, D),
           NEW v \in Edge, NEW b \in BOOLEAN
    PROVE  Flips(Flip(h, v, b), h, D, v)
  <1> DEFINE s == [h EXCEPT !.assigns[v] = "U",
                !.under = IF b THEN @ ELSE @ \ {v},
                !.over = IF b /\ v \in Edge THEN @ \cup {v} ELSE @,
                !.pos = IF v \in Prop /\ b THEN @ + 1 ELSE @,
                !.neg = IF v \in Prop /\ ~b THEN @ + 1 ELSE @,
                !.changed = @ \cup ({v} \cap Prop)]
             f == Flip(h, v, b)
  <1>1. v \notin Prop /\ v \in Var /\ D \subseteq Var
    BY GraphTrailAssumption DEF Var
  <1>2. /\ s.assigns = [h.assigns EXCEPT ![v] = "U"]
        /\ s.lazy = h.lazy /\ s.decisions = h.decisions
        /\ s.changed = h.changed /\ s.pos = h.pos /\ s.neg = h.neg
        /\ s = [x \in Fields |-> s[x]]
    BY <1>1 DEF Fields, Shape
  <1>3. f = RemoveFromTrail(s, {v})
    BY DEF Flip
  <1>4. h.assigns \in [Var -> Value] /\ "U" \in Value
    BY DEF Shape, Value
  <1> HIDE DEF s, f
  <1>5. Shape(s) /\ Lists(s) /\ Listed(s) = Listed(h)
    BY <1>1, <1>2, <1>4 DEF Shape, Lists, Listed
  <1>6. \A p \in D : s.assigns[p] = h.assigns[p]
    BY <1>1, <1>2, <1>4
  <1>7. Counts(s, D)
    <2>1. /\ {p \in D : s.assigns[p] # "T"} = {p \in D : h.assigns[p] # "T"}
          /\ {p \in D : s.assigns[p] # "F"} = {p \in D : h.assigns[p] # "F"}
      BY <1>6
    <2> QED BY <1>2, <2>1 DEF Counts
  <1> DEFINE S == {v}
             r == RemoveFromTrail(s, S)
  <1>8. /\ Shape(r) /\ Lists(r) /\ Listed(r) = Listed(s) \ S
        /\ Members(r.lazy) = Members(s.lazy) \ S
        /\ r.assigns = s.assigns /\ r.pos = s.pos /\ r.neg = s.neg /\ r.changed = s.changed
    <2> HIDE DEF S
    <2> QED BY <1>5, RemoveLists
  <1>9. f = r
    BY <1>3
  <1> HIDE DEF r
  <1> QED BY <1>2, <1>5, <1>7, <1>8, <1>9 DEF Counts, f, Flips

\* enqueueTheory.  A property literal never turns: it is unassigned or has the
\* value already.
Enqueues(e, h, D, v, b, lev) ==
    /\ Well(e, D)
    /\ e.assigns = [h.assigns EXCEPT ![v] = Bool(b)]
    /\ Listed(e) = Listed(h) \cup {v}
    /\ h.assigns[v] = "U" => /\ e.lazy = h.lazy
                             /\ e.decisions = AppendToTrail(h, v, lev).decisions

\* Lists, counters and assignment agree in all three cases.
LEMMA EnqueueWell ==
    ASSUME NEW D \in SUBSET Prop, NEW h, Well(h, D),
           NEW v \in Edge \cup D, NEW b \in BOOLEAN, NEW lev \in Nat,
           v \in Prop => h.assigns[v] \in {"U", Bool(b)}
    PROVE  Enqueues(EnqueueTheory(h, v, b, lev), h, D, v, b, lev)
  <1> DEFINE e == EnqueueTheory(h, v, b, lev)
  <1>1. /\ v \in Var /\ h.assigns \in [Var -> Value]
        /\ Bool(b) \in Value /\ Bool(b) # "U"
    BY DEF Well, Shape, Var, Value, Bool
  <1>2. ASSUME NEW s, Shape(s), Lists(s), Counts(s, D),
               s.assigns = [h.assigns EXCEPT ![v] = Bool(b)],
               Listed(s) \ {v} = Listed(h) \ {v},
               Members(s.lazy) = Members(h.lazy) \ {v},
               s.changed = h.changed,
               e = AppendToTrail(s, v, lev)
        PROVE  /\ Well(e, D)
               /\ e.assigns = [h.assigns EXCEPT ![v] = Bool(b)]
               /\ Listed(e) = Listed(h) \cup {v}
               /\ e.lazy = s.lazy
    <2> HIDE DEF e
    <2>1. /\ Shape(e) /\ Lists(e) /\ Listed(e) = Listed(s) \cup {v}
          /\ e.lazy = s.lazy /\ e.assigns = s.assigns /\ e.pos = s.pos /\ e.neg = s.neg
          /\ e.changed = s.changed
      BY <1>1, <1>2, AppendLists
    <2>2. Listed(e) = Listed(h) \cup {v}
      BY <1>2, <2>1
    <2>3. Assigned(e) = Assigned(h) \cup {v}
      BY <1>1, <1>2, <2>1 DEF Assigned
    <2>4. Counts(e, D)
      BY <1>2, <2>1 DEF Counts
    <2>5. /\ Listed(e) \cup Members(e.lazy) = Assigned(e)
          /\ Listed(e) \cap Members(e.lazy) = {}
          /\ Assigned(e) \subseteq Edge \cup D /\ e.changed \subseteq D
      BY <1>2, <2>1, <2>2, <2>3 DEF Well
    <2> QED BY <1>2, <2>1, <2>2, <2>4, <2>5 DEF Well
  <1>3. CASE h.assigns[v] = Bool(b)
    <2> DEFINE S == {v}
               r == RemoveFromTrail(h, S)
    <2>1. /\ Shape(r) /\ Lists(r) /\ Listed(r) = Listed(h) \ S
          /\ Members(r.lazy) = Members(h.lazy) \ S
          /\ r.assigns = h.assigns /\ r.pos = h.pos /\ r.neg = h.neg /\ r.changed = h.changed
      <3> HIDE DEF S
      <3> QED BY RemoveLists DEF Well
    <2>2. e = AppendToTrail(r, v, lev)
      BY <1>1, <1>3 DEF EnqueueTheory
    <2> HIDE DEF r, e
    <2>3. r.assigns = [h.assigns EXCEPT ![v] = Bool(b)]
      BY <1>1, <1>3, <2>1
    <2>4. Counts(r, D)
      BY <2>1 DEF Counts, Well
    <2>5. h.assigns[v] # "U" /\ Listed(r) \ {v} = Listed(h) \ {v}
      BY <1>1, <1>3, <2>1
    <2>6. /\ Well(e, D)
          /\ e.assigns = [h.assigns EXCEPT ![v] = Bool(b)]
          /\ Listed(e) = Listed(h) \cup {v}
      BY <1>2, <2>1, <2>2, <2>3, <2>4, <2>5
    <2> QED BY <2>5, <2>6 DEF e, Enqueues
  <1>4. CASE h.assigns[v] = "U"
    <2> DEFINE s == SetValue(h, v, b)
    <2>1. /\ Shape(s) /\ Lists(s) /\ Counts(s, D)
          /\ s.assigns = [h.assigns EXCEPT ![v] = Bool(b)]
          /\ s.lazy = h.lazy /\ s.decisions = h.decisions /\ s.changed = h.changed
      <3>1. Shape(h) /\ Lists(h) /\ Counts(h, D)
        BY DEF Well
      <3>2. Sets(s, h, D, v, b)
        BY <1>4, <3>1, SetValueWell
      <3> QED BY <3>2 DEF Sets
    <2>2. e = AppendToTrail(s, v, lev)
      BY <1>1, <1>4 DEF EnqueueTheory
    <2> HIDE DEF s, e
    <2>3. Listed(s) = Listed(h)
      BY <2>1 DEF Listed
    <2>4. v \notin Members(h.lazy)
      BY <1>4 DEF Well, Assigned
    <2>5. /\ Well(e, D)
          /\ e.assigns = [h.assigns EXCEPT ![v] = Bool(b)]
          /\ Listed(e) = Listed(h) \cup {v} /\ e.lazy = s.lazy
      BY <1>2, <2>1, <2>2, <2>3, <2>4
    <2>6. e.decisions = AppendToTrail(h, v, lev).decisions
      <3>1. h = [f \in Fields |-> h[f]] /\ s = [f \in Fields |-> s[f]]
        BY <2>1 DEF Well, Shape
      <3> QED BY <2>1, <2>2, <3>1 DEF AppendToTrail, TheoryLevel, Fields
    <2> QED BY <2>1, <2>5, <2>6 DEF e, Enqueues
  <1>5. CASE h.assigns[v] # Bool(b) /\ h.assigns[v] # "U"
    <2> DEFINE f == Flip(h, v, b)
               s == SetValue(f, v, b)
    <2>1. v \in Edge /\ Shape(h) /\ Lists(h) /\ Counts(h, D)
      BY <1>5, GraphTrailAssumption DEF Well
    <2> HIDE DEF s, e
    <2>2. /\ Shape(f) /\ Lists(f) /\ Counts(f, D)
          /\ f.assigns = [h.assigns EXCEPT ![v] = "U"]
          /\ Listed(f) = Listed(h) \ {v}
          /\ Members(f.lazy) = Members(h.lazy) \ {v}
          /\ f.changed = h.changed
      <3>1. Flips(f, h, D, v)
        BY <2>1, FlipWell
      <3> QED BY <3>1 DEF Flips
    <2>3. e = AppendToTrail(s, v, lev)
      BY <1>5 DEF EnqueueTheory, e, s
    <2> HIDE DEF f
    <2>4. f.assigns[v] = "U"
      BY <1>1, <2>2
    <2>5. /\ Shape(s) /\ Lists(s) /\ Counts(s, D)
          /\ s.assigns = [f.assigns EXCEPT ![v] = Bool(b)]
          /\ s.lazy = f.lazy /\ s.decisions = f.decisions /\ s.changed = f.changed
      <3>1. Shape(f) /\ Lists(f) /\ Counts(f, D)
        BY <2>2
      <3>2. Sets(s, f, D, v, b)
        BY <2>4, <3>1, SetValueWell DEF s
      <3> QED BY <3>2 DEF Sets
    <2>6. s.assigns = [h.assigns EXCEPT ![v] = Bool(b)]
      BY <1>1, <2>2, <2>5
    <2>7. Listed(s) = Listed(f)
      BY <2>5 DEF Listed
    <2>8. Listed(s) \ {v} = Listed(h) \ {v} /\ Members(s.lazy) = Members(h.lazy) \ {v}
          /\ s.changed = h.changed
      BY <2>2, <2>5, <2>7
    <2>9. /\ Well(e, D)
          /\ e.assigns = [h.assigns EXCEPT ![v] = Bool(b)]
          /\ Listed(e) = Listed(h) \cup {v}
      BY <1>2, <2>3, <2>5, <2>6, <2>8
    <2> QED BY <1>5, <2>9 DEF e, Enqueues
  <1> QED BY <1>3, <1>4, <1>5

-----------------------------------------------------------------------------
(***************************************************************************)
(* What is looked at again, and what wakes the theory.                     *)
(***************************************************************************)
\* A literal that is unassigned, on the way from h to f, is looked at again; and
\* a theory that need not propagate, f, has what it had.
Looked(f, h) ==
    \A p \in Prop : p \notin f.changed =>
        p \notin h.changed /\ h.assigns[p] \in {"U", f.assigns[p]}
Wakes(f, h) == ~f.requires => ~h.requires /\ f.assigns = h.assigns

\* Lists of the trail have no part in that.
Agreeing(f, h) ==
    f.assigns = h.assigns /\ f.changed = h.changed /\ f.requires = h.requires

\* Then it is as before.
LEMMA AgreeingMarks ==
    ASSUME NEW f, NEW h, Agreeing(f, h)
    PROVE  Looked(f, h) /\ Wakes(f, h)
  BY DEF Agreeing, Looked, Wakes

\* Nothing is lost by leaving the trail,
LEMMA RemoveAgrees ==
    ASSUME NEW h, Shape(h), NEW S
    PROVE  Shape(RemoveFromTrail(h, S)) /\ Agreeing(RemoveFromTrail(h, S), h)
  BY DEF Fields, Shape, Agreeing, RemoveFromTrail

\* by being put at its end,
LEMMA AppendAgrees ==
    ASSUME NEW h, Shape(h), NEW v, NEW lev
    PROVE  Shape(AppendToTrail(h, v, lev)) /\ Agreeing(AppendToTrail(h, v, lev), h)
  BY DEF Fields, Shape, Agreeing, AppendToTrail

\* or by being kept lazily.
LEMMA UndecideAgrees ==
    ASSUME NEW h, Shape(h), NEW s
    PROVE  Agreeing(UndecideTheory(h, s), h)
  <1> DEFINE r == RemoveFromTrail(h, Members(s))
  <1>1. Shape(r) /\ Agreeing(r, h)
    BY RemoveAgrees
  <1>2. UndecideTheory(h, s) = [r EXCEPT !.lazy = s \o @]
    BY DEF UndecideTheory
  <1> HIDE DEF r
  <1> QED BY <1>1, <1>2 DEF Fields, Shape, Agreeing

\* A new value wakes the theory, and a turned one has it look again.
LEMMA EnqueueMarks ==
    ASSUME NEW h, Shape(h), NEW v \in Var, NEW b \in BOOLEAN, NEW lev
    PROVE  LET e == EnqueueTheory(h, v, b, lev)
           IN Looked(e, h) /\ Wakes(e, h) /\ (h.assigns[v] = "U" => e.changed = h.changed)
  <1> DEFINE e == EnqueueTheory(h, v, b, lev)
  <1>1. Bool(b) # "U" /\ Bool(b) \in Value /\ "U" \in Value
    BY DEF Bool, Value
  <1>2. CASE h.assigns[v] = Bool(b)
    <2> DEFINE r == RemoveFromTrail(h, {v})
    <2>1. Shape(r) /\ Agreeing(r, h)
      BY RemoveAgrees
    <2>2. e = AppendToTrail(r, v, lev)
      BY <1>1, <1>2 DEF EnqueueTheory
    <2> HIDE DEF r, e
    <2>3. Agreeing(e, h)
      BY <2>1, <2>2, AppendAgrees DEF Agreeing
    <2> QED BY <2>3, AgreeingMarks DEF Agreeing, e
  <1>3. CASE h.assigns[v] = "U"
    <2> DEFINE s == SetValue(h, v, b)
    <2>1. /\ s.assigns = [h.assigns EXCEPT ![v] = Bool(b)] /\ s.changed = h.changed
          /\ s.requires = TRUE /\ Shape(s)
      BY <1>1 DEF Fields, Shape, SetValue
    <2>2. e = AppendToTrail(s, v, lev)
      BY <1>1, <1>3 DEF EnqueueTheory
    <2> HIDE DEF s, e
    <2>3. e.assigns = s.assigns /\ e.changed = s.changed /\ e.requires
      BY <2>1, <2>2, AppendAgrees DEF Agreeing
    <2>4. \A p \in Prop : h.assigns[p] \in {"U", e.assigns[p]}
      BY <1>3, <2>1, <2>3 DEF Shape, Var
    <2> QED BY <2>1, <2>3, <2>4 DEF Looked, Wakes, e
  <1>4. CASE h.assigns[v] # Bool(b) /\ h.assigns[v] # "U"
    <2> DEFINE k == [h EXCEPT !.assigns[v] = "U",
                 !.under = IF b THEN @ ELSE @ \ {v},
                 !.over = IF b /\ v \in Edge THEN @ \cup {v} ELSE @,
                 !.pos = IF v \in Prop /\ b THEN @ + 1 ELSE @,
                 !.neg = IF v \in Prop /\ ~b THEN @ + 1 ELSE @,
                 !.changed = @ \cup ({v} \cap Prop)]
               f == Flip(h, v, b)
               s == SetValue(f, v, b)
    <2>1. /\ k.assigns = [h.assigns EXCEPT ![v] = "U"]
          /\ k.changed = h.changed \cup ({v} \cap Prop) /\ Shape(k)
      BY <1>1 DEF Fields, Shape
    <2>2. f = RemoveFromTrail(k, {v})
      BY DEF Flip
    <2> HIDE DEF k, f
    <2>3. Shape(f) /\ f.assigns = k.assigns /\ f.changed = k.changed
      BY <2>1, <2>2, RemoveAgrees DEF Agreeing
    <2>4. /\ s.assigns = [f.assigns EXCEPT ![v] = Bool(b)] /\ s.changed = f.changed
          /\ s.requires = TRUE /\ Shape(s)
      BY <1>1, <2>3 DEF Fields, Shape, SetValue
    <2>5. e = AppendToTrail(s, v, lev)
      BY <1>4 DEF EnqueueTheory, f
    <2> HIDE DEF s, e
    <2>6. e.assigns = s.assigns /\ e.changed = s.changed /\ e.requires
      BY <2>4, <2>5, AppendAgrees DEF Agreeing
    <2>7. ASSUME NEW p \in Prop, p \notin e.changed
          PROVE  p \notin h.changed /\ h.assigns[p] = e.assigns[p]
      <3>1. p # v /\ p \notin h.changed /\ p \in Var
        BY <2>1, <2>3, <2>4, <2>6, <2>7 DEF Var
      <3>2. k.assigns[p] = h.assigns[p]
        BY <3>1, <2>1 DEF Shape
      <3>3. s.assigns[p] = f.assigns[p]
        BY <3>1, <2>3, <2>4 DEF Shape
      <3> QED BY <3>1, <3>2, <3>3, <2>3, <2>6
    <2> QED BY <1>4, <2>6, <2>7 DEF Looked, Wakes, e
  <1> QED BY <1>2, <1>3, <1>4

\* What is undone is looked at again; that alone does not wake the theory.
LEMMA UndoMarks ==
    ASSUME NEW h, Shape(h), NEW S
    PROVE  LET u == Undo(h, S)
           IN /\ Looked(u, h) /\ Shape(u) /\ u.requires = h.requires
              /\ S \cap Var = {} => u.assigns = h.assigns
  <1> DEFINE a == UndoEdges(h, S)
             q == UndoProps(a, S)
             c == [q EXCEPT !.assigns = [v \in Var |-> IF v \in S THEN "U" ELSE @[v]]]
             u == Undo(h, S)
  <1>1. Agreeing(a, h) /\ Shape(a)
    BY DEF Fields, Shape, Agreeing, UndoEdges
  <1> HIDE DEF a
  <1>2. /\ q.assigns = a.assigns /\ q.requires = a.requires /\ Shape(q)
        /\ q.changed = a.changed \cup (S \cap Prop)
    BY <1>1 DEF Fields, Shape, UndoProps
  <1> HIDE DEF q
  <1>3. /\ c.assigns = [v \in Var |-> IF v \in S THEN "U" ELSE q.assigns[v]]
        /\ c.requires = q.requires /\ c.changed = q.changed /\ Shape(c)
    BY <1>2 DEF Fields, Shape, Value
  <1>4. u = RemoveFromTrail(c, S)
    BY DEF Undo, q, a
  <1> HIDE DEF c, u
  <1>5. Shape(u) /\ Agreeing(u, c)
    BY <1>3, <1>4, RemoveAgrees
  <1>6. ASSUME NEW p \in Prop, p \notin u.changed
        PROVE  p \notin h.changed /\ h.assigns[p] = u.assigns[p]
    <2>1. p \notin S /\ p \in Var /\ p \notin h.changed
      BY <1>1, <1>2, <1>3, <1>5, <1>6 DEF Agreeing, Var
    <2> QED BY <2>1, <1>1, <1>2, <1>3, <1>5 DEF Agreeing
  <1>7. S \cap Var = {} => u.assigns = h.assigns
    <2>1. ASSUME S \cap Var = {} PROVE c.assigns = h.assigns
      <3>1. \A v \in Var : c.assigns[v] = h.assigns[v]
        BY <2>1, <1>1, <1>2, <1>3 DEF Agreeing
      <3> QED BY <3>1, <1>3 DEF Shape
    <2> QED BY <2>1, <1>5 DEF Agreeing
  <1> QED BY <1>1, <1>2, <1>3, <1>5, <1>6, <1>7 DEF Agreeing, Looked, u

\* backtrackUntil wakes the theory when it undoes anything,
LEMMA BacktrackMarks ==
    ASSUME NEW h, Shape(h), NEW lev
    PROVE  LET b == BacktrackUntil(h, lev)
           IN Looked(b, h) /\ Wakes(b, h) /\ Shape(b)
  <1> DEFINE S == Undone(h, lev)
             u == Undo(h, S)
             b == BacktrackUntil(h, lev)
  <1>1. /\ Looked(u, h) /\ Shape(u) /\ u.requires = h.requires
        /\ S = {} => u.assigns = h.assigns
    <2>1. S = {} => S \cap Var = {}
      OBVIOUS
    <2> HIDE DEF S
    <2> QED BY <2>1, UndoMarks
  <1>2. b = [u EXCEPT
               !.decisions = SubSeq(@, 1, IF lev + 1 < Len(@) THEN lev + 1 ELSE Len(@)),
               !.requires = @ \/ S # {}]
    BY DEF BacktrackUntil
  <1> HIDE DEF S, u, b
  <1>3. /\ b.assigns = u.assigns /\ b.changed = u.changed /\ Shape(b)
        /\ b.requires = (u.requires \/ S # {})
    BY <1>1, <1>2 DEF Fields, Shape
  <1> QED BY <1>1, <1>3 DEF Looked, Wakes, b

\* and to a literal it always does.
LEMMA BehindMarks ==
    ASSUME NEW h, Shape(h), NEW v, NEW lev
    PROVE  LET b == BacktrackBehind(h, v, lev)
           IN Looked(b, h) /\ b.requires
  <1> DEFINE k == IF v \in Members(h.lazy) THEN h ELSE BacktrackUntil(h, lev)
             S == Behind(IF v \in Members(h.lazy) THEN h.lazy
                         ELSE IF k.decisions = <<>> THEN <<>>
                         ELSE k.decisions[Len(k.decisions)], v)
             u == Undo(k, S)
             b == BacktrackBehind(h, v, lev)
  <1>1. Looked(k, h) /\ Shape(k)
    BY BacktrackMarks DEF Looked
  <1>2. b = [u EXCEPT !.requires = TRUE]
    BY DEF BacktrackBehind
  <1> HIDE DEF k, S
  <1>3. Looked(u, k) /\ Shape(u)
    BY <1>1, UndoMarks
  <1> HIDE DEF u, b
  <1>4. b.assigns = u.assigns /\ b.changed = u.changed /\ b.requires
    BY <1>2, <1>3 DEF Fields, Shape
  <1>5. Looked(b, h)
    BY <1>1, <1>3, <1>4 DEF Looked
  <1> QED BY <1>4, <1>5 DEF b

-----------------------------------------------------------------------------
(***************************************************************************)
(* The theory under its solver.                                            *)
(***************************************************************************)
\* preprocess puts level 0 on the trail again.
LEMMA RetellFollows ==
    ASSUME NEW h, Shape(h), Follow(h), NEW s
    PROVE Shape(Retell(h, s)) /\ Follow(Retell(h, s))
  <1> DEFINE r == RemoveFromTrail(h, Members(s))
  <1>1. Shape(r) /\ Follow(r)
    BY RemoveFollows
  <1>2. Retell(h, s) = IF s = <<>> THEN h
                       ELSE [r EXCEPT !.decisions[Len(h.decisions)] = @ \o s]
    BY DEF Retell
  <1> HIDE DEF r
  <1> QED BY <1>1, <1>2 DEF Fields, Shape, Follow

-----------------------------------------------------------------------------
\* The graphs follow the assignment, which has its shape.
Inv == Shape(g) /\ Follow(g)

\* The units are in both graphs.
LEMMA InitInv == Init => Inv
  <1> SUFFICES ASSUME Init PROVE Inv
    OBVIOUS
  <1>1. /\ g.assigns = [v \in Var |-> IF v \in Units THEN "T" ELSE "U"]
        /\ g.under = Units /\ g.over = Edge
        /\ g = [f \in Fields |-> g[f]]
    BY DEF Init, EmptyTrail, Fields
  <1> QED
    BY <1>1, GraphTheoryAssumption DEF Inv, Shape, Follow, Value, Var

\* cancelUntil backtracks the theory, or tells it what was taken back.
LEMMA CancelInv ==
    ASSUME Inv, NEW lev, CancelUntil(lev)
    PROVE Inv'
  <1>1. PICK s : g' = IF lazyOn THEN UndecideTheory(g, s) ELSE BacktrackUntil(g, lev)
    BY Zenon DEF CancelUntil
  <1> QED
    BY <1>1, UndecideFollows, BacktrackUntilFollows DEF Inv

\* Every step of the solver and of the theory keeps the graphs in line.
LEMMA NextInv == Inv /\ [Next]_vars => Inv'
  <1> SUFFICES ASSUME Inv, [Next]_vars PROVE Inv'
    OBVIOUS
  <1> USE DEF Inv
  <1>1. ASSUME NEW p \in Prop, Declare(p) PROVE Inv'
    BY <1>1 DEF Declare, Shape, Follow, Fields
  <1>2. CASE Solve
    BY <1>2, RetellFollows DEF Solve
  <1>3. ASSUME NEW v \in Var, NEW b \in BOOLEAN, Decide(v, b) PROVE Inv'
    BY <1>3, EnqueueFollows DEF Decide, Assign
  <1>4. ASSUME NEW v \in Var, NEW b \in BOOLEAN, NEW lev, Imply(v, b, lev) PROVE Inv'
    BY <1>4, EnqueueFollows DEF Imply, Assign
  <1>5. ASSUME NEW v \in Var, NEW b \in BOOLEAN, Reenqueue(v, b) PROVE Inv'
    BY <1>5, EnqueueFollows DEF Reenqueue
  <1>6. ASSUME NEW i, Explain(i) PROVE Inv'
    BY <1>6, BacktrackBehindFollows DEF Explain
  <1>7. CASE Restart
    BY <1>7, CancelInv DEF Restart
  <1>8. ASSUME NEW lev, Backjump(lev) PROVE Inv'
    BY <1>8, CancelInv DEF Backjump
  <1>9. CASE Update
    <2>1. PICK c : g' = [g EXCEPT !.changed = c]
      BY <1>9 DEF Update
    <2> QED BY <2>1, OtherFields
  <1>10. ASSUME NEW p \in Prop, Ignore(p) PROVE Inv'
    <2>1. PICK c : g' = [g EXCEPT !.changed = c]
      BY <1>10 DEF Ignore
    <2> QED BY <2>1, OtherFields
  <1>11. ASSUME NEW p \in Prop, Enqueue(p) PROVE Inv'
    <2> DEFINE b == Implied(p) = "T"
               h == EnqueueTheory(g, p, b, level)
    <2>1. Shape(h) /\ Follow(h)
      BY EnqueueFollows DEF Var
    <2>2. PICK c : g' = [h EXCEPT !.changed = c]
      BY <1>11 DEF Enqueue
    <2> HIDE DEF h
    <2> QED BY <2>1, <2>2, OtherFields
  <1>12. ASSUME NEW p \in Prop, LazyConflict(p) PROVE Inv'
    <2>1. \/ g' = BacktrackUntil(g, TheoryLevel(g))
          \/ \E S : g' = Undo(g, S)
      BY <1>12 DEF LazyConflict
    <2> QED BY <2>1, BacktrackUntilFollows, UndoFollows
  <1>13. CASE PropagateEnd
    BY <1>13, OtherFields DEF PropagateEnd
  <1>14. CASE SolveTheory
    BY <1>14, OtherFields DEF SolveTheory
  <1>15. ASSUME UNCHANGED g PROVE Inv'
    BY <1>15
  <1>16. \/ EndSolve \/ ClauseConflict \/ Fail \/ Inconsistent \/ Skip \/ Propagate
         \/ UNCHANGED vars
         \/ \E i \in DOMAIN trail, lev \in 0..level : MoveEarlier(i, lev)
         \/ \E p \in Prop : Conflict(p)
         => UNCHANGED g
    BY DEF EndSolve, ClauseConflict, Fail, Inconsistent, Skip, Propagate, vars,
           MoveEarlier, Conflict
  <1> QED
    BY <1>1, <1>2, <1>3, <1>4, <1>5, <1>6, <1>7, <1>8, <1>9, <1>10, <1>11, <1>12,
       <1>13, <1>14, <1>15, <1>16 DEF Next, TheoryStep

\* The graphs are the theory's assignment (dbg_graphsUpToDate), whatever the
\* solver decides, takes back, keeps, or explains, and whether backtracking is
\* lazy or not.
THEOREM GraphsAlwaysFollow == Spec => []GraphsFollow
  <1>1. Inv => GraphsFollow
    BY DEF Inv, Follow, GraphsFollow
  <1> QED
    BY <1>1, InitInv, NextInv, PTL DEF Spec

-----------------------------------------------------------------------------
(***************************************************************************)
(* The theory's trail beside the solver's.                                 *)
(***************************************************************************)
\* The variables of the first n entries of t, and that h has their values.
Vars(t, n) == {t[i].var : i \in 1..n}
Agrees(h, t, n) == \A i \in 1..n : h.assigns[t[i].var] = Bool(t[i].val)

\* The first n entries of t are filed by level, in their order.
FiledAt(t, n, k) == {t[i].var : i \in {j \in 1..n : t[j].at = k}}
FiledBehind(t, n, i) == {t[j].var : j \in {m \in (i + 1)..n : t[m].at = t[i].at}}
Filed(h, t, n, top) ==
    /\ Len(h.decisions) = top + 1
    /\ \A k \in 0..top : Members(h.decisions[k + 1]) = FiledAt(t, n, k)
    /\ \A i \in 1..n :
         Behind(h.decisions[t[i].at + 1], t[i].var) = FiledBehind(t, n, i)

\* What is behind the first m of n entries.
Gone(t, m, n) == {t[j].var : j \in (m + 1)..n}

\* The theory's trail h is the first n entries of t, the last level is top; that
\* is how it is without lazy backtracking.
InSync(h, D, t, n, top) ==
    /\ Well(h, D) /\ h.lazy = <<>>
    /\ Listed(h) = Vars(t, n) /\ Agrees(h, t, n) /\ Filed(h, t, n, top)

\* Entries are in the order of the levels they were made at, no variable twice,
\* and a literal of the theory has not been moved from its level.
Ordered(t, D, top) ==
    /\ t \in Seq(Entry)
    /\ \A i, j \in DOMAIN t : i < j => t[i].var # t[j].var /\ t[i].at <= t[j].at
    /\ \A i \in DOMAIN t : /\ t[i].var \in Edge \cup D
                           /\ t[i].lev <= t[i].at /\ t[i].at <= top
    /\ \A i \in DOMAIN t : t[i].by # "clause" =>
         /\ t[i].var \in D /\ t[i].lev = t[i].at /\ t[i].val = (t[i].by = "under")

\* The fields of an entry.
LEMMA EntryFacts ==
    ASSUME NEW t \in Seq(Entry), NEW i \in DOMAIN t
    PROVE  /\ t[i] \in Entry /\ t[i].var \in Var /\ t[i].val \in BOOLEAN
           /\ t[i].at \in Nat /\ t[i].lev \in Nat /\ t[i].at <= MaxLevel
           /\ t[i].by \in {"clause", "under", "over"}
  <1>1. t[i] \in Entry
    OBVIOUS
  <1> QED BY <1>1, GraphTrailAssumption DEF Entry

\* In step, what is assigned is on the trail.
LEMMA ListedUnassigned ==
    ASSUME NEW h, NEW D, NEW t, NEW n, NEW top, InSync(h, D, t, n, top)
    PROVE  Assigned(h) = Vars(t, n)
  <1>1. Members(h.lazy) = {}
    BY DEF InSync, Members
  <1> QED BY <1>1 DEF InSync, Well

\* A literal the solver assigns goes to the end of the theory's trail.
LEMMA EnqueueInSync ==
    ASSUME NEW D \in SUBSET Prop, NEW h, NEW t \in Seq(Entry), NEW top \in Nat,
           NEW n, n = Len(t), InSync(h, D, t, n, top),
           \A i \in 1..n : t[i].at <= top,
           NEW r \in Entry, r.var \in Edge \cup D, r.var \notin Vars(t, n),
           NEW lev \in Nat, lev <= top + 1, r.at = IF lev > top THEN lev ELSE top
    PROVE  InSync(EnqueueTheory(h, r.var, r.val, lev), D, Append(t, r), n + 1, r.at)
  <1> DEFINE v == r.var
             b == r.val
             e == EnqueueTheory(h, v, b, lev)
             u == Append(t, r)
             a == AppendToTrail(h, v, lev)
  <1>1. /\ v \in Var /\ b \in BOOLEAN /\ r.at \in Nat /\ v \in Edge \cup D
        /\ n \in Nat /\ u \in Seq(Entry) /\ Len(u) = n + 1 /\ u[n + 1] = r
        /\ \A i \in 1..n : u[i] = t[i]
        /\ 1..(n + 1) = (1..n) \cup {n + 1}
    BY DEF Entry
  <1>2. h.assigns[v] = "U"
    BY <1>1, ListedUnassigned DEF Assigned
  <1>3. Enqueues(e, h, D, v, b, lev)
    <2>1. Well(h, D) /\ (v \in Prop => h.assigns[v] \in {"U", Bool(b)})
      BY <1>2 DEF InSync
    <2> HIDE DEF v, b
    <2> QED BY <2>1, <1>1, EnqueueWell
  <1>4. /\ Well(e, D) /\ e.lazy = <<>> /\ e.decisions = a.decisions
        /\ e.assigns = [h.assigns EXCEPT ![v] = Bool(b)]
        /\ Listed(e) = Listed(h) \cup {v}
    BY <1>2, <1>3 DEF Enqueues, InSync
  <1>5. /\ Shape(h) /\ Lists(h) /\ h.assigns \in [Var -> Value]
        /\ Len(h.decisions) = top + 1 /\ h.decisions \in Seq(Seq(Var))
        /\ TheoryLevel(h) = top
    <2>1. Shape(h) /\ Lists(h) /\ Len(h.decisions) = top + 1
      BY DEF InSync, Filed, Well
    <2>2. h.assigns \in [Var -> Value] /\ h.decisions \in Seq(Seq(Var))
      BY <2>1 DEF Shape, Lists
    <2>3. TheoryLevel(h) = top
      BY <2>1 DEF TheoryLevel
    <2> QED BY <2>1, <2>2, <2>3
  <1>6. /\ Len(a.decisions) = r.at + 1
        /\ \A i \in 1..(r.at + 1) :
             a.decisions[i] =
               LET l == IF i \in DOMAIN h.decisions THEN h.decisions[i] ELSE <<>>
               IN IF i = r.at + 1 THEN Append(l, v) ELSE l
    <2> HIDE DEF v, b
    <2>1. r.at + 1 = IF lev > TheoryLevel(h) THEN lev + 1 ELSE Len(h.decisions)
      BY <1>1, <1>5
    <2> QED BY <1>1, <1>5, <2>1, AppendLists
  <1> DEFINE l == IF r.at + 1 \in DOMAIN h.decisions THEN h.decisions[r.at + 1] ELSE <<>>
  <1>7. l \in Seq(Var) /\ a.decisions[r.at + 1] = Append(l, v)
    <2>1. l \in Seq(Var)
      BY <1>5
    <2>2. a.decisions[r.at + 1] = Append(l, v)
      <3>1. r.at + 1 \in 1..(r.at + 1)
        BY <1>1
      <3> HIDE DEF a, v
      <3> QED BY <3>1, <1>6
    <2> QED BY <2>1, <2>2
  <1>8. Members(l) = FiledAt(t, n, r.at)
    <2>1. CASE r.at <= top
      BY <1>1, <1>5, <2>1 DEF InSync, Filed
    <2>2. CASE r.at > top
      <3>1. l = <<>>
        BY <1>1, <1>5, <2>2
      <3>2. \A i \in 1..n : t[i].at # r.at
        BY <1>1, <2>2, EntryFacts
      <3> QED BY <3>1, <3>2 DEF Members, FiledAt
    <2> QED BY <1>1, <2>1, <2>2
  <1>9. ASSUME NEW k \in 0..r.at, k # r.at
        PROVE  a.decisions[k + 1] = h.decisions[k + 1] /\ k \in 0..top
    BY <1>1, <1>5, <1>6, <1>9
  <1>10. Vars(u, n + 1) = Vars(t, n) \cup {v}
    BY <1>1 DEF Vars
  <1>11. /\ FiledAt(u, n + 1, r.at) = FiledAt(t, n, r.at) \cup {v}
         /\ \A k : k # r.at => FiledAt(u, n + 1, k) = FiledAt(t, n, k)
    BY <1>1 DEF FiledAt
  <1>12. \A i \in 1..n : FiledBehind(u, n + 1, i) =
               FiledBehind(t, n, i) \cup (IF t[i].at = r.at THEN {v} ELSE {})
    <2> TAKE i \in 1..n
    <2>1. (i + 1)..(n + 1) = ((i + 1)..n) \cup {n + 1}
      BY <1>1
    <2>2. \A j \in (i + 1)..n : u[j] = t[j]
      BY <1>1
    <2> QED BY <1>1, <2>1, <2>2 DEF FiledBehind
  <1>13. FiledBehind(u, n + 1, n + 1) = {}
    BY <1>1 DEF FiledBehind
  <1>14. Agrees(e, u, n + 1)
    <2> SUFFICES ASSUME NEW i \in 1..(n + 1)
                 PROVE e.assigns[u[i].var] = Bool(u[i].val)
      BY DEF Agrees
    <2>1. CASE i = n + 1
      BY <1>1, <1>4, <1>5, <2>1
    <2>2. CASE i # n + 1
      <3>1. i \in 1..n /\ u[i] = t[i]
        BY <1>1, <2>2
      <3>2. t[i].var # v /\ t[i].var \in Var
        BY <3>1, <1>1, EntryFacts DEF Vars
      <3> QED BY <3>1, <3>2, <1>4, <1>5 DEF InSync, Agrees
    <2> QED BY <2>1, <2>2
  <1>15. Filed(e, u, n + 1, r.at)
    <2>1. \A k \in 0..r.at : Members(e.decisions[k + 1]) = FiledAt(u, n + 1, k)
      <3> SUFFICES ASSUME NEW k \in 0..r.at
                   PROVE Members(a.decisions[k + 1]) = FiledAt(u, n + 1, k)
        BY <1>4
      <3>1. CASE k = r.at
        <4> HIDE DEF l, v
        <4>1. Members(Append(l, v)) = Members(l) \cup {v}
          BY <1>1, <1>7, AppendMembers
        <4> QED BY <4>1, <3>1, <1>7, <1>8, <1>11
      <3>2. CASE k # r.at
        <4>1. a.decisions[k + 1] = h.decisions[k + 1] /\ k \in 0..top
          BY <3>2, <1>9
        <4>2. Members(h.decisions[k + 1]) = FiledAt(t, n, k)
          BY <4>1 DEF InSync, Filed
        <4>3. FiledAt(u, n + 1, k) = FiledAt(t, n, k)
          BY <1>11, <3>2
        <4> QED BY <4>1, <4>2, <4>3
      <3> QED BY <3>1, <3>2
    <2>2. ASSUME NEW i \in 1..(n + 1)
          PROVE Behind(a.decisions[u[i].at + 1], u[i].var) = FiledBehind(u, n + 1, i)
      <3> HIDE DEF l, v, a
      <3>1. \A x : Behind(Append(l, v), x) = IF x = v THEN {} ELSE Behind(l, x) \cup {v}
        BY <1>1, <1>7, AppendMembers
      <3>2. CASE i = n + 1
        <4>1. u[i].var = v /\ u[i].at = r.at
          BY <1>1, <3>2 DEF v
        <4> QED BY <3>1, <3>2, <4>1, <1>7, <1>13
      <3>3. CASE i # n + 1
        <4>1. i \in 1..n /\ u[i] = t[i]
          BY <1>1, <3>3
        <4>2. t[i].var # v /\ t[i].at \in 0..top
          BY <4>1, <1>1, EntryFacts DEF Vars, v
        <4>3. Behind(h.decisions[t[i].at + 1], t[i].var) = FiledBehind(t, n, i)
          BY <4>1 DEF InSync, Filed
        <4>4. CASE t[i].at = r.at
          <5>1. l = h.decisions[r.at + 1]
            BY <4>2, <4>4, <1>5 DEF l
          <5>2. Behind(Append(l, v), t[i].var) = Behind(l, t[i].var) \cup {v}
            BY <3>1, <4>2
          <5>3. FiledBehind(u, n + 1, i) = FiledBehind(t, n, i) \cup {v}
            BY <1>12, <4>1, <4>4
          <5> QED BY <5>1, <5>2, <5>3, <4>1, <4>3, <4>4, <1>7
        <4>5. CASE t[i].at # r.at
          <5>1. t[i].at \in 0..r.at
            BY <4>2, <1>1
          <5> QED BY <5>1, <4>1, <4>3, <4>5, <1>9, <1>12
        <4> QED BY <4>4, <4>5
      <3> QED BY <3>2, <3>3
    <2> QED BY <1>4, <1>6, <2>1, <2>2 DEF Filed
  <1> HIDE DEF v, b, e, u, a, l
  <1>16. InSync(e, D, u, n + 1, r.at)
    BY <1>4, <1>10, <1>14, <1>15 DEF InSync
  <1> QED BY <1>16 DEF e, u, v, b
\* The theory takes back what is behind the first m entries.
LEMMA TakeBackInSync ==
    ASSUME NEW D \in SUBSET Prop, NEW h, NEW t \in Seq(Entry), NEW top \in Nat,
           NEW n \in 0..Len(t), InSync(h, D, t, n, top),
           \A i, j \in 1..n : i # j => t[i].var # t[j].var,
           NEW m \in 0..n, NEW low \in 0..top, \A i \in 1..m : t[i].at <= low,
           NEW b, Well(b, D), b.lazy = <<>>,
           \A v \in Var : b.assigns[v] = IF v \in Gone(t, m, n) THEN "U" ELSE h.assigns[v],
           Len(b.decisions) = low + 1,
           \A k \in 0..low : b.decisions[k + 1] = Without(h.decisions[k + 1], Gone(t, m, n))
    PROVE  InSync(b, D, t, m, low)
  <1> DEFINE S == Gone(t, m, n)
  <1>1. /\ n \in Nat /\ m \in Nat /\ low \in Nat /\ m <= n
        /\ \A i \in 1..n : t[i].var \in Var /\ t[i].at \in Nat
        /\ 1..n = (1..m) \cup ((m + 1)..n) /\ 1..m \subseteq 1..n
    BY EntryFacts
  <1>2. \A i \in 1..m : t[i].var \notin S
    BY <1>1 DEF Gone
  <1> HIDE DEF S
  <1>3. Listed(b) = Vars(t, m)
    <2>1. Members(b.lazy) = {}
      BY DEF Members
    <2>2. Assigned(b) = Assigned(h) \ S
      BY DEF Assigned, S
    <2>3. Vars(t, n) \ S = Vars(t, m)
      BY <1>1, <1>2 DEF Vars, S, Gone
    <2>4. Listed(b) = Assigned(b) /\ Assigned(h) = Vars(t, n)
      <3>1. Listed(b) = Assigned(b)
        BY <2>1 DEF Well
      <3> QED BY <3>1, ListedUnassigned
    <2> QED BY <2>2, <2>3, <2>4
  <1>4. Agrees(b, t, m)
    BY <1>1, <1>2 DEF InSync, Agrees, S
  <1>5. \A k \in 0..low :
          /\ Members(b.decisions[k + 1]) = Members(h.decisions[k + 1]) \ S
          /\ \A v \in Members(h.decisions[k + 1]) \ S :
               Behind(b.decisions[k + 1], v) = Behind(h.decisions[k + 1], v) \ S
    <2> TAKE k \in 0..low
    <2>1. h.decisions \in Seq(Seq(Var)) /\ Len(h.decisions) = top + 1
      BY DEF InSync, Filed, Well, Lists
    <2>2. h.decisions[k + 1] \in Seq(Var)
      BY <2>1, <1>1
    <2>3. b.decisions[k + 1] = Without(h.decisions[k + 1], S)
      BY DEF S
    <2> QED BY <2>2, <2>3, WithoutFacts
  <1>6. \A k : FiledAt(t, n, k) \ S = FiledAt(t, m, k)
    BY <1>1, <1>2 DEF FiledAt, S, Gone
  <1>7. ASSUME NEW i \in 1..m
        PROVE  FiledBehind(t, n, i) \ S = FiledBehind(t, m, i)
    <2>1. (i + 1)..n = ((i + 1)..m) \cup ((m + 1)..n) /\ (i + 1)..m \subseteq 1..m
      BY <1>1
    <2> QED BY <2>1, <1>1, <1>2 DEF FiledBehind, S, Gone
  <1>8. Filed(b, t, m, low)
    <2>1. \A k \in 0..low : k \in 0..top
      BY <1>1
    <2>2. \A k \in 0..low : Members(b.decisions[k + 1]) = FiledAt(t, m, k)
      BY <2>1, <1>5, <1>6 DEF InSync, Filed
    <2>3. ASSUME NEW i \in 1..m
          PROVE  Behind(b.decisions[t[i].at + 1], t[i].var) = FiledBehind(t, m, i)
      <3>1. i \in 1..n /\ t[i].at \in 0..low /\ t[i].at \in 0..top
        BY <1>1, <2>1
      <3>2. t[i].var \in Members(h.decisions[t[i].at + 1]) \ S
        <4>1. t[i].var \in FiledAt(t, n, t[i].at)
          BY <3>1 DEF FiledAt
        <4> QED BY <4>1, <3>1, <1>2 DEF InSync, Filed
      <3>3. Behind(h.decisions[t[i].at + 1], t[i].var) = FiledBehind(t, n, i)
        BY <3>1 DEF InSync, Filed
      <3>4. Behind(b.decisions[t[i].at + 1], t[i].var)
              = Behind(h.decisions[t[i].at + 1], t[i].var) \ S
        BY <3>1, <3>2, <1>5
      <3> QED BY <3>3, <3>4, <1>7
    <2> QED BY <2>2, <2>3 DEF Filed
  <1> QED BY <1>3, <1>4, <1>8 DEF InSync

\* backtrackUntil a level leaves what the solver made up to that level.
LEMMA BacktrackInSync ==
    ASSUME NEW D \in SUBSET Prop, NEW h, NEW t \in Seq(Entry), NEW top \in Nat,
           NEW n \in 0..Len(t), InSync(h, D, t, n, top),
           \A i, j \in 1..n : i # j => t[i].var # t[j].var,
           \A i \in 1..n : t[i].at <= top,
           NEW lev \in 0..top, NEW m \in 0..n,
           \A i \in 1..m : t[i].at <= lev, \A i \in (m + 1)..n : t[i].at > lev
    PROVE  InSync(BacktrackUntil(h, lev), D, t, m, lev)
  <1> DEFINE b == BacktrackUntil(h, lev)
             S == Gone(t, m, n)
  <1>1. /\ n \in Nat /\ m \in Nat /\ lev \in Nat /\ m <= n /\ lev <= top
        /\ \A i \in 1..n : t[i].var \in Var /\ t[i].at \in Nat
    BY EntryFacts
  <1>2. BacktracksUntil(b, h, D, lev)
    BY <1>1, BacktrackUntilWell DEF InSync
  <1>3. Len(h.decisions) = top + 1 /\ DOMAIN h.decisions = 1..(top + 1)
    BY DEF InSync, Filed, Well, Lists
  <1>4. Undone(h, lev) = S
    <2>1. Members(h.lazy) = {}
      BY DEF InSync, Members
    <2>2. \A k \in 0..top : Members(h.decisions[k + 1]) = FiledAt(t, n, k)
      BY DEF InSync, Filed
    <2>3. ASSUME NEW x \in Above(h, lev) PROVE x \in S
      <3>1. PICK j \in 1..(top + 1) : j > lev + 1 /\ x \in Members(h.decisions[j])
        BY <1>3 DEF Above
      <3>2. j - 1 \in 0..top /\ (j - 1) + 1 = j
        BY <3>1, <1>1
      <3>3. x \in FiledAt(t, n, j - 1)
        BY <3>1, <3>2, <2>2
      <3>4. PICK i \in 1..n : t[i].at = j - 1 /\ x = t[i].var
        BY <3>3 DEF FiledAt
      <3>5. ~(i \in 1..m)
        BY <3>1, <3>4, <1>1
      <3>6. i \in (m + 1)..n
        BY <3>5, <1>1
      <3> QED BY <3>4, <3>6 DEF Gone
    <2>4. ASSUME NEW i \in (m + 1)..n PROVE t[i].var \in Above(h, lev)
      <3>1. i \in 1..n /\ t[i].at \in 0..top /\ t[i].at > lev
        BY <1>1
      <3>2. t[i].var \in FiledAt(t, n, t[i].at)
        BY <3>1 DEF FiledAt
      <3>3. t[i].var \in Members(h.decisions[t[i].at + 1])
        BY <3>1, <3>2, <2>2
      <3>4. t[i].at + 1 \in DOMAIN h.decisions /\ t[i].at + 1 > lev + 1
        BY <3>1, <1>1, <1>3
      <3> QED BY <3>3, <3>4 DEF Above
    <2> QED BY <2>1, <2>3, <2>4 DEF Undone, Gone
  <1>5. /\ Well(b, D) /\ b.lazy = <<>>
        /\ \A v \in Var : b.assigns[v] = IF v \in S THEN "U" ELSE h.assigns[v]
        /\ Len(b.decisions) = lev + 1
        /\ \A k \in 0..lev : b.decisions[k + 1] = Without(h.decisions[k + 1], S)
    <2> HIDE DEF b, S
    <2>1. (IF lev + 1 < Len(h.decisions) THEN lev + 1 ELSE Len(h.decisions)) = lev + 1
      BY <1>1, <1>3
    <2>2. \A k \in 0..lev : k + 1 \in 1..(lev + 1)
      BY <1>1
    <2> QED BY <1>2, <1>4, <2>1, <2>2 DEF BacktracksUntil
  <1> HIDE DEF b
  <1>6. InSync(b, D, t, m, lev)
    BY <1>5, TakeBackInSync
  <1> QED BY <1>6 DEF b

\* backtrackUntil a literal leaves what the solver had when it assigned it.
LEMMA BehindInSync ==
    ASSUME NEW D \in SUBSET Prop, NEW h, NEW t \in Seq(Entry), NEW top \in Nat,
           NEW n \in 0..Len(t), InSync(h, D, t, n, top),
           \A i, j \in 1..n : i < j => t[i].var # t[j].var /\ t[i].at <= t[j].at,
           \A i \in 1..n : t[i].at <= top,
           NEW i \in 1..n
    PROVE  InSync(BacktrackBehind(h, t[i].var, t[i].at), D, t, i, t[i].at)
  <1> DEFINE lev == t[i].at
             v == t[i].var
             k == BacktrackUntil(h, lev)
             b == BacktrackBehind(h, v, lev)
             G == {m \in Nat : m <= n /\ \A j \in (m + 1)..n : t[j].at > lev}
  <1>1. /\ n \in Nat /\ i \in Nat /\ lev \in Nat /\ lev \in 0..top
        /\ \A j \in 1..n : t[j].var \in Var /\ t[j].at \in Nat
    BY EntryFacts
  <1>2. PICK m \in G : \A x \in G : m <= x
    <2>1. n \in G /\ G \subseteq Nat
      BY <1>1
    <2> HIDE DEF G
    <2> QED BY <2>1, Smallest
  <1>3. i <= m /\ m \in 0..n /\ \A j \in (m + 1)..n : t[j].at > lev
    <2>1. m \in Nat /\ m <= n /\ \A j \in (m + 1)..n : t[j].at > lev
      OBVIOUS
    <2>2. ~(i \in (m + 1)..n)
      BY <2>1, <1>1
    <2> QED BY <2>1, <2>2, <1>1
  <1>4. ASSUME NEW j \in 1..m PROVE t[j].at <= lev
    <2>1. CASE m = i
      <3>1. j = i \/ j < i
        BY <2>1, <1>1
      <3> QED BY <3>1, <2>1, <1>1, <1>3
    <2>2. CASE m # i
      <3>1. m - 1 \notin G /\ m - 1 \in Nat /\ m - 1 <= n
        BY <1>2, <1>3, <2>2, <1>1
      <3>2. PICK x \in m..n : ~(t[x].at > lev)
        BY <3>1
      <3>3. x = m
        BY <3>2, <1>3, <1>1
      <3>4. t[m].at <= lev /\ m \in 1..n
        BY <3>2, <3>3, <1>1, <1>3
      <3>5. j = m \/ j < m
        BY <1>3
      <3> QED BY <3>4, <3>5, <1>1, <1>3
    <2> QED BY <2>1, <2>2
  <1>5. \A x, y \in 1..n : x # y => t[x].var # t[y].var
    <2> TAKE x, y \in 1..n
    <2>1. x < y \/ y < x \/ x = y
      BY <1>1
    <2> QED BY <2>1
  <1>6. InSync(k, D, t, m, lev)
    <2> HIDE DEF lev, G
    <2>1. InSync(BacktrackUntil(h, lev), D, t, m, lev)
      BY <1>1, <1>3, <1>4, <1>5, BacktrackInSync
    <2> QED BY <2>1
  <1>7. BacktracksBehind(b, k, D, v)
    BY <1>1, BacktrackBehindWell DEF InSync
  <1> DEFINE S == Gone(t, i, m)
  <1>8. Len(k.decisions) = lev + 1 /\ Behind(k.decisions[lev + 1], v) = S
    <2>1. Behind(k.decisions[lev + 1], v) = FiledBehind(t, m, i)
      BY <1>3, <1>1, <1>6 DEF InSync, Filed
    <2>2. ASSUME NEW j \in (i + 1)..m PROVE t[j].at = lev
      <3>1. j \in 1..m /\ j \in 1..n /\ i < j
        BY <1>1, <1>3
      <3>2. lev <= t[j].at /\ t[j].at <= lev
        BY <3>1, <1>4
      <3> QED BY <3>1, <3>2, <1>1
    <2>3. FiledBehind(t, m, i) = S
      BY <2>2 DEF FiledBehind, Gone
    <2> QED BY <2>1, <2>3, <1>6 DEF InSync, Filed
  <1>9. /\ Well(b, D) /\ b.lazy = <<>>
        /\ \A x \in Var : b.assigns[x] = IF x \in S THEN "U" ELSE k.assigns[x]
        /\ Len(b.decisions) = lev + 1
        /\ \A x \in 0..lev : b.decisions[x + 1] = Without(k.decisions[x + 1], S)
    <2> HIDE DEF b, k, S, v, lev
    <2>1. \A x \in 0..lev : x + 1 \in 1..(lev + 1)
      BY <1>1
    <2> QED BY <1>7, <1>8, <2>1 DEF BacktracksBehind
  <1>10. \A j \in 1..i : t[j].at <= lev
    BY <1>3, <1>4, <1>1
  <1>11. m \in 0..Len(t) /\ i \in 0..m /\ lev \in 0..lev
    BY <1>1, <1>3
  <1>12. \A x, y \in 1..m : x # y => t[x].var # t[y].var
    BY <1>3, <1>5, <1>1
  <1> HIDE DEF b, k, v, lev, G
  <1>13. InSync(b, D, t, i, lev)
    BY <1>1, <1>6, <1>9, <1>10, <1>11, <1>12, TakeBackInSync
  <1> QED BY <1>13 DEF b, v, lev

\* Neither a literal moved to an earlier level nor the other fields matter.
Same(f, h) ==
    f.assigns = h.assigns /\ f.decisions = h.decisions /\ f.lazy = h.lazy
SameEntries(u, t, n) ==
    \A i \in 1..n : u[i].var = t[i].var /\ u[i].val = t[i].val /\ u[i].at = t[i].at

\* A theory whose trail is the same is in step with the same entries.
LEMMA SameInSync ==
    ASSUME NEW h, NEW D, NEW t, NEW n \in Nat, NEW top, InSync(h, D, t, n, top),
           NEW u, SameEntries(u, t, n),
           NEW f, NEW E, Well(f, E), Same(f, h)
    PROVE  InSync(f, E, u, n, top)
  <1>1. Vars(u, n) = Vars(t, n) /\ \A k : FiledAt(u, n, k) = FiledAt(t, n, k)
    BY DEF Vars, FiledAt, SameEntries
  <1>2. ASSUME NEW i \in 1..n PROVE FiledBehind(u, n, i) = FiledBehind(t, n, i)
    <2>1. \A j \in (i + 1)..n : j \in 1..n
      OBVIOUS
    <2> QED BY <2>1 DEF FiledBehind, SameEntries
  <1>3. Listed(f) = Listed(h)
    BY DEF Listed, Same
  <1>4. Agrees(f, u, n)
    BY DEF InSync, Agrees, Same, SameEntries
  <1>5. Filed(f, u, n, top)
    BY <1>1, <1>2 DEF InSync, Filed, Same, SameEntries
  <1> QED BY <1>1, <1>3, <1>4, <1>5 DEF InSync, Same

\* With lazy backtracking only the variables are the same, those the solver has
\* yet to tell again included.
Loose(h, D, t, again) ==
    /\ Well(h, D)
    /\ Listed(h) = Vars(t, Len(t)) \cup Vars(again, Len(again))
    /\ Agrees(h, t, Len(t)) /\ Agrees(h, again, Len(again))

\* What is left of again without the variable of r.
Rest(next, again, r) ==
    /\ next \in Seq(Entry)
    /\ \A i \in 1..Len(next) : /\ next[i].var # r.var
                               /\ \E j \in 1..Len(again) : next[i] = again[j]
    /\ \A j \in 1..Len(again) : again[j].var # r.var =>
         \E i \in 1..Len(next) : next[i] = again[j]

\* With lazy backtracking a literal is put on the trail just so; it may have been
\* there, or on the lazy trail, already.
LEMMA EnqueueLoose ==
    ASSUME NEW D \in SUBSET Prop, NEW h, NEW t \in Seq(Entry), NEW again \in Seq(Entry),
           Loose(h, D, t, again),
           NEW r \in Entry, r.var \in Edge, r.var \notin Vars(t, Len(t)),
           NEW next, Rest(next, again, r),
           NEW lev \in Nat
    PROVE  Loose(EnqueueTheory(h, r.var, r.val, lev), D, Append(t, r), next)
  <1> DEFINE v == r.var
             b == r.val
             e == EnqueueTheory(h, v, b, lev)
             u == Append(t, r)
             n == Len(t)
  <1>1. /\ v \in Edge \cup D /\ v \in Var /\ b \in BOOLEAN /\ v \notin Prop
        /\ n \in Nat /\ Len(u) = n + 1 /\ u[n + 1] = r /\ \A i \in 1..n : u[i] = t[i]
        /\ 1..(n + 1) = (1..n) \cup {n + 1}
    <2>1. r.val \in BOOLEAN /\ r.var \in Var /\ r.var \notin Prop
      BY GraphTrailAssumption DEF Entry, Var
    <2>2. /\ n \in Nat /\ Len(u) = n + 1 /\ u[n + 1] = r /\ \A i \in 1..n : u[i] = t[i]
          /\ 1..(n + 1) = (1..n) \cup {n + 1}
      OBVIOUS
    <2> QED BY <2>1, <2>2
  <1>2. Enqueues(e, h, D, v, b, lev)
    <2>1. Well(h, D) /\ (v \in Prop => h.assigns[v] \in {"U", Bool(b)})
      BY <1>1 DEF Loose
    <2> HIDE DEF v, b
    <2> QED BY <2>1, <1>1, EnqueueWell
  <1>3. h.assigns \in [Var -> Value]
    BY DEF Loose, Well, Shape
  <1>4. /\ Well(e, D) /\ e.assigns = [h.assigns EXCEPT ![v] = Bool(b)]
        /\ Listed(e) = Listed(h) \cup {v}
    BY <1>2 DEF Enqueues
  <1>5. Vars(u, n + 1) = Vars(t, n) \cup {v}
    BY <1>1 DEF Vars
  <1>6. /\ \A i \in 1..n : t[i].var \in Var
        /\ \A i \in 1..Len(next) : next[i].var \in Var
    BY EntryFacts DEF Rest
  <1> HIDE DEF e, u
  <1>7. Agrees(e, u, n + 1)
    <2> SUFFICES ASSUME NEW i \in 1..(n + 1)
                 PROVE e.assigns[u[i].var] = Bool(u[i].val)
      BY DEF Agrees
    <2>1. CASE i = n + 1
      BY <1>1, <1>3, <1>4, <2>1
    <2>2. CASE i # n + 1
      <3>1. i \in 1..n /\ u[i] = t[i] /\ t[i].var # v /\ t[i].var \in Var
        BY <1>1, <1>6, <2>2 DEF Vars
      <3>2. h.assigns[t[i].var] = Bool(t[i].val)
        BY <3>1 DEF Loose, Agrees
      <3> QED BY <3>1, <3>2, <1>3, <1>4
    <2> QED BY <2>1, <2>2
  <1>8. Agrees(e, next, Len(next))
    <2> SUFFICES ASSUME NEW i \in 1..Len(next)
                 PROVE e.assigns[next[i].var] = Bool(next[i].val)
      BY DEF Agrees
    <2>1. next[i].var # v /\ next[i].var \in Var
      BY <1>6 DEF Rest
    <2>2. PICK j \in 1..Len(again) : next[i] = again[j]
      BY DEF Rest
    <2>3. h.assigns[again[j].var] = Bool(again[j].val)
      BY DEF Loose, Agrees
    <2> QED BY <2>1, <2>2, <2>3, <1>3, <1>4
  <1>9. Listed(e) = Vars(u, n + 1) \cup Vars(next, Len(next))
    <2>1. Vars(next, Len(next)) \cup {v} = Vars(again, Len(again)) \cup {v}
      BY DEF Vars, Rest
    <2>2. Listed(h) = Vars(t, n) \cup Vars(again, Len(again))
      BY DEF Loose
    <2> QED BY <2>1, <2>2, <1>4, <1>5
  <1>10. Loose(e, D, u, next)
    BY <1>1, <1>4, <1>7, <1>8, <1>9 DEF Loose
  <1> QED BY <1>10 DEF e, u

-----------------------------------------------------------------------------
\* One literal more.
LEMMA AppendOrdered ==
    ASSUME NEW D, NEW t, NEW top \in Nat, Ordered(t, D, top),
           NEW r \in Entry, r.var \in Edge \cup D, r.var \notin Vars(t, Len(t)),
           NEW new \in Nat, top <= r.at, r.lev <= r.at, r.at <= new,
           r.by # "clause" => /\ r.var \in D /\ r.lev = r.at
                              /\ r.val = (r.by = "under")
    PROVE  Ordered(Append(t, r), D, new)
  <1> DEFINE u == Append(t, r)
             n == Len(t)
  <1>1. /\ t \in Seq(Entry) /\ n \in Nat /\ u \in Seq(Entry) /\ DOMAIN u = 1..(n + 1)
        /\ DOMAIN t = 1..n /\ u[n + 1] = r /\ \A i \in 1..n : u[i] = t[i]
        /\ r.at \in Nat /\ r.lev \in Nat
    BY GraphTrailAssumption DEF Ordered, Entry
  <1>2. \A i \in 1..n : /\ t[i].var # r.var /\ t[i].at \in Nat /\ t[i].at <= top
                        /\ t[i].lev \in Nat
    BY <1>1, EntryFacts DEF Vars, Ordered
  <1> HIDE DEF u, n
  <1>3. ASSUME NEW i \in DOMAIN u, NEW j \in DOMAIN u, i < j
        PROVE  u[i].var # u[j].var /\ u[i].at <= u[j].at
    <2>1. i \in 1..n /\ u[i] = t[i]
      BY <1>1, <1>3
    <2>2. CASE j = n + 1
      BY <2>1, <2>2, <1>1, <1>2
    <2>3. CASE j # n + 1
      <3>1. j \in 1..n /\ u[j] = t[j]
        BY <1>1, <2>3
      <3> QED BY <2>1, <3>1, <1>1, <1>3 DEF Ordered
    <2> QED BY <2>2, <2>3
  <1>4. ASSUME NEW i \in DOMAIN u
        PROVE  /\ u[i].var \in Edge \cup D /\ u[i].lev <= u[i].at /\ u[i].at <= new
               /\ u[i].by # "clause" => /\ u[i].var \in D /\ u[i].lev = u[i].at
                                        /\ u[i].val = (u[i].by = "under")
    <2>1. CASE i = n + 1
      BY <2>1, <1>1
    <2>2. CASE i # n + 1
      <3>1. i \in DOMAIN t /\ u[i] = t[i] /\ t[i].at <= top /\ t[i].at \in Nat
        BY <1>1, <1>2, <2>2
      <3>2. t[i].at <= new
        BY <3>1, <1>1
      <3> QED BY <3>1, <3>2 DEF Ordered
    <2> QED BY <2>1, <2>2
  <1>5. Ordered(u, D, new)
    BY <1>1, <1>3, <1>4 DEF Ordered
  <1> QED BY <1>5 DEF u

\* cancelUntil leaves the entries in front of the first one of a later level.
LEMMA CutTrail ==
    ASSUME NEW D, NEW t, NEW top, Ordered(t, D, top), NEW lev \in Nat
    PROVE  \E m \in 0..Len(t) :
             /\ \A i \in 1..m : t[i].at <= lev
             /\ \A i \in (m + 1)..Len(t) : t[i].at > lev
             /\ Keep(t, {r \in Members(t) : r.at <= lev}) = SubSeq(t, 1, m)
  <1> DEFINE n == Len(t)
             S == {r \in Members(t) : r.at <= lev}
             G == {x \in Nat : x <= n /\ \A j \in (x + 1)..n : t[j].at > lev}
  <1>1. /\ t \in Seq(Entry) /\ n \in Nat /\ DOMAIN t = 1..n
        /\ \A j \in 1..n : t[j].at \in Nat /\ t[j] \in Members(t)
        /\ \A i, j \in 1..n : i < j => t[i].at <= t[j].at
    BY EntryFacts DEF Ordered, Members
  <1>2. PICK m \in G : \A x \in G : m <= x
    <2>1. n \in G /\ G \subseteq Nat
      BY <1>1
    <2> HIDE DEF G
    <2> QED BY <2>1, Smallest
  <1>3. m \in 0..n /\ m \in Nat /\ m <= n /\ \A j \in (m + 1)..n : t[j].at > lev
    BY <1>1
  <1>4. ASSUME NEW j \in 1..m PROVE t[j].at <= lev
    <2>1. m - 1 \in Nat /\ m - 1 <= n /\ m - 1 \notin G
      <3>1. m - 1 \in Nat /\ m - 1 <= n /\ ~(m <= m - 1)
        BY <1>3, <1>1
      <3> HIDE DEF G
      <3> QED BY <3>1, <1>2
    <2>2. PICK x \in m..n : ~(t[x].at > lev)
      BY <2>1
    <2>3. x = m
      BY <2>2, <1>1, <1>3
    <2>4. t[m].at <= lev /\ m \in 1..n
      BY <2>2, <2>3, <1>1, <1>3
    <2>5. (j = m \/ j < m) /\ j \in 1..n
      BY <1>1, <1>3
    <2> QED BY <2>4, <2>5, <1>1
  <1>5. \A i \in 1..m : t[i] \in S
    BY <1>1, <1>3, <1>4
  <1>6. \A i \in (m + 1)..n : t[i] \notin S
    BY <1>1, <1>3
  <1> HIDE DEF S, G
  <1>7. Keep(t, S) = SubSeq(t, 1, m)
    BY <1>1, <1>3, <1>5, <1>6, KeepPrefix
  <1> QED BY <1>3, <1>4, <1>7 DEF S

\* What is left of the trail.
LEMMA PrefixOrdered ==
    ASSUME NEW D, NEW t, NEW top, Ordered(t, D, top), NEW m \in 0..Len(t),
           NEW lev \in Nat, \A i \in 1..m : t[i].at <= lev
    PROVE  /\ Ordered(SubSeq(t, 1, m), D, lev)
           /\ Len(SubSeq(t, 1, m)) = m /\ \A i \in 1..m : SubSeq(t, 1, m)[i] = t[i]
  <1> DEFINE u == SubSeq(t, 1, m)
  <1>1. /\ t \in Seq(Entry) /\ u \in Seq(Entry) /\ Len(u) = m /\ DOMAIN u = 1..m
        /\ DOMAIN t = 1..Len(t) /\ 1..m \subseteq DOMAIN t
        /\ \A i \in 1..m : u[i] = t[i]
    BY DEF Ordered
  <1> HIDE DEF u
  <1>2. Ordered(u, D, lev)
    BY <1>1 DEF Ordered
  <1> QED BY <1>1, <1>2 DEF u

\* The entries that are kept to be told again.
LEMMA KeptEntries ==
    ASSUME NEW D, NEW t, NEW top, Ordered(t, D, top), NEW S
    PROVE  /\ Keep(t, S) \in Seq(Entry)
           /\ \A i \in DOMAIN Keep(t, S) : Keep(t, S)[i] \in Members(t) \cap S
           /\ \A i, j \in DOMAIN Keep(t, S) : i < j => Keep(t, S)[i].var # Keep(t, S)[j].var
  <1> DEFINE k == Keep(t, S)
  <1>1. t \in Seq(Entry)
    BY DEF Ordered
  <1>2. k \in Seq(Entry) /\ Members(k) = Members(t) \cap S
    BY <1>1, KeepMembers
  <1>3. \A i \in DOMAIN k : k[i] \in Members(t) \cap S
    BY <1>2 DEF Members
  <1>4. ASSUME NEW i \in DOMAIN k, NEW j \in DOMAIN k, i < j
        PROVE  k[i].var # k[j].var
    <2>1. PICK a, b \in DOMAIN t : a < b /\ t[a] = k[i] /\ t[b] = k[j]
      BY <1>1, <1>4, KeepOrder
    <2>2. t[a].var # t[b].var
      BY <2>1 DEF Ordered
    <2> QED BY <2>1, <2>2
  <1> QED BY <1>2, <1>3, <1>4

\* Where the theory's own trail ends.  While a conflict is analyzed the theory
\* is backtracked along the trail, to behind the literal explained last.
Behindhand == phase = "analyze" /\ bound <= Len(trail)
Cut == IF Behindhand THEN bound ELSE Len(trail)
Top == IF Behindhand THEN trail[bound].at ELSE level

TrailInv ==
    /\ Ordered(trail, declared, level)
    /\ level \in 0..MaxLevel /\ bound \in Nat \ {0}
    /\ declared \in SUBSET Prop /\ lazyOn \in BOOLEAN
    /\ phase = "analyze" => bound <= Len(trail) + 1
    /\ phase = "idle" => level = 0
    /\ Behindhand => trail[bound].lev = trail[bound].at /\ ~lazyOn

\* What waits to be told again is not on the trail, and was not the theory's.
AgainInv ==
    /\ toReenqueue \in Seq(Entry)
    /\ (phase = "reenqueue") <=> (toReenqueue # <<>>)
    /\ \A i \in DOMAIN toReenqueue :
         /\ toReenqueue[i].var \in (Edge \cup declared) \ SolverVars
         /\ toReenqueue[i].lev <= level /\ toReenqueue[i].by = "clause"
    /\ \A i, j \in DOMAIN toReenqueue : i < j => toReenqueue[i].var # toReenqueue[j].var

\* Once backtracking is lazy, the property literals are all true or all false,
\* and stay so: they were assigned at level 0.
Unanimous(t, D) ==
    \E b \in BOOLEAN : \A p \in D : \E r \in Members(t) :
        r.var = p /\ r.val = b /\ r.at = 0
LazyInv == lazyOn => lazyOption /\ Unanimous(trail, declared)

SyncInv ==
    /\ Well(g, declared)
    /\ phase # "unsat" =>
         IF lazyOn THEN Loose(g, declared, trail, toReenqueue)
                   ELSE InSync(g, declared, trail, Cut, Top)

StepInv == TrailInv /\ AgainInv /\ LazyInv /\ SyncInv

-----------------------------------------------------------------------------
\* The variables of the trail.
LEMMA TrailVars ==
    ASSUME StepInv
    PROVE  /\ trail \in Seq(Entry) /\ Len(trail) \in Nat /\ DOMAIN trail = 1..Len(trail)
           /\ SolverVars = Vars(trail, Len(trail))
           /\ \A i \in DOMAIN trail : trail[i] \in Entry
  BY DEF StepInv, TrailInv, Ordered, SolverVars, Vars

\* With lazy backtracking no property literal is left to be assigned.
LEMMA LazyAssignsAll ==
    ASSUME StepInv, lazyOn
    PROVE  declared \subseteq SolverVars
  BY DEF StepInv, LazyInv, Unanimous, Members, SolverVars

\* The value of a literal is that of its entry.
LEMMA TrailValue ==
    ASSUME StepInv
    PROVE  /\ \A i \in DOMAIN trail : SolverValue(trail[i].var) = Bool(trail[i].val)
           /\ \A v : v \notin SolverVars => SolverValue(v) = "U"
  <1>1. ASSUME NEW i \in DOMAIN trail
        PROVE  SolverValue(trail[i].var) = Bool(trail[i].val)
    <2> DEFINE v == trail[i].var
               j == PositionOf(v)
    <2>1. v \in SolverVars
      BY DEF SolverVars
    <2>2. j \in DOMAIN trail /\ trail[j].var = v
      BY DEF PositionOf
    <2>3. j = i
      <3>1. i \in Nat /\ j \in Nat
        BY <2>2, TrailVars
      <3>2. \A x, y \in DOMAIN trail : x < y => trail[x].var # trail[y].var
        BY DEF StepInv, TrailInv, Ordered
      <3> HIDE DEF j
      <3> QED BY <2>2, <3>1, <3>2
    <2> QED BY <2>1, <2>3 DEF SolverValue
  <1>2. \A v : v \notin SolverVars => SolverValue(v) = "U"
    BY DEF SolverValue
  <1> QED BY <1>1, <1>2

\* Between two steps of the solver the theory has what the solver has.
LEMMA StepAgrees ==
    ASSUME StepInv, phase # "unsat", toReenqueue = <<>>, ~Behindhand
    PROVE  /\ Well(g, declared) /\ Listed(g) = SolverVars
           /\ \A i \in DOMAIN trail : g.assigns[trail[i].var] = Bool(trail[i].val)
           /\ \A v \in SolverVars : g.assigns[v] = SolverValue(v)
           /\ ~lazyOn => g.lazy = <<>>
  <1>1. /\ Listed(g) = Vars(trail, Len(trail)) /\ Agrees(g, trail, Len(trail))
        /\ ~lazyOn => g.lazy = <<>>
    <2>1. CASE lazyOn
      <3>1. Vars(toReenqueue, Len(toReenqueue)) = {}
        BY DEF Vars
      <3> QED BY <2>1, <3>1 DEF StepInv, SyncInv, Loose
    <2>2. CASE ~lazyOn
      BY <2>2 DEF StepInv, SyncInv, Cut, InSync
    <2> QED BY <2>1, <2>2
  <1>2. \A i \in DOMAIN trail : g.assigns[trail[i].var] = Bool(trail[i].val)
    BY <1>1, TrailVars DEF Agrees
  <1>3. \A v \in SolverVars : g.assigns[v] = SolverValue(v)
    BY <1>2, TrailValue DEF SolverVars
  <1> QED BY <1>1, <1>2, <1>3, TrailVars DEF StepInv, SyncInv

-----------------------------------------------------------------------------
\* A literal the solver assigns: u is the trail after that, h the theory, and
\* next is what is left to be told again.
Assigns(h, u, next, at) ==
    /\ at \in Nat /\ Ordered(u, declared, at)
    /\ lazyOn => Unanimous(u, declared)
    /\ Well(h, declared)
    /\ IF lazyOn THEN Loose(h, declared, u, next)
                  ELSE InSync(h, declared, u, Len(u), at)

\* enqueueTheory and the trail, lazily or not.
LEMMA AssignStep ==
    ASSUME StepInv, phase \notin {"unsat", "analyze"},
           NEW r \in Entry, r.var \in (Edge \cup declared) \ SolverVars,
           r.lev <= r.at,
           r.by # "clause" => /\ r.var \in declared /\ r.lev = r.at
                              /\ r.val = (r.by = "under"),
           NEW lev \in Nat, lev <= level + 1,
           r.at = IF lev > level THEN lev ELSE level,
           toReenqueue = <<>> \/ (toReenqueue # <<>> /\ r.var = Head(toReenqueue).var),
           NEW next, next = IF toReenqueue = <<>> THEN <<>> ELSE Tail(toReenqueue)
    PROVE  Assigns(EnqueueTheory(g, r.var, r.val, lev), Append(trail, r), next, r.at)
  <1> DEFINE h == EnqueueTheory(g, r.var, r.val, lev)
             u == Append(trail, r)
             n == Len(trail)
  <1>1. /\ trail \in Seq(Entry) /\ n \in Nat /\ DOMAIN trail = 1..n /\ Len(u) = n + 1
        /\ r.var \in Edge \cup declared /\ r.var \notin Vars(trail, n)
        /\ level \in Nat /\ r.at \in Nat /\ level <= r.at /\ declared \in SUBSET Prop
        /\ Ordered(trail, declared, level)
    BY TrailVars DEF StepInv, TrailInv
  <1>2. Ordered(u, declared, r.at)
    BY <1>1, AppendOrdered
  <1>3. lazyOn => Unanimous(u, declared)
    <2>1. Members(trail) \subseteq Members(u)
      BY <1>1 DEF Members
    <2> HIDE DEF u
    <2> QED BY <2>1 DEF StepInv, LazyInv, Unanimous
  <1>4. CASE lazyOn
    <2>1. r.var \in Edge
      BY <1>1, <1>4, LazyAssignsAll
    <2>2. Loose(g, declared, trail, toReenqueue) /\ toReenqueue \in Seq(Entry)
      BY <1>4 DEF StepInv, SyncInv, AgainInv
    <2>3. Rest(next, toReenqueue, r)
      <3>1. CASE toReenqueue = <<>>
        BY <3>1 DEF Rest
      <3>2. CASE toReenqueue # <<>>
        <4> DEFINE l == Len(toReenqueue)
        <4>1. /\ l \in Nat /\ l > 0 /\ next \in Seq(Entry) /\ Len(next) = l - 1
              /\ \A i \in 1..(l - 1) : next[i] = toReenqueue[i + 1]
              /\ toReenqueue[1].var = r.var
          BY <2>2, <3>2
        <4>2. \A i \in 2..l : toReenqueue[1].var # toReenqueue[i].var
          BY <4>1, <2>2 DEF StepInv, AgainInv
        <4>3. ASSUME NEW i \in 1..(l - 1)
              PROVE  next[i].var # r.var /\ i + 1 \in 1..l /\ next[i] = toReenqueue[i + 1]
          BY <4>1, <4>2
        <4>4. ASSUME NEW j \in 1..l, toReenqueue[j].var # r.var
              PROVE  j - 1 \in 1..(l - 1) /\ next[j - 1] = toReenqueue[j]
          <5>1. j # 1
            BY <4>1, <4>4
          <5>2. j - 1 \in 1..(l - 1) /\ (j - 1) + 1 = j
            BY <5>1, <4>1
          <5> QED BY <5>2, <4>1
        <4> QED BY <4>1, <4>3, <4>4 DEF Rest
      <3> QED BY <3>1, <3>2
    <2>4. Loose(h, declared, u, next)
      <3> HIDE DEF h, u
      <3>1. Loose(EnqueueTheory(g, r.var, r.val, lev), declared, Append(trail, r), next)
        BY <1>1, <2>1, <2>2, <2>3, EnqueueLoose
      <3> QED BY <3>1 DEF h, u
    <2> QED BY <1>1, <1>2, <1>3, <1>4, <2>4 DEF Loose, Assigns
  <1>5. CASE ~lazyOn
    <2>1. InSync(g, declared, trail, n, level)
      BY <1>5 DEF StepInv, SyncInv, Cut, Top, Behindhand
    <2>2. \A i \in 1..n : trail[i].at <= level
      BY <1>1 DEF Ordered
    <2>3. InSync(h, declared, u, n + 1, r.at)
      <3> HIDE DEF h, u
      <3>1. InSync(EnqueueTheory(g, r.var, r.val, lev), declared, Append(trail, r), n + 1, r.at)
        BY <1>1, <2>1, <2>2, EnqueueInSync
      <3> QED BY <3>1 DEF h, u
    <2> QED BY <1>1, <1>2, <1>3, <1>5, <2>3 DEF InSync, Assigns
  <1> QED BY <1>4, <1>5

\* The rest of the theory's state may change without its trail.
LEMMA FieldsWell ==
    ASSUME NEW h, NEW D, Well(h, D)
    PROVE  /\ \A c \in SUBSET D : LET f == [h EXCEPT !.changed = c]
                                IN Well(f, D) /\ Same(f, h)
           /\ \A b : LET f == [h EXCEPT !.requires = b]
                     IN Well(f, D) /\ Same(f, h)
  <1>1. h = [x \in Fields |-> h[x]] /\ h.assigns \in [Var -> Value]
    BY DEF Well, Shape
  <1>2. ASSUME NEW f, f = [x \in Fields |-> f[x]], Same(f, h),
               f.pos = h.pos, f.neg = h.neg, f.changed \subseteq D
        PROVE  Well(f, D)
    <2>1. Listed(f) = Listed(h) /\ Assigned(f) = Assigned(h)
      BY <1>2 DEF Same, Listed, Assigned
    <2>2. Shape(f) /\ Lists(f) /\ Counts(f, D)
      BY <1>1, <1>2 DEF Same, Well, Shape, Lists, Counts
    <2> QED BY <2>1, <2>2, <1>2 DEF Well, Same
  <1>3. ASSUME NEW c \in SUBSET D
        PROVE  LET f == [h EXCEPT !.changed = c] IN Well(f, D) /\ Same(f, h)
    <2> DEFINE f == [h EXCEPT !.changed = c]
    <2>1. /\ f = [x \in Fields |-> f[x]] /\ Same(f, h)
          /\ f.pos = h.pos /\ f.neg = h.neg /\ f.changed = c
      BY <1>1 DEF Fields, Same
    <2> HIDE DEF f
    <2> QED BY <2>1, <1>2 DEF f
  <1>4. ASSUME NEW b
        PROVE  LET f == [h EXCEPT !.requires = b] IN Well(f, D) /\ Same(f, h)
    <2> DEFINE f == [h EXCEPT !.requires = b]
    <2>1. /\ f = [x \in Fields |-> f[x]] /\ Same(f, h)
          /\ f.pos = h.pos /\ f.neg = h.neg /\ f.changed = h.changed
      BY <1>1 DEF Fields, Same
    <2> HIDE DEF f
    <2> QED BY <2>1, <1>2 DEF f, Well
  <1> QED BY <1>3, <1>4

\* Lazily, only assignment and variables matter.
LEMMA SameLoose ==
    ASSUME NEW h, NEW D, NEW t, NEW again, Loose(h, D, t, again),
           NEW f, Well(f, D), f.assigns = h.assigns, Listed(f) = Listed(h)
    PROVE  Loose(f, D, t, again)
  BY DEF Loose, Agrees

\* The same trail lists the same variables.
LEMMA SameIsLoose ==
    ASSUME NEW f, NEW h, Same(f, h)
    PROVE  f.assigns = h.assigns /\ Listed(f) = Listed(h)
  BY DEF Same, Listed

\* A step that leaves the trails alone.
LEMMA QuietStep ==
    ASSUME StepInv, phase \notin {"unsat", "reenqueue"}, ~Behindhand,
           UNCHANGED <<declared, lazyOption, lazyOn, trail, level, toReenqueue>>,
           phase' # "reenqueue", ~Behindhand', bound' \in Nat \ {0},
           phase' = "analyze" => bound' <= Len(trail) + 1,
           phase' = "idle" => level = 0,
           Well(g', declared), Same(g', g)
    PROVE  StepInv'
  <1>1. TrailInv'
    BY DEF StepInv, TrailInv
  <1>2. AgainInv' /\ LazyInv'
    BY DEF StepInv, AgainInv, LazyInv, SolverVars, Unanimous
  <1>3. SyncInv'
    <2>1. CASE lazyOn
      <3>1. Loose(g, declared, trail, toReenqueue)
        BY <2>1 DEF StepInv, SyncInv
      <3>2. Loose(g', declared, trail, toReenqueue)
        BY <3>1, SameLoose, SameIsLoose
      <3> QED BY <2>1, <3>2 DEF SyncInv
    <2>2. CASE ~lazyOn
      <3>1. InSync(g, declared, trail, Len(trail), level)
        BY <2>2 DEF StepInv, SyncInv, Cut, Top
      <3>2. InSync(g', declared, trail, Len(trail), level)
        <4>1. SameEntries(trail, trail, Len(trail)) /\ Len(trail) \in Nat
          BY TrailVars DEF SameEntries
        <4> QED BY <3>1, <4>1, SameInSync
      <3> QED BY <2>2, <3>2 DEF SyncInv, Cut, Top
    <2> QED BY <2>1, <2>2
  <1> QED BY <1>1, <1>2, <1>3 DEF StepInv

\* The steps that leave the trails alone.
LEMMA EasySteps ==
    ASSUME StepInv
    PROVE  EndSolve \/ ClauseConflict \/ Skip \/ SolveTheory \/ PropagateEnd \/ Update
             \/ (\E p \in Prop : Ignore(p) \/ Conflict(p)) => StepInv'
  <1>1. /\ Well(g, declared) /\ Same(g, g) /\ g.changed \subseteq declared
        /\ bound \in Nat \ {0} /\ Len(trail) \in Nat /\ Len(trail) + 1 \in Nat \ {0}
        /\ Len(trail) + 1 <= Len(trail) + 1 /\ ~(Len(trail) + 1 <= Len(trail))
    BY TrailVars DEF StepInv, TrailInv, SyncInv, Same, Well
  <1>2. ASSUME NEW b, g' = [g EXCEPT !.requires = b] PROVE Well(g', declared) /\ Same(g', g)
    BY <1>1, <1>2, FieldsWell
  <1>3. ASSUME NEW c \in SUBSET declared, g' = [g EXCEPT !.changed = c]
        PROVE Well(g', declared) /\ Same(g', g)
    BY <1>1, <1>3, FieldsWell
  <1>4. CASE EndSolve
    BY <1>1, <1>4, QuietStep DEF EndSolve, Behindhand, solver, options, answer
  <1>5. CASE ClauseConflict
    BY <1>1, <1>5, QuietStep DEF ClauseConflict, Behindhand, solver, options
  <1>6. CASE Skip
    BY <1>1, <1>6, QuietStep DEF Skip, Behindhand, solver, options, answer
  <1>7. CASE SolveTheory
    <2>1. Well(g', declared) /\ Same(g', g)
      BY <1>2, <1>7 DEF SolveTheory
    <2> QED BY <1>1, <2>1, <1>7, QuietStep DEF SolveTheory, Behindhand, solver, options
  <1>8. CASE PropagateEnd
    <2>1. Well(g', declared) /\ Same(g', g)
      BY <1>2, <1>8 DEF PropagateEnd
    <2>2. phase' \in {"sat", "search"}
      BY <1>8 DEF PropagateEnd
    <2> QED BY <1>1, <2>1, <2>2, <1>8, QuietStep DEF PropagateEnd, Behindhand, solver, options
  <1>9. CASE Update
    <2>1. \A old, new, s, b : Reports(old, new, s, b) \subseteq declared
      BY DEF Reports
    <2>2. PICK c \in SUBSET declared : g' = [g EXCEPT !.changed = c]
      <3>1. g.changed \cup Reports(seenU, seenU', "R", TRUE)
                      \cup Reports(seenO, seenO', "N", FALSE) \in SUBSET declared
        BY <1>1, <2>1
      <3> QED BY <3>1, <1>9 DEF Update
    <2>3. Well(g', declared) /\ Same(g', g)
      BY <1>3, <2>2
    <2> QED BY <1>1, <2>3, <1>9, QuietStep DEF Update, Behindhand, solver, options, answer
  <1>10. ASSUME NEW p \in Prop, Ignore(p) PROVE StepInv'
    <2>1. PICK c \in SUBSET declared : g' = [g EXCEPT !.changed = c]
      BY <1>1, <1>10 DEF Ignore
    <2>2. Well(g', declared) /\ Same(g', g)
      BY <1>3, <2>1
    <2> QED BY <1>1, <2>2, <1>10, QuietStep DEF Ignore, Behindhand, solver, options, answer
  <1>11. ASSUME NEW p \in Prop, Conflict(p) PROVE StepInv'
    BY <1>1, <1>11, QuietStep DEF Conflict, Behindhand, solver, options
  <1> QED BY <1>4, <1>5, <1>6, <1>7, <1>8, <1>9, <1>10, <1>11

\* A conflict of level 0.
LEMMA FailStep ==
    ASSUME StepInv, Fail
    PROVE  StepInv'
  <1>1. /\ UNCHANGED <<g, declared, lazyOption, lazyOn, trail, level, toReenqueue>>
        /\ phase = "analyze" /\ phase' = "unsat" /\ bound' = 1
    BY DEF Fail, solver, options
  <1>2. TrailInv'
    BY <1>1 DEF StepInv, TrailInv, Behindhand
  <1>3. AgainInv' /\ LazyInv' /\ SyncInv'
    BY <1>1 DEF StepInv, AgainInv, LazyInv, SyncInv, SolverVars, Unanimous
  <1> QED BY <1>2, <1>3 DEF StepInv

\* The literal r has been assigned: what is left to show of the invariant.
LEMMA AfterAssign ==
    ASSUME StepInv, phase \notin {"unsat", "analyze"}, phase' \notin {"unsat", "analyze"},
           UNCHANGED <<declared, lazyOption, lazyOn>>,
           NEW r \in Entry, r.var \in (Edge \cup declared) \ SolverVars,
           trail' = Append(trail, r), level' = r.at,
           bound' \in Nat \ {0}, phase' = "idle" => level' = 0,
           toReenqueue = <<>> \/ (toReenqueue # <<>> /\ r.var = Head(toReenqueue).var),
           toReenqueue' = IF toReenqueue = <<>> THEN <<>> ELSE Tail(toReenqueue),
           phase' = "reenqueue" <=> toReenqueue' # <<>>, level <= level',
           NEW h, Assigns(h, trail', toReenqueue', r.at),
           Well(g', declared), Same(g', h)
    PROVE  StepInv'
  <1>1. /\ level \in Nat /\ level' \in Nat /\ trail \in Seq(Entry)
        /\ declared \in SUBSET Prop /\ lazyOn \in BOOLEAN
    BY DEF Assigns, StepInv, TrailInv, Ordered
  <1>2. TrailInv' /\ LazyInv'
    <2>1. level' \in 0..MaxLevel
      BY DEF Entry
    <2> QED BY <1>1, <2>1 DEF Assigns, StepInv, TrailInv, LazyInv, Behindhand
  <1>3. AgainInv'
    <2>1. SolverVars' = SolverVars \cup {r.var}
      <3>1. /\ DOMAIN trail' = (DOMAIN trail) \cup {Len(trail) + 1}
            /\ trail'[Len(trail) + 1] = r /\ \A i \in DOMAIN trail : trail'[i] = trail[i]
        BY <1>1
      <3> QED BY <3>1 DEF SolverVars
    <2> DEFINE l == Len(toReenqueue)
    <2>2. CASE toReenqueue = <<>>
      BY <2>2 DEF AgainInv
    <2>3. CASE toReenqueue # <<>>
      <3>1. /\ toReenqueue \in Seq(Entry)
            /\ \A i \in DOMAIN toReenqueue :
                 /\ toReenqueue[i].var \in (Edge \cup declared) \ SolverVars
                 /\ toReenqueue[i].lev <= level /\ toReenqueue[i].by = "clause"
            /\ \A i, j \in DOMAIN toReenqueue : i < j => toReenqueue[i].var # toReenqueue[j].var
        BY DEF StepInv, AgainInv
      <3>2. /\ l \in Nat /\ l > 0 /\ DOMAIN toReenqueue = 1..l
            /\ toReenqueue' \in Seq(Entry) /\ DOMAIN toReenqueue' = 1..(l - 1)
            /\ \A i \in 1..(l - 1) : toReenqueue'[i] = toReenqueue[i + 1]
            /\ toReenqueue[1].var = r.var
        BY <2>3, <3>1
      <3> HIDE DEF l
      <3>3. ASSUME NEW i \in 1..(l - 1)
            PROVE  /\ toReenqueue'[i].var \in (Edge \cup declared) \ (SolverVars \cup {r.var})
                   /\ toReenqueue'[i].lev <= level' /\ toReenqueue'[i].by = "clause"
        <4> DEFINE q == toReenqueue[i + 1]
        <4>1. 1 \in 1..l /\ i + 1 \in 1..l /\ 1 < i + 1 /\ toReenqueue'[i] = q
          BY <3>2
        <4>2. toReenqueue[1].var # q.var
          BY <3>1, <3>2, <4>1
        <4>3. /\ q.var \in (Edge \cup declared) \ SolverVars
              /\ q.lev <= level /\ q.by = "clause" /\ q.lev \in Nat
          BY <3>1, <3>2, <4>1, EntryFacts
        <4> HIDE DEF q
        <4>4. q.lev <= level'
          BY <4>3, <1>1
        <4> QED BY <3>2, <4>1, <4>2, <4>3, <4>4
      <3>4. ASSUME NEW i \in 1..(l - 1), NEW j \in 1..(l - 1), i < j
            PROVE  toReenqueue'[i].var # toReenqueue'[j].var
        <4>1. i + 1 \in 1..l /\ j + 1 \in 1..l /\ i + 1 < j + 1
          BY <3>2, <3>4
        <4>2. toReenqueue[i + 1].var # toReenqueue[j + 1].var
          BY <3>1, <3>2, <4>1
        <4>3. toReenqueue'[i] = toReenqueue[i + 1] /\ toReenqueue'[j] = toReenqueue[j + 1]
          BY <3>2
        <4> QED BY <4>2, <4>3
      <3>5. \A i \in DOMAIN toReenqueue' :
             /\ toReenqueue'[i].var \in (Edge \cup declared') \ SolverVars'
             /\ toReenqueue'[i].lev <= level' /\ toReenqueue'[i].by = "clause"
        BY <2>1, <3>2, <3>3
      <3>6. \A i, j \in DOMAIN toReenqueue' : i < j => toReenqueue'[i].var # toReenqueue'[j].var
        <4> SUFFICES ASSUME NEW i \in DOMAIN toReenqueue', NEW j \in DOMAIN toReenqueue', i < j
                     PROVE  toReenqueue'[i].var # toReenqueue'[j].var
          OBVIOUS
        <4>1. i \in 1..(l - 1) /\ j \in 1..(l - 1)
          BY <3>2
        <4> QED BY <4>1, <3>4
      <3> QED BY <3>2, <3>5, <3>6 DEF AgainInv
    <2> QED BY <2>2, <2>3
  <1>4. SyncInv'
    <2>1. CASE lazyOn
      <3>1. Loose(h, declared, trail', toReenqueue')
        BY <2>1 DEF Assigns
      <3>2. Loose(g', declared, trail', toReenqueue')
        BY <3>1, SameLoose, SameIsLoose
      <3> QED BY <2>1, <3>2 DEF SyncInv
    <2>2. CASE ~lazyOn
      <3>1. InSync(h, declared, trail', Len(trail'), r.at)
        BY <2>2 DEF Assigns
      <3>2. InSync(g', declared, trail', Len(trail'), r.at)
        <4>1. Len(trail') \in Nat /\ SameEntries(trail', trail', Len(trail'))
          BY <1>1 DEF SameEntries
        <4> QED BY <3>1, <4>1, SameInSync
      <3> QED BY <2>2, <3>2 DEF SyncInv, Cut, Top, Behindhand
    <2> QED BY <2>1, <2>2
  <1> QED BY <1>2, <1>3, <1>4 DEF StepInv

\* A decision opens a level.
LEMMA DecideStep ==
    ASSUME StepInv, NEW v \in Var, NEW b \in BOOLEAN, Decide(v, b)
    PROVE  StepInv'
  <1> DEFINE r == [var |-> v, val |-> b, lev |-> level + 1, at |-> level + 1, by |-> "clause"]
  <1>1. /\ phase = "search" /\ toReenqueue = <<>> /\ level \in Nat /\ level < MaxLevel
        /\ MaxLevel \in Nat /\ bound \in Nat \ {0}
    BY GraphTrailAssumption DEF StepInv, TrailInv, AgainInv, Decide
  <1>2. /\ r \in Entry /\ r.var = v /\ r.val = b /\ r.lev = level + 1 /\ r.at = level + 1
        /\ r.by = "clause"
    BY <1>1 DEF Entry
  <1>3. /\ v \in (Edge \cup declared) \ SolverVars /\ trail' = Append(trail, r)
        /\ g' = EnqueueTheory(g, v, b, level + 1) /\ level' = level + 1
        /\ UNCHANGED <<declared, lazyOption, lazyOn, phase, toReenqueue, bound>>
    BY DEF Decide, Assign, Known, options, answer
  <1> HIDE DEF r
  <1>4. Assigns(g', trail', <<>>, r.at)
    <2>1. Assigns(EnqueueTheory(g, r.var, r.val, level + 1), Append(trail, r), <<>>, r.at)
      BY <1>1, <1>2, <1>3, AssignStep
    <2> QED BY <2>1, <1>2, <1>3
  <1>5. Well(g', declared) /\ Same(g', g')
    BY <1>4 DEF Assigns, Same
  <1>6. /\ toReenqueue' = <<>> /\ level' = r.at /\ level <= level' /\ bound' \in Nat \ {0}
        /\ phase' = "search"
    BY <1>1, <1>2, <1>3
  <1> QED BY <1>1, <1>2, <1>3, <1>4, <1>5, <1>6, AfterAssign

\* A literal of a clause comes last, whatever its level.
LEMMA ImplyStep ==
    ASSUME StepInv, NEW v \in Var, NEW b \in BOOLEAN, NEW lev \in 0..level, Imply(v, b, lev)
    PROVE  StepInv'
  <1> DEFINE r == [var |-> v, val |-> b, lev |-> lev, at |-> level, by |-> "clause"]
  <1>1. /\ phase \in {"search", "idle"} /\ toReenqueue = <<>> /\ level \in Nat
        /\ level <= MaxLevel /\ MaxLevel \in Nat
        /\ lev \in Nat /\ lev <= level /\ bound \in Nat \ {0} /\ (phase = "idle" => level = 0)
    BY GraphTrailAssumption DEF StepInv, TrailInv, AgainInv, Imply
  <1>3. /\ r.var = v /\ r.val = b /\ r.lev = lev /\ r.at = level /\ r.by = "clause"
    OBVIOUS
  <1>4. /\ v \in (Edge \cup declared) \ SolverVars /\ trail' = Append(trail, r)
        /\ g' = EnqueueTheory(g, v, b, lev)
        /\ UNCHANGED <<declared, lazyOption, lazyOn, level, phase, toReenqueue, bound>>
    BY DEF Imply, Assign, Known, options, answer
  <1>5. r \in Entry
    BY <1>1 DEF Entry
  <1> HIDE DEF r
  <1>6. Assigns(g', trail', <<>>, r.at)
    <2>1. Assigns(EnqueueTheory(g, r.var, r.val, lev), Append(trail, r), <<>>, r.at)
      BY <1>1, <1>3, <1>4, <1>5, AssignStep
    <2> QED BY <2>1, <1>3, <1>4
  <1>7. Well(g', declared) /\ Same(g', g')
    BY <1>6 DEF Assigns, Same
  <1>8. /\ toReenqueue' = <<>> /\ level' = r.at /\ level <= level' /\ bound' \in Nat \ {0}
        /\ phase' \in {"search", "idle"} /\ (phase' = "idle" => level' = 0)
    BY <1>1, <1>3, <1>4
  <1> QED BY <1>1, <1>3, <1>4, <1>5, <1>6, <1>7, <1>8, AfterAssign

\* A literal that was kept is told again, at the level the solver is at.
LEMMA ReenqueueStep ==
    ASSUME StepInv, NEW v \in Var, NEW b \in BOOLEAN, Reenqueue(v, b)
    PROVE  StepInv'
  <1> DEFINE q == Head(toReenqueue)
             r == [q EXCEPT !.at = level]
  <1>1. /\ phase = "reenqueue" /\ toReenqueue # <<>> /\ toReenqueue \in Seq(Entry)
        /\ level \in Nat /\ level \in 0..MaxLevel /\ bound \in Nat \ {0}
    BY DEF StepInv, TrailInv, AgainInv, Reenqueue
  <1>2. /\ q.var = v /\ q.val = b /\ trail' = Append(trail, r)
        /\ g' = EnqueueTheory(g, v, b, q.lev)
        /\ toReenqueue' = Tail(toReenqueue)
        /\ phase' = IF toReenqueue' = <<>> THEN "search" ELSE "reenqueue"
        /\ UNCHANGED <<declared, lazyOption, lazyOn, level, bound>>
    BY DEF Reenqueue, options, answer
  <1>3. /\ q \in Entry /\ q.var \in (Edge \cup declared) \ SolverVars
        /\ q.lev <= level /\ q.by = "clause"
    <2>1. 1 \in DOMAIN toReenqueue /\ q = toReenqueue[1]
      BY <1>1
    <2> HIDE DEF q
    <2> QED BY <1>1, <2>1 DEF StepInv, AgainInv
  <1>4. /\ r \in Entry /\ r.var = v /\ r.val = b /\ r.lev = q.lev /\ r.at = level
        /\ r.by = "clause" /\ q.lev \in Nat /\ q.lev <= level
    <2> HIDE DEF q
    <2>1. q = [var |-> q.var, val |-> q.val, lev |-> q.lev, at |-> q.at, by |-> q.by]
      BY <1>3 DEF Entry
    <2>2. r = [var |-> q.var, val |-> q.val, lev |-> q.lev, at |-> level, by |-> q.by]
      BY <2>1
    <2>3. q.lev \in Nat
      BY <1>3 DEF Entry
    <2> HIDE DEF r
    <2>4. r \in Entry
      BY <1>1, <1>3, <2>2 DEF Entry
    <2> QED BY <1>2, <1>3, <2>2, <2>3, <2>4
  <1> HIDE DEF r, q
  <1>5. Assigns(g', trail', Tail(toReenqueue), r.at)
    <2>1. r.var \in (Edge \cup declared) \ SolverVars /\ r.lev <= r.at
      BY <1>2, <1>3, <1>4
    <2>2. Assigns(EnqueueTheory(g, r.var, r.val, q.lev), Append(trail, r),
                  Tail(toReenqueue), r.at)
      <3>1. r.var = Head(toReenqueue).var
        BY <1>2, <1>4 DEF q
      <3>2. q.lev <= level + 1 /\ r.at = IF q.lev > level THEN q.lev ELSE level
        BY <1>1, <1>4
      <3> QED BY <1>1, <1>4, <2>1, <3>1, <3>2, AssignStep
    <2> QED BY <2>2, <1>2, <1>4
  <1>6. Well(g', declared) /\ Same(g', g')
    BY <1>5 DEF Assigns, Same
  <1>7. /\ level' = r.at /\ level <= level' /\ bound' \in Nat \ {0}
        /\ phase' \in {"search", "reenqueue"}
        /\ (phase' = "reenqueue" <=> toReenqueue' # <<>>)
        /\ r.var \in (Edge \cup declared) \ SolverVars /\ r.var = Head(toReenqueue).var
    BY <1>1, <1>2, <1>3, <1>4 DEF q
  <1> QED BY <1>1, <1>2, <1>4, <1>5, <1>6, <1>7, AfterAssign

\* The theory's own assignments are made at the solver's level, and never with
\* lazy backtracking.
LEMMA EnqueueEager ==
    ASSUME StepInv, NEW p \in Prop, Enqueue(p)
    PROVE  p \in declared /\ ~lazyOn
  <1>1. p \in declared /\ p \notin SolverVars
    BY DEF StepInv, SyncInv, Well, Enqueue
  <1> QED BY <1>1, LazyAssignsAll

\* The solver tells the theory of what the theory enqueues.
LEMMA EnqueueStep ==
    ASSUME StepInv, NEW p \in Prop, Enqueue(p)
    PROVE  StepInv'
  <1> DEFINE b == Implied(p) = "T"
             r == [var |-> p, val |-> b, lev |-> level, at |-> level,
                   by |-> IF b THEN "under" ELSE "over"]
             h == EnqueueTheory(g, p, b, level)
  <1>1. /\ phase = "detect" /\ toReenqueue = <<>> /\ level \in Nat /\ level \in 0..MaxLevel
        /\ bound \in Nat \ {0} /\ p \in declared /\ p \notin SolverVars /\ b \in BOOLEAN
    BY EnqueueEager DEF StepInv, TrailInv, AgainInv, Enqueue
  <1>2. /\ trail' = Append(trail, r) /\ g' = [h EXCEPT !.changed = @ \ {p}]
        /\ UNCHANGED <<declared, lazyOption, lazyOn, level, phase, toReenqueue, bound>>
    BY DEF Enqueue, options, answer
  <1>3. /\ r \in Entry /\ r.var = p /\ r.val = b /\ r.lev = level /\ r.at = level
        /\ r.by # "clause" /\ b = (r.by = "under")
    <2> HIDE DEF b
    <2> QED BY <1>1 DEF Entry, Var
  <1> HIDE DEF r, b
  <1>4. Assigns(h, trail', <<>>, r.at)
    <2>1. /\ r.var \in (Edge \cup declared) \ SolverVars /\ r.lev <= r.at /\ r.var \in declared
          /\ r.lev = r.at /\ r.val = (r.by = "under")
          /\ level <= level + 1 /\ r.at = IF level > level THEN level ELSE level
      BY <1>1, <1>3
    <2>2. Assigns(EnqueueTheory(g, r.var, r.val, level), Append(trail, r), <<>>, r.at)
      BY <1>1, <1>3, <2>1, AssignStep
    <2> QED BY <2>2, <1>2, <1>3
  <1> HIDE DEF h
  <1>5. Well(g', declared) /\ Same(g', h)
    <2>1. Well(h, declared) /\ h.changed \ {p} \in SUBSET declared
      BY <1>4 DEF Assigns, Well
    <2> QED BY <2>1, <1>2, FieldsWell
  <1>6. /\ toReenqueue' = <<>> /\ level' = r.at /\ level <= level' /\ bound' \in Nat \ {0}
        /\ phase' = "detect" /\ r.var \in (Edge \cup declared) \ SolverVars
    BY <1>1, <1>2, <1>3
  <1> QED BY <1>1, <1>2, <1>3, <1>4, <1>5, <1>6, AfterAssign

\* A true literal is moved to an earlier level.
LEMMA MoveStep ==
    ASSUME StepInv, NEW i \in DOMAIN trail, NEW lev \in 0..level, MoveEarlier(i, lev)
    PROVE  StepInv'
  <1> DEFINE u == [trail EXCEPT ![i].lev = lev, ![i].by = "clause"]
             n == Len(trail)
  <1>1. /\ phase = "search" /\ lev < trail[i].lev /\ trail' = u
        /\ UNCHANGED <<g, declared, lazyOption, lazyOn, level, phase, toReenqueue, bound>>
    BY DEF MoveEarlier, options, answer
  <1>2. /\ trail \in Seq(Entry) /\ n \in Nat /\ DOMAIN trail = 1..n
        /\ \A j \in 1..n : trail[j] \in Entry
        /\ level \in 0..MaxLevel
    BY TrailVars DEF StepInv, TrailInv
  <1>3. /\ \A j \in 1..n : /\ u[j].var = trail[j].var /\ u[j].val = trail[j].val
                           /\ u[j].at = trail[j].at
        /\ \A j \in 1..n : j # i => u[j] = trail[j]
        /\ u[i].lev = lev /\ u[i].by = "clause"
        /\ u \in Seq(Entry) /\ Len(u) = n /\ DOMAIN u = 1..n
    <2>1. trail[i] = [var |-> trail[i].var, val |-> trail[i].val, lev |-> trail[i].lev,
                      at |-> trail[i].at, by |-> trail[i].by]
      BY <1>2 DEF Entry
    <2>2. /\ u[i] = [var |-> trail[i].var, val |-> trail[i].val, lev |-> lev,
                     at |-> trail[i].at, by |-> "clause"]
          /\ \A j \in 1..n : j # i => u[j] = trail[j]
          /\ DOMAIN u = 1..n
      BY <2>1, <1>2
    <2>3. lev \in 0..MaxLevel
      BY <1>2, GraphTrailAssumption
    <2>4. u[i] \in Entry
      BY <2>2, <2>3, <1>2 DEF Entry
    <2>5. u \in [1..n -> Entry]
      <3> HIDE DEF u
      <3>1. \A j \in 1..n : u[j] \in Entry
        BY <1>2, <2>2, <2>4
      <3>2. u = [j \in 1..n |-> u[j]]
        BY <1>2, <2>2 DEF u
      <3> QED BY <3>1, <3>2
    <2> HIDE DEF u
    <2> QED BY <1>2, <2>2, <2>5
  <1> HIDE DEF u
  <1>4. Ordered(u, declared, level)
    <2>1. Ordered(trail, declared, level)
      BY DEF StepInv, TrailInv
    <2>2. \A j \in 1..n : u[j].lev <= u[j].at
      <3> TAKE j \in 1..n
      <3>1. CASE j = i
        <4>1. /\ trail[i].lev \in Nat /\ trail[i].at \in Nat
              /\ trail[i].lev <= trail[i].at /\ lev \in Nat
          BY <1>2, <2>1, EntryFacts DEF Ordered
        <4> QED BY <3>1, <4>1, <1>1, <1>3
      <3>2. CASE j # i
        BY <3>2, <1>2, <1>3, <2>1 DEF Ordered
      <3> QED BY <3>1, <3>2
    <2>3. \A j \in 1..n : u[j].by # "clause" => u[j] = trail[j]
      BY <1>3
    <2> QED BY <1>2, <1>3, <2>1, <2>2, <2>3 DEF Ordered
  <1>5. TrailInv'
    BY <1>1, <1>4 DEF StepInv, TrailInv, Behindhand
  <1>6. AgainInv'
    <2>1. SolverVars' = SolverVars
      BY <1>1, <1>2, <1>3 DEF SolverVars
    <2> QED BY <1>1, <2>1 DEF StepInv, AgainInv
  <1>7. LazyInv'
    <2>1. ASSUME NEW b, Unanimous(trail, declared) PROVE Unanimous(u, declared)
      <3>1. PICK c \in BOOLEAN : \A p \in declared : \E q \in Members(trail) :
               q.var = p /\ q.val = c /\ q.at = 0
        BY <2>1 DEF Unanimous
      <3>2. ASSUME NEW p \in declared
            PROVE  \E q \in Members(u) : q.var = p /\ q.val = c /\ q.at = 0
        <4>1. PICK j \in 1..n : trail[j].var = p /\ trail[j].val = c /\ trail[j].at = 0
          BY <3>1, <1>2 DEF Members
        <4> QED BY <4>1, <1>3 DEF Members
      <3> QED BY <3>2 DEF Unanimous
    <2> QED BY <1>1, <2>1 DEF StepInv, LazyInv
  <1>8. SyncInv'
    <2>1. CASE lazyOn
      <3>1. Vars(u, Len(u)) = Vars(trail, n) /\ (Agrees(g, trail, n) => Agrees(g, u, Len(u)))
        BY <1>3 DEF Vars, Agrees
      <3>2. Loose(g, declared, trail, toReenqueue)
        BY <2>1, <1>1 DEF StepInv, SyncInv
      <3>3. Loose(g, declared, u, toReenqueue)
        BY <3>1, <3>2 DEF Loose
      <3> QED BY <3>3, <2>1, <1>1 DEF SyncInv, Loose
    <2>2. CASE ~lazyOn
      <3>1. InSync(g, declared, trail, n, level)
        BY <2>2, <1>1 DEF StepInv, SyncInv, Cut, Top, Behindhand
      <3>2. InSync(g, declared, u, n, level)
        <4>1. SameEntries(u, trail, n) /\ Well(g, declared) /\ Same(g, g)
          BY <3>1, <1>3 DEF InSync, Same, SameEntries
        <4> QED BY <3>1, <4>1, <1>2, SameInSync
      <3> QED BY <3>2, <2>2, <1>1, <1>3 DEF SyncInv, InSync, Cut, Top, Behindhand
    <2> QED BY <2>1, <2>2
  <1> QED BY <1>5, <1>6, <1>7, <1>8 DEF StepInv

\* A literal declared between calls is counted in both signs.
LEMMA DeclareStep ==
    ASSUME ~LateLazy, StepInv, NEW p \in Prop, Declare(p)
    PROVE  StepInv'
  <1>1. /\ phase = "idle" /\ phase' = "idle" /\ ~lazyOn /\ p \notin declared
        /\ declared' = declared \cup {p}
        /\ g' = [g EXCEPT !.pos = @ + 1, !.neg = @ + 1]
        /\ UNCHANGED <<lazyOption, lazyOn, trail, level, toReenqueue, bound>>
    BY DEF Declare, options, solver, answer
  <1>2. /\ Well(g, declared) /\ declared \in SUBSET Prop /\ level = 0
        /\ InSync(g, declared, trail, Len(trail), level)
    BY <1>1 DEF StepInv, TrailInv, SyncInv, Cut, Top, Behindhand
  <1>3. /\ g' = [x \in Fields |-> g'[x]] /\ g'.assigns = g.assigns
        /\ g'.decisions = g.decisions /\ g'.lazy = g.lazy /\ g'.changed = g.changed
        /\ g'.pos = g.pos + 1 /\ g'.neg = g.neg + 1
    BY <1>1, <1>2 DEF Well, Shape, Fields
  <1>4. Counts(g', declared')
    <2>1. p \in Var /\ p \notin Edge
      BY GraphTrailAssumption DEF Var
    <2>2. g.assigns[p] = "U"
      BY <1>1, <1>2, <2>1 DEF Well, Assigned
    <2>3. IsFiniteSet(declared)
      BY <1>2, GraphTrailAssumption, FS_Subset
    <2>4. \A x : LET S == {q \in declared : g.assigns[q] # x}
                 IN IsFiniteSet(S) /\ p \notin S /\ Cardinality(S) \in Nat
      <3> TAKE x
      <3> DEFINE S == {q \in declared : g.assigns[q] # x}
      <3>1. S \subseteq declared
        OBVIOUS
      <3>2. IsFiniteSet(S)
        BY <2>3, <3>1, FS_Subset
      <3> QED BY <3>2, <1>1, FS_CardinalityType
    <2>5. ASSUME NEW x \in {"T", "F"}
          PROVE Cardinality({q \in declared' : g.assigns[q] # x})
                = Cardinality({q \in declared : g.assigns[q] # x}) + 1
      <3> DEFINE S == {q \in declared : g.assigns[q] # x}
      <3>1. {q \in declared' : g.assigns[q] # x} = S \cup {p}
        BY <1>1, <2>2
      <3>2. IsFiniteSet(S) /\ p \notin S
        BY <2>4
      <3> HIDE DEF S
      <3>3. Cardinality(S \cup {p}) = Cardinality(S) + 1
        BY <3>2, FS_AddElement
      <3> QED BY <3>1, <3>3 DEF S
    <2> QED BY <1>2, <1>3, <2>5 DEF Counts, Well
  <1>5. Well(g', declared')
    <2>1. Shape(g') /\ Lists(g')
      BY <1>2, <1>3 DEF Well, Shape, Lists
    <2>2. Listed(g') = Listed(g) /\ Assigned(g') = Assigned(g)
      BY <1>3 DEF Listed, Assigned
    <2> QED BY <1>1, <1>2, <1>3, <1>4, <2>1, <2>2 DEF Well
  <1>6. TrailInv'
    <2>1. Ordered(trail, declared', level)
      BY <1>1 DEF StepInv, TrailInv, Ordered
    <2> QED BY <1>1, <2>1 DEF StepInv, TrailInv, Behindhand
  <1>7. AgainInv' /\ LazyInv'
    BY <1>1 DEF StepInv, AgainInv, LazyInv, SolverVars
  <1>8. SyncInv'
    <2>1. InSync(g', declared', trail, Len(trail), level)
      <3> DEFINE h == g'
                 E == declared'
      <3>1. /\ Well(h, E) /\ Same(h, g) /\ Len(trail) \in Nat
            /\ SameEntries(trail, trail, Len(trail))
        BY <1>3, <1>5, TrailVars DEF Same, SameEntries
      <3> HIDE DEF h, E
      <3>2. InSync(h, E, trail, Len(trail), level)
        BY <1>2, <3>1, SameInSync
      <3> QED BY <3>2 DEF h, E
    <2> QED BY <1>1, <1>5, <2>1 DEF SyncInv, Cut, Top, Behindhand
  <1> QED BY <1>6, <1>7, <1>8 DEF StepInv

\* When lazy backtracking may be switched on at level 0, every property literal
\* has been assigned there, and alike.
LEMMA MayTurnLazy ==
    ASSUME StepInv, phase # "unsat", toReenqueue = <<>>, ~Behindhand, ~lazyOn, level = 0,
           MayBeLazy(g)
    PROVE  Unanimous(trail, declared)
  <1>1. /\ Well(g, declared) /\ Listed(g) = SolverVars /\ g.lazy = <<>>
        /\ \A i \in DOMAIN trail : g.assigns[trail[i].var] = Bool(trail[i].val)
        /\ declared \in SUBSET Prop /\ Ordered(trail, declared, 0)
    BY StepAgrees DEF StepInv, TrailInv
  <1>2. IsFiniteSet(declared)
    BY <1>1, GraphTrailAssumption, FS_Subset
  <1>3. ASSUME NEW x, Cardinality({q \in declared : g.assigns[q] # x}) <= 0
        PROVE  \A p \in declared : g.assigns[p] = x
    <2> DEFINE S == {q \in declared : g.assigns[q] # x}
    <2>1. IsFiniteSet(S)
      BY <1>2, FS_Subset
    <2>2. S = {}
      <3>1. Cardinality(S) \in Nat
        BY <2>1, FS_CardinalityType
      <3> HIDE DEF S
      <3>2. Cardinality(S) = 0
        BY <3>1, <1>3 DEF S
      <3> QED BY <2>1, <3>2, FS_EmptySet
    <2> QED BY <2>2
  <1>4. PICK b \in BOOLEAN : \A p \in declared : g.assigns[p] = Bool(b)
    <2>1. \A x : Cardinality({q \in declared : g.assigns[q] # x}) \in Int
      <3> TAKE x
      <3>1. IsFiniteSet({q \in declared : g.assigns[q] # x})
        BY <1>2, FS_Subset
      <3> QED BY <3>1, FS_CardinalityType
    <2>2. /\ g.pos = Cardinality({q \in declared : g.assigns[q] # "T"})
          /\ g.neg = Cardinality({q \in declared : g.assigns[q] # "F"})
      BY <1>1 DEF Well, Counts
    <2>3. g.pos <= 0 \/ g.neg <= 0
      <3>1. g.pos \in Int /\ g.neg \in Int
        BY <2>1, <2>2
      <3> QED BY <3>1 DEF MayBeLazy
    <2>4. CASE g.pos <= 0
      BY <2>2, <2>4, <1>3 DEF Bool
    <2>5. CASE g.neg <= 0
      BY <2>2, <2>5, <1>3 DEF Bool
    <2> QED BY <2>3, <2>4, <2>5
  <1>5. ASSUME NEW p \in declared
        PROVE  \E r \in Members(trail) : r.var = p /\ r.val = b /\ r.at = 0
    <2>1. p \in SolverVars
      <3>1. p \in Assigned(g)
        BY <1>1, <1>4 DEF Assigned, Var, Bool
      <3>2. Members(g.lazy) = {}
        BY <1>1 DEF Members
      <3> QED BY <1>1, <3>1, <3>2 DEF Well
    <2>2. PICK i \in DOMAIN trail : trail[i].var = p
      BY <2>1 DEF SolverVars
    <2>3. trail[i].val = b
      <3>1. Bool(trail[i].val) = Bool(b) /\ trail[i].val \in BOOLEAN
        BY <1>1, <1>4, <2>2, TrailVars, EntryFacts
      <3> QED BY <3>1 DEF Bool
    <2>4. trail[i].at = 0
      BY <1>1, TrailVars, EntryFacts DEF Ordered
    <2> QED BY <2>2, <2>3, <2>4 DEF Members
  <1> QED BY <1>5 DEF Unanimous

\* Lazy backtracking that is on stays on.
LEMMA StaysLazy ==
    ASSUME StepInv, phase # "unsat", toReenqueue = <<>>, ~Behindhand, lazyOn
    PROVE  MayBeLazy(g)
  <1>1. PICK b \in BOOLEAN : \A p \in declared : \E r \in Members(trail) :
              r.var = p /\ r.val = b /\ r.at = 0
    BY DEF StepInv, LazyInv, Unanimous
  <1>2. /\ Well(g, declared)
        /\ \A i \in DOMAIN trail : g.assigns[trail[i].var] = Bool(trail[i].val)
    BY StepAgrees
  <1>3. \A p \in declared : g.assigns[p] = Bool(b)
    BY <1>1, <1>2 DEF Members
  <1>4. g.pos = 0 \/ g.neg = 0
    <2>1. Cardinality({}) = 0
      BY FS_EmptySet
    <2>2. CASE b
      <3>1. {p \in declared : g.assigns[p] # "T"} = {}
        BY <1>3, <2>2 DEF Bool
      <3> QED BY <2>1, <3>1, <1>2 DEF Well, Counts
    <2>3. CASE ~b
      <3>1. {p \in declared : g.assigns[p] # "F"} = {}
        BY <1>3, <2>3 DEF Bool
      <3> QED BY <2>1, <3>1, <1>2 DEF Well, Counts
    <2> QED BY <2>2, <2>3
  <1> QED BY <1>4 DEF MayBeLazy

\* propagateTheory, up to the detector.
LEMMA PropagateStep ==
    ASSUME StepInv, Propagate
    PROVE  StepInv'
  <1>1. /\ phase = "search" /\ phase' = "update" /\ toReenqueue = <<>> /\ ~Behindhand
        /\ lazyOn' = (lazyOn \/ (lazyOption /\ TheoryLevel(g) = 0 /\ MayBeLazy(g)))
        /\ UNCHANGED <<g, declared, lazyOption, trail, level, toReenqueue, bound>>
        /\ bound \in Nat \ {0} /\ ~Behindhand'
    <2>1. /\ phase = "search" /\ phase' = "update"
          /\ lazyOn' = (lazyOn \/ (lazyOption /\ TheoryLevel(g) = 0 /\ MayBeLazy(g)))
          /\ UNCHANGED <<g, declared, lazyOption, trail, level, toReenqueue, bound>>
      BY DEF Propagate, options, solver, answer
    <2>2. toReenqueue = <<>> /\ bound \in Nat \ {0}
      BY <2>1 DEF StepInv, TrailInv, AgainInv
    <2> QED BY <2>1, <2>2 DEF Behindhand
  <1>2. CASE lazyOn' = lazyOn
    <2>1. Well(g', declared) /\ Same(g', g)
      BY <1>1 DEF StepInv, SyncInv, Same
    <2> QED BY <1>1, <1>2, <2>1, QuietStep
  <1>3. CASE lazyOn' # lazyOn
    <2>1. /\ ~lazyOn /\ lazyOn' /\ lazyOption /\ TheoryLevel(g) = 0 /\ MayBeLazy(g)
          /\ lazyOn' \in BOOLEAN
      <3>1. lazyOn \in BOOLEAN
        BY DEF StepInv, TrailInv
      <3> QED BY <1>1, <1>3, <3>1
    <2>2. InSync(g, declared, trail, Len(trail), level) /\ level \in Nat
      BY <1>1, <2>1 DEF StepInv, TrailInv, SyncInv, Cut, Top
    <2>3. level = 0
      <3>1. Len(g.decisions) = level + 1
        BY <2>2 DEF InSync, Filed
      <3> QED BY <2>1, <2>2, <3>1 DEF TheoryLevel
    <2>4. Unanimous(trail, declared)
      BY <1>1, <2>1, <2>3, MayTurnLazy
    <2>5. Loose(g, declared, trail, toReenqueue)
      <3>1. /\ Vars(toReenqueue, Len(toReenqueue)) = {}
            /\ Agrees(g, toReenqueue, Len(toReenqueue))
        BY <1>1 DEF Vars, Agrees
      <3> QED BY <2>2, <3>1 DEF InSync, Loose
    <2>6. TrailInv' /\ AgainInv'
      BY <1>1, <2>1 DEF StepInv, TrailInv, AgainInv, SolverVars
    <2>7. LazyInv' /\ SyncInv'
      BY <1>1, <2>1, <2>4, <2>5 DEF LazyInv, SyncInv, Loose
    <2> QED BY <2>6, <2>7 DEF StepInv
  <1> QED BY <1>2, <1>3

\* The units, in the order they are asserted in.
LEMMA UnitsSeq ==
    /\ Cardinality(Units) \in Nat
    /\ SetToSeq(Units) \in [1..Cardinality(Units) -> Units]
    /\ SetToSeq(Units) \in Seq(Edge) /\ Len(SetToSeq(Units)) = Cardinality(Units)
    /\ Members(SetToSeq(Units)) = Units
    /\ \A i, j \in 1..Cardinality(Units) : i # j => SetToSeq(Units)[i] # SetToSeq(Units)[j]
  <1> DEFINE n == Cardinality(Units)
             s == SetToSeq(Units)
  <1>1. n \in Nat /\ ExistsBijection(1..n, Units)
    BY GraphTheoryAssumption, FS_CardinalityType
  <1>2. \E f \in [1..n -> Units] : IsInjective(f)
    BY <1>1 DEF ExistsBijection, Bijection, Injection
  <1>3. s \in [1..n -> Units] /\ IsInjective(s)
    BY <1>2 DEF SetToSeq
  <1>4. s \in Injection(1..n, Units)
    BY <1>3 DEF Injection
  <1>5. Cardinality(1..n) = n
    BY <1>1, FS_Interval
  <1> HIDE DEF n, s
  <1>6. s \in Surjection(1..n, Units)
    <2>1. Cardinality(1..n) = Cardinality(Units)
      BY <1>5 DEF n
    <2> QED BY <1>4, <2>1, GraphTheoryAssumption, FS_Injection
  <1>7. Members(s) = Units
    BY <1>3, <1>6 DEF Members, Surjection
  <1>8. \A i, j \in 1..n : i # j => s[i] # s[j]
    BY <1>3 DEF IsInjective
  <1>9. s \in Seq(Edge) /\ Len(s) = n
    BY <1>1, <1>3, GraphTheoryAssumption
  <1> QED BY <1>1, <1>3, <1>7, <1>8, <1>9 DEF n, s

\* What is listed once is behind another exactly when it comes later.
LEMMA BehindInOrder ==
    ASSUME NEW T, NEW s \in Seq(T), \A i, j \in DOMAIN s : i # j => s[i] # s[j],
           NEW i \in DOMAIN s
    PROVE  Behind(s, s[i]) = {s[j] : j \in (i + 1)..Len(s)}
  <1>1. DOMAIN s = 1..Len(s) /\ Len(s) \in Nat
    OBVIOUS
  <1>2. {j \in DOMAIN s : \A k \in j..Len(s) : s[k] # s[i]} = (i + 1)..Len(s)
    <2>1. ASSUME NEW j \in DOMAIN s, \A k \in j..Len(s) : s[k] # s[i] PROVE j \in (i + 1)..Len(s)
      <3>1. ~(i \in j..Len(s))
        BY <2>1
      <3> QED BY <3>1, <1>1
    <2>2. ASSUME NEW j \in (i + 1)..Len(s)
          PROVE  j \in DOMAIN s /\ \A k \in j..Len(s) : s[k] # s[i]
      BY <1>1
    <2> QED BY <2>1, <2>2
  <1> QED BY <1>2 DEF Behind

\* The theory has told its lists once, in the solver's order.
LEMMA FiledOnce ==
    ASSUME NEW D, NEW t, Ordered(t, D, 0), NEW h, NEW s \in Seq(Var),
           h.decisions = <<s>>, Len(s) = Len(t), \A i \in 1..Len(t) : s[i] = t[i].var
    PROVE  Filed(h, t, Len(t), 0)
  <1> DEFINE n == Len(t)
  <1>1. /\ t \in Seq(Entry) /\ n \in Nat /\ DOMAIN t = 1..n /\ DOMAIN s = 1..n
        /\ h.decisions[1] = s /\ Len(h.decisions) = 1
    BY DEF Ordered
  <1>2. \A i \in 1..n : t[i].at = 0
    BY <1>1, EntryFacts DEF Ordered
  <1>3. \A i, j \in DOMAIN s : i # j => s[i] # s[j]
    <2> TAKE i, j \in DOMAIN s
    <2>1. i < j \/ j < i \/ i = j
      BY <1>1
    <2> QED BY <2>1, <1>1 DEF Ordered
  <1>4. Members(s) = FiledAt(t, n, 0)
    BY <1>1, <1>2 DEF Members, FiledAt
  <1>5. ASSUME NEW i \in 1..n PROVE Behind(s, t[i].var) = FiledBehind(t, n, i)
    <2>1. Behind(s, s[i]) = {s[j] : j \in (i + 1)..n}
      <3>1. i \in DOMAIN s /\ Len(s) = n
        BY <1>1
      <3> HIDE DEF n
      <3>2. Behind(s, s[i]) = {s[j] : j \in (i + 1)..Len(s)}
        BY <1>3, <3>1, BehindInOrder
      <3> QED BY <3>1, <3>2
    <2>2. \A j \in (i + 1)..n : j \in 1..n
      BY <1>1
    <2>3. FiledBehind(t, n, i) = {s[j] : j \in (i + 1)..n}
      BY <1>1, <1>2, <2>2 DEF FiledBehind
    <2> QED BY <1>1, <2>1, <2>3
  <1> QED BY <1>1, <1>2, <1>4, <1>5 DEF Filed

\* In the beginning there are only the units.
LEMMA InitStep == Init => StepInv
  <1> SUFFICES ASSUME Init PROVE StepInv
    OBVIOUS
  <1> DEFINE n == Cardinality(Units)
             s == SetToSeq(Units)
             D == Prop \ Late
  <1>1. /\ n \in Nat /\ s \in [1..n -> Units] /\ s \in Seq(Edge) /\ Len(s) = n /\ Members(s) = Units
        /\ \A i, j \in 1..n : i # j => s[i] # s[j]
    BY UnitsSeq
  <1>2. /\ declared = D /\ lazyOn = FALSE /\ level = 0 /\ phase = "idle" /\ toReenqueue = <<>>
        /\ bound = 1
        /\ trail = [i \in 1..n |-> [var |-> s[i], val |-> TRUE, lev |-> 0, at |-> 0,
                                    by |-> "clause"]]
    BY DEF Init
  <1>3. /\ g.assigns = [v \in Var |-> IF v \in Units THEN "T" ELSE "U"]
        /\ g.decisions = <<s>> /\ g.lazy = <<>> /\ g.changed = {}
        /\ g.pos = Cardinality(D) /\ g.neg = Cardinality(D)
        /\ g = [f \in Fields |-> g[f]]
    BY DEF Init, EmptyTrail, Fields
  <1> HIDE DEF n, s, D
  <1>4. /\ trail \in Seq(Entry) /\ Len(trail) = n /\ DOMAIN trail = 1..n
        /\ \A i \in 1..n : /\ trail[i].var = s[i] /\ trail[i].val = TRUE /\ trail[i].lev = 0
                           /\ trail[i].at = 0 /\ trail[i].by = "clause"
                           /\ trail[i].var \in Edge
    <2>1. \A i \in 1..n : s[i] \in Edge
      BY <1>1
    <2>2. 0 \in 0..MaxLevel
      BY GraphTrailAssumption
    <2>3. trail \in [1..n -> Entry]
      BY <1>2, <2>1, <2>2 DEF Entry, Var
    <2> QED BY <1>1, <1>2, <2>1, <2>3
  <1>5. Ordered(trail, D, 0)
    <2>1. \A i, j \in 1..n : i < j => s[i] # s[j]
      BY <1>1
    <2> QED BY <1>4, <2>1 DEF Ordered
  <1>6. Units \subseteq Edge /\ D \subseteq Prop /\ Edge \cap Prop = {} /\ s \in Seq(Var)
    BY <1>1, GraphTrailAssumption, GraphTheoryAssumption DEF D, Var
  <1>7. Well(g, D)
    <2>1. Shape(g)
      BY <1>3 DEF Shape, Value
    <2>2. Lists(g)
      <3>1. <<s>> \in Seq(Seq(Var)) /\ Len(<<s>>) = 1
        BY <1>6
      <3> QED BY <3>1, <1>3 DEF Lists
    <2>3. Counts(g, D)
      <3>1. \A p \in D : g.assigns[p] = "U"
        BY <1>3, <1>6 DEF Var
      <3>2. {p \in D : g.assigns[p] # "T"} = D /\ {p \in D : g.assigns[p] # "F"} = D
        BY <3>1
      <3> QED BY <3>2, <1>3 DEF Counts
    <2>4. Assigned(g) = Units
      BY <1>3, <1>6 DEF Assigned, Var
    <2>5. Listed(g) = Units
      <3>1. DOMAIN g.decisions = {1} /\ g.decisions[1] = s
        BY <1>3
      <3> QED BY <3>1, <1>1 DEF Listed
    <2>6. Members(g.lazy) = {}
      BY <1>3 DEF Members
    <2> QED BY <2>1, <2>2, <2>3, <2>4, <2>5, <2>6, <1>3, <1>6 DEF Well
  <1>8. InSync(g, D, trail, n, 0)
    <2>1. Filed(g, trail, n, 0)
      <3>1. Len(s) = Len(trail) /\ \A i \in 1..Len(trail) : s[i] = trail[i].var
        BY <1>1, <1>4
      <3>2. g.decisions = <<s>> /\ n = Len(trail) /\ s \in Seq(Var)
        BY <1>3, <1>4, <1>6
      <3>3. Filed(g, trail, Len(trail), 0)
        BY <3>1, <3>2, <1>5, FiledOnce
      <3> QED BY <3>2, <3>3
    <2>2. Vars(trail, n) = Units
      BY <1>1, <1>4 DEF Vars, Members
    <2>3. Listed(g) = Units
      <3>1. DOMAIN g.decisions = {1} /\ g.decisions[1] = s
        BY <1>3
      <3> QED BY <3>1, <1>1 DEF Listed
    <2>4. Agrees(g, trail, n)
      BY <1>1, <1>3, <1>4, <1>6 DEF Agrees, Bool, Var
    <2> QED BY <2>1, <2>2, <2>3, <2>4, <1>3, <1>7 DEF InSync
  <1>9. TrailInv
    <2>1. MaxLevel \in Nat
      BY GraphTrailAssumption
    <2>2. Ordered(trail, declared, level)
      BY <1>2, <1>5
    <2>3. level \in 0..MaxLevel /\ bound \in Nat \ {0}
      BY <1>2, <2>1
    <2>4. declared \in SUBSET Prop /\ lazyOn \in BOOLEAN
      BY <1>2, <1>6
    <2>5. phase # "analyze" /\ ~Behindhand /\ level = 0
      BY <1>2 DEF Behindhand
    <2> QED BY <2>2, <2>3, <2>4, <2>5 DEF TrailInv
  <1>10. AgainInv /\ LazyInv
    <2>1. DOMAIN toReenqueue = {} /\ toReenqueue \in Seq(Entry)
      BY <1>2
    <2> QED BY <1>2, <2>1 DEF AgainInv, LazyInv
  <1>11. SyncInv
    BY <1>2, <1>4, <1>7, <1>8 DEF SyncInv, Cut, Top, Behindhand
  <1> QED BY <1>9, <1>10, <1>11 DEF StepInv

-----------------------------------------------------------------------------
Retells(u, h, D, s) ==
    /\ Well(u, D) /\ u.assigns = h.assigns /\ Listed(u) = Listed(h) /\ u.lazy = h.lazy
    /\ DOMAIN u.decisions = DOMAIN h.decisions /\ u.decisions[Len(h.decisions)] = s

\* preprocess tells the theory of level 0 again: one list, in the solver's order.
LEMMA RetellWell ==
    ASSUME NEW D \in SUBSET Prop, NEW h, Well(h, D),
           NEW s \in Seq(Var), s # <<>>, Members(s) = Listed(h)
    PROVE  Retells(Retell(h, s), h, D, s)
  <1> DEFINE r == RemoveFromTrail(h, Members(s))
             n == Len(h.decisions)
             u == Retell(h, s)
  <1>1. /\ Shape(h) /\ Lists(h) /\ n \in Nat /\ n >= 1 /\ DOMAIN h.decisions = 1..n
        /\ \A i \in 1..n : h.decisions[i] \in Seq(Var)
        /\ h.lazy \in Seq(Var) /\ Members(h.lazy) \cap Members(s) = {}
    BY DEF Well, Lists
  <1>2. /\ Shape(r) /\ Lists(r) /\ Listed(r) = {}
        /\ r.lazy = Without(h.lazy, Members(s))
        /\ DOMAIN r.decisions = 1..n
        /\ \A i \in 1..n : r.decisions[i] = Without(h.decisions[i], Members(s))
        /\ r.assigns = h.assigns /\ r.pos = h.pos /\ r.neg = h.neg /\ r.changed = h.changed
    BY <1>1, RemoveLists
  <1>3. r.lazy = h.lazy
    BY <1>1, <1>2, WithoutFacts
  <1>4. ASSUME NEW i \in 1..n PROVE r.decisions[i] = <<>>
    <2>1. Members(h.decisions[i]) \subseteq Members(s)
      BY <1>1 DEF Listed
    <2> QED BY <1>1, <1>2, <2>1, WithoutFacts
  <1> DEFINE d == [i \in 1..n |-> IF i = n THEN s ELSE <<>>]
  <1>5. /\ u.decisions = d /\ u = [f \in Fields |-> u[f]] /\ u.assigns = h.assigns
        /\ u.lazy = h.lazy /\ u.pos = h.pos /\ u.neg = h.neg /\ u.changed = h.changed
    <2> HIDE DEF r, n
    <2>1. u = [r EXCEPT !.decisions[n] = @ \o s]
      BY DEF Retell, r, n
    <2>2. r.decisions \in Seq(Seq(Var)) /\ r = [f \in Fields |-> r[f]]
      BY <1>2 DEF Lists, Shape
    <2>3. u.decisions = [r.decisions EXCEPT ![n] = @ \o s]
      BY <2>1, <2>2 DEF Fields
    <2>4. n \in 1..n /\ r.decisions[n] \o s = s
      <3>1. n \in 1..n
        BY <1>1
      <3>2. r.decisions[n] = <<>>
        BY <3>1, <1>4
      <3> QED BY <3>1, <3>2
    <2>5. [r.decisions EXCEPT ![n] = @ \o s] = d
      BY <1>1, <1>2, <1>4, <2>2, <2>4
    <2> QED BY <2>1, <2>2, <2>3, <2>5, <1>2, <1>3 DEF Fields
  <1> HIDE DEF u
  <1>6. Lists(u)
    <2>1. d \in Seq(Seq(Var)) /\ Len(d) = n
      <3>1. \A i \in 1..n : (IF i = n THEN s ELSE <<>>) \in Seq(Var)
        OBVIOUS
      <3> QED BY <3>1, <1>1
    <2> HIDE DEF d
    <2> QED BY <2>1, <1>1, <1>5 DEF Lists
  <1>7. Listed(u) = Members(s) /\ u.decisions[n] = s /\ DOMAIN u.decisions = 1..n
    <2>1. Members(<<>>) = {}
      BY DEF Members
    <2>2. DOMAIN d = 1..n /\ \A i \in 1..n : Members(d[i]) = IF i = n THEN Members(s) ELSE {}
      BY <2>1
    <2>3. n \in 1..n /\ d[n] = s
      BY <1>1
    <2> HIDE DEF d, n
    <2> QED BY <1>5, <2>2, <2>3 DEF Listed
  <1>8. Shape(u) /\ Counts(u, D) /\ Assigned(u) = Assigned(h)
    <2>1. Shape(h) /\ Counts(h, D)
      BY DEF Well
    <2>2. Shape(u)
      BY <2>1, <1>5 DEF Shape
    <2>3. Counts(u, D)
      BY <2>1, <1>5 DEF Counts
    <2> QED BY <2>2, <2>3, <1>5 DEF Assigned
  <1>9. Well(u, D)
    BY <1>5, <1>6, <1>7, <1>8 DEF Well
  <1>10. Retells(u, h, D, s)
    BY <1>1, <1>5, <1>7, <1>9 DEF Retells
  <1> QED BY <1>10 DEF u

\* solve: whether backtracking is lazy is settled, and level 0 is told again.
LEMMA SolveStep ==
    ASSUME StepInv, Solve
    PROVE  StepInv'
  <1> DEFINE n == Len(trail)
             s == [i \in DOMAIN trail |-> trail[i].var]
  <1>1. /\ phase = "idle" /\ phase' = "search"
        /\ lazyOn' = IF lazyOption THEN MayBeLazy(g) ELSE lazyOn
        /\ g' = Retell(g, s)
        /\ UNCHANGED <<declared, lazyOption, trail, level, toReenqueue, bound>>
    BY DEF Solve, options, solver, answer
  <1>2. /\ toReenqueue = <<>> /\ ~Behindhand /\ ~Behindhand' /\ level = 0
        /\ bound \in Nat \ {0} /\ declared \in SUBSET Prop /\ lazyOn \in BOOLEAN
        /\ Ordered(trail, declared, 0)
    BY <1>1 DEF StepInv, TrailInv, AgainInv, Behindhand
  <1>3. /\ trail \in Seq(Entry) /\ n \in Nat /\ DOMAIN trail = 1..n /\ SolverVars = Vars(trail, n)
        /\ \A i \in 1..n : trail[i].var \in Var
    BY TrailVars, EntryFacts
  <1>4. /\ s \in Seq(Var) /\ Len(s) = n /\ \A i \in 1..n : s[i] = trail[i].var
        /\ Members(s) = Vars(trail, n)
    BY <1>3 DEF Members, Vars
  <1>5. /\ Well(g, declared) /\ Listed(g) = Vars(trail, n) /\ Agrees(g, trail, n)
    BY <1>1, <1>2, <1>3, StepAgrees DEF Agrees
  <1> HIDE DEF s
  <1>6. Well(g', declared) /\ g'.assigns = g.assigns /\ Listed(g') = Listed(g)
    <2>1. CASE s = <<>>
      BY <1>1, <1>5, <2>1 DEF Retell
    <2>2. CASE s # <<>>
      BY <1>1, <1>2, <1>4, <1>5, <2>2, RetellWell DEF Retells
    <2> QED BY <2>1, <2>2
  <1>7. lazyOn' \in BOOLEAN /\ (lazyOn' => lazyOption /\ Unanimous(trail, declared))
    <2>1. lazyOn' \in BOOLEAN
      BY <1>1, <1>2 DEF MayBeLazy
    <2>2. CASE lazyOn
      BY <2>1, <2>2 DEF StepInv, LazyInv
    <2>3. CASE ~lazyOn /\ lazyOn'
      <3>1. lazyOption /\ MayBeLazy(g)
        BY <1>1, <2>3
      <3>2. Unanimous(trail, declared)
        BY <3>1, <2>3, <1>1, <1>2, MayTurnLazy
      <3> QED BY <2>1, <3>1, <3>2
    <2> QED BY <2>1, <2>2, <2>3
  <1>8. CASE lazyOn'
    <2>1. /\ Vars(toReenqueue, Len(toReenqueue)) = {}
          /\ Agrees(g', toReenqueue, Len(toReenqueue))
      BY <1>2 DEF Vars, Agrees
    <2>2. Agrees(g', trail, n)
      BY <1>5, <1>6 DEF Agrees
    <2>3. Loose(g', declared, trail, toReenqueue)
      BY <2>1, <2>2, <1>5, <1>6 DEF Loose
    <2>4. SyncInv'
      BY <1>1, <1>8, <1>6, <2>3 DEF SyncInv
    <2>5. TrailInv' /\ AgainInv' /\ LazyInv'
      BY <1>1, <1>2, <1>7 DEF StepInv, TrailInv, AgainInv, LazyInv, SolverVars
    <2> QED BY <2>4, <2>5 DEF StepInv
  <1>9. CASE ~lazyOn'
    <2>1. ~lazyOn
      <3>1. ASSUME lazyOn PROVE MayBeLazy(g) /\ lazyOption
        BY <3>1, <1>1, <1>2, StaysLazy DEF StepInv, LazyInv
      <3> QED BY <3>1, <1>1, <1>9
    <2>2. InSync(g, declared, trail, n, 0)
      BY <2>1, <1>1, <1>2 DEF StepInv, SyncInv, Cut, Top
    <2>3. InSync(g', declared, trail, n, 0)
      <3>1. CASE s = <<>>
        BY <3>1, <2>2, <1>1 DEF Retell
      <3>2. CASE s # <<>>
        <4>1. Retells(g', g, declared, s)
          BY <1>1, <1>2, <1>4, <1>5, <3>2, RetellWell
        <4>2. Len(g.decisions) = 1 /\ g.lazy = <<>> /\ DOMAIN g.decisions = 1..1
          BY <2>2 DEF InSync, Filed, Well, Lists
        <4>3. g'.decisions = <<s>>
          <5>1. g'.decisions \in Seq(Seq(Var)) /\ DOMAIN g'.decisions = 1..1 /\ g'.decisions[1] = s
            BY <4>1, <4>2 DEF Retells, Well, Lists
          <5> QED BY <5>1
        <4>4. Filed(g', trail, n, 0)
          BY <4>3, <1>2, <1>4, FiledOnce
        <4>5. Agrees(g', trail, n)
          BY <1>5, <1>6 DEF Agrees
        <4> QED BY <4>1, <4>2, <4>4, <4>5, <1>5, <1>6 DEF InSync, Retells
      <3> QED BY <3>1, <3>2
    <2>4. SyncInv'
      BY <1>1, <1>2, <1>9, <1>6, <2>3 DEF SyncInv, Cut, Top
    <2>5. TrailInv' /\ AgainInv' /\ LazyInv'
      BY <1>1, <1>2, <1>7, <1>9 DEF StepInv, TrailInv, AgainInv, LazyInv, SolverVars
    <2> QED BY <2>4, <2>5 DEF StepInv
  <1> QED BY <1>8, <1>9

-----------------------------------------------------------------------------
\* What an explanation says of the theory's assignment: each of its literals
\* is of an edge, and false.
LEMMA ExplanationFalse ==
    ASSUME NEW h, Follow(h), NEW p, NEW reach \in BOOLEAN,
           NEW why \in Explanations(h, p, reach), NEW l \in why
    PROVE  /\ l[1] \in Edge /\ l[2] \in BOOLEAN /\ l = <<l[1], l[2]>>
           /\ h.assigns[l[1]] = Bool(~l[2])
  <1>1. CASE reach
    <2>1. why \in ReachReasons(h, At[p])
      BY <1>1 DEF Explanations
    <2>2. At[p] \in Reached(h.under)
      BY <2>1 DEF ReachReasons
    <2>3. PICK P \in Paths(h.under, At[p]) : why = {<<e, FALSE>> : e \in P}
      BY <2>1, <2>2 DEF ReachReasons
    <2>4. P \subseteq h.under
      BY DEF Paths
    <2>5. PICK e \in P : l = <<e, FALSE>>
      BY <2>3
    <2>6. e \in Edge /\ h.assigns[e] = "T"
      BY <2>4 DEF Follow
    <2> QED BY <2>5, <2>6 DEF Bool
  <1>2. CASE ~reach
    <2>1. l \in NonReachReason(h, At[p])
      BY <1>2 DEF Explanations
    <2>2. PICK e \in Edge : l = <<e, TRUE>> /\ h.assigns[e] = "F"
      BY <2>1 DEF NonReachReason
    <2> QED BY <2>2 DEF Bool
  <1> QED BY <1>1, <1>2

\* So does a conflict, with the literal of the detector.
LEMMA ConflictFalse ==
    ASSUME Inv, NEW p \in declared, declared \subseteq Prop,
           Implied(p) # "U", g.assigns[p] \notin {"U", Implied(p)},
           NEW lits \in Conflicts(p), NEW l \in lits
    PROVE  /\ l[1] \in Edge \cup declared /\ l[2] \in BOOLEAN /\ l = <<l[1], l[2]>>
           /\ g.assigns[l[1]] = Bool(~l[2])
  <1> DEFINE b == Implied(p) = "T"
  <1>1. PICK why \in Explanations(g, p, b) : lits = {<<p, b>>} \cup why
    BY DEF Conflicts
  <1>2. b \in BOOLEAN /\ Implied(p) \in {"T", "F"}
    BY DEF Implied
  <1>3. CASE l \in why
    BY <1>1, <1>2, <1>3, ExplanationFalse DEF Inv
  <1>4. CASE l = <<p, b>>
    <2>1. g.assigns[p] \in Value
      BY DEF Inv, Shape, Var
    <2> QED BY <1>2, <1>4, <2>1 DEF Value, Bool
  <1> QED BY <1>1, <1>3, <1>4

\* A lazy conflict is not one of the solver: what is undone it does not have.
LEMMA LazyConflictStep ==
    ASSUME Inv, StepInv, NEW p \in Prop, LazyConflict(p)
    PROVE  StepInv'
  <1>1. /\ phase = "detect" /\ phase' = "update" /\ p \in g.changed
        /\ Implied(p) # "U" /\ g.assigns[p] \notin {"U", Implied(p)}
        /\ UNCHANGED <<declared, lazyOption, lazyOn, trail, level, toReenqueue, bound>>
    BY DEF LazyConflict, options, solver, answer
  <1>2. PICK lits \in Conflicts(p) :
          /\ IsLazyConflict(lits)
          /\ \/ g' = BacktrackUntil(g, TheoryLevel(g))
             \/ \E S \in SUBSET OnlyLazy(lits) : g' = Undo(g, S)
    BY DEF LazyConflict
  <1>3. /\ lazyOn /\ ~Behindhand /\ toReenqueue = <<>> /\ declared \in SUBSET Prop
        /\ Well(g, declared) /\ Loose(g, declared, trail, toReenqueue)
        /\ bound \in Nat \ {0} /\ p \in declared
    BY <1>1, <1>2 DEF IsLazyConflict, StepInv, TrailInv, AgainInv, SyncInv, Behindhand, Well
  <1>4. /\ Listed(g) = SolverVars
        /\ \A v \in SolverVars : g.assigns[v] = SolverValue(v)
    BY <1>1, <1>3, StepAgrees
  <1>5. /\ Well(g', declared) /\ Listed(g') = Listed(g)
        /\ \A v \in Listed(g) : g'.assigns[v] = g.assigns[v]
    <2>0. Listed(g) \subseteq Var
      BY <1>3 DEF Well, Assigned
    <2>1. CASE g' = BacktrackUntil(g, TheoryLevel(g))
      <3> DEFINE k == TheoryLevel(g)
                 U == Undone(g, k)
      <3>1. k \in Nat /\ k = Len(g.decisions) - 1 /\ g.decisions \in Seq(Seq(Var))
        BY <1>3 DEF Well, Lists, TheoryLevel
      <3>2. U = Members(g.lazy)
        <4>1. {j \in DOMAIN g.decisions : j > k + 1} = {}
          BY <3>1
        <4> HIDE DEF k
        <4>2. Above(g, k) = {}
          BY <4>1 DEF Above
        <4> QED BY <4>2 DEF Undone
      <3>3. U \cap Listed(g) = {}
        BY <3>2, <1>3 DEF Well
      <3>4. BacktracksUntil(g', g, declared, k)
        BY <2>1, <3>1, <1>3, BacktrackUntilWell
      <3> HIDE DEF k
      <3> QED BY <3>3, <3>4, <2>0 DEF BacktracksUntil
    <2>2. ASSUME NEW S \in SUBSET OnlyLazy(lits), g' = Undo(g, S)
          PROVE  /\ Well(g', declared) /\ Listed(g') = Listed(g)
                 /\ \A v \in Listed(g) : g'.assigns[v] = g.assigns[v]
      <3>1. ASSUME NEW v \in S PROVE v \in Assigned(g) \ Listed(g)
        <4>1. PICK l \in lits : v = l[1] /\ SolverValue(v) # g.assigns[v]
          BY DEF OnlyLazy
        <4>2. v \in Edge \cup declared /\ g.assigns[v] # "U"
          BY <4>1, <1>1, <1>3, ConflictFalse DEF Bool
        <4> QED BY <4>1, <4>2, <1>3, <1>4 DEF Assigned, Var
      <3>2. Undoes(g', g, declared, S)
        BY <3>1, <2>2, <1>3, UndoWell
      <3> QED BY <3>1, <3>2, <2>0 DEF Undoes
    <2> QED BY <1>2, <2>1, <2>2
  <1>6. Loose(g', declared, trail, toReenqueue)
    <2>1. /\ Vars(trail, Len(trail)) \subseteq Listed(g)
          /\ Vars(toReenqueue, Len(toReenqueue)) \subseteq Listed(g)
      BY <1>3 DEF Loose
    <2>2. Agrees(g', trail, Len(trail)) /\ Agrees(g', toReenqueue, Len(toReenqueue))
      BY <1>3, <1>5, <2>1 DEF Loose, Agrees, Vars
    <2> QED BY <1>3, <1>5, <2>2 DEF Loose
  <1>7. TrailInv' /\ AgainInv' /\ LazyInv'
    BY <1>1, <1>3 DEF StepInv, TrailInv, AgainInv, LazyInv, Behindhand, SolverVars
  <1>8. SyncInv'
    BY <1>1, <1>3, <1>5, <1>6 DEF SyncInv
  <1> QED BY <1>7, <1>8 DEF StepInv

-----------------------------------------------------------------------------
\* Where the theory's trail ends.
LEMMA CutFacts ==
    ASSUME StepInv
    PROVE  /\ Cut \in 0..Len(trail) /\ Top \in Nat /\ Top <= level
           /\ \A j \in 1..Cut : trail[j].at <= Top
           /\ \A i, j \in DOMAIN trail : i < j => /\ trail[i].var # trail[j].var
                                                  /\ trail[i].at <= trail[j].at
           /\ \A i, j \in DOMAIN trail : trail[i].var = trail[j].var => i = j
  <1>1. /\ Len(trail) \in Nat /\ DOMAIN trail = 1..Len(trail) /\ bound \in Nat \ {0}
        /\ \A i \in DOMAIN trail : trail[i].at \in Nat /\ trail[i].at <= level
        /\ level \in Nat
        /\ \A i, j \in DOMAIN trail : i < j => /\ trail[i].var # trail[j].var
                                               /\ trail[i].at <= trail[j].at
    BY TrailVars, EntryFacts DEF StepInv, TrailInv, Ordered
  <1>2. \A i, j \in DOMAIN trail : trail[i].var = trail[j].var => i = j
    <2> TAKE i, j \in DOMAIN trail
    <2>1. i < j \/ j < i \/ i = j
      BY <1>1
    <2> QED BY <2>1, <1>1
  <1>3. CASE Behindhand
    <2>1. bound \in DOMAIN trail /\ Cut = bound /\ Top = trail[bound].at
      BY <1>1, <1>3 DEF Behindhand, Cut, Top
    <2>2. \A j \in 1..bound : trail[j].at <= trail[bound].at
      <3> TAKE j \in 1..bound
      <3>1. j = bound \/ (j < bound /\ j \in DOMAIN trail)
        BY <1>1, <2>1
      <3> QED BY <3>1, <2>1, <1>1
    <2> QED BY <1>1, <1>2, <2>1, <2>2
  <1>4. CASE ~Behindhand
    BY <1>1, <1>2, <1>4 DEF Cut, Top
  <1> QED BY <1>3, <1>4

\* A literal that is explained was the theory's, and has a place there still.
LEMMA ExplainInSync ==
    ASSUME StepInv, NEW i \in DOMAIN trail, Explain(i)
    PROVE  /\ ~lazyOn /\ i \in 1..Cut /\ trail[i].lev = trail[i].at
           /\ trail[i].var \in declared /\ trail[i].val = (trail[i].by = "under")
           /\ InSync(g', declared, trail, i, trail[i].at)
  <1>1. /\ phase = "analyze" /\ i < bound /\ trail[i].by # "clause" /\ trail[i].lev > 0
        /\ g' = BacktrackBehind(g, trail[i].var, trail[i].lev)
    BY DEF Explain
  <1>2. /\ trail[i].var \in declared /\ trail[i].lev = trail[i].at
        /\ trail[i].val = (trail[i].by = "under")
    BY <1>1 DEF StepInv, TrailInv, Ordered
  <1>3. ~lazyOn
    <2> SUFFICES ASSUME lazyOn PROVE FALSE
      OBVIOUS
    <2>1. PICK j \in DOMAIN trail : trail[j].var = trail[i].var /\ trail[j].at = 0
      BY <1>2 DEF StepInv, LazyInv, Unanimous, Members
    <2>2. j = i
      BY <2>1, CutFacts
    <2> QED BY <1>1, <1>2, <2>1, <2>2
  <1>4. i \in 1..Cut /\ Cut \in 0..Len(trail)
    BY <1>1, CutFacts, TrailVars DEF Behindhand, Cut, StepInv, TrailInv
  <1>5. InSync(g, declared, trail, Cut, Top)
    BY <1>1, <1>3 DEF StepInv, SyncInv
  <1>6. /\ declared \in SUBSET Prop /\ trail \in Seq(Entry) /\ Top \in Nat
        /\ \A a, b \in 1..Cut : a < b => /\ trail[a].var # trail[b].var
                                         /\ trail[a].at <= trail[b].at
        /\ \A a \in 1..Cut : trail[a].at <= Top
    BY <1>4, CutFacts, TrailVars DEF StepInv, TrailInv
  <1>7. InSync(BacktrackBehind(g, trail[i].var, trail[i].at), declared, trail, i, trail[i].at)
    BY <1>4, <1>5, <1>6, BehindInSync
  <1> QED BY <1>1, <1>2, <1>3, <1>4, <1>7

\* constructReason: the theory goes back behind the literal, its marker is gone.
LEMMA ExplainStep ==
    ASSUME StepInv, NEW i \in DOMAIN trail, Explain(i)
    PROVE  StepInv'
  <1> DEFINE u == [trail EXCEPT ![i].by = "clause"]
             n == Len(trail)
  <1>1. /\ phase = "analyze" /\ i < bound /\ trail' = u /\ bound' = i
        /\ UNCHANGED <<declared, lazyOption, lazyOn, level, phase, toReenqueue>>
    BY DEF Explain, options
  <1>2. /\ ~lazyOn /\ i \in 1..Cut /\ trail[i].lev = trail[i].at
        /\ InSync(g', declared, trail, i, trail[i].at)
    BY ExplainInSync
  <1>3. /\ trail \in Seq(Entry) /\ n \in Nat /\ DOMAIN trail = 1..n
        /\ \A j \in 1..n : trail[j] \in Entry
        /\ Ordered(trail, declared, level) /\ i \in Nat \ {0} /\ i <= n
    BY TrailVars DEF StepInv, TrailInv
  <1>4. /\ \A j \in 1..n : /\ u[j].var = trail[j].var /\ u[j].val = trail[j].val
                           /\ u[j].at = trail[j].at /\ u[j].lev = trail[j].lev
        /\ \A j \in 1..n : j # i => u[j] = trail[j]
        /\ u[i].by = "clause"
        /\ u \in Seq(Entry) /\ Len(u) = n /\ DOMAIN u = 1..n
    <2>1. trail[i] = [var |-> trail[i].var, val |-> trail[i].val, lev |-> trail[i].lev,
                      at |-> trail[i].at, by |-> trail[i].by]
      BY <1>3 DEF Entry
    <2>2. /\ u[i] = [var |-> trail[i].var, val |-> trail[i].val, lev |-> trail[i].lev,
                     at |-> trail[i].at, by |-> "clause"]
          /\ \A j \in 1..n : j # i => u[j] = trail[j]
          /\ DOMAIN u = 1..n
      BY <2>1, <1>3
    <2>3. u[i] \in Entry
      BY <2>2, <1>3 DEF Entry
    <2>4. u \in [1..n -> Entry]
      <3> HIDE DEF u
      <3>1. \A j \in 1..n : u[j] \in Entry
        BY <1>3, <2>2, <2>3
      <3>2. u = [j \in 1..n |-> u[j]]
        BY <1>3, <2>2 DEF u
      <3> QED BY <3>1, <3>2
    <2> HIDE DEF u
    <2> QED BY <1>3, <2>2, <2>4
  <1> HIDE DEF u
  <1>5. Ordered(u, declared, level)
    <2>1. \A j \in 1..n : u[j].by # "clause" => u[j] = trail[j]
      BY <1>4
    <2> QED BY <1>3, <1>4, <2>1 DEF Ordered
  <1>6. Behindhand' /\ Cut' = i /\ Top' = trail[i].at
    BY <1>1, <1>3, <1>4 DEF Behindhand, Cut, Top
  <1>7. TrailInv'
    BY <1>1, <1>2, <1>3, <1>4, <1>5 DEF StepInv, TrailInv
  <1>8. AgainInv' /\ LazyInv'
    <2>1. SolverVars' = SolverVars
      BY <1>1, <1>3, <1>4 DEF SolverVars
    <2> QED BY <1>1, <1>2, <2>1 DEF StepInv, AgainInv, LazyInv
  <1>9. SyncInv'
    <2>1. Well(g', declared)
      BY <1>2 DEF InSync
    <2>2. SameEntries(u, trail, i) /\ Same(g', g') /\ i \in Nat
      BY <1>3, <1>4 DEF SameEntries, Same
    <2>3. InSync(g', declared, u, i, trail[i].at)
      BY <1>2, <2>1, <2>2, SameInSync
    <2> QED BY <1>1, <1>2, <1>6, <2>1, <2>3 DEF SyncInv
  <1> QED BY <1>7, <1>8, <1>9 DEF StepInv

-----------------------------------------------------------------------------
\* cancelUntil: what is behind a level goes, but for literals of earlier levels.
LEMMA CancelStep ==
    ASSUME StepInv, NEW lev \in Nat, lev <= level, CancelUntil(lev),
           phase \notin {"unsat", "reenqueue"}, Behindhand => lev < trail[bound].at
    PROVE  StepInv'
  <1> DEFINE n == Len(trail)
             A == {r \in Members(trail) : r.at > lev /\ r.lev <= lev}
             B == {r \in Members(trail) : r.at > lev /\ r.lev > lev}
             und == Keep(trail, B)
             s == [i \in DOMAIN und |-> und[i].var]
  <1>1. /\ trail' = Keep(trail, {r \in Members(trail) : r.at <= lev})
        /\ level' = lev /\ toReenqueue' = Keep(trail, A)
        /\ phase' = IF toReenqueue' = <<>> THEN "search" ELSE "reenqueue"
        /\ g' = IF lazyOn THEN UndecideTheory(g, s) ELSE BacktrackUntil(g, lev)
        /\ bound' = 1 /\ UNCHANGED <<declared, lazyOption, lazyOn>>
    BY DEF CancelUntil, options
  <1>2. /\ trail \in Seq(Entry) /\ n \in Nat /\ DOMAIN trail = 1..n
        /\ \A i \in 1..n : trail[i] \in Entry /\ trail[i].at \in Nat /\ trail[i].lev \in Nat
        /\ level \in 0..MaxLevel /\ Ordered(trail, declared, level)
        /\ declared \in SUBSET Prop /\ lazyOn \in BOOLEAN
        /\ toReenqueue = <<>> /\ SolverVars = Vars(trail, n)
        /\ \A i, j \in 1..n : trail[i].var = trail[j].var => i = j
    BY TrailVars, EntryFacts, CutFacts DEF StepInv, TrailInv, AgainInv
  <1>3. PICK m \in 0..n :
          /\ \A i \in 1..m : trail[i].at <= lev
          /\ \A i \in (m + 1)..n : trail[i].at > lev
          /\ trail' = SubSeq(trail, 1, m)
    BY <1>1, <1>2, CutTrail
  <1>4. /\ Ordered(trail', declared, lev) /\ Len(trail') = m /\ DOMAIN trail' = 1..m
        /\ \A i \in 1..m : trail'[i] = trail[i]
    BY <1>2, <1>3, PrefixOrdered DEF Ordered
  <1> HIDE DEF A, B, und, s
  <1>5. MaxLevel \in Nat /\ lev \in 0..MaxLevel /\ ~Behindhand' /\ 1..m \subseteq 1..n
    BY <1>1, <1>2, GraphTrailAssumption DEF Behindhand
  <1>6. TrailInv'
    BY <1>1, <1>2, <1>4, <1>5 DEF TrailInv
  <1>7. /\ toReenqueue' \in Seq(Entry)
        /\ \A i \in DOMAIN toReenqueue' : toReenqueue'[i] \in Members(trail) \cap A
        /\ \A i, j \in DOMAIN toReenqueue' :
             i < j => toReenqueue'[i].var # toReenqueue'[j].var
    BY <1>1, <1>2, KeptEntries
  <1>8. \A i \in DOMAIN toReenqueue' : \E j \in (m + 1)..n :
          toReenqueue'[i] = trail[j] /\ trail[j].at > lev /\ trail[j].lev <= lev
    <2> TAKE i \in DOMAIN toReenqueue'
    <2>1. PICK j \in 1..n : toReenqueue'[i] = trail[j] /\ trail[j].at > lev /\ trail[j].lev <= lev
      BY <1>2, <1>7 DEF A, Members
    <2>2. ~(j <= m)
      BY <1>2, <1>3, <2>1
    <2> QED BY <1>2, <2>1, <2>2
  <1>9. SolverVars' = Vars(trail', m)
    BY <1>4 DEF SolverVars, Vars
  <1>10. AgainInv'
    <2>1. ASSUME NEW i \in DOMAIN toReenqueue'
          PROVE  /\ toReenqueue'[i].var \in (Edge \cup declared') \ SolverVars'
                 /\ toReenqueue'[i].lev <= level' /\ toReenqueue'[i].by = "clause"
      <3>1. PICK j \in (m + 1)..n :
              toReenqueue'[i] = trail[j] /\ trail[j].at > lev /\ trail[j].lev <= lev
        BY <1>8
      <3>2. j \in 1..n /\ \A a \in 1..m : a # j
        BY <1>2
      <3>3. trail[j].var \notin Vars(trail', m)
        BY <1>2, <1>4, <1>5, <3>2 DEF Vars
      <3>4. trail[j].lev # trail[j].at
        BY <1>2, <3>1, <3>2
      <3>5. trail[j].var \in Edge \cup declared /\ trail[j].by = "clause"
        BY <1>2, <3>2, <3>4 DEF Ordered
      <3> QED BY <1>1, <1>9, <3>1, <3>3, <3>5
    <2>2. phase' = "reenqueue" <=> toReenqueue' # <<>>
      BY <1>1
    <2> QED BY <1>7, <2>1, <2>2 DEF AgainInv
  <1>11. LazyInv'
    <2>1. ASSUME lazyOn PROVE lazyOption /\ Unanimous(trail', declared)
      <3>1. PICK b \in BOOLEAN : \A p \in declared : \E r \in Members(trail) :
              r.var = p /\ r.val = b /\ r.at = 0
        BY <2>1 DEF StepInv, LazyInv, Unanimous
      <3>2. ASSUME NEW p \in declared
            PROVE  \E r \in Members(trail') : r.var = p /\ r.val = b /\ r.at = 0
        <4>1. PICK j \in 1..n : trail[j].var = p /\ trail[j].val = b /\ trail[j].at = 0
          BY <3>1, <1>2 DEF Members
        <4>2. ~(j \in (m + 1)..n)
          BY <1>3, <4>1
        <4>3. j \in 1..m
          BY <1>2, <4>2
        <4> QED BY <4>1, <4>3, <1>4 DEF Members
      <3> QED BY <2>1, <3>2 DEF StepInv, LazyInv, Unanimous
    <2> QED BY <1>1, <2>1 DEF LazyInv
  <1>12. CASE ~lazyOn
    <2>1. InSync(g, declared, trail, Cut, Top)
      BY <1>12 DEF StepInv, SyncInv
    <2>2. m \in 0..Cut /\ lev \in 0..Top /\ Cut \in 0..n
      <3>1. CASE Behindhand
        <4>1. bound \in 1..n /\ ~(bound \in 1..m) /\ Cut = bound /\ Top = trail[bound].at
          BY <3>1, <1>2, <1>3 DEF Behindhand, Cut, Top, StepInv, TrailInv
        <4> QED BY <4>1, <3>1, <1>2
      <3>2. CASE ~Behindhand
        BY <3>2, <1>2 DEF Cut, Top
      <3> QED BY <3>1, <3>2
    <2>3. /\ Top \in Nat /\ \A i \in 1..Cut : trail[i].at <= Top
          /\ \A i, j \in 1..Cut : i # j => trail[i].var # trail[j].var
          /\ \A i \in (m + 1)..Cut : trail[i].at > lev
      <3>1. /\ Cut \in 0..n /\ 1..Cut \subseteq 1..n /\ (m + 1)..Cut \subseteq (m + 1)..n
            /\ Top \in Nat /\ \A i \in 1..Cut : trail[i].at <= Top
        BY <1>2, <2>2, CutFacts
      <3> QED BY <3>1, <1>2, <1>3
    <2>4. InSync(BacktrackUntil(g, lev), declared, trail, m, lev)
      BY <1>2, <1>3, <2>1, <2>2, <2>3, BacktrackInSync
    <2>5. g' = BacktrackUntil(g, lev) /\ Well(g', declared)
      BY <1>1, <1>12, <2>4 DEF InSync
    <2>6. InSync(g', declared, trail', m, lev)
      <3>1. SameEntries(trail', trail, m) /\ Same(g', g') /\ m \in Nat
        BY <1>4 DEF SameEntries, Same
      <3> QED BY <2>4, <2>5, <3>1, SameInSync
    <2>7. SyncInv'
      BY <1>1, <1>4, <1>5, <1>12, <2>5, <2>6 DEF SyncInv, Cut, Top
    <2> QED BY <1>6, <1>10, <1>11, <2>7 DEF StepInv
  <1>13. CASE lazyOn
    <2>1. Loose(g, declared, trail, <<>>)
      BY <1>2, <1>13 DEF StepInv, SyncInv
    <2>2. Listed(g) = Vars(trail, n) /\ Agrees(g, trail, n) /\ Well(g, declared)
      <3>1. Vars(<<>>, Len(<<>>)) = {}
        BY DEF Vars
      <3> QED BY <2>1, <3>1 DEF Loose
    <2>3. /\ und \in Seq(Entry) /\ Members(und) = B
          /\ s \in Seq(Var) /\ Members(s) = {r.var : r \in B}
      <3>1. und \in Seq(Entry) /\ Members(und) = Members(trail) \cap B
        BY <1>2, KeepMembers DEF und
      <3>2. Members(und) = B
        BY <3>1 DEF B
      <3>3. \A i \in DOMAIN und : und[i].var \in Var
        BY <3>1, EntryFacts
      <3>4. s \in Seq(Var) /\ DOMAIN s = DOMAIN und /\ \A i \in DOMAIN und : s[i] = und[i].var
        BY <3>1, <3>3 DEF s
      <3>5. Members(s) = {und[i].var : i \in DOMAIN und}
        BY <3>4 DEF Members
      <3>6. {und[i].var : i \in DOMAIN und} = {r.var : r \in Members(und)}
        BY DEF Members
      <3> QED BY <3>1, <3>2, <3>4, <3>5, <3>6
    <2>4. {r.var : r \in B} = {trail[j].var : j \in {i \in (m + 1)..n : trail[i].lev > lev}}
      <3>1. ASSUME NEW r \in B
            PROVE  \E j \in {i \in (m + 1)..n : trail[i].lev > lev} : r = trail[j]
        <4>1. PICK j \in 1..n : r = trail[j] /\ trail[j].at > lev /\ trail[j].lev > lev
          BY <1>2 DEF B, Members
        <4>2. ~(j \in 1..m)
          BY <1>2, <1>3, <4>1
        <4> QED BY <1>2, <4>1, <4>2
      <3>2. ASSUME NEW j \in (m + 1)..n, trail[j].lev > lev
            PROVE  trail[j] \in B
        <4>1. j \in 1..n
          BY <1>2
        <4> QED BY <4>1, <3>2, <1>2, <1>3 DEF B, Members
      <3> QED BY <3>1, <3>2
    <2>5. Vars(toReenqueue', Len(toReenqueue'))
            = {trail[j].var : j \in {i \in (m + 1)..n : trail[i].lev <= lev}}
      <3>1. ASSUME NEW j \in (m + 1)..n, trail[j].lev <= lev
            PROVE  \E i \in DOMAIN toReenqueue' : toReenqueue'[i] = trail[j]
        <4>1. j \in 1..n
          BY <1>2
        <4>2. trail[j] \in A
          BY <4>1, <3>1, <1>2, <1>3 DEF A, Members
        <4>3. Members(toReenqueue') = Members(trail) \cap A
          BY <1>1, <1>2, KeepMembers
        <4> QED BY <4>1, <4>2, <4>3, <1>2 DEF Members
      <3>2. DOMAIN toReenqueue' = 1..Len(toReenqueue')
        BY <1>7
      <3> QED BY <3>1, <3>2, <1>8 DEF Vars
    <2>6. g' = UndecideTheory(g, s) /\ Members(s) \subseteq Listed(g)
      <3>1. (m + 1)..n \subseteq 1..n
        BY <1>2
      <3>2. {trail[j].var : j \in {i \in (m + 1)..n : trail[i].lev > lev}} \subseteq Vars(trail, n)
        BY <3>1 DEF Vars
      <3> QED BY <1>1, <1>13, <2>2, <2>3, <2>4, <3>2
    <2>7. Well(g', declared) /\ g'.assigns = g.assigns /\ Listed(g') = Listed(g) \ Members(s)
      BY <1>2, <2>2, <2>3, <2>6, UndecideWell
    <2>8. Listed(g') = Vars(trail', m) \cup Vars(toReenqueue', Len(toReenqueue'))
      <3>1. Vars(trail', m) = {trail[j].var : j \in 1..m}
        BY <1>4 DEF Vars
      <3> DEFINE P == {trail[j].var : j \in 1..m}
                 Q == {trail[j].var : j \in {i \in (m + 1)..n : trail[i].lev <= lev}}
                 R == {trail[j].var : j \in {i \in (m + 1)..n : trail[i].lev > lev}}
      <3>2. Vars(trail, n) = P \cup Q \cup R
        <4>1. 1..n = (1..m) \cup ((m + 1)..n)
          BY <1>2
        <4>2. \A i \in (m + 1)..n : trail[i].lev <= lev \/ trail[i].lev > lev
          BY <4>1, <1>2
        <4> QED BY <4>1, <4>2 DEF Vars
      <3>3. (P \cup Q) \cap R = {}
        <4>1. /\ \A i \in (m + 1)..n : i \in 1..n
              /\ \A i \in 1..m, j \in (m + 1)..n : i # j
              /\ \A i \in (m + 1)..n : ~(trail[i].lev <= lev /\ trail[i].lev > lev)
          BY <1>2
        <4> QED BY <4>1, <1>2, <1>5
      <3> QED BY <2>2, <2>3, <2>4, <2>5, <2>7, <3>1, <3>2, <3>3
    <2>9. Agrees(g', trail', m) /\ Agrees(g', toReenqueue', Len(toReenqueue'))
      <3>1. Agrees(g', trail', m)
        BY <1>4, <1>5, <2>2, <2>7 DEF Agrees
      <3>2. DOMAIN toReenqueue' = 1..Len(toReenqueue') /\ (m + 1)..n \subseteq 1..n
        BY <1>2, <1>7
      <3>3. Agrees(g', toReenqueue', Len(toReenqueue'))
        BY <1>8, <2>2, <2>7, <3>2 DEF Agrees
      <3> QED BY <3>1, <3>3
    <2>10. Loose(g', declared, trail', toReenqueue')
      BY <1>4, <2>7, <2>8, <2>9 DEF Loose
    <2>11. SyncInv'
      BY <1>1, <1>13, <2>7, <2>10 DEF SyncInv
    <2> QED BY <1>6, <1>10, <1>11, <2>11 DEF StepInv
  <1> QED BY <1>2, <1>12, <1>13

-----------------------------------------------------------------------------
\* Restart and Backjump go behind all that has been explained.
LEMMA CancelSteps ==
    ASSUME StepInv
    PROVE  Restart \/ (\E lev \in 0..level : Backjump(lev)) => StepInv'
  <1>1. CASE Restart
    <2>1. CancelUntil(0) /\ level > 0 /\ phase \in {"search", "sat"} /\ level \in Nat
      BY <1>1 DEF Restart, StepInv, TrailInv
    <2> QED BY <2>1, CancelStep DEF Behindhand
  <1>2. ASSUME NEW lev \in 0..level, Backjump(lev) PROVE StepInv'
    <2>1. CancelUntil(lev) /\ phase = "analyze" /\ lev < Floor /\ level \in Nat /\ lev \in Nat
      BY <1>2 DEF Backjump, StepInv, TrailInv
    <2>2. Behindhand => lev < trail[bound].at
      <3>1. bound \in Nat /\ Len(trail) \in Nat
        BY TrailVars DEF StepInv, TrailInv
      <3> QED BY <2>1, <3>1 DEF Behindhand, Floor, StepInv, TrailInv
    <2> QED BY <2>1, <2>2, CancelStep
  <1> QED BY <1>1, <1>2

\* Every step keeps the two trails together.
LEMMA NextStepInv ==
    ASSUME ~LateLazy, Inv, StepInv, [Next]_vars
    PROVE  StepInv'
  <1>1. CASE UNCHANGED vars
    BY <1>1 DEF vars, solver, options, answer, StepInv, TrailInv, AgainInv, LazyInv, SyncInv,
                Unanimous, SolverVars, Behindhand, Cut, Top
  <1>2. CASE Inconsistent
    BY <1>1, <1>2 DEF Inconsistent
  <1>3. CASE \E p \in Prop : Declare(p)
    BY <1>3, DeclareStep
  <1>4. CASE Solve \/ Fail \/ Propagate
    BY <1>4, SolveStep, FailStep, PropagateStep
  <1>5. CASE \E v \in Var, b \in BOOLEAN :
               Decide(v, b) \/ Reenqueue(v, b) \/ \E lev \in 0..level : Imply(v, b, lev)
    BY <1>5, DecideStep, ReenqueueStep, ImplyStep
  <1>6. CASE \E i \in DOMAIN trail, lev \in 0..level : MoveEarlier(i, lev)
    BY <1>6, MoveStep
  <1>7. CASE Restart \/ \E lev \in 0..level : Backjump(lev)
    BY <1>7, CancelSteps
  <1>8. CASE \E i \in DOMAIN trail : Explain(i)
    BY <1>8, ExplainStep
  <1>9. CASE EndSolve \/ ClauseConflict \/ Skip \/ SolveTheory \/ PropagateEnd \/ Update
    BY <1>9, EasySteps
  <1>10. CASE \E p \in Prop : Ignore(p) \/ Enqueue(p) \/ LazyConflict(p) \/ Conflict(p)
    BY <1>10, EasySteps, EnqueueStep, LazyConflictStep
  <1> QED BY <1>1, <1>2, <1>3, <1>4, <1>5, <1>6, <1>7, <1>8, <1>9, <1>10
          DEF Next, TheoryStep

\* Between steps of the solver that is what the run checks.
LEMMA StepInvSays == StepInv => TheoryInStep
  <1> SUFFICES ASSUME StepInv, InStep PROVE TheoryInStep
    BY DEF TheoryInStep
  <1>1. phase \notin {"unsat", "reenqueue", "analyze"}
    BY DEF InStep
  <1>2. toReenqueue = <<>> /\ ~Behindhand
    BY <1>1 DEF StepInv, AgainInv, Behindhand
  <1>3. /\ Well(g, declared) /\ Listed(g) = SolverVars
        /\ \A v \in SolverVars : g.assigns[v] = SolverValue(v)
    BY <1>1, <1>2, StepAgrees
  <1>4. Members(g.lazy) = {v \in Var : g.assigns[v] # "U"} \ SolverVars
    BY <1>3 DEF Well, Assigned
  <1> QED BY <1>3, <1>4 DEF TheoryInStep, Listed, Well, Counts

\* Between steps of the solver the theory has the solver's assignment on its
\* trail, what the solver took back and it has not on its lazy trail, and right
\* counters: through enqueueTheory, undecideTheory, backtrackUntil to a level
\* and to a literal, and lazy conflicts, for any number of variables and levels.
\* The hypothesis: no literal is declared once backtracking is lazy.
THEOREM TheoryAlwaysInStep ==
    ASSUME ~LateLazy
    PROVE  Spec => []TheoryInStep
  <1>1. Init => Inv /\ StepInv
    BY InitInv, InitStep
  <1>2. ~LateLazy /\ Inv /\ StepInv /\ [Next]_vars => Inv' /\ StepInv'
    BY NextInv, NextStepInv
  <1> QED BY <1>1, <1>2, StepInvSays, PTL DEF Spec

-----------------------------------------------------------------------------
(***************************************************************************)
(* Reachability, and the clauses built from it.                            *)
(***************************************************************************)
\* More edges reach more.
LEMMA ReachedGrows ==
    ASSUME NEW E, NEW F, E \subseteq F
    PROVE  Reached(E) \subseteq Reached(F)
  <1> SUFFICES ASSUME NEW n \in Reached(E), NEW S \in SUBSET Node,
                      Source \in S, \A e \in F : From[e] \in S => To[e] \in S
               PROVE  n \in S
    BY DEF Reached
  <1>1. \A e \in E : From[e] \in S => To[e] \in S
    OBVIOUS
  <1> QED BY <1>1 DEF Reached

\* Edges do not leave what is reached.
LEMMA ReachedCloses ==
    ASSUME NEW E \in SUBSET Edge
    PROVE  /\ Reached(E) \subseteq Node /\ Source \in Reached(E)
           /\ \A e \in E : From[e] \in Reached(E) => To[e] \in Reached(E)
  <1>1. Reached(E) \subseteq Node /\ Source \in Reached(E)
    BY GraphTheoryAssumption DEF Reached
  <1>2. ASSUME NEW e \in E, From[e] \in Reached(E) PROVE To[e] \in Reached(E)
    <2>1. To[e] \in Node
      BY GraphTheoryAssumption
    <2>2. ASSUME NEW S \in SUBSET Node, Source \in S,
                 \A d \in E : From[d] \in S => To[d] \in S
          PROVE  To[e] \in S
      BY <1>2, <2>2 DEF Reached
    <2> QED BY <2>1, <2>2 DEF Reached
  <1> QED BY <1>1, <1>2

\* Nor does an edge from elsewhere enter what leads to a node.
LEMMA BackCloses ==
    ASSUME NEW E \in SUBSET Edge, NEW n \in Node
    PROVE  /\ BackFrom(E, n) \subseteq Node /\ n \in BackFrom(E, n)
           /\ \A e \in E : To[e] \in BackFrom(E, n) => From[e] \in BackFrom(E, n)
  <1>1. BackFrom(E, n) \subseteq Node /\ n \in BackFrom(E, n)
    BY DEF BackFrom
  <1>2. ASSUME NEW e \in E, To[e] \in BackFrom(E, n) PROVE From[e] \in BackFrom(E, n)
    <2>1. From[e] \in Node
      BY GraphTheoryAssumption
    <2>2. ASSUME NEW S \in SUBSET Node, n \in S,
                 \A d \in E : To[d] \in S => From[d] \in S
          PROVE  From[e] \in S
      BY <1>2, <2>2 DEF BackFrom
    <2> QED BY <2>1, <2>2 DEF BackFrom
  <1> QED BY <1>1, <1>2

\* A node that is not reached has no way back to the source.
LEMMA NoWayBack ==
    ASSUME NEW E \in SUBSET Edge, NEW n \in Node, n \notin Reached(E)
    PROVE  Source \notin BackFrom(E, n)
  <1> DEFINE T == Node \ Reached(E)
  <1>1. T \in SUBSET Node /\ n \in T /\ Source \notin T
    BY ReachedCloses
  <1>2. ASSUME NEW e \in E, To[e] \in T PROVE From[e] \in T
    <2>1. From[e] \in Node
      BY GraphTheoryAssumption
    <2> QED BY <1>2, <2>1, ReachedCloses
  <1> HIDE DEF T
  <1> QED BY <1>1, <1>2 DEF BackFrom

\* The literal l holds in the graph of the edges E.
HoldsIn(l, E) ==
    IF l[1] \in Edge THEN (l[1] \in E) = l[2]
    ELSE (At[l[1]] \in Reached(E)) = l[2]

\* The edges of a path: one is missing, or the node is reached.
LEMMA PathValid ==
    ASSUME NEW F \in SUBSET Edge, NEW p \in Prop, NEW P \in Paths(F, At[p]),
           NEW E \in SUBSET Edge
    PROVE  \E l \in {<<e, FALSE>> : e \in P} \cup {<<p, TRUE>>} : HoldsIn(l, E)
  <1>1. P \subseteq F /\ At[p] \in Reached(P) /\ p \notin Edge
    BY GraphTrailAssumption DEF Paths
  <1>2. CASE P \subseteq E
    <2>1. At[p] \in Reached(E)
      BY <1>1, <1>2, ReachedGrows
    <2>2. HoldsIn(<<p, TRUE>>, E)
      BY <1>1, <2>1 DEF HoldsIn
    <2> QED BY <2>2
  <1>3. ASSUME NEW e \in P, e \notin E
        PROVE  \E l \in {<<d, FALSE>> : d \in P} \cup {<<p, TRUE>>} : HoldsIn(l, E)
    <2>1. e \in Edge /\ HoldsIn(<<e, FALSE>>, E)
      <3>1. e \in Edge /\ (e \in E) = FALSE
        BY <1>1, <1>3
      <3> QED BY <3>1 DEF HoldsIn
    <2> QED BY <2>1
  <1> QED BY <1>2, <1>3

\* The cut: an edge of it is there, or the node is not reached.
LEMMA CutValid ==
    ASSUME NEW h, Follow(h), NEW p \in Prop, At[p] \notin Reached(h.over),
           NEW E \in SUBSET Edge
    PROVE  \E l \in NonReachReason(h, At[p]) \cup {<<p, FALSE>>} : HoldsIn(l, E)
  <1> DEFINE n == At[p]
             O == {e \in Edge : h.assigns[e] # "F"}
             back == BackFrom(O, n)
             C == {d \in Edge : /\ h.assigns[d] = "F" /\ To[d] \in back
                                /\ From[d] # To[d]}
             S == Node \ back
  <1>1. /\ NonReachReason(h, n) = {<<e, TRUE>> : e \in C} /\ O = h.over
        /\ n \in Node /\ p \notin Edge /\ O \in SUBSET Edge
    BY GraphTheoryAssumption, GraphTrailAssumption DEF NonReachReason, Follow
  <1>2. CASE C \cap E # {}
    <2>1. PICK e \in C : e \in E
      BY <1>2
    <2>2. e \in Edge /\ HoldsIn(<<e, TRUE>>, E)
      BY <2>1 DEF HoldsIn
    <2>3. <<e, TRUE>> \in NonReachReason(h, n)
      BY <1>1, <2>1
    <2> QED BY <2>2, <2>3
  <1>3. CASE C \cap E = {}
    <2>1. /\ n \in back /\ Source \in S /\ back \subseteq Node
          /\ \A e \in O : To[e] \in back => From[e] \in back
      <3>1. Source \in Node /\ n \notin Reached(O)
        BY <1>1, GraphTheoryAssumption
      <3> HIDE DEF n, O
      <3> QED BY <1>1, <3>1, BackCloses, NoWayBack
    <2>2. ASSUME NEW e \in E, From[e] \in S PROVE To[e] \in S
      <3>1. e \in Edge /\ To[e] \in Node
        BY GraphTheoryAssumption
      <3>2. SUFFICES ASSUME To[e] \in back PROVE FALSE
        BY <3>1
      <3>3. From[e] # To[e]
        BY <2>2, <3>2
      <3>4. h.assigns[e] # "F"
        BY <1>3, <3>1, <3>2, <3>3
      <3> QED BY <2>1, <2>2, <3>1, <3>2, <3>4
    <2> HIDE DEF back, C, O
    <2>3. n \notin Reached(E)
      <3>1. S \in SUBSET Node /\ n \notin S /\ Source \in S
        BY <2>1
      <3> HIDE DEF S, n
      <3> QED BY <3>1, <2>2 DEF Reached
    <2>4. HoldsIn(<<p, FALSE>>, E)
      <3>1. p \notin Edge /\ (At[p] \in Reached(E)) = FALSE
        BY <1>1, <2>3
      <3> QED BY <3>1 DEF HoldsIn
    <2> QED BY <2>4
  <1> QED BY <1>2, <1>3

\* So an explanation implies the literal in every graph.
LEMMA ExplanationValid ==
    ASSUME NEW h, Follow(h), NEW p \in Prop, NEW reach \in BOOLEAN,
           IF reach THEN At[p] \in Reached(h.under) ELSE At[p] \notin Reached(h.over),
           NEW why \in Explanations(h, p, reach), NEW E \in SUBSET Edge
    PROVE  \E l \in why \cup {<<p, reach>>} : HoldsIn(l, E)
  <1>1. CASE reach = TRUE
    <2>1. PICK P \in Paths(h.under, At[p]) : why = {<<e, FALSE>> : e \in P}
      BY <1>1 DEF Explanations, ReachReasons
    <2>2. h.under \in SUBSET Edge
      BY DEF Follow
    <2> QED BY <1>1, <2>1, <2>2, PathValid
  <1>2. CASE reach = FALSE
    <2>1. why = NonReachReason(h, At[p])
      BY <1>2 DEF Explanations
    <2> QED BY <1>2, <2>1, CutValid
  <1> QED BY <1>1, <1>2

-----------------------------------------------------------------------------
(***************************************************************************)
(* What the theory enqueues follows from what was there before.            *)
(***************************************************************************)
\* What the algorithms said is still so while their reports are worked through.
DetectInv ==
    phase = "detect" => /\ ~skipU => seenU = Status(g.under)
                        /\ ~skipO => seenO = Status(g.over)

\* The variables that have the value b in front of the entry i, at levels no
\* later than its own.
Before(t, i, b) ==
    {t[j].var : j \in {k \in 1..(i - 1) : t[k].val = b /\ t[k].lev <= t[i].lev}}
JustifiedAt(t, i) ==
    /\ t[i].by = "under" => At[t[i].var] \in Reached(Edge \cap Before(t, i, TRUE))
    /\ t[i].by = "over" => At[t[i].var] \notin Reached(Edge \ Before(t, i, FALSE))
Justified(t) == \A i \in DOMAIN t : JustifiedAt(t, i)

\* What the run checks, entry by entry.
LEMMA JustifiedSays == EnqueuedJustified <=> Justified(trail)
  BY DEF EnqueuedJustified, Justified, JustifiedAt, Before

\* A justification outlives what changes behind it, and literals that are moved
\* to earlier levels.
LEMMA JustifiedStays ==
    ASSUME NEW t \in Seq(Entry), NEW i \in DOMAIN t, JustifiedAt(t, i),
           NEW u, u[i].var = t[i].var, u[i].by # "clause" => u[i] = t[i],
           \A j \in 1..(i - 1) : /\ u[j].var = t[j].var /\ u[j].val = t[j].val
                                 /\ u[j].lev \in Nat /\ u[j].lev <= t[j].lev
    PROVE  JustifiedAt(u, i)
  <1>1. CASE u[i].by = "clause"
    BY <1>1 DEF JustifiedAt
  <1>2. CASE u[i].by # "clause"
    <2>1. u[i] = t[i] /\ \A j \in 1..(i - 1) : j \in DOMAIN t
      BY <1>2
    <2>2. ASSUME NEW b PROVE Before(t, i, b) \subseteq Before(u, i, b)
      <3>1. ASSUME NEW j \in 1..(i - 1), t[j].val = b, t[j].lev <= t[i].lev
            PROVE  u[j].val = b /\ u[j].lev <= u[i].lev /\ u[j].var = t[j].var
        <4>1. t[j].lev \in Nat /\ t[i].lev \in Nat
          BY <2>1, EntryFacts
        <4> QED BY <3>1, <4>1, <2>1
      <3> QED BY <3>1 DEF Before
    <2>3. /\ Reached(Edge \cap Before(t, i, TRUE)) \subseteq Reached(Edge \cap Before(u, i, TRUE))
          /\ Reached(Edge \ Before(u, i, FALSE)) \subseteq Reached(Edge \ Before(t, i, FALSE))
      <3>1. /\ Edge \cap Before(t, i, TRUE) \subseteq Edge \cap Before(u, i, TRUE)
            /\ Edge \ Before(u, i, FALSE) \subseteq Edge \ Before(t, i, FALSE)
        BY <2>2
      <3> QED BY <3>1, ReachedGrows
    <2> QED BY <2>1, <2>3 DEF JustifiedAt
  <1> QED BY <1>1, <1>2

\* What the theory knows of the edges when it is in step is on the trail.
OnTrail(h, t, n) ==
    /\ h.under = Edge \cap {t[j].var : j \in {k \in 1..n : t[k].val = TRUE}}
    /\ h.over = Edge \ {t[j].var : j \in {k \in 1..n : t[k].val = FALSE}}

\* Its graphs are then those of the trail.
LEMMA GraphsOnTrail ==
    ASSUME NEW h, Follow(h), NEW n \in Nat, NEW t, Assigned(h) = Vars(t, n), Agrees(h, t, n),
           \A j \in 1..n : t[j].val \in BOOLEAN
    PROVE  OnTrail(h, t, n)
  <1>1. \A e \in Edge : h.assigns[e] # "U" <=> \E j \in 1..n : t[j].var = e
    BY DEF Assigned, Vars, Var
  <1>2. \A j \in 1..n : h.assigns[t[j].var] = IF t[j].val THEN "T" ELSE "F"
    BY DEF Agrees, Bool
  <1> QED BY <1>1, <1>2 DEF Follow, OnTrail

\* What the algorithms say is so in the theory's graphs.
LEMMA ImpliedRight ==
    ASSUME DetectInv, phase = "detect", NEW p \in Prop, Implied(p) # "U"
    PROVE  IF Implied(p) = "T" THEN At[p] \in Reached(g.under)
                               ELSE At[p] \notin Reached(g.over)
  <1>1. At[p] \in Node
    BY GraphTheoryAssumption
  <1>2. CASE ~skipU /\ seenU[At[p]] = "R"
    <2>1. Implied(p) = "T"
      BY <1>2 DEF Implied
    <2>2. Status(g.under)[At[p]] = "R"
      BY <1>1, <1>2 DEF DetectInv
    <2> QED BY <1>1, <2>1, <2>2 DEF Status
  <1>3. CASE ~(~skipU /\ seenU[At[p]] = "R")
    <2>1. ~skipO /\ seenO[At[p]] = "N" /\ Implied(p) = "F"
      BY <1>3 DEF Implied
    <2>2. Status(g.over)[At[p]] = "N"
      BY <1>1, <2>1 DEF DetectInv
    <2> QED BY <1>1, <2>1, <2>2 DEF Status
  <1> QED BY <1>2, <1>3

\* Entries that stay, and are moved to earlier levels at most.
LEMMA JustifiedKept ==
    ASSUME NEW t \in Seq(Entry), Justified(t),
           NEW n \in Nat, NEW u, DOMAIN u = 1..n,
           \A i \in 1..n : u[i].by # "clause" => i \in DOMAIN t /\ u[i] = t[i],
           \A i \in (1..n) \cap DOMAIN t :
             /\ u[i].var = t[i].var /\ u[i].val = t[i].val
             /\ u[i].lev \in Nat /\ u[i].lev <= t[i].lev
    PROVE  Justified(u)
  <1> SUFFICES ASSUME NEW i \in 1..n PROVE JustifiedAt(u, i)
    BY DEF Justified
  <1>1. CASE u[i].by = "clause"
    BY <1>1 DEF JustifiedAt
  <1>2. CASE u[i].by # "clause"
    <2>1. /\ i \in DOMAIN t /\ u[i] = t[i] /\ JustifiedAt(t, i)
          /\ \A j \in 1..(i - 1) : j \in (1..n) \cap DOMAIN t
      BY <1>2 DEF Justified
    <2> QED BY <2>1, JustifiedStays
  <1> QED BY <1>1, <1>2

\* One entry more, of a clause or with a justification of its own.
LEMMA JustifiedAppend ==
    ASSUME NEW t \in Seq(Entry), Justified(t), NEW r \in Entry,
           r.by # "clause" => JustifiedAt(Append(t, r), Len(t) + 1)
    PROVE  Justified(Append(t, r))
  <1> DEFINE n == Len(t)
             u == Append(t, r)
  <1>1. /\ n \in Nat /\ DOMAIN t = 1..n /\ DOMAIN u = 1..(n + 1) /\ u[n + 1] = r
        /\ \A i \in 1..n : u[i] = t[i] /\ t[i].lev \in Nat
        /\ 1..(n + 1) = (1..n) \cup {n + 1}
    BY EntryFacts
  <1> HIDE DEF u, n
  <1>2. ASSUME NEW i \in 1..n PROVE JustifiedAt(u, i)
    <2>1. i \in DOMAIN t /\ \A j \in 1..(i - 1) : j \in 1..n
      BY <1>1
    <2>2. /\ JustifiedAt(t, i) /\ u[i] = t[i]
          /\ \A j \in 1..(i - 1) : /\ u[j].var = t[j].var /\ u[j].val = t[j].val
                                   /\ u[j].lev \in Nat /\ u[j].lev <= t[j].lev
      BY <1>1, <2>1 DEF Justified
    <2> QED BY <2>1, <2>2, JustifiedStays
  <1>3. JustifiedAt(u, n + 1)
    <2>1. CASE r.by = "clause"
      BY <1>1, <2>1 DEF JustifiedAt
    <2>2. CASE r.by # "clause"
      BY <2>2 DEF u, n
    <2> QED BY <2>1, <2>2
  <1>4. Justified(u)
    BY <1>1, <1>2, <1>3 DEF Justified
  <1> QED BY <1>4 DEF u

\* Each trail the solver gets justifies what it holds of the theory.
LEMMA EnqueueJustified ==
    ASSUME Inv, StepInv, DetectInv, Justified(trail), NEW p \in Prop, Enqueue(p)
    PROVE  Justified(trail')
  <1> DEFINE b == Implied(p) = "T"
             r == [var |-> p, val |-> b, lev |-> level, at |-> level,
                   by |-> IF b THEN "under" ELSE "over"]
             n == Len(trail)
  <1>1. /\ phase = "detect" /\ Implied(p) # "U" /\ trail' = Append(trail, r)
        /\ b \in BOOLEAN
    BY DEF Enqueue
  <1>2. /\ trail \in Seq(Entry) /\ n \in Nat /\ DOMAIN trail = 1..n
        /\ \A i \in 1..n : trail[i].lev \in Nat /\ trail[i].lev <= level /\ trail[i].val \in BOOLEAN
        /\ level \in Nat /\ level \in 0..MaxLevel
    <2>1. Ordered(trail, declared, level) /\ level \in 0..MaxLevel
      BY DEF StepInv, TrailInv
    <2>2. \A i \in DOMAIN trail : trail[i].lev <= trail[i].at /\ trail[i].at <= level
      BY <2>1 DEF Ordered
    <2> QED BY <2>1, <2>2, TrailVars, EntryFacts
  <1>3. r \in Entry
    BY <1>1, <1>2 DEF Entry, Var
  <1>4. IF b THEN At[p] \in Reached(g.under) ELSE At[p] \notin Reached(g.over)
    BY <1>1, ImpliedRight
  <1>5. InSync(g, declared, trail, n, level)
    BY <1>1, EnqueueEager DEF StepInv, SyncInv, Cut, Top, Behindhand
  <1>6. OnTrail(g, trail, n)
    <2>1. Assigned(g) = Vars(trail, n) /\ Agrees(g, trail, n) /\ Follow(g)
      BY <1>5, ListedUnassigned DEF InSync, Inv
    <2> HIDE DEF n
    <2> QED BY <1>2, <2>1, GraphsOnTrail
  <1> DEFINE u == Append(trail, r)
  <1>7. /\ u[n + 1] = r /\ \A i \in 1..n : u[i] = trail[i]
        /\ r.var = p /\ r.lev = level /\ r.by = IF b THEN "under" ELSE "over"
    BY <1>2
  <1> HIDE DEF r, b, u
  <1>8. \A c \in BOOLEAN : Before(u, n + 1, c) =
                  {trail[j].var : j \in {k \in 1..n : trail[k].val = c}}
    <2> TAKE c \in BOOLEAN
    <2>1. (n + 1) - 1 = n
      BY <1>2
    <2>2. {k \in 1..n : u[k].val = c /\ u[k].lev <= u[n + 1].lev}
            = {k \in 1..n : trail[k].val = c}
      BY <1>2, <1>7
    <2> QED BY <2>1, <2>2, <1>7 DEF Before
  <1>9. JustifiedAt(u, n + 1)
    <2>1. CASE b
      BY <2>1, <1>4, <1>6, <1>7, <1>8 DEF JustifiedAt, OnTrail
    <2>2. CASE ~b
      BY <2>2, <1>4, <1>6, <1>7, <1>8 DEF JustifiedAt, OnTrail
    <2> QED BY <2>1, <2>2
  <1> QED BY <1>1, <1>2, <1>3, <1>9, JustifiedAppend DEF u

\* Every step of the solver and the theory.
LEMMA JustifiedStep ==
    ASSUME Inv, StepInv, DetectInv, Justified(trail), [Next]_vars
    PROVE  Justified(trail')
  <1> DEFINE n == Len(trail)
  <1>1. /\ trail \in Seq(Entry) /\ n \in Nat /\ DOMAIN trail = 1..n
        /\ \A i \in 1..n : trail[i] \in Entry /\ trail[i].lev \in Nat
        /\ Ordered(trail, declared, level) /\ level \in 0..MaxLevel
        /\ MaxLevel \in Nat
    BY TrailVars, EntryFacts, GraphTrailAssumption DEF StepInv, TrailInv
  <1>2. ASSUME UNCHANGED trail PROVE Justified(trail')
    BY <1>2
  <1>3. ASSUME NEW r \in Entry, r.by = "clause", trail' = Append(trail, r)
        PROVE  Justified(trail')
    BY <1>1, <1>3, JustifiedAppend
  <1>4. ASSUME NEW v \in Var, NEW b \in BOOLEAN, Decide(v, b) PROVE Justified(trail')
    <2> DEFINE r == [var |-> v, val |-> b, lev |-> level + 1, at |-> level + 1, by |-> "clause"]
    <2>1. trail' = Append(trail, r) /\ level < MaxLevel
      BY <1>4 DEF Decide, Assign
    <2>2. r \in Entry /\ r.by = "clause"
      BY <1>1, <2>1 DEF Entry
    <2> QED BY <1>3, <2>1, <2>2
  <1>5. ASSUME NEW v \in Var, NEW b \in BOOLEAN, NEW lev \in 0..level, Imply(v, b, lev)
        PROVE  Justified(trail')
    <2> DEFINE r == [var |-> v, val |-> b, lev |-> lev, at |-> level, by |-> "clause"]
    <2>1. trail' = Append(trail, r)
      BY <1>5 DEF Imply, Assign
    <2>2. r \in Entry /\ r.by = "clause"
      BY <1>1 DEF Entry
    <2> QED BY <1>3, <2>1, <2>2
  <1>6. ASSUME NEW v \in Var, NEW b \in BOOLEAN, Reenqueue(v, b) PROVE Justified(trail')
    <2> DEFINE q == Head(toReenqueue)
               r == [q EXCEPT !.at = level]
    <2>1. /\ trail' = Append(trail, r) /\ toReenqueue # <<>> /\ toReenqueue \in Seq(Entry)
          /\ \A i \in DOMAIN toReenqueue : toReenqueue[i].by = "clause"
      BY <1>6 DEF Reenqueue, StepInv, AgainInv
    <2>2. q \in Entry /\ q.by = "clause"
      BY <2>1
    <2>3. r \in Entry /\ r.by = "clause"
      BY <1>1, <2>2 DEF Entry
    <2> QED BY <1>3, <2>1, <2>3
  <1>7. ASSUME NEW i \in 1..n, NEW x \in Nat, x <= trail[i].lev,
               trail' = [trail EXCEPT ![i].lev = x, ![i].by = "clause"]
        PROVE  Justified(trail')
    <2>1. /\ trail[i] = [var |-> trail[i].var, val |-> trail[i].val, lev |-> trail[i].lev,
                         at |-> trail[i].at, by |-> trail[i].by]
      BY <1>1 DEF Entry
    <2>2. /\ DOMAIN trail' = 1..n /\ \A j \in 1..n : j # i => trail'[j] = trail[j]
          /\ trail'[i] = [var |-> trail[i].var, val |-> trail[i].val, lev |-> x,
                          at |-> trail[i].at, by |-> "clause"]
      BY <1>1, <1>7, <2>1
    <2>3. /\ \A j \in 1..n : trail'[j].by # "clause" => trail'[j] = trail[j]
          /\ \A j \in 1..n : /\ trail'[j].var = trail[j].var /\ trail'[j].val = trail[j].val
                             /\ trail'[j].lev \in Nat /\ trail'[j].lev <= trail[j].lev
      BY <1>1, <1>7, <2>2
    <2> DEFINE u == trail'
    <2>4. DOMAIN u = 1..n /\ (1..n) \cap DOMAIN trail = 1..n
      BY <1>1, <2>2
    <2> HIDE DEF u, n
    <2> QED BY <1>1, <2>3, <2>4, JustifiedKept DEF u
  <1>8. ASSUME NEW i \in DOMAIN trail, NEW lev \in 0..level, MoveEarlier(i, lev)
        PROVE  Justified(trail')
    <2>1. /\ lev < trail[i].lev /\ i \in 1..n /\ lev \in Nat /\ trail[i].lev \in Nat
          /\ trail' = [trail EXCEPT ![i].lev = lev, ![i].by = "clause"]
      BY <1>1, <1>8 DEF MoveEarlier
    <2>2. lev <= trail[i].lev
      BY <2>1
    <2> QED BY <1>7, <2>1, <2>2
  <1>9. ASSUME NEW i \in DOMAIN trail, Explain(i) PROVE Justified(trail')
    <2>1. /\ trail' = [trail EXCEPT ![i].by = "clause"] /\ i \in 1..n
          /\ trail[i].lev \in Nat /\ trail[i].lev <= trail[i].lev
      BY <1>1, <1>9 DEF Explain
    <2>2. trail[i] = [var |-> trail[i].var, val |-> trail[i].val, lev |-> trail[i].lev,
                      at |-> trail[i].at, by |-> trail[i].by]
      BY <1>1, <2>1 DEF Entry
    <2>3. trail' = [trail EXCEPT ![i].lev = trail[i].lev, ![i].by = "clause"]
      BY <1>1, <2>1, <2>2
    <2> QED BY <1>7, <2>1, <2>3
  <1>10. ASSUME NEW lev \in 0..level, CancelUntil(lev) PROVE Justified(trail')
    <2>1. trail' = Keep(trail, {r \in Members(trail) : r.at <= lev}) /\ lev \in Nat
      BY <1>1, <1>10 DEF CancelUntil
    <2>2. PICK m \in 0..n : trail' = SubSeq(trail, 1, m)
      BY <1>1, <2>1, CutTrail
    <2> DEFINE u == trail'
    <2>3. /\ DOMAIN u = 1..m /\ m \in Nat /\ (1..m) \cap DOMAIN trail = 1..m
          /\ \A i \in 1..m : /\ i \in DOMAIN trail /\ u[i] = trail[i]
                             /\ trail[i].lev \in Nat /\ trail[i].lev <= trail[i].lev
      BY <1>1, <2>2
    <2> HIDE DEF u
    <2> QED BY <1>1, <2>3, JustifiedKept DEF u
  <1>11. Restart \/ (\E lev \in 0..level : Backjump(lev)) => Justified(trail')
    BY <1>1, <1>10 DEF Restart, Backjump
  <1>12. \A p \in Prop : Enqueue(p) => Justified(trail')
    BY EnqueueJustified
  <1>13. \/ UNCHANGED vars \/ Solve \/ EndSolve \/ ClauseConflict \/ Fail \/ Inconsistent
         \/ Skip \/ Propagate \/ SolveTheory \/ Update \/ PropagateEnd
         \/ \E p \in Prop : Declare(p) \/ Ignore(p) \/ LazyConflict(p) \/ Conflict(p)
         => UNCHANGED trail
    BY DEF Solve, EndSolve, ClauseConflict, Fail, Inconsistent, Skip, Propagate, SolveTheory,
           Update, PropagateEnd, Declare, Ignore, LazyConflict, Conflict, vars, solver
  <1> QED BY <1>2, <1>4, <1>5, <1>6, <1>8, <1>9, <1>11, <1>12, <1>13 DEF Next, TheoryStep

\* An update starts the loop over the reports.
LEMMA IntoDetect ==
    ASSUME [Next]_vars, phase' = "detect"
    PROVE  Update \/ UNCHANGED vars \/ \E p \in Prop : Ignore(p) \/ Enqueue(p)
  <1>1. ASSUME NEW lev, CancelUntil(lev) PROVE phase' # "detect"
    BY <1>1 DEF CancelUntil
  <1>2. \/ \E p \in Prop : Declare(p) \/ LazyConflict(p) \/ Conflict(p)
        \/ Solve \/ EndSolve \/ ClauseConflict \/ Restart \/ Fail \/ Skip \/ Propagate
        \/ SolveTheory \/ PropagateEnd
        \/ \E v \in Var, b \in BOOLEAN :
              Decide(v, b) \/ Reenqueue(v, b) \/ \E lev \in 0..level : Imply(v, b, lev)
        \/ \E i \in DOMAIN trail, lev \in 0..level : MoveEarlier(i, lev)
        \/ \E i \in DOMAIN trail : Explain(i)
        \/ \E lev \in 0..level : Backjump(lev)
        => phase' # "detect"
    BY <1>1 DEF Declare, LazyConflict, Conflict, Solve, EndSolve, ClauseConflict, Restart, Fail,
                Skip, Propagate, SolveTheory, PropagateEnd, Decide, Reenqueue, Imply,
                MoveEarlier, Explain, Backjump
  <1> QED BY <1>2 DEF Next, TheoryStep, Inconsistent

\* No edge changes while the reports are worked through.
LEMMA DetectStep ==
    ASSUME Inv, StepInv, DetectInv, [Next]_vars
    PROVE  DetectInv'
  <1>1. CASE Update
    <2>1. g'.under = g.under /\ g'.over = g.over
      BY <1>1 DEF Update, Inv, Shape, Fields
    <2> QED BY <1>1, <2>1 DEF Update, DetectInv
  <1>2. ASSUME NEW p \in Prop, Ignore(p) PROVE DetectInv'
    <2>1. g'.under = g.under /\ g'.over = g.over
      BY <1>2 DEF Ignore, Inv, Shape, Fields
    <2> QED BY <1>2, <2>1 DEF Ignore, DetectInv, detector
  <1>3. ASSUME NEW p \in Prop, Enqueue(p) PROVE DetectInv'
    <2> DEFINE b == Implied(p) = "T"
               h == EnqueueTheory(g, p, b, level)
    <2>1. /\ phase = "detect" /\ UNCHANGED <<seenU, seenO, skipU, skipO>>
          /\ g' = [h EXCEPT !.changed = @ \ {p}] /\ g.assigns[p] = "U"
      BY <1>3 DEF Enqueue, detector
    <2>2. p \in declared /\ Well(g, declared) /\ declared \in SUBSET Prop /\ level \in Nat
      BY <1>3, EnqueueEager, GraphTrailAssumption DEF StepInv, SyncInv, TrailInv
    <2>3. Enqueues(h, g, declared, p, b, level)
      BY <2>1, <2>2, EnqueueWell
    <2>4. Follow(h)
      BY EnqueueFollows DEF Inv, Var
    <2> HIDE DEF h
    <2>5. g'.under = h.under /\ g'.over = h.over
      BY <2>1, <2>3 DEF Enqueues, Well, Shape, Fields
    <2>6. \A e \in Edge : h.assigns[e] = g.assigns[e]
      <3>1. p \notin Edge /\ h.assigns = [g.assigns EXCEPT ![p] = Bool(b)]
        BY <2>3, GraphTrailAssumption DEF Enqueues
      <3> QED BY <3>1, <2>2 DEF Well, Shape, Var
    <2>7. g'.under = g.under /\ g'.over = g.over
      BY <2>4, <2>5, <2>6 DEF Inv, Follow
    <2> QED BY <2>1, <2>7 DEF DetectInv
  <1>4. CASE UNCHANGED vars
    BY <1>4 DEF vars, detector, DetectInv
  <1> QED BY <1>1, <1>2, <1>3, <1>4, IntoDetect DEF DetectInv

-----------------------------------------------------------------------------
(***************************************************************************)
(* The clauses.                                                            *)
(***************************************************************************)
\* Steps that build no clause keep the last one, where it is looked at.
NoNewClause ==
    \/ phase' # "analyze" /\ (clause' = clause \/ clause' = NoClause)
    \/ phase' = "analyze" /\ clause' = NoClause
    \/ UNCHANGED <<phase, clause, trail, bound>>

\* Only a conflict and an explanation build one.
LEMMA OtherSteps ==
    ASSUME [Next]_vars,
           ~\E p \in Prop : Conflict(p), ~\E i \in DOMAIN trail : Explain(i)
    PROVE  NoNewClause
  <1>1. CASE UNCHANGED vars \/ Inconsistent
    BY <1>1 DEF vars, solver, answer, Inconsistent, NoNewClause
  <1>2. ASSUME NEW lev, CancelUntil(lev) PROVE NoNewClause
    BY <1>2 DEF CancelUntil, NoNewClause
  <1>3. CASE Restart \/ \E lev \in 0..level : Backjump(lev)
    BY <1>2, <1>3 DEF Restart, Backjump
  <1>4. CASE \/ Solve \/ EndSolve \/ Skip \/ Propagate \/ SolveTheory \/ PropagateEnd
             \/ Update
             \/ \E p \in Prop : Declare(p) \/ LazyConflict(p) \/ Ignore(p)
    BY <1>4 DEF Declare, LazyConflict, Solve, EndSolve, Skip, Propagate, SolveTheory,
                PropagateEnd, Update, Ignore, answer, NoNewClause
  <1>5. CASE ClauseConflict \/ Fail
    BY <1>5 DEF ClauseConflict, Fail, NoNewClause
  <1>6. CASE \/ \E v \in Var, b \in BOOLEAN :
                  Decide(v, b) \/ Reenqueue(v, b) \/ \E lev \in 0..level : Imply(v, b, lev)
             \/ \E i \in DOMAIN trail, lev \in 0..level : MoveEarlier(i, lev)
             \/ \E p \in Prop : Enqueue(p)
    BY <1>6 DEF Decide, Reenqueue, Imply, MoveEarlier, Enqueue, answer, NoNewClause
  <1> QED BY <1>1, <1>3, <1>4, <1>5, <1>6 DEF Next, TheoryStep

\* The literal l is false by an entry in front of n.
FalseBefore(l, t, n) ==
    \E i \in DOMAIN t : i < n /\ t[i].var = l[1] /\ t[i].val # l[2]

\* What the theory explains with was assigned before, in its trail and so on the
\* solver's.
LEMMA ClausesFalseStep ==
    ASSUME Inv, StepInv, ClausesFalse, [Next]_vars
    PROVE  ClausesFalse'
  <1>1. ASSUME NEW p \in Prop, Conflict(p) PROVE ClausesFalse'
    <2>1. /\ phase = "detect" /\ Implied(p) # "U" /\ g.assigns[p] \notin {"U", Implied(p)}
          /\ p \in g.changed /\ trail' = trail /\ bound' = Len(trail) + 1
      BY <1>1 DEF Conflict, solver
    <2>2. PICK lits \in Conflicts(p) :
            ~IsLazyConflict(lits) /\ clause' = [implied |-> {}, lits |-> lits]
      BY <1>1 DEF Conflict
    <2>3. /\ Well(g, declared) /\ Listed(g) = SolverVars
          /\ p \in declared /\ declared \subseteq Prop
          /\ \A v \in SolverVars : g.assigns[v] = SolverValue(v)
          /\ (~lazyOn => g.lazy = <<>>)
      <3>1. toReenqueue = <<>> /\ ~Behindhand
        BY <2>1 DEF StepInv, AgainInv, Behindhand
      <3> QED BY <2>1, <3>1, StepAgrees DEF StepInv, TrailInv, Well
    <2>4. ASSUME NEW l \in lits PROVE FalseBefore(l, trail, Len(trail) + 1)
      <3>1. /\ l[1] \in Edge \cup declared /\ l[2] \in BOOLEAN
            /\ g.assigns[l[1]] = Bool(~l[2])
        BY <2>1, <2>3, ConflictFalse
      <3>2. l[1] \in SolverVars /\ SolverValue(l[1]) = Bool(~l[2])
        <4>1. CASE OnlyLazy(lits) = {}
          <5>1. SolverValue(l[1]) = Bool(~l[2])
            BY <4>1, <3>1 DEF OnlyLazy
          <5> QED BY <5>1, TrailValue DEF Bool
        <4>2. CASE g.lazy = <<>>
          <5>1. Members(g.lazy) = {}
            BY <4>2 DEF Members
          <5>2. l[1] \in Assigned(g)
            BY <2>3, <3>1 DEF Assigned, Bool, Var
          <5> QED BY <5>1, <5>2, <2>3, <3>1 DEF Well
        <4> QED BY <4>1, <4>2, <2>2, <2>3 DEF IsLazyConflict
      <3>3. PICK i \in DOMAIN trail : trail[i].var = l[1]
        BY <3>2 DEF SolverVars
      <3>4. Bool(trail[i].val) = Bool(~l[2]) /\ trail[i].val \in BOOLEAN /\ i < Len(trail) + 1
        BY <3>2, <3>3, TrailValue, TrailVars, EntryFacts
      <3> QED BY <3>1, <3>3, <3>4 DEF FalseBefore, Bool
    <2> QED BY <2>1, <2>2, <2>4 DEF ClausesFalse, FalseBefore
  <1>2. ASSUME NEW i \in DOMAIN trail, Explain(i) PROVE ClausesFalse'
    <2> DEFINE n == Len(trail)
               h == g'
    <2>1. /\ trail' = [trail EXCEPT ![i].by = "clause"] /\ bound' = i
          /\ trail[i].by # "clause"
      BY <1>2 DEF Explain
    <2>2. PICK why \in Explanations(h, trail[i].var, trail[i].by = "under") :
            clause'.lits = why
      BY <1>2 DEF Explain
    <2>3. /\ InSync(h, declared, trail, i, trail[i].at) /\ trail[i].var \in Prop
          /\ trail[i].var \notin Edge
      BY <1>2, ExplainInSync, GraphTrailAssumption DEF StepInv, TrailInv
    <2>4. Follow(h)
      BY NextInv DEF Inv
    <2>5. Assigned(h) = Vars(trail, i) /\ Agrees(h, trail, i)
      BY <2>3, ListedUnassigned DEF InSync
    <2>6. /\ DOMAIN trail = 1..n /\ n \in Nat /\ DOMAIN trail' = DOMAIN trail
          /\ \A j \in DOMAIN trail : /\ trail[j].val \in BOOLEAN
                                     /\ j # i => trail'[j] = trail[j]
      BY <2>1, TrailVars, EntryFacts
    <2> HIDE DEF h
    <2>7. ASSUME NEW l \in why PROVE FalseBefore(l, trail', i)
      <3>1. l[1] \in Edge /\ l[2] \in BOOLEAN /\ h.assigns[l[1]] = Bool(~l[2])
        BY <2>4, ExplanationFalse
      <3>2. l[1] \in Assigned(h)
        BY <3>1 DEF Assigned, Bool, Var
      <3>3. PICK j \in 1..i : trail[j].var = l[1]
        BY <3>2, <2>5 DEF Vars
      <3>4. j # i /\ Bool(trail[j].val) = Bool(~l[2]) /\ i \in 1..n
        BY <3>1, <3>3, <2>3, <2>5, <2>6 DEF Agrees
      <3>5. j \in DOMAIN trail /\ j < i /\ trail'[j] = trail[j]
        BY <3>3, <3>4, <2>6
      <3> QED BY <3>1, <3>3, <3>4, <3>5, <2>6 DEF FalseBefore, Bool
    <2> QED BY <2>1, <2>2, <2>7 DEF ClausesFalse, FalseBefore
  <1>3. ASSUME NoNewClause PROVE ClausesFalse'
    BY <1>3 DEF NoNewClause, ClausesFalse, NoClause
  <1> QED BY <1>1, <1>2, <1>3, OtherSteps

\* What is explained was justified when it was enqueued, by edges that the theory
\* still has after backtracking.
LEMMA ClausesValidStep ==
    ASSUME Inv, StepInv, DetectInv, Justified(trail), ClausesValid, [Next]_vars
    PROVE  ClausesValid'
  <1>1. ASSUME NEW p \in Prop, Conflict(p) PROVE ClausesValid'
    <2> DEFINE b == Implied(p) = "T"
    <2>1. phase = "detect" /\ Implied(p) # "U" /\ b \in BOOLEAN
      BY <1>1 DEF Conflict
    <2>2. PICK lits \in Conflicts(p) : clause' = [implied |-> {}, lits |-> lits]
      BY <1>1 DEF Conflict
    <2>3. PICK why \in Explanations(g, p, b) : lits = {<<p, b>>} \cup why
      BY DEF Conflicts
    <2>4. IF b THEN At[p] \in Reached(g.under) ELSE At[p] \notin Reached(g.over)
      BY <2>1, ImpliedRight
    <2>5. Follow(g)
      BY DEF Inv
    <2> HIDE DEF b
    <2>6. ASSUME NEW E \in SUBSET Edge PROVE \E l \in lits : HoldsIn(l, E)
      BY <2>1, <2>3, <2>4, <2>5, ExplanationValid
    <2>7. clause'.lits = lits /\ clause'.implied = {}
      BY <2>2
    <2> QED BY <2>6, <2>7 DEF ClausesValid, HoldsIn
  <1>2. ASSUME NEW i \in DOMAIN trail, Explain(i) PROVE ClausesValid'
    <2> DEFINE h == g'
               p == trail[i].var
               reach == trail[i].by = "under"
    <2>1. /\ trail[i].by # "clause" /\ p \in Prop /\ trail[i].val = reach
          /\ InSync(h, declared, trail, i, trail[i].at)
      BY <1>2, ExplainInSync DEF Explain, StepInv, TrailInv
    <2>2. PICK why \in Explanations(h, p, reach) :
            clause' = [implied |-> {<<p, trail[i].val>>}, lits |-> why]
      BY <1>2 DEF Explain
    <2>3. Follow(h)
      BY NextInv DEF Inv
    <2>4. /\ i \in Nat /\ DOMAIN trail = 1..Len(trail) /\ Len(trail) \in Nat
          /\ \A j \in DOMAIN trail : /\ trail[j].val \in BOOLEAN
                                     /\ trail[j].by \in {"clause", "under", "over"}
      BY TrailVars, EntryFacts
    <2>5. OnTrail(h, trail, i)
      <3>1. Assigned(h) = Vars(trail, i) /\ Agrees(h, trail, i)
        BY <2>1, ListedUnassigned DEF InSync
      <3>2. \A j \in 1..i : trail[j].val \in BOOLEAN
        BY <2>4
      <3> DEFINE t == trail
      <3>3. /\ Assigned(h) = Vars(t, i) /\ Agrees(h, t, i) /\ i \in Nat
            /\ \A j \in 1..i : t[j].val \in BOOLEAN
        BY <2>4, <3>1, <3>2
      <3> HIDE DEF h, t
      <3>4. OnTrail(h, t, i)
        BY <2>3, <3>3, GraphsOnTrail
      <3> QED BY <3>4 DEF t
    <2> HIDE DEF h
    <2>6. /\ Edge \cap Before(trail, i, TRUE) \subseteq h.under
          /\ h.over \subseteq Edge \ Before(trail, i, FALSE)
      <3>1. \A j \in 1..(i - 1) : j \in 1..i
        BY <2>4
      <3> QED BY <2>5, <3>1 DEF OnTrail, Before
    <2>7. IF reach THEN At[p] \in Reached(h.under) ELSE At[p] \notin Reached(h.over)
      <3>1. JustifiedAt(trail, i)
        BY DEF Justified
      <3>2. CASE reach
        <4>1. At[p] \in Reached(Edge \cap Before(trail, i, TRUE))
          BY <3>1, <3>2 DEF JustifiedAt
        <4>2. Reached(Edge \cap Before(trail, i, TRUE)) \subseteq Reached(h.under)
          BY <2>6, ReachedGrows
        <4> QED BY <3>2, <4>1, <4>2
      <3>3. CASE ~reach
        <4>1. trail[i].by = "over"
          BY <2>1, <2>4, <3>3
        <4> QED BY <2>6, <3>1, <3>3, <4>1, ReachedGrows DEF JustifiedAt
      <3> QED BY <3>2, <3>3
    <2>8. ASSUME NEW E \in SUBSET Edge
          PROVE  \E l \in why \cup {<<p, reach>>} : HoldsIn(l, E)
      <3> reach \in BOOLEAN
        OBVIOUS
      <3> HIDE DEF p, reach
      <3> QED BY <2>1, <2>2, <2>3, <2>7, ExplanationValid
    <2>9. clause'.lits = why /\ clause'.implied = {<<p, reach>>}
      BY <2>1, <2>2
    <2> HIDE DEF p, reach
    <2> QED BY <2>8, <2>9 DEF ClausesValid, HoldsIn
  <1>3. ASSUME NoNewClause PROVE ClausesValid'
    BY <1>3 DEF NoNewClause, ClausesValid
  <1> QED BY <1>1, <1>2, <1>3, OtherSteps

-----------------------------------------------------------------------------
\* Everything that is shown of the theory under its solver.
AllInv == Inv /\ StepInv /\ DetectInv /\ EnqueuedJustified /\ ClausesFalse /\ ClausesValid

\* It holds in the beginning,
LEMMA AllInit == Init => AllInv
  <1> SUFFICES ASSUME Init PROVE AllInv
    OBVIOUS
  <1>1. Inv /\ StepInv
    BY InitInv, InitStep
  <1>2. phase = "idle" /\ clause = NoClause
    BY DEF Init
  <1>3. DetectInv /\ ClausesFalse /\ ClausesValid
    BY <1>2 DEF DetectInv, ClausesFalse, ClausesValid
  <1>4. EnqueuedJustified
    <2>1. \A i \in DOMAIN trail : trail[i].by = "clause"
      BY DEF Init
    <2> QED BY <2>1 DEF EnqueuedJustified
  <1> QED BY <1>1, <1>3, <1>4 DEF AllInv

\* and every step keeps it.
LEMMA AllNext ==
    ASSUME ~LateLazy, AllInv, [Next]_vars
    PROVE  AllInv'
  <1>1. Inv' /\ StepInv'
    BY NextInv, NextStepInv DEF AllInv
  <1>2. Justified(trail) /\ Justified(trail')
    BY JustifiedSays, JustifiedStep DEF AllInv
  <1>3. EnqueuedJustified'
    BY <1>2 DEF EnqueuedJustified, Justified, JustifiedAt, Before
  <1> QED BY <1>1, <1>2, <1>3, DetectStep, ClausesFalseStep, ClausesValidStep DEF AllInv

\* What the theory gives the solver follows from edges the solver had assigned
\* before, at levels no later than the literal's own, whatever enqueueLazy has
\* moved to earlier levels since, and whatever was taken back and told again.
THEOREM AlwaysJustified ==
    ASSUME ~LateLazy
    PROVE  Spec => []EnqueuedJustified
  <1>1. ~LateLazy /\ AllInv /\ [Next]_vars => AllInv'
    BY AllNext
  <1>2. AllInv => EnqueuedJustified
    BY DEF AllInv
  <1> QED BY <1>1, <1>2, AllInit, PTL DEF Spec

\* Every conflict and every reason is false where conflict analysis stands: the
\* theory backtracked behind the literal it explains finds only edges assigned
\* before that, and a lazily kept edge is never in a clause.
THEOREM ClausesAlwaysFalse ==
    ASSUME ~LateLazy
    PROVE  Spec => []ClausesFalse
  <1>1. ~LateLazy /\ AllInv /\ [Next]_vars => AllInv'
    BY AllNext
  <1>2. AllInv => ClausesFalse
    BY DEF AllInv
  <1> QED BY <1>1, <1>2, AllInit, PTL DEF Spec

\* Every conflict and every reason, built by buildReachReason from a path or by
\* buildNonReachReason from a cut, holds in every graph: the solver learns from
\* true clauses only.
THEOREM ClausesAlwaysValid ==
    ASSUME ~LateLazy
    PROVE  Spec => []ClausesValid
  <1>1. ~LateLazy /\ AllInv /\ [Next]_vars => AllInv'
    BY AllNext
  <1>2. AllInv => ClausesValid
    BY DEF AllInv
  <1> QED BY <1>1, <1>2, AllInit, PTL DEF Spec
-----------------------------------------------------------------------------
(***************************************************************************)
(* The propagation of a graph theory leaves nothing out: when the solver   *)
(* goes on to decide it has every property literal that the edges it       *)
(* assigned imply, whatever was backtracked, lazily or not, and however    *)
(* long an algorithm was skipped.                                          *)
(***************************************************************************)
\* preprocess tells nothing new.
LEMMA RetellAgrees ==
    ASSUME NEW h, Shape(h), NEW s
    PROVE  Agreeing(Retell(h, s), h)
  <1> DEFINE r == RemoveFromTrail(h, Members(s))
  <1>1. Shape(r) /\ Agreeing(r, h)
    BY RemoveAgrees
  <1>2. Retell(h, s) = IF s = <<>> THEN h
                       ELSE [r EXCEPT !.decisions[Len(h.decisions)] = @ \o s]
    BY DEF Retell
  <1> HIDE DEF r
  <1> QED BY <1>1, <1>2 DEF Fields, Shape, Agreeing

-----------------------------------------------------------------------------
\* What the algorithms have reported, and nobody is still to look at, has got
\* its literal.
Reported ==
    \A p \in declared \ g.changed :
      /\ seenU[At[p]] = "R" => g.assigns[p] = "T"
      /\ seenO[At[p]] = "N" => g.assigns[p] = "F"

\* An algorithm is skipped when it has nothing left to say.
SkipInv ==
    phase = "detect" => /\ skipU => \A p \in declared : g.assigns[p] = "T"
                        /\ skipO => \A p \in declared : g.assigns[p] = "F"

\* Every literal has the value its node asks for, but for late ones.
Settled(h, D, L) ==
    \A p \in D :
      /\ At[p] \in Reached(h.under) =>
           h.assigns[p] = "T" \/ (p \in L /\ h.assigns[p] = "U")
      /\ At[p] \notin Reached(h.over) =>
           h.assigns[p] = "F" \/ (p \in L /\ h.assigns[p] = "U")

\* That is so until the theory must propagate again.
RequireInv ==
    /\ ~g.requires => Settled(g, declared, late)
    /\ phase \in {"update", "detect"} => g.requires
    /\ ~solved => phase = "idle" /\ g.requires

-----------------------------------------------------------------------------
\* The end of propagation alone lets the theory rest with another assignment, the
\* loop over the reports alone takes reports away, and only an update and a new
\* literal change what the algorithms have seen.
LEMMA MovesMark ==
    ASSUME Inv, StepInv, RequireInv, [Next]_vars
    PROVE  /\ PropagateEnd \/ Wakes(g', g)
           /\ (\E p \in Prop : Ignore(p) \/ Enqueue(p)) \/ Looked(g', g)
           /\ \/ Update
              \/ \E p \in Prop : Declare(p)
              \/ UNCHANGED <<declared, seenU, seenO>>
  <1> DEFINE Marks == Looked(g', g) /\ Wakes(g', g)
  <1>1. Agreeing(g', g) => Marks
    BY AgreeingMarks
  <1>2. /\ Shape(g) /\ g = [f \in Fields |-> g[f]]
        /\ phase \in {"update", "detect"} => g.requires
    BY DEF Inv, Shape, RequireInv
  <1>3. \/ UNCHANGED vars \/ EndSolve \/ ClauseConflict \/ Fail \/ Inconsistent
        \/ Skip \/ Propagate
        \/ \E p \in Prop : Conflict(p)
        \/ \E i \in DOMAIN trail, lev \in 0..level : MoveEarlier(i, lev)
        => g' = g /\ UNCHANGED <<declared, seenU, seenO>>
    BY DEF vars, detector, EndSolve, ClauseConflict, Fail, Inconsistent, Skip, Propagate,
           Conflict, MoveEarlier
  <1>4. Solve => Marks /\ UNCHANGED <<declared, seenU, seenO>>
    BY <1>1, <1>2, RetellAgrees DEF Solve, detector
  <1>5. ASSUME NEW v \in Var, NEW b \in BOOLEAN,
               Decide(v, b) \/ Reenqueue(v, b) \/ \E lev \in 0..level : Imply(v, b, lev)
        PROVE  Marks /\ UNCHANGED <<declared, seenU, seenO>>
    <2>1. /\ UNCHANGED <<declared, seenU, seenO>>
          /\ \E lev : g' = EnqueueTheory(g, v, b, lev)
      BY <1>5 DEF Decide, Reenqueue, Imply, Assign, detector
    <2> QED BY <1>2, <2>1, EnqueueMarks
  <1>6. Restart \/ (\E lev \in 0..level : Backjump(lev))
          => Marks /\ UNCHANGED <<declared, seenU, seenO>>
    <2>1. ASSUME NEW lev, CancelUntil(lev)
          PROVE  Marks /\ UNCHANGED <<declared, seenU, seenO>>
      <3>1. /\ UNCHANGED <<declared, seenU, seenO>>
            /\ (\E s : g' = UndecideTheory(g, s)) \/ g' = BacktrackUntil(g, lev)
        BY <2>1 DEF CancelUntil, detector
      <3> QED BY <1>1, <1>2, <3>1, UndecideAgrees, BacktrackMarks
    <2> QED BY <2>1 DEF Restart, Backjump
  <1>7. ASSUME NEW i \in DOMAIN trail, Explain(i)
        PROVE  Marks /\ UNCHANGED <<declared, seenU, seenO>>
    <2>1. /\ UNCHANGED <<declared, seenU, seenO>>
          /\ \E v, lev : g' = BacktrackBehind(g, v, lev)
      BY <1>7 DEF Explain, detector
    <2> QED BY <1>2, <2>1, BehindMarks DEF Wakes
  <1>8. ASSUME NEW p \in Prop, LazyConflict(p)
        PROVE  Marks /\ UNCHANGED <<declared, seenU, seenO>>
    <2>1. /\ UNCHANGED <<declared, seenU, seenO>> /\ g.requires
          /\ (\E S : g' = Undo(g, S)) \/ \E lev : g' = BacktrackUntil(g, lev)
      BY <1>2, <1>8 DEF LazyConflict, detector
    <2> QED BY <1>2, <2>1, UndoMarks, BacktrackMarks DEF Wakes
  <1>9. SolveTheory => Marks /\ UNCHANGED <<declared, seenU, seenO>>
    BY <1>2 DEF SolveTheory, Looked, Wakes, Fields, detector
  <1>10. PropagateEnd => Looked(g', g) /\ UNCHANGED <<declared, seenU, seenO>>
    BY <1>2 DEF PropagateEnd, Looked, Fields, detector
  <1>11. Update \/ (\E p \in Prop : Declare(p)) => Marks
    BY <1>2 DEF Update, Declare, Looked, Wakes, Fields
  <1>12. ASSUME NEW p \in Prop, Ignore(p)
         PROVE  Wakes(g', g) /\ UNCHANGED <<declared, seenU, seenO>>
    BY <1>2, <1>12 DEF Ignore, Wakes, Fields, detector
  <1>13. ASSUME NEW p \in Prop, Enqueue(p)
         PROVE  Wakes(g', g) /\ UNCHANGED <<declared, seenU, seenO>>
    <2> DEFINE b == Implied(p) = "T"
               h == EnqueueTheory(g, p, b, level)
    <2>1. /\ UNCHANGED <<declared, seenU, seenO>>
          /\ g' = [h EXCEPT !.changed = @ \ {p}] /\ p \in Var
      BY <1>13 DEF Enqueue, detector, Var
    <2>2. Wakes(h, g) /\ Shape(h)
      BY <1>2, <2>1, EnqueueMarks, EnqueueFollows DEF Inv
    <2> HIDE DEF h
    <2> QED BY <2>1, <2>2 DEF Wakes, Shape, Fields
  <1>14. Agreeing(g, g)
    BY DEF Agreeing
  <1> HIDE DEF Marks
  <1>15. \/ UNCHANGED vars \/ EndSolve \/ ClauseConflict \/ Fail \/ Inconsistent
         \/ Skip \/ Propagate
         \/ \E p \in Prop : Conflict(p)
         \/ \E i \in DOMAIN trail, lev \in 0..level : MoveEarlier(i, lev)
         => Marks /\ UNCHANGED <<declared, seenU, seenO>>
    BY <1>1, <1>3, <1>14
  <1> QED BY <1>4, <1>5, <1>6, <1>7, <1>8, <1>9, <1>10, <1>11, <1>12, <1>13, <1>15
          DEF Next, TheoryStep, Marks

\* The algorithms run on graphs one of which has all edges of the other.
LEMMA SeenAgree ==
    ASSUME Inv, DetectInv, phase = "detect", NEW p \in Prop, ~skipU, ~skipO
    PROVE  ~(seenU[At[p]] = "R" /\ seenO[At[p]] = "N")
  <1>1. g.under \subseteq g.over
    BY DEF Inv, Follow
  <1>2. Reached(g.under) \subseteq Reached(g.over)
    BY <1>1, ReachedGrows
  <1>3. At[p] \in Node
    BY GraphTheoryAssumption
  <1>4. seenU = Status(g.under) /\ seenO = Status(g.over)
    BY DEF DetectInv
  <1> QED BY <1>2, <1>3, <1>4 DEF Status

\* Nothing that was reported is forgotten before its literal has the value.
LEMMA ReportedStep ==
    ASSUME Inv, StepInv, DetectInv, Reported, SkipInv, RequireInv, [Next]_vars
    PROVE  Reported'
  <1>1. declared \subseteq Prop /\ Well(g, declared) /\ Shape(g) /\ g = [f \in Fields |-> g[f]]
    BY DEF StepInv, TrailInv, SyncInv, Inv, Shape
  <1>2. ASSUME Looked(g', g), UNCHANGED <<declared, seenU, seenO>>
        PROVE  Reported'
    BY <1>1, <1>2 DEF Looked, Reported
  <1>3. CASE Update
    <2>1. /\ UNCHANGED declared
          /\ seenU' = seenU \/ seenU' = Status(g.under)
          /\ seenO' = seenO \/ seenO' = Status(g.over)
          /\ g' = [g EXCEPT !.changed = @ \cup Reports(seenU, seenU', "R", TRUE)
                                          \cup Reports(seenO, seenO', "N", FALSE)]
      BY <1>3 DEF Update
    <2>2. /\ g'.assigns = g.assigns
          /\ g'.changed = g.changed \cup Reports(seenU, seenU', "R", TRUE)
                                    \cup Reports(seenO, seenO', "N", FALSE)
      BY <1>1, <2>1 DEF Fields
    <2>3. ASSUME NEW p \in declared, p \notin g'.changed
          PROVE  /\ seenU'[At[p]] = "R" => g.assigns[p] = "T"
                 /\ seenO'[At[p]] = "N" => g.assigns[p] = "F"
      <3>1. /\ p \notin g.changed
            /\ p \notin Reports(seenU, seenU', "R", TRUE)
            /\ p \notin Reports(seenO, seenO', "N", FALSE)
        BY <2>2, <2>3
      <3> QED BY <3>1 DEF Reported, Reports, Bool
    <2> QED BY <2>1, <2>2, <2>3 DEF Reported
  <1>4. ASSUME NEW p \in Prop, Declare(p) PROVE Reported'
    <2>1. /\ declared' \subseteq Prop /\ At \in [Prop -> Node]
          /\ seenU' = [n \in Node |-> "?"] /\ seenO' = [n \in Node |-> "?"]
      BY <1>1, <1>4, GraphTheoryAssumption DEF Declare
    <2>2. \A q \in declared' : seenU'[At[q]] = "?" /\ seenO'[At[q]] = "?"
      BY <2>1
    <2> QED BY <2>2 DEF Reported
  <1>5. ASSUME NEW p \in Prop, Ignore(p) PROVE Reported'
    <2>1. /\ phase = "detect" /\ p \in declared /\ Implied(p) \in {"U", g.assigns[p]}
          /\ UNCHANGED <<declared, seenU, seenO>>
          /\ g'.assigns = g.assigns /\ g'.changed = g.changed \ {p}
      BY <1>1, <1>5 DEF Ignore, detector, Fields, Well
    <2>2. /\ skipU => g.assigns[p] = "T"
          /\ skipO => g.assigns[p] = "F"
          /\ ~skipU /\ ~skipO => ~(seenU[At[p]] = "R" /\ seenO[At[p]] = "N")
      BY <1>1, <2>1, SeenAgree DEF SkipInv
    <2>3. /\ seenU[At[p]] = "R" => g.assigns[p] = "T"
          /\ seenO[At[p]] = "N" => g.assigns[p] = "F"
      BY <2>1, <2>2 DEF Implied
    <2> QED BY <2>1, <2>3 DEF Reported
  <1>6. ASSUME NEW p \in Prop, Enqueue(p) PROVE Reported'
    <2> DEFINE b == Implied(p) = "T"
               h == EnqueueTheory(g, p, b, level)
    <2>1. /\ phase = "detect" /\ p \in declared /\ Implied(p) # "U" /\ g.assigns[p] = "U"
          /\ UNCHANGED <<declared, seenU, seenO>>
          /\ g' = [h EXCEPT !.changed = @ \ {p}]
          /\ level \in Nat
      BY <1>1, <1>6 DEF Enqueue, detector, Well, StepInv, TrailInv
    <2>2. ~skipU /\ ~skipO
      BY <2>1 DEF SkipInv
    <2>3. ~(seenU[At[p]] = "R" /\ seenO[At[p]] = "N")
      BY <1>1, <2>1, <2>2, SeenAgree
    <2>4. Enqueues(h, g, declared, p, b, level)
      BY <1>1, <2>1, EnqueueWell
    <2>5. h.changed = g.changed
      <3>1. b \in BOOLEAN /\ p \in Var
        BY DEF Var
      <3> HIDE DEF b
      <3> QED BY <1>1, <2>1, <3>1, EnqueueMarks
    <2>6. /\ seenU[At[p]] = "R" => b
          /\ seenO[At[p]] = "N" => ~b
      BY <2>1, <2>2, <2>3 DEF Implied
    <2> HIDE DEF h, b
    <2>7. g'.assigns = [g.assigns EXCEPT ![p] = Bool(b)] /\ g'.changed = g.changed \ {p}
      BY <2>1, <2>4, <2>5 DEF Enqueues, Well, Shape, Fields
    <2>8. ASSUME NEW q \in declared, q \notin g'.changed
          PROVE  /\ seenU[At[q]] = "R" => g'.assigns[q] = "T"
                 /\ seenO[At[q]] = "N" => g'.assigns[q] = "F"
      <3>1. CASE q = p
        <4>1. g'.assigns[p] = Bool(b)
          BY <1>1, <2>1, <2>7 DEF Shape, Var
        <4> QED BY <2>6, <3>1, <4>1 DEF Bool
      <3>2. CASE q # p
        <4>1. q \notin g.changed /\ g'.assigns[q] = g.assigns[q]
          BY <1>1, <2>7, <2>8, <3>2 DEF Shape, Var
        <4> QED BY <4>1 DEF Reported
      <3> QED BY <3>1, <3>2
    <2> QED BY <2>1, <2>8 DEF Reported
  <1> QED BY <1>2, <1>3, <1>4, <1>5, <1>6, MovesMark

\* The counters are zero when all literals have the one value.
LEMMA SkipStep ==
    ASSUME Inv, StepInv, SkipInv, [Next]_vars
    PROVE  SkipInv'
  <1> SUFFICES ASSUME phase' = "detect" PROVE SkipInv'
    BY DEF SkipInv
  <1>1. /\ declared \subseteq Prop /\ Well(g, declared) /\ Shape(g)
        /\ g = [f \in Fields |-> g[f]]
    BY DEF StepInv, TrailInv, SyncInv, Inv, Shape
  <1>2. CASE Update
    <2>1. /\ UNCHANGED declared /\ skipU' = ~(g.pos > 0) /\ skipO' = ~(g.neg > 0)
      BY <1>2 DEF Update, NeedsUnder, NeedsOver
    <2>2. g'.assigns = g.assigns
      BY <1>1, <1>2 DEF Update, Fields
    <2>3. ASSUME NEW x, ~(Cardinality({p \in declared : g.assigns[p] # x}) > 0)
          PROVE  \A p \in declared : g.assigns[p] = x
      <3> DEFINE S == {p \in declared : g.assigns[p] # x}
      <3>1. IsFiniteSet(S)
        <4>1. S \subseteq Prop
          BY <1>1
        <4> QED BY <4>1, GraphTrailAssumption, FS_Subset
      <3>2. Cardinality(S) \in Nat
        BY <3>1, FS_CardinalityType
      <3>3. S = {}
        BY <2>3, <3>1, <3>2, FS_EmptySet
      <3> QED BY <3>3
    <2>4. /\ skipU' => \A p \in declared : g.assigns[p] = "T"
          /\ skipO' => \A p \in declared : g.assigns[p] = "F"
      BY <1>1, <2>1, <2>3 DEF Well, Counts
    <2> QED BY <2>1, <2>2, <2>4 DEF SkipInv
  <1>3. CASE UNCHANGED vars
    BY <1>3 DEF vars, detector, SkipInv
  <1>4. ASSUME NEW p \in Prop, Ignore(p) PROVE SkipInv'
    BY <1>1, <1>4 DEF Ignore, SkipInv, detector, Fields
  <1>5. ASSUME NEW p \in Prop, Enqueue(p) PROVE SkipInv'
    <2>1. p \in declared /\ g.assigns[p] = "U" /\ phase = "detect" /\ UNCHANGED <<skipU, skipO>>
      BY <1>1, <1>5 DEF Enqueue, detector, Well
    <2> QED BY <2>1 DEF SkipInv
  <1> QED BY <1>2, <1>3, <1>4, <1>5, IntoDetect

-----------------------------------------------------------------------------
\* When all reports are worked through every literal is settled.
LEMMA EndSettles ==
    ASSUME DetectInv, Reported, SkipInv, phase = "detect", g.changed = {},
           declared \subseteq Prop
    PROVE  Settled(g, declared, {})
  <1> SUFFICES ASSUME NEW p \in declared
               PROVE  /\ At[p] \in Reached(g.under) => g.assigns[p] = "T"
                      /\ At[p] \notin Reached(g.over) => g.assigns[p] = "F"
    BY DEF Settled
  <1>1. At[p] \in Node
    BY GraphTheoryAssumption
  <1>2. /\ seenU[At[p]] = "R" => g.assigns[p] = "T"
        /\ seenO[At[p]] = "N" => g.assigns[p] = "F"
    BY DEF Reported
  <1>3. ASSUME At[p] \in Reached(g.under) PROVE g.assigns[p] = "T"
    <2>1. CASE skipU
      BY <2>1 DEF SkipInv
    <2>2. CASE ~skipU
      BY <1>1, <1>2, <1>3, <2>2 DEF DetectInv, Status
    <2> QED BY <2>1, <2>2
  <1>4. ASSUME At[p] \notin Reached(g.over) PROVE g.assigns[p] = "F"
    <2>1. CASE skipO
      BY <2>1 DEF SkipInv
    <2>2. CASE ~skipO
      BY <1>1, <1>2, <1>4, <2>2 DEF DetectInv, Status
    <2> QED BY <2>1, <2>2
  <1> QED BY <1>3, <1>4

\* The same values settle the same literals, and a late one without a value.
LEMMA SettledStays ==
    ASSUME NEW h, NEW f, Follow(h), Follow(f), f.assigns = h.assigns,
           NEW D, NEW L, Settled(h, D, L), NEW E, NEW M, L \subseteq M,
           \A p \in E \ D : p \in M /\ f.assigns[p] = "U"
    PROVE  Settled(f, E, M)
  <1>1. f.under = h.under /\ f.over = h.over
    BY DEF Follow
  <1> QED BY <1>1 DEF Settled

\* requiresPropagation is not cleared too early.
LEMMA RequireStep ==
    ASSUME Inv, Inv', StepInv, DetectInv, Reported, SkipInv, RequireInv, [Next]_vars
    PROVE  RequireInv'
  <1>1. /\ declared \subseteq Prop /\ Well(g, declared) /\ g = [f \in Fields |-> g[f]]
        /\ Follow(g) /\ Follow(g')
    BY DEF StepInv, TrailInv, SyncInv, Inv, Shape
  <1>2. CASE PropagateEnd
    <2>1. /\ g' = [g EXCEPT !.requires = FALSE] /\ phase' \in {"sat", "search"}
          /\ phase = "detect" /\ g.changed = {} /\ UNCHANGED <<declared, solved, late>>
      BY <1>2 DEF PropagateEnd, history
    <2>2. g'.assigns = g.assigns
      BY <1>1, <2>1 DEF Fields
    <2>3. Settled(g', declared, late)
      BY <1>1, <2>1, <2>2, EndSettles, SettledStays
    <2>4. solved
      BY <2>1 DEF RequireInv
    <2> QED BY <2>1, <2>3, <2>4 DEF RequireInv
  <1>3. CASE ~PropagateEnd
    <2>1. Wakes(g', g)
      BY <1>3, MovesMark
    <2>2. CASE \E p \in Prop : Declare(p)
      <3>1. PICK p \in Prop : Declare(p)
        BY <2>2
      <3>2. /\ phase = "idle" /\ phase' = "idle" /\ solved' = solved
            /\ declared' = declared \cup {p} /\ p \notin declared
            /\ late' = IF solved THEN late \cup {p} ELSE late
        BY <3>1 DEF Declare
      <3>3. g.assigns[p] = "U"
        <4>1. p \in Var /\ p \notin Edge
          BY GraphTrailAssumption DEF Var
        <4> QED BY <1>1, <3>2, <4>1 DEF Well, Assigned
      <3>4. ASSUME ~g'.requires PROVE Settled(g', declared', late')
        <4>1. ~g.requires /\ g'.assigns = g.assigns /\ solved /\ Settled(g, declared, late)
          BY <2>1, <3>4 DEF Wakes, RequireInv
        <4>2. /\ late \subseteq late'
              /\ \A q \in declared' \ declared : q \in late' /\ g'.assigns[q] = "U"
          BY <3>2, <3>3, <4>1
        <4> QED BY <1>1, <4>1, <4>2, SettledStays
      <3> QED BY <2>1, <3>2, <3>4 DEF RequireInv, Wakes
    <2>3. CASE ~\E p \in Prop : Declare(p)
      <3>1. /\ UNCHANGED <<declared, late>>
            /\ solved => solved'
            /\ ~solved /\ ~solved' => phase' = phase \/ phase # "idle"
            /\ phase' \in {"update", "detect"} =>
                 phase \in {"update", "detect"} \/ g.requires \/ g'.requires
        <4>1. ASSUME NEW lev, CancelUntil(lev)
              PROVE  UNCHANGED <<declared, late, solved>> /\ phase' \in {"search", "reenqueue"}
          BY <4>1 DEF CancelUntil, history
        <4>2. CASE Restart \/ \E lev \in 0..level : Backjump(lev)
          BY <4>1, <4>2 DEF Restart, Backjump
        <4>3. CASE UNCHANGED vars \/ Inconsistent \/ Solve \/ EndSolve \/ ClauseConflict \/ Fail
          BY <4>3 DEF vars, history, Inconsistent, Solve, EndSolve, ClauseConflict, Fail
        <4>4. /\ Skip => UNCHANGED <<declared, late, solved, phase>>
              /\ Propagate => UNCHANGED <<declared, late, solved>> /\ phase = "search" /\ g.requires
              /\ Update => UNCHANGED <<declared, late, solved>> /\ phase = "update"
          BY DEF history, Skip, Propagate, Update
        <4>5. ASSUME NEW p \in Prop, Ignore(p) \/ Enqueue(p) \/ LazyConflict(p) \/ Conflict(p)
              PROVE  /\ UNCHANGED <<declared, late, solved>> /\ phase = "detect"
          BY <4>5 DEF history, Ignore, Enqueue, LazyConflict, Conflict
        <4>6. CASE SolveTheory
          BY <1>1, <4>6 DEF SolveTheory, history, Fields
        <4>7. ASSUME NEW v \in Var, NEW b \in BOOLEAN, Decide(v, b) \/ Reenqueue(v, b)
              PROVE  /\ UNCHANGED <<declared, late, solved>> /\ phase \in {"search", "reenqueue"}
                     /\ phase' \in {"search", "reenqueue"}
          BY <4>7 DEF history, Decide, Reenqueue
        <4>8. ASSUME NEW v \in Var, NEW b \in BOOLEAN, NEW lev \in 0..level, Imply(v, b, lev)
              PROVE  UNCHANGED <<declared, late, solved, phase>>
          BY <4>8 DEF history, Imply
        <4>9. ASSUME NEW i \in DOMAIN trail, NEW lev \in 0..level, MoveEarlier(i, lev)
              PROVE  UNCHANGED <<declared, late, solved, phase>>
          BY <4>9 DEF history, MoveEarlier
        <4>10. ASSUME NEW i \in DOMAIN trail, Explain(i)
               PROVE  UNCHANGED <<declared, late, solved, phase>>
          BY <4>10 DEF history, Explain
        <4> QED BY <1>3, <2>3, <4>2, <4>3, <4>4, <4>5, <4>6, <4>7, <4>8, <4>9, <4>10
                DEF Next, TheoryStep
      <3>2. ASSUME ~g'.requires PROVE Settled(g', declared', late')
        <4>1. ~g.requires /\ g'.assigns = g.assigns /\ Settled(g, declared, late)
          BY <2>1, <3>2 DEF Wakes, RequireInv
        <4> QED BY <1>1, <3>1, <4>1, SettledStays
      <3>3. phase' \in {"update", "detect"} => g'.requires
        BY <2>1, <3>1 DEF Wakes, RequireInv
      <3>4. ~solved' => phase' = "idle" /\ g'.requires
        BY <2>1, <3>1 DEF Wakes, RequireInv
      <3> QED BY <3>2, <3>3, <3>4 DEF RequireInv
    <2> QED BY <2>2, <2>3
  <1> QED BY <1>2, <1>3

-----------------------------------------------------------------------------
\* What the solver assigned up to level k, and that it has every property literal
\* these edges imply, but for late ones without a value.
ToldTo(t, k, b) == {r.var : r \in {e \in Members(t) : e.at <= k /\ e.val = b}}
Complete(T, F, D, L) ==
    \A p \in D :
      /\ At[p] \in Reached(Edge \cap T) => p \in T \/ (p \in L /\ p \notin F)
      /\ At[p] \notin Reached(Edge \ F) => p \in F \/ (p \in L /\ p \notin T)
CompleteTo(t, k, D, L) == Complete(ToldTo(t, k, TRUE), ToldTo(t, k, FALSE), D, L)

\* A level is complete before the next one is opened, and so it is again after
\* everything above it is taken back.
LevelInv ==
    /\ \A k \in Nat : k < level => CompleteTo(trail, k, declared, late)
    /\ phase \in {"idle", "search", "sat"} /\ ~queued =>
         CompleteTo(trail, level, declared, late)

\* Once everything is assigned nothing is left for the theory to enqueue.
FinalInv ==
    /\ final => phase \in {"update", "detect"} /\ Known \subseteq SolverVars
    /\ phase = "sat" => ~queued /\ Known \subseteq SolverVars

-----------------------------------------------------------------------------
\* Only what was told matters for that.
LEMMA SameToldComplete ==
    ASSUME NEW t, NEW u, NEW k, \A b \in BOOLEAN : ToldTo(u, k, b) = ToldTo(t, k, b),
           NEW D, NEW L, CompleteTo(t, k, D, L)
    PROVE  CompleteTo(u, k, D, L)
  <1>1. ToldTo(u, k, TRUE) = ToldTo(t, k, TRUE) /\ ToldTo(u, k, FALSE) = ToldTo(t, k, FALSE)
    OBVIOUS
  <1> QED BY <1>1, Zenon DEF CompleteTo

\* The levels below one are not disturbed by an entry that is made there,
LEMMA AppendComplete ==
    ASSUME NEW t \in Seq(Entry), NEW r \in Entry, NEW k \in Nat, k < r.at, NEW D, NEW L,
           CompleteTo(t, k, D, L)
    PROVE  CompleteTo(Append(t, r), k, D, L)
  <1>1. Members(Append(t, r)) = Members(t) \cup {r}
    BY AppendMembers
  <1>2. r.at \in Nat /\ ~(r.at <= k)
    BY DEF Entry
  <1>3. \A b : ToldTo(Append(t, r), k, b) = ToldTo(t, k, b)
    BY <1>1, <1>2 DEF ToldTo
  <1> QED BY <1>3, SameToldComplete

\* by what is taken back above it,
LEMMA CutComplete ==
    ASSUME NEW t \in Seq(Entry), NEW lev \in Nat, NEW k \in Nat, k <= lev, NEW D, NEW L,
           CompleteTo(t, k, D, L)
    PROVE  CompleteTo(Keep(t, {r \in Members(t) : r.at <= lev}), k, D, L)
  <1> DEFINE S == {r \in Members(t) : r.at <= lev}
             u == Keep(t, S)
  <1>1. Members(u) = Members(t) \cap S
    <2> HIDE DEF S
    <2> QED BY KeepMembers
  <1>2. \A r \in Members(t) : r.at \in Nat
    BY EntryFacts DEF Members
  <1> HIDE DEF u
  <1>3. ASSUME NEW b PROVE ToldTo(u, k, b) = ToldTo(t, k, b)
    <2>1. \A r : r \in Members(u) /\ r.at <= k <=> r \in Members(t) /\ r.at <= k
      BY <1>1, <1>2
    <2> QED BY <2>1 DEF ToldTo
  <1>4. CompleteTo(u, k, D, L)
    BY <1>3, SameToldComplete
  <1> QED BY <1>4 DEF u

\* or by moving a literal to an earlier level.
LEMMA MoveComplete ==
    ASSUME NEW t, NEW u, DOMAIN u = DOMAIN t,
           \A i \in DOMAIN t : u[i].var = t[i].var /\ u[i].val = t[i].val /\ u[i].at = t[i].at,
           NEW k, NEW D, NEW L, CompleteTo(t, k, D, L)
    PROVE  CompleteTo(u, k, D, L)
  <1>1. \A b : ToldTo(u, k, b) = ToldTo(t, k, b)
    BY DEF ToldTo, Members
  <1> QED BY <1>1, SameToldComplete

\* Up to the last level it is the solver's assignment.
LEMMA ToldAll ==
    ASSUME StepInv
    PROVE  \A v : /\ SolverValue(v) = "T" <=> v \in ToldTo(trail, level, TRUE)
                  /\ SolverValue(v) = "F" <=> v \in ToldTo(trail, level, FALSE)
                  /\ SolverValue(v) \in Value
                  /\ SolverValue(v) = "U" <=> v \notin SolverVars
  <1>1. \A i \in DOMAIN trail : trail[i].at <= level /\ trail[i].val \in BOOLEAN
    BY TrailVars, EntryFacts DEF StepInv, TrailInv, Ordered
  <1>2. \A b, v : v \in ToldTo(trail, level, b) <=>
                    \E i \in DOMAIN trail : trail[i].var = v /\ trail[i].val = b
    BY <1>1 DEF ToldTo, Members
  <1>3. \A v : v \in SolverVars <=> \E i \in DOMAIN trail : trail[i].var = v
    BY DEF SolverVars
  <1>4. \A i \in DOMAIN trail : SolverValue(trail[i].var) = IF trail[i].val THEN "T" ELSE "F"
    BY TrailValue DEF Bool
  <1>5. \A v : v \notin SolverVars => SolverValue(v) = "U"
    BY TrailValue
  <1> SUFFICES ASSUME NEW v
               PROVE  /\ SolverValue(v) = "T" <=> v \in ToldTo(trail, level, TRUE)
                      /\ SolverValue(v) = "F" <=> v \in ToldTo(trail, level, FALSE)
                      /\ SolverValue(v) \in Value
                      /\ SolverValue(v) = "U" <=> v \notin SolverVars
    OBVIOUS
  <1>6. CASE v \in SolverVars
    <2>1. PICK i \in DOMAIN trail : trail[i].var = v
      BY <1>3, <1>6
    <2>2. SolverValue(v) = IF trail[i].val THEN "T" ELSE "F"
      BY <1>4, <2>1
    <2>3. \A j \in DOMAIN trail : trail[j].var = v => trail[j].val = trail[i].val
      BY <1>1, <1>4, <2>1
    <2>4. ASSUME NEW b PROVE v \in ToldTo(trail, level, b) <=> trail[i].val = b
      BY <1>2, <2>1, <2>3
    <2>5. /\ v \in ToldTo(trail, level, TRUE) <=> trail[i].val = TRUE
          /\ v \in ToldTo(trail, level, FALSE) <=> trail[i].val = FALSE
      BY <2>4
    <2> QED BY <1>1, <1>6, <2>2, <2>5 DEF Value
  <1>7. CASE v \notin SolverVars
    BY <1>2, <1>3, <1>5, <1>7 DEF Value
  <1> QED BY <1>6, <1>7

\* What is settled for the theory is complete for the solver.
LEMMA SettledTells ==
    ASSUME Inv, StepInv, phase \notin {"unsat", "reenqueue", "analyze"},
           Settled(g, declared, late)
    PROVE  CompleteTo(trail, level, declared, late)
  <1> DEFINE T == ToldTo(trail, level, TRUE)
             F == ToldTo(trail, level, FALSE)
  <1>1. toReenqueue = <<>> /\ ~Behindhand
    BY DEF StepInv, AgainInv, Behindhand
  <1>2. /\ Well(g, declared) /\ Listed(g) = SolverVars
        /\ \A v \in SolverVars : g.assigns[v] = SolverValue(v)
        /\ ~lazyOn => g.lazy = <<>>
    BY <1>1, StepAgrees
  <1>3. \A v \in declared : g.assigns[v] # "U" => v \in SolverVars
    <2>1. CASE lazyOn
      BY <2>1, LazyAssignsAll
    <2>2. CASE ~lazyOn
      <3>1. Members(g.lazy) = {}
        BY <1>2, <2>2 DEF Members
      <3>2. declared \subseteq Var
        BY DEF StepInv, TrailInv, Var
      <3> QED BY <1>2, <3>1, <3>2 DEF Well, Assigned
    <2> QED BY <2>1, <2>2
  <1>4. /\ \A v : v \in T <=> SolverValue(v) = "T"
        /\ \A v : v \in F <=> SolverValue(v) = "F"
        /\ \A v : v \in T \/ v \in F => v \in SolverVars
    BY ToldAll
  <1> HIDE DEF T, F
  <1>5. Edge \cap T \subseteq g.under /\ g.over \subseteq Edge \ F
    BY <1>2, <1>4 DEF Inv, Follow
  <1>6. /\ Reached(Edge \cap T) \subseteq Reached(g.under)
        /\ Reached(g.over) \subseteq Reached(Edge \ F)
    BY <1>5, ReachedGrows
  <1>7. ASSUME NEW p \in declared
        PROVE  /\ g.assigns[p] = "T" <=> p \in T
               /\ g.assigns[p] = "F" <=> p \in F
    BY <1>2, <1>3, <1>4
  <1>8. ASSUME NEW p \in declared
        PROVE  /\ At[p] \in Reached(Edge \cap T) => p \in T \/ (p \in late /\ p \notin F)
               /\ At[p] \notin Reached(Edge \ F) => p \in F \/ (p \in late /\ p \notin T)
    BY <1>6, <1>7 DEF Settled
  <1>9. Complete(T, F, declared, late)
    BY <1>8 DEF Complete
  <1> QED BY <1>9 DEF CompleteTo, T, F

\* Every level stays complete.
LEMMA LevelStep ==
    ASSUME Inv, StepInv, DetectInv, Reported, SkipInv, RequireInv, LevelInv, [Next]_vars
    PROVE  LevelInv'
  <1> DEFINE Below(t, n) == \A k \in Nat : k < n => CompleteTo(t, k, declared, late)
  <1>1. /\ trail \in Seq(Entry) /\ level \in Nat /\ declared \subseteq Prop
        /\ phase = "idle" => level = 0
        /\ Below(trail, level)
    BY TrailVars DEF StepInv, TrailInv, LevelInv
  <1>2. ASSUME UNCHANGED <<declared, late, trail, level>>,
               phase' \in {"idle", "search", "sat"} /\ ~queued' =>
                 \/ phase \in {"idle", "search", "sat"} /\ ~queued
                 \/ CompleteTo(trail, level, declared, late)
        PROVE  LevelInv'
    BY <1>2 DEF LevelInv
  <1>3. CASE \/ UNCHANGED vars \/ Inconsistent \/ Solve \/ EndSolve \/ ClauseConflict \/ Fail
             \/ Propagate \/ Update \/ SolveTheory
             \/ \E p \in Prop : Ignore(p) \/ LazyConflict(p) \/ Conflict(p)
    <2>1. \/ UNCHANGED vars \/ Inconsistent \/ Solve \/ EndSolve \/ ClauseConflict \/ Fail
          => /\ UNCHANGED <<declared, late, trail, level>>
             /\ phase' \in {"idle", "search", "sat"} /\ ~queued' =>
                  phase \in {"idle", "search", "sat"} /\ ~queued
      BY DEF vars, history, solver, Inconsistent, Solve, EndSolve, ClauseConflict, Fail
    <2>2. Propagate \/ Update \/ SolveTheory
            => /\ UNCHANGED <<declared, late, trail, level>>
               /\ phase' \notin {"idle", "search", "sat"}
      BY DEF history, solver, Propagate, Update, SolveTheory
    <2>3. ASSUME NEW p \in Prop, Ignore(p) \/ LazyConflict(p) \/ Conflict(p)
          PROVE  /\ UNCHANGED <<declared, late, trail, level>>
                 /\ phase' \notin {"idle", "search", "sat"}
      BY <2>3 DEF history, solver, Ignore, LazyConflict, Conflict
    <2>4. /\ UNCHANGED <<declared, late, trail, level>>
          /\ phase' \in {"idle", "search", "sat"} /\ ~queued' =>
               phase \in {"idle", "search", "sat"} /\ ~queued
      BY <1>3, <2>1, <2>2, <2>3
    <2> QED BY <1>2, <2>4
  <1>4. CASE Skip
    <2>1. phase = "search" /\ Settled(g, declared, late)
      BY <1>4 DEF Skip, RequireInv
    <2>2. UNCHANGED <<declared, late, trail, level>>
      BY <1>4 DEF Skip, history, solver
    <2>3. CompleteTo(trail, level, declared, late)
      BY <2>1, SettledTells
    <2> QED BY <1>2, <2>2, <2>3
  <1>5. CASE PropagateEnd
    <2>1. /\ phase = "detect" /\ g.changed = {} /\ UNCHANGED <<declared, late, trail, level>>
      BY <1>5 DEF PropagateEnd, history, solver
    <2>2. Settled(g, declared, late)
      BY <1>1, <2>1, EndSettles DEF Settled
    <2>3. CompleteTo(trail, level, declared, late)
      BY <2>1, <2>2, SettledTells
    <2> QED BY <1>2, <2>1, <2>3
  <1>6. ASSUME NEW p \in Prop, Declare(p) PROVE LevelInv'
    <2>1. phase = "idle" /\ level' = level /\ queued'
      BY <1>6 DEF Declare, solver
    <2> QED BY <1>1, <2>1 DEF LevelInv
  <1>7. ASSUME NEW r \in Entry, trail' = Append(trail, r), queued',
               UNCHANGED <<declared, late>>,
               \/ /\ r.at = level /\ level' = level
               \/ /\ r.at = level + 1 /\ level' = level + 1
                  /\ CompleteTo(trail, level, declared, late)
        PROVE  LevelInv'
    <2>1. \A k \in Nat : k < level' => k < r.at /\ CompleteTo(trail, k, declared, late)
      <3>1. \A k \in Nat : k < level + 1 => k < level \/ k = level
        BY <1>1
      <3> QED BY <1>1, <1>7, <3>1
    <2>2. \A k \in Nat : k < level' => CompleteTo(trail', k, declared, late)
      BY <1>1, <1>7, <2>1, AppendComplete
    <2> QED BY <1>7, <2>2 DEF LevelInv
  <1>8. ASSUME NEW v \in Var, NEW b \in BOOLEAN, Decide(v, b) PROVE LevelInv'
    <2> DEFINE r == [var |-> v, val |-> b, lev |-> level + 1, at |-> level + 1, by |-> "clause"]
    <2>1. /\ trail' = Append(trail, r) /\ queued' /\ UNCHANGED <<declared, late>>
          /\ level' = level + 1 /\ level < MaxLevel /\ phase = "search" /\ ~queued
      BY <1>8 DEF Decide, Assign, history
    <2>2. r \in Entry /\ r.at = level + 1
      BY <1>1, <2>1, GraphTrailAssumption DEF Entry
    <2> HIDE DEF r
    <2> QED BY <1>7, <2>1, <2>2 DEF LevelInv
  <1>9. ASSUME NEW v \in Var, NEW b \in BOOLEAN, NEW lev \in 0..level, Imply(v, b, lev)
        PROVE  LevelInv'
    <2> DEFINE r == [var |-> v, val |-> b, lev |-> lev, at |-> level, by |-> "clause"]
    <2>1. /\ trail' = Append(trail, r) /\ queued' /\ UNCHANGED <<declared, late, level>>
      BY <1>9 DEF Imply, Assign, history
    <2>2. r \in Entry /\ r.at = level
      BY <1>1, GraphTrailAssumption DEF Entry, StepInv, TrailInv
    <2> HIDE DEF r
    <2> QED BY <1>7, <2>1, <2>2
  <1>10. ASSUME NEW v \in Var, NEW b \in BOOLEAN, Reenqueue(v, b) PROVE LevelInv'
    <2> DEFINE q == Head(toReenqueue)
               r == [q EXCEPT !.at = level]
    <2>1. /\ trail' = Append(trail, r) /\ queued' /\ UNCHANGED <<declared, late, level>>
          /\ phase = "reenqueue"
      BY <1>10 DEF Reenqueue, history
    <2>2. q \in Entry /\ level \in 0..MaxLevel
      BY <2>1 DEF StepInv, AgainInv, TrailInv
    <2> HIDE DEF q
    <2>3. r \in Entry /\ r.at = level
      BY <2>2 DEF Entry
    <2> HIDE DEF r
    <2> QED BY <1>7, <2>1, <2>3
  <1>11. ASSUME NEW p \in Prop, Enqueue(p) PROVE LevelInv'
    <2> DEFINE b == Implied(p) = "T"
               r == [var |-> p, val |-> b, lev |-> level, at |-> level,
                     by |-> IF b THEN "under" ELSE "over"]
    <2>1. /\ trail' = Append(trail, r) /\ queued' /\ UNCHANGED <<declared, late, level>>
      BY <1>11 DEF Enqueue, history
    <2>2. r \in Entry /\ r.at = level
      <3>1. level \in 0..MaxLevel /\ p \in Var /\ b \in BOOLEAN
        BY DEF StepInv, TrailInv, Var
      <3> HIDE DEF b
      <3> QED BY <3>1 DEF Entry
    <2> HIDE DEF r
    <2> QED BY <1>7, <2>1, <2>2
  <1>12. ASSUME UNCHANGED <<declared, late, level>>, DOMAIN trail' = DOMAIN trail,
                \A i \in DOMAIN trail : /\ trail'[i].var = trail[i].var
                                        /\ trail'[i].val = trail[i].val
                                        /\ trail'[i].at = trail[i].at,
                phase' \in {"idle", "search", "sat"} /\ ~queued' =>
                  phase \in {"idle", "search", "sat"} /\ ~queued
         PROVE  LevelInv'
    <2>1. \A k : CompleteTo(trail, k, declared, late) => CompleteTo(trail', k, declared, late)
      BY <1>12, MoveComplete
    <2> QED BY <1>12, <2>1 DEF LevelInv
  <1>13. ASSUME NEW i \in DOMAIN trail, NEW lev \in 0..level, MoveEarlier(i, lev)
         PROVE  LevelInv'
    <2>1. /\ UNCHANGED <<declared, late, level, phase, queued>>
          /\ trail' = [trail EXCEPT ![i].lev = lev, ![i].by = "clause"]
      BY <1>13 DEF MoveEarlier, history
    <2>2. /\ DOMAIN trail' = DOMAIN trail
          /\ \A j \in DOMAIN trail : /\ trail'[j].var = trail[j].var
                                     /\ trail'[j].val = trail[j].val
                                     /\ trail'[j].at = trail[j].at
      BY <2>1, TrailVars DEF Entry
    <2> QED BY <1>12, <2>1, <2>2
  <1>14. ASSUME NEW i \in DOMAIN trail, Explain(i) PROVE LevelInv'
    <2>1. /\ UNCHANGED <<declared, late, level>> /\ queued'
          /\ trail' = [trail EXCEPT ![i].by = "clause"]
      BY <1>14 DEF Explain, history
    <2>2. /\ DOMAIN trail' = DOMAIN trail
          /\ \A j \in DOMAIN trail : /\ trail'[j].var = trail[j].var
                                     /\ trail'[j].val = trail[j].val
                                     /\ trail'[j].at = trail[j].at
      BY <2>1, TrailVars DEF Entry
    <2> QED BY <1>12, <2>1, <2>2
  <1>15. ASSUME NEW lev \in Nat, lev < level, CancelUntil(lev) PROVE LevelInv'
    <2>1. /\ UNCHANGED <<declared, late>> /\ level' = lev
          /\ trail' = Keep(trail, {r \in Members(trail) : r.at <= lev})
      BY <1>15 DEF CancelUntil, history
    <2>2. \A k \in Nat : k <= lev => CompleteTo(trail', k, declared, late)
      BY <1>1, <1>15, <2>1, CutComplete
    <2> QED BY <2>1, <2>2 DEF LevelInv
  <1>16. CASE Restart
    BY <1>1, <1>15, <1>16 DEF Restart
  <1>17. ASSUME NEW lev \in 0..level, Backjump(lev) PROVE LevelInv'
    <2>1. lev < Floor /\ CancelUntil(lev) /\ phase = "analyze"
      BY <1>17 DEF Backjump
    <2>2. Floor <= level /\ Floor \in Nat
      <3>1. bound \in Nat \ {0} /\ (bound > Len(trail) \/ bound \in DOMAIN trail)
        BY TrailVars DEF StepInv, TrailInv
      <3>2. \A i \in DOMAIN trail : trail[i].lev \in Nat /\ trail[i].lev <= level
        <4>1. \A i \in DOMAIN trail : /\ trail[i].lev <= trail[i].at /\ trail[i].at <= level
          BY DEF StepInv, TrailInv, Ordered
        <4> QED BY <1>1, <4>1, EntryFacts
      <3> QED BY <1>1, <3>1, <3>2 DEF Floor
    <2> QED BY <1>1, <1>15, <2>1, <2>2
  <1> HIDE DEF Below
  <1> QED BY <1>3, <1>4, <1>5, <1>6, <1>8, <1>9, <1>10, <1>11, <1>13, <1>14, <1>16, <1>17
          DEF Next, TheoryStep

\* From then on the trail stays as it is until the theory agrees, or does not.
LEMMA FinalStep ==
    ASSUME StepInv, FinalInv, [Next]_vars
    PROVE  FinalInv'
  <1>1. UNCHANGED trail => SolverVars' = SolverVars
    BY DEF SolverVars
  <1>2. CASE UNCHANGED vars \/ Inconsistent
    BY <1>1, <1>2 DEF vars, solver, answer, Inconsistent, FinalInv, Known
  <1>3. ASSUME NEW lev, CancelUntil(lev) PROVE ~final' /\ phase' # "sat"
    BY <1>3 DEF CancelUntil
  <1>4. ASSUME ~final' /\ phase' # "sat" PROVE FinalInv'
    BY <1>4 DEF FinalInv
  <1>5. CASE Restart \/ \E lev \in 0..level : Backjump(lev)
    BY <1>3, <1>4, <1>5 DEF Restart, Backjump
  <1>6. CASE \/ \E p \in Prop : Declare(p) \/ Conflict(p)
             \/ Solve \/ EndSolve \/ ClauseConflict \/ Fail \/ Skip \/ Propagate
    BY <1>4, <1>6 DEF FinalInv, Declare, Conflict, Solve, EndSolve, ClauseConflict, Fail, Skip,
                      Propagate, answer
  <1>7. CASE \/ \E v \in Var, b \in BOOLEAN :
                  Decide(v, b) \/ Reenqueue(v, b) \/ \E lev \in 0..level : Imply(v, b, lev)
             \/ \E i \in DOMAIN trail, lev \in 0..level : MoveEarlier(i, lev)
             \/ \E i \in DOMAIN trail : Explain(i)
    <2>1. ASSUME NEW v \in Var, NEW b \in BOOLEAN,
                 Decide(v, b) \/ Reenqueue(v, b) \/ \E lev \in 0..level : Imply(v, b, lev)
          PROVE  ~final' /\ phase' # "sat"
      BY <2>1 DEF FinalInv, Decide, Reenqueue, Imply, answer
    <2>2. ASSUME NEW i \in DOMAIN trail,
                 Explain(i) \/ \E lev \in 0..level : MoveEarlier(i, lev)
          PROVE  ~final' /\ phase' # "sat"
      <3>1. UNCHANGED <<phase, final>> /\ phase \in {"search", "analyze"}
        BY <2>2 DEF Explain, MoveEarlier, answer
      <3> QED BY <3>1 DEF FinalInv
    <2> QED BY <1>4, <1>7, <2>1, <2>2
  <1>8. CASE SolveTheory \/ Update \/ PropagateEnd
    <2>1. SolveTheory \/ Update => UNCHANGED <<declared, trail>> /\ phase' \in {"update", "detect"}
      BY DEF SolveTheory, Update, solver
    <2>2. SolveTheory => FinalInv'
      BY <1>1, <2>1 DEF SolveTheory, FinalInv, Known
    <2>3. Update => FinalInv'
      BY <1>1, <2>1 DEF Update, FinalInv, Known, answer
    <2>4. PropagateEnd => FinalInv'
      BY <1>1 DEF PropagateEnd, FinalInv, Known, solver
    <2> QED BY <1>8, <2>2, <2>3, <2>4
  <1>9. ASSUME NEW p \in Prop, Ignore(p) \/ LazyConflict(p) PROVE FinalInv'
    <2>1. /\ UNCHANGED <<declared, trail, final>> /\ phase' \in {"update", "detect"}
      BY <1>9 DEF Ignore, LazyConflict, solver, answer
    <2>2. UNCHANGED SolverVars
      BY <1>1, <2>1
    <2> QED BY <2>1, <2>2 DEF FinalInv, Known
  <1>10. ASSUME NEW p \in Prop, Enqueue(p) PROVE FinalInv'
    <2>1. p \in declared /\ p \notin SolverVars /\ final' = final /\ phase' = "detect"
      BY <1>10, EnqueueEager DEF Enqueue, answer
    <2> QED BY <2>1 DEF FinalInv, Known
  <1> QED BY <1>2, <1>5, <1>6, <1>7, <1>8, <1>9, <1>10 DEF Next, TheoryStep

CompleteInv == Reported /\ SkipInv /\ RequireInv /\ LevelInv /\ FinalInv

\* Nothing has been seen in the beginning,
LEMMA CompleteInit == Init => CompleteInv
  <1> SUFFICES ASSUME Init PROVE CompleteInv
    OBVIOUS
  <1>1. /\ phase = "idle" /\ ~solved /\ level = 0 /\ queued /\ ~final
        /\ seenU = [n \in Node |-> "?"] /\ seenO = [n \in Node |-> "?"]
        /\ declared \subseteq Prop
    BY DEF Init
  <1>2. g.requires
    BY DEF Init, EmptyTrail
  <1>3. Reported
    <2>1. \A p \in declared : At[p] \in Node
      BY <1>1, GraphTheoryAssumption
    <2> QED BY <1>1, <2>1 DEF Reported
  <1> QED BY <1>1, <1>2, <1>3 DEF CompleteInv, SkipInv, RequireInv, LevelInv, FinalInv

\* and no step leaves anything out.
LEMMA CompleteNext ==
    ASSUME ~LateLazy, AllInv, CompleteInv, [Next]_vars
    PROVE  CompleteInv'
  <1>1. Inv /\ StepInv /\ DetectInv /\ Inv'
    BY AllNext DEF AllInv
  <1>2. Reported /\ SkipInv /\ RequireInv /\ LevelInv /\ FinalInv
    BY DEF CompleteInv
  <1> QED BY <1>1, <1>2, ReportedStep, SkipStep, RequireStep, LevelStep, FinalStep
          DEF CompleteInv

\* The edges of the properties are those of the levels.
LEMMA ForcedTold ==
    ASSUME StepInv, CompleteTo(trail, level, declared, late), NEW p \in declared
    PROVE  Forced(p) # "U" =>
             SolverValue(p) \in {Forced(p)} \cup (IF p \in late THEN {"U"} ELSE {})
  <1> DEFINE T == ToldTo(trail, level, TRUE)
             F == ToldTo(trail, level, FALSE)
  <1>1. \A v : /\ SolverValue(v) = "T" <=> v \in T
               /\ SolverValue(v) = "F" <=> v \in F
               /\ SolverValue(v) \in Value
    BY ToldAll
  <1>2. Complete(T, F, declared, late)
    BY DEF CompleteTo
  <1> HIDE DEF T, F
  <1>3. /\ {e \in Edge : SolverValue(e) = "T"} = Edge \cap T
        /\ {e \in Edge : SolverValue(e) # "F"} = Edge \ F
    BY <1>1
  <1>4. Forced(p) = IF At[p] \in Reached(Edge \cap T) THEN "T"
                    ELSE IF At[p] \notin Reached(Edge \ F) THEN "F" ELSE "U"
    BY <1>3 DEF Forced
  <1> QED BY <1>1, <1>2, <1>4 DEF Complete, Value

\* With all edges assigned every literal is forced.
LEMMA AllForced ==
    ASSUME StepInv, Known \subseteq SolverVars, NEW p
    PROVE  Forced(p) # "U"
  <1>1. \A e \in Edge : SolverValue(e) = "T" <=> SolverValue(e) # "F"
    BY ToldAll DEF Known, Value
  <1>2. {e \in Edge : SolverValue(e) = "T"} = {e \in Edge : SolverValue(e) # "F"}
    BY <1>1
  <1> QED BY <1>2 DEF Forced

\* When the solver goes on to decide the theory has enqueued everything the edges
\* assigned so far imply: by reporting each node whose status changes since the
\* last update, what backtracking unassigned, and by running an algorithm as long
\* as any literal could still get its value from it.
THEOREM PropagationAlwaysComplete ==
    ASSUME ~LateLazy
    PROVE  Spec => []PropagationComplete
  <1>1. Init => AllInv /\ CompleteInv
    BY AllInit, CompleteInit
  <1>2. ~LateLazy /\ AllInv /\ CompleteInv /\ [Next]_vars => AllInv' /\ CompleteInv'
    BY AllNext, CompleteNext
  <1>3. AllInv /\ CompleteInv => PropagationComplete
    <2> SUFFICES ASSUME AllInv, CompleteInv, phase = "search", ~queued, NEW p \in declared,
                        Forced(p) # "U"
                 PROVE  SolverValue(p) \in {Forced(p)} \cup (IF p \in late THEN {"U"} ELSE {})
      BY DEF PropagationComplete
    <2>1. StepInv /\ CompleteTo(trail, level, declared, late)
      BY DEF AllInv, CompleteInv, LevelInv
    <2> QED BY <2>1, ForcedTold
  <1> QED BY <1>1, <1>2, <1>3, PTL DEF Spec

\* When solveTheory and the propagation it forces end without a conflict, every
\* property literal says what holds in the graph of the true edges.
THEOREM AnswersAlwaysHold ==
    ASSUME ~LateLazy
    PROVE  Spec => []AnswersHold
  <1>1. Init => AllInv /\ CompleteInv
    BY AllInit, CompleteInit
  <1>2. ~LateLazy /\ AllInv /\ CompleteInv /\ [Next]_vars => AllInv' /\ CompleteInv'
    BY AllNext, CompleteNext
  <1>3. AllInv /\ CompleteInv => AnswersHold
    <2> SUFFICES ASSUME AllInv, CompleteInv, phase = "sat", NEW p \in declared
                 PROVE  SolverValue(p) = Forced(p)
      BY DEF AnswersHold
    <2>1. /\ StepInv /\ CompleteTo(trail, level, declared, late)
          /\ Known \subseteq SolverVars
      BY DEF AllInv, CompleteInv, LevelInv, FinalInv
    <2>2. SolverValue(p) # "U"
      BY <2>1, ToldAll DEF Known
    <2>3. Forced(p) # "U"
      BY <2>1, AllForced
    <2> QED BY <2>1, <2>2, <2>3, ForcedTold
  <1> QED BY <1>1, <1>2, <1>3, PTL DEF Spec
=============================================================================
