-------------------------- MODULE SimpSolverProofs ---------------------------
(***************************************************************************)
(* Proofs that preprocessing keeps the solutions of what the user gave,    *)
(* that models extended to eliminated variables satisfy it, and that       *)
(* nothing is left to subsume, for any number of variables, any clauses    *)
(* and theories, over any number of calls and interrupts.                  *)
(***************************************************************************)
EXTENDS SimpSolver, TLAPS, WellFoundedInduction, NaturalsInduction, FiniteSetTheorems,
        SequenceTheorems

-----------------------------------------------------------------------------
(***************************************************************************)
(* Induction and recursion over the natural numbers.                       *)
(***************************************************************************)
\* A set with zero that has every successor has all natural numbers.
LEMMA NatSet ==
    ASSUME NEW S, 0 \in S, \A n \in Nat : n \in S => n + 1 \in S
    PROVE  \A n \in Nat : n \in S
  <1> SUFFICES ASSUME Nat \ S # {} PROVE FALSE
    OBVIOUS
  <1>1. PICK n \in Nat \ S : \A m \in Nat \ S : ~(<<m, n>> \in OpToRel(<, Nat))
    BY NatLessThanWellFounded, WFMin
  <1>2. n # 0 /\ n - 1 \in Nat /\ n - 1 < n
    OBVIOUS
  <1>3. n - 1 \in S
    BY <1>1, <1>2 DEF OpToRel
  <1>4. (n - 1) + 1 \in S
    BY <1>2, <1>3
  <1>5. (n - 1) + 1 = n
    OBVIOUS
  <1> QED BY <1>1, <1>4, <1>5

\* What is done step by step, from values in X to values in X, has a course.
LEMMA Course ==
    ASSUME NEW X, NEW b \in X, NEW n \in Nat, NEW F \in [1..n -> [X -> X]]
    PROVE  \E f \in [0..n -> X] : f[0] = b /\ \A i \in 1..n : f[i] = F[i][f[i - 1]]
  <1> DEFINE G == {k \in Nat : k <= n =>
                     \E f \in [0..k -> X] : /\ f[0] = b
                                            /\ \A i \in 1..k : f[i] = F[i][f[i - 1]]}
  <1>1. 0 \in G
    <2> DEFINE f == [i \in 0..0 |-> b]
    <2>1. f \in [0..0 -> X] /\ f[0] = b /\ \A i \in 1..0 : f[i] = F[i][f[i - 1]]
      OBVIOUS
    <2> HIDE DEF f
    <2> QED BY <2>1
  <1>2. ASSUME NEW k \in Nat, k \in G PROVE k + 1 \in G
    <2> SUFFICES ASSUME k + 1 <= n
                 PROVE  \E f \in [0..(k + 1) -> X] :
                          /\ f[0] = b
                          /\ \A i \in 1..(k + 1) : f[i] = F[i][f[i - 1]]
      OBVIOUS
    <2>1. PICK f \in [0..k -> X] : f[0] = b /\ \A i \in 1..k : f[i] = F[i][f[i - 1]]
      BY <1>2
    <2> DEFINE h == [i \in 0..(k + 1) |-> IF i = k + 1 THEN F[k + 1][f[k]] ELSE f[i]]
    <2>2. F[k + 1][f[k]] \in X
      <3>1. k \in 0..k /\ k + 1 \in 1..n
        OBVIOUS
      <3> QED BY <2>1, <3>1
    <2>3. h \in [0..(k + 1) -> X]
      BY <2>2
    <2>4. h[0] = b
      BY <2>1
    <2>5. ASSUME NEW i \in 1..(k + 1) PROVE h[i] = F[i][h[i - 1]]
      <3>1. i - 1 \in 0..(k + 1) /\ i - 1 # k + 1 /\ i \in 0..(k + 1)
        OBVIOUS
      <3>2. h[i - 1] = f[i - 1]
        BY <3>1
      <3>3. CASE i = k + 1
        BY <3>1, <3>2, <3>3
      <3>4. CASE i # k + 1
        BY <2>1, <3>1, <3>2, <3>4, i \in 1..k
      <3> QED BY <3>3, <3>4
    <2> HIDE DEF h
    <2> QED BY <2>3, <2>4, <2>5
  <1> HIDE DEF G
  <1>3. n \in G
    BY <1>1, <1>2, NatSet
  <1> QED BY <1>3 DEF G

\* A finite set as a sequence.
LEMMA SetAsSeq ==
    ASSUME NEW S, IsFiniteSet(S)
    PROVE  /\ SetToSeq(S) \in Seq(S)
           /\ Len(SetToSeq(S)) = Cardinality(S) /\ Cardinality(S) \in Nat
           /\ \A x \in S : \E i \in 1..Len(SetToSeq(S)) : SetToSeq(S)[i] = x
           /\ \A i, j \in 1..Len(SetToSeq(S)) :
                SetToSeq(S)[i] = SetToSeq(S)[j] => i = j
  <1> DEFINE n == Cardinality(S)
  <1>1. n \in Nat /\ ExistsBijection(1..n, S)
    BY FS_CardinalityType
  <1>2. PICK f \in Bijection(1..n, S) : TRUE
    BY <1>1 DEF ExistsBijection
  <1>3. f \in [1..n -> S] /\ IsInjective(f)
    BY <1>2 DEF Bijection, Injection, Surjection, IsInjective
  <1>4. SetToSeq(S) \in [1..n -> S] /\ IsInjective(SetToSeq(S))
    BY <1>3 DEF SetToSeq
  <1> DEFINE q == SetToSeq(S)
  <1> HIDE DEF q
  <1>5. q \in Seq(S) /\ Len(q) = n /\ DOMAIN q = 1..n
    BY <1>1, <1>4 DEF q
  <1>6. q \in Injection(1..n, S)
    BY <1>4 DEF q, Injection, IsInjective
  <1>7. q \in Surjection(1..n, S)
    <2>1. IsFiniteSet(1..n) /\ Cardinality(1..n) = n
      BY <1>1, FS_Interval
    <2> QED BY <1>6, <2>1, FS_Injection
  <1>8. \A x \in S : \E i \in 1..n : q[i] = x
    BY <1>7 DEF Surjection
  <1>9. \A i, j \in 1..n : q[i] = q[j] => i = j
    BY <1>1, <1>5, <1>6 DEF Injection, IsInjective
  <1> QED BY <1>1, <1>5, <1>8, <1>9 DEF q

-----------------------------------------------------------------------------
(***************************************************************************)
(* Literals, clauses and assignments.                                      *)
(***************************************************************************)
\* Every literal has another one as its negation, and both a variable.
LEMMA Literals ==
    /\ NVars \in Nat /\ Var \subseteq Lit /\ Var \subseteq Nat \ {0}
    /\ \A p \in Lit : p \in Int /\ -p \in Lit /\ -(-p) = p /\ p # -p /\ p # 0
    /\ \A p \in Lit : \E v \in Var : p = v \/ p = -v
    /\ \A v \in Var, w \in Var : v # -w /\ (-v = -w => v = w)
  BY SimpSolverAssumption DEF Var, Lit

\* Literals, clauses and sets of clauses are finite.
LEMMA FiniteFacts ==
    /\ IsFiniteSet(Lit)
    /\ \A c \in Clause : IsFiniteSet(c)
    /\ \A C \in SUBSET Clause : IsFiniteSet(C)
  <1>1. IsFiniteSet((-NVars)..NVars)
    BY Literals, FS_Interval
  <1>2. Lit \in SUBSET ((-NVars)..NVars)
    BY SimpSolverAssumption DEF Lit, Var
  <1>3. IsFiniteSet(Lit)
    BY <1>1, <1>2, FS_Subset
  <1>4. \A c \in Clause : IsFiniteSet(c)
    BY <1>3, FS_Subset DEF Clause
  <1>5. IsFiniteSet(Clause)
    BY <1>3, FS_SUBSET DEF Clause
  <1>6. \A C \in SUBSET Clause : IsFiniteSet(C)
    BY <1>5, FS_Subset
  <1> QED BY <1>3, <1>4, <1>6

\* The variables of a clause.
LEMMA VarsFacts ==
    /\ \A c : Vars(c) \subseteq Var
    /\ \A c, d : c \subseteq d => Vars(c) \subseteq Vars(d)
    /\ \A c \in Clause : c # {} => Vars(c) # {}
    /\ \A c, d \in Clause : Vars(c \cup d) = Vars(c) \cup Vars(d)
    /\ \A p \in Lit : Vars({p}) = Vars({-p}) /\ \A c : p \in c => Vars({p}) \subseteq Vars(c)
  <1>1. \A c : Vars(c) \subseteq Var
    BY DEF Vars
  <1>2. \A c, d : c \subseteq d => Vars(c) \subseteq Vars(d)
    BY DEF Vars
  <1>3. ASSUME NEW c \in Clause, c # {} PROVE Vars(c) # {}
    <2>1. PICK p \in Lit : p \in c
      BY <1>3 DEF Clause
    <2>2. PICK v \in Var : p = v \/ p = -v
      BY Literals
    <2>3. v \in Vars(c)
      BY <2>1, <2>2 DEF Vars
    <2> QED BY <2>3
  <1>4. \A c, d \in Clause : Vars(c \cup d) = Vars(c) \cup Vars(d)
    BY DEF Vars
  <1>5. ASSUME NEW p \in Lit
        PROVE  Vars({p}) = Vars({-p}) /\ \A c : p \in c => Vars({p}) \subseteq Vars(c)
    <2>1. ASSUME NEW v \in Var PROVE v \in {p} \/ -v \in {p} <=> v \in {-p} \/ -v \in {-p}
      <3>1. v \in Lit
        BY Literals
      <3>2. -(-v) = v /\ -(-p) = p
        BY <3>1, Literals
      <3> QED BY <3>2
    <2>2. Vars({p}) = Vars({-p})
      BY <2>1 DEF Vars
    <2> QED BY <1>2, <2>2
  <1> QED BY <1>1, <1>2, <1>3, <1>4, <1>5

\* An assignment has one of every two literals.
LEMMA AssignmentFacts ==
    \A m : m \in Assignments <=> m \subseteq Lit /\ \A p \in Lit : p \in m <=> -p \notin m
  <1>1. ASSUME NEW m \in Assignments
        PROVE  m \subseteq Lit /\ \A p \in Lit : p \in m <=> -p \notin m
    <2>1. PICK f \in [Var -> BOOLEAN] : m = {IF f[v] THEN v ELSE -v : v \in Var}
      BY DEF Assignments
    <2>2. m \subseteq Lit
      BY <2>1, Literals
    <2>3. \A v \in Var : (v \in m <=> f[v]) /\ (-v \in m <=> ~f[v])
      BY <2>1, Literals
    <2>4. ASSUME NEW p \in Lit PROVE p \in m <=> -p \notin m
      <3>1. PICK v \in Var : p = v \/ p = -v
        BY Literals
      <3>2. -(-v) = v
        BY Literals
      <3> QED BY <2>3, <3>1, <3>2
    <2> QED BY <2>2, <2>4
  <1>2. ASSUME NEW m, m \subseteq Lit, \A p \in Lit : p \in m <=> -p \notin m
        PROVE  m \in Assignments
    <2> DEFINE f == [v \in Var |-> v \in m]
               n == {IF f[v] THEN v ELSE -v : v \in Var}
    <2>1. f \in [Var -> BOOLEAN]
      OBVIOUS
    <2>2. \A v \in Var : f[v] <=> v \in m
      OBVIOUS
    <2>3. \A v \in Var : v \in Lit /\ -v \in Lit
      BY Literals
    <2> HIDE DEF f
    <2>4. n \subseteq m
      BY <1>2, <2>2, <2>3
    <2>5. ASSUME NEW p \in m PROVE p \in n
      <3>1. PICK v \in Var : p = v \/ p = -v
        BY <1>2, Literals
      <3>2. CASE p = v
        BY <2>2, <3>2
      <3>3. CASE p = -v
        BY <1>2, <2>2, <2>3, <3>3
      <3> QED BY <3>1, <3>2, <3>3
    <2>6. m = n
      BY <2>4, <2>5
    <2> QED BY <2>1, <2>6 DEF Assignments
  <1> QED BY <1>1, <1>2

\* What the theories allow; the solutions of what is left of the clauses.
Models == {m \in Assignments : Satisfies(m, Theory)}
Meets(m, s) == s.ok /\ s.units \subseteq m /\ Satisfies(m, s.db)

\* A model gives every variable one value.
LEMMA ModelFacts ==
    \A m \in Models : m \in Assignments /\ m \subseteq Lit /\ \A p \in Lit : p \in m <=> -p \notin m
  BY AssignmentFacts DEF Models

-----------------------------------------------------------------------------
(***************************************************************************)
(* Propagation.                                                            *)
(***************************************************************************)
\* Propagated, turn by turn.
LEMMA ClosureTurns ==
    ASSUME NEW U \in SUBSET Lit, NEW db
    PROVE  \E u \in [0..NVars -> SUBSET Lit] :
             /\ u[0] = U /\ Closure(U, db) = u[NVars]
             /\ \A i \in 1..NVars : u[i] = Propagated(u[i - 1], db)
  <1> DEFINE X == SUBSET Lit
             F == [i \in 1..NVars |-> [W \in X |-> Propagated(W, db)]]
             R(u) == u = [i \in 0..NVars |-> IF i = 0 THEN U ELSE Propagated(u[i - 1], db)]
             c == CHOOSE u : R(u)
  <1>1. \A W \in X : Propagated(W, db) \in X
    BY DEF Propagated
  <1>2. F \in [1..NVars -> [X -> X]]
    BY <1>1
  <1>3. \A W \in X, i \in 1..NVars : F[i][W] = Propagated(W, db)
    OBVIOUS
  <1> HIDE DEF F
  <1>4. PICK f \in [0..NVars -> X] : /\ f[0] = U
                                    /\ \A i \in 1..NVars : f[i] = F[i][f[i - 1]]
    <2>1. NVars \in Nat /\ U \in X
      BY Literals
    <2> HIDE DEF X, R, c
    <2> QED BY <1>2, <2>1, Course
  <1>5. ASSUME NEW i \in 0..NVars
        PROVE  f[i] = IF i = 0 THEN U ELSE Propagated(f[i - 1], db)
    <2>1. i # 0 => i \in 1..NVars /\ i - 1 \in 0..NVars
      BY Literals
    <2> QED BY <1>3, <1>4, <2>1
  <1>6. f = [i \in 0..NVars |-> f[i]]
    OBVIOUS
  <1>7. R(f)
    BY <1>5, <1>6
  <1>8. R(c)
    BY <1>7
  <1>9. Closure(U, db) = c[NVars]
    BY DEF Closure
  <1> HIDE DEF c
  <1>10. c[0] = U
    BY <1>8, Literals, 0 \in 0..NVars
  <1>11. \A i \in 1..NVars : c[i] = Propagated(c[i - 1], db)
    BY <1>8, Literals
  <1> DEFINE G == {i \in Nat : i <= NVars => c[i] \in X}
  <1>12. \A i \in Nat : i \in G
    <2>1. 0 \in G
      BY <1>10
    <2>2. ASSUME NEW i \in Nat, i \in G PROVE i + 1 \in G
      <3>1. CASE i + 1 <= NVars
        <4>1. i + 1 \in 1..NVars /\ (i + 1) - 1 = i /\ i <= NVars
          BY <3>1, Literals
        <4>2. c[i + 1] = Propagated(c[i], db)
          BY <1>11, <4>1
        <4> QED BY <1>1, <2>2, <4>1, <4>2
      <3> QED BY <3>1
    <2> HIDE DEF G
    <2> QED BY <2>1, <2>2, NatSet
  <1>13. \A i \in 0..NVars : c[i] \in X
    BY <1>12, Literals
  <1>14. c \in [0..NVars -> X]
    BY <1>8, <1>13
  <1> QED BY <1>9, <1>10, <1>11, <1>14

\* What propagation adds holds in every solution.
LEMMA ClosureFacts ==
    ASSUME NEW U \in SUBSET Lit, NEW db
    PROVE  /\ Closure(U, db) \in SUBSET Lit /\ U \subseteq Closure(U, db)
           /\ \A m \in Assignments : U \subseteq m /\ Satisfies(m, db) => Closure(U, db) \subseteq m
  <1>1. PICK u \in [0..NVars -> SUBSET Lit] :
               /\ u[0] = U /\ Closure(U, db) = u[NVars]
               /\ \A i \in 1..NVars : u[i] = Propagated(u[i - 1], db)
    BY ClosureTurns
  <1> DEFINE Good(W) == /\ U \subseteq W
                        /\ \A m \in Assignments : U \subseteq m /\ Satisfies(m, db) => W \subseteq m
             G == {i \in Nat : i <= NVars => Good(u[i])}
  <1>2. 0 \in G
    BY <1>1
  <1>3. ASSUME NEW i \in Nat, i \in G PROVE i + 1 \in G
    <2> SUFFICES ASSUME i + 1 <= NVars PROVE Good(u[i + 1])
      OBVIOUS
    <2>1. i + 1 \in 1..NVars /\ (i + 1) - 1 = i /\ i <= NVars /\ i \in 0..NVars
      BY Literals
    <2>2. u[i + 1] = Propagated(u[i], db) /\ Good(u[i]) /\ u[i] \subseteq Lit
      BY <1>1, <1>3, <2>1
    <2>3. U \subseteq u[i + 1]
      BY <2>2 DEF Propagated
    <2>4. ASSUME NEW m \in Assignments, U \subseteq m, Satisfies(m, db),
                 NEW p \in u[i + 1]
          PROVE  p \in m
      <3>1. CASE p \in u[i]
        BY <2>2, <2>4, <3>1
      <3>2. CASE p \notin u[i]
        <4>1. PICK c \in db : p \in c /\ \A q \in c \ {p} : -q \in u[i]
          BY <2>2, <3>2 DEF Propagated
        <4>2. PICK r \in c : r \in m
          BY <2>4 DEF Satisfies
        <4>3. r \in Lit
          BY <2>4, <4>2, AssignmentFacts
        <4>4. -r \notin m
          BY <2>4, <4>2, <4>3, AssignmentFacts
        <4>5. -r \notin u[i]
          BY <2>2, <2>4, <4>4
        <4> QED BY <4>1, <4>2, <4>5
      <3> QED BY <3>1, <3>2
    <2> QED BY <2>3, <2>4
  <1> HIDE DEF G
  <1>4. NVars \in G
    BY <1>2, <1>3, Literals, NatSet
  <1> QED BY <1>1, <1>4, Literals DEF G

-----------------------------------------------------------------------------
(***************************************************************************)
(* What the operations on the clauses keep.                                *)
(***************************************************************************)
Cnf == [db : SUBSET Clause, units : SUBSET Lit, checked : SUBSET Lit, queue : SUBSET Clause,
        touched : SUBSET Var, heap : SUBSET Var, eliminated : SUBSET Var, ok : BOOLEAN]

\* No clause is empty, a unit or a tautology, or has an eliminated variable.
Proper(c, V) ==
    /\ c # {} /\ Vars(c) \cap V = {}
    /\ \A p \in c : -p \notin c /\ c # {p}
Tidy(s) ==
    /\ s.queue \subseteq s.db /\ s.checked \subseteq s.units
    /\ \A c \in s.db : Proper(c, s.eliminated)

\* The literals of L are in no clause.
Clean(s, L) == \A c \in s.db, l \in L : l \notin c /\ -l \notin c

\* A clause that is not to be looked at, nor in X, has nothing left to do, or will be
\* looked at because of its variables.
Redundant(c, d) == c \subseteq d \/ Strengthens(c, d) # {}
Looked(s, X) ==
    \A c \in s.db \ (s.queue \cup X) :
        Vars(c) \cap s.touched # {} \/ \A d \in s.db \ {c} : ~Redundant(c, d)

Keeps(t, s) ==
    /\ t \in Cnf /\ Tidy(t)
    /\ t.eliminated = s.eliminated /\ t.checked = s.checked
    /\ s.units \subseteq t.units /\ s.touched \subseteq t.touched
    /\ t.ok => s.ok
    /\ t.ok => \A L : L \subseteq s.units /\ Clean(s, L) => Clean(t, L)
    /\ t.ok /\ use_simplification => \A X : Looked(s, X) => Looked(t, X)

\* t has the solutions of s that satisfy E.
Says(t, s, E) == \A m \in Models : Meets(m, t) <=> Meets(m, s) /\ Satisfies(m, E)

\* What two operations keep, both in a row keep.
LEMMA KeepsTwice ==
    ASSUME NEW s, NEW t, NEW u, Keeps(t, s), Keeps(u, t)
    PROVE  Keeps(u, s)
  <1>1. u.ok => t.ok /\ s.ok
    BY DEF Keeps
  <1>2. ASSUME u.ok, NEW L, L \subseteq s.units, Clean(s, L) PROVE Clean(u, L)
    <2>1. Clean(t, L) /\ L \subseteq t.units
      BY <1>1, <1>2 DEF Keeps
    <2> QED BY <1>2, <2>1 DEF Keeps
  <1>3. ASSUME u.ok, use_simplification, NEW X, Looked(s, X) PROVE Looked(u, X)
    <2>1. Looked(t, X)
      BY <1>1, <1>3 DEF Keeps
    <2> QED BY <1>3, <2>1 DEF Keeps
  <1>4. /\ u \in Cnf /\ Tidy(u)
        /\ u.eliminated = s.eliminated /\ u.checked = s.checked
        /\ s.units \subseteq u.units /\ s.touched \subseteq u.touched
    BY DEF Keeps
  <1> QED BY <1>1, <1>2, <1>3, <1>4 DEF Keeps

\* A clause that subsumes or strengthens another one has no other variables.
LEMMA RedundantFacts ==
    /\ \A c, d, e : Redundant(c, d) /\ d \subseteq e => Redundant(c, e)
    /\ \A c, d \in Clause : Redundant(c, d) => Vars(c) \subseteq Vars(d)
  <1>1. \A c, d, e : Redundant(c, d) /\ d \subseteq e => Redundant(c, e)
    BY DEF Redundant, Strengthens
  <1>2. ASSUME NEW c \in Clause, NEW d \in Clause, Redundant(c, d)
        PROVE  Vars(c) \subseteq Vars(d)
    <2>1. CASE c \subseteq d
      BY <2>1, VarsFacts
    <2>2. CASE Strengthens(c, d) # {}
      <3>1. PICK l \in c : -l \in d /\ c \ {l} \subseteq d
        BY <2>2 DEF Strengthens
      <3>2. l \in Lit
        BY <3>1 DEF Clause
      <3>3. Vars(c \ {l}) \subseteq Vars(d) /\ Vars({l}) \subseteq Vars(d)
        <4>1. Vars({l}) = Vars({-l}) /\ {-l} \subseteq d
          BY <3>1, <3>2, VarsFacts
        <4> QED BY <3>1, <4>1, VarsFacts
      <3>4. Vars(c) = Vars(c \ {l}) \cup Vars({l})
        <4>1. c = (c \ {l}) \cup {l} /\ c \ {l} \in Clause /\ {l} \in Clause
          BY <3>1, <3>2 DEF Clause
        <4> QED BY <4>1, VarsFacts
      <3> QED BY <3>3, <3>4
    <2> QED BY <1>2, <2>1, <2>2 DEF Redundant
  <1> QED BY <1>1, <1>2

\* Clauses may go, and new ones come that are to be looked at and are part of one
\* that goes, or touched.
LEMMA LookedStays ==
    ASSUME NEW s \in Cnf, NEW t \in Cnf, NEW X, Looked(s, X), Tidy(s), Tidy(t),
           s.touched \subseteq t.touched,
           \A c \in t.db \ t.queue : c \in s.db \ s.queue,
           \A d \in t.db : \/ d \in s.db
                          \/ Vars(d) \subseteq t.touched
                          \/ \E e \in s.db \ t.db : d \subseteq e
    PROVE  Looked(t, X)
  <1> SUFFICES ASSUME NEW c \in t.db \ (t.queue \cup X), Vars(c) \cap t.touched = {},
                      NEW d \in t.db \ {c}, Redundant(c, d)
               PROVE  FALSE
    BY DEF Looked
  <1>1. c \in s.db \ (s.queue \cup X) /\ Vars(c) \cap s.touched = {}
    OBVIOUS
  <1>2. \A e \in s.db \ {c} : ~Redundant(c, e)
    BY <1>1 DEF Looked
  <1>3. c \in Clause /\ d \in Clause
    BY DEF Cnf
  <1>4. Vars(c) # {} /\ Vars(c) \subseteq Vars(d)
    BY <1>1, <1>3, VarsFacts, RedundantFacts DEF Tidy, Proper
  <1>5. ~(Vars(d) \subseteq t.touched)
    BY <1>4
  <1>6. CASE d \in s.db
    BY <1>2, <1>6
  <1>7. CASE \E e \in s.db \ t.db : d \subseteq e
    <2>1. PICK e \in s.db \ t.db : d \subseteq e
      BY <1>7
    <2>2. Redundant(c, e) /\ e # c
      BY <2>1, RedundantFacts
    <2> QED BY <1>2, <2>1, <2>2
  <1> QED BY <1>5, <1>6, <1>7

\* With other work for the heap, a record of clauses is what it was.
LEMMA HeapFacts ==
    ASSUME NEW s \in Cnf, NEW V \in SUBSET Var
    PROVE  /\ UpdateElimHeap(s, V) \in Cnf
           /\ UpdateElimHeap(s, V) = [s EXCEPT !.heap = UpdateElimHeap(s, V).heap]
  BY DEF UpdateElimHeap, Cnf

\* Propagation adds what ps and the clauses imply.
LEMMA EnqueueType ==
    ASSUME NEW s \in Cnf, NEW ps \in SUBSET Lit
    PROVE  /\ Enqueue(s, ps) \in Cnf
           /\ Enqueue(s, ps).db = s.db /\ Enqueue(s, ps).queue = s.queue
           /\ Enqueue(s, ps).touched = s.touched /\ Enqueue(s, ps).heap = s.heap
           /\ Enqueue(s, ps).checked = s.checked /\ Enqueue(s, ps).eliminated = s.eliminated
           /\ Enqueue(s, ps).units = Closure(s.units \cup ps, s.db)
           /\ Enqueue(s, ps).ok =
                (\A p \in Closure(s.units \cup ps, s.db) :
                   -p \notin Closure(s.units \cup ps, s.db))
  <1> DEFINE u == Closure(s.units \cup ps, s.db)
             k == \A p \in u : -p \notin u
  <1>1. s.units \cup ps \in SUBSET Lit
    BY DEF Cnf
  <1>2. u \in SUBSET Lit
    BY <1>1, ClosureFacts
  <1>3. k \in BOOLEAN
    OBVIOUS
  <1>4. Enqueue(s, ps) = [s EXCEPT !.units = u, !.ok = k]
    BY DEF Enqueue
  <1> HIDE DEF u, k
  <1>5. /\ Enqueue(s, ps) \in Cnf
        /\ Enqueue(s, ps).db = s.db /\ Enqueue(s, ps).queue = s.queue
        /\ Enqueue(s, ps).touched = s.touched /\ Enqueue(s, ps).heap = s.heap
        /\ Enqueue(s, ps).checked = s.checked /\ Enqueue(s, ps).eliminated = s.eliminated
        /\ Enqueue(s, ps).units = u /\ Enqueue(s, ps).ok = k
    BY <1>2, <1>3, <1>4 DEF Cnf
  <1> QED BY <1>5 DEF u, k

\* Enqueueing adds what the literals imply and no more; a contradiction is found only
\* if there is one.
LEMMA EnqueueFacts ==
    ASSUME NEW s \in Cnf, Tidy(s), s.ok, NEW ps \in SUBSET Lit
    PROVE  /\ Keeps(Enqueue(s, ps), s) /\ ps \subseteq Enqueue(s, ps).units
           /\ \A m \in Models : Meets(m, Enqueue(s, ps)) <=> Meets(m, s) /\ ps \subseteq m
  <1> DEFINE t == Enqueue(s, ps)
             u == Closure(s.units \cup ps, s.db)
  <1>1. s.units \cup ps \in SUBSET Lit
    BY DEF Cnf
  <1>2. /\ u \in SUBSET Lit /\ s.units \cup ps \subseteq u
        /\ \A m \in Assignments : s.units \cup ps \subseteq m /\ Satisfies(m, s.db) => u \subseteq m
    BY <1>1, ClosureFacts
  <1>3. /\ t \in Cnf /\ t.db = s.db /\ t.queue = s.queue /\ t.touched = s.touched
        /\ t.checked = s.checked /\ t.eliminated = s.eliminated /\ t.units = u
        /\ t.ok = (\A p \in u : -p \notin u)
    BY EnqueueType
  <1> HIDE DEF t, u
  <1>4. Tidy(t)
    BY <1>2, <1>3 DEF Tidy
  <1>5. \A L : Clean(s, L) => Clean(t, L)
    BY <1>3 DEF Clean
  <1>6. \A X : Looked(s, X) => Looked(t, X)
    BY <1>3 DEF Looked
  <1>7. Keeps(t, s)
    BY <1>2, <1>3, <1>4, <1>5, <1>6 DEF Keeps
  <1>8. ASSUME NEW m \in Models PROVE Meets(m, t) <=> Meets(m, s) /\ ps \subseteq m
    <2>1. Meets(m, t) => Meets(m, s) /\ ps \subseteq m
      BY <1>2, <1>3 DEF Meets
    <2>2. ASSUME Meets(m, s), ps \subseteq m PROVE Meets(m, t)
      <3>1. u \subseteq m
        BY <1>2, <2>2, ModelFacts DEF Meets
      <3>2. t.ok
        BY <1>2, <1>3, <3>1, ModelFacts
      <3> QED BY <1>3, <2>2, <3>1, <3>2 DEF Meets
    <2> QED BY <2>1, <2>2
  <1>9. ps \subseteq t.units
    BY <1>2, <1>3
  <1> QED BY <1>7, <1>8, <1>9 DEF t

\* Clauses that go.
LEMMA RemoveType ==
    ASSUME NEW s \in Cnf, NEW C \in SUBSET Clause
    PROVE  /\ RemoveClauses(s, C) \in Cnf
           /\ RemoveClauses(s, C).db = s.db \ C /\ RemoveClauses(s, C).queue = s.queue \ C
           /\ RemoveClauses(s, C).units = s.units /\ RemoveClauses(s, C).ok = s.ok
           /\ RemoveClauses(s, C).touched = s.touched
           /\ RemoveClauses(s, C).checked = s.checked
           /\ RemoveClauses(s, C).eliminated = s.eliminated
  <1> DEFINE r == [s EXCEPT !.db = @ \ C, !.queue = @ \ C]
             V == UNION {Vars(c) : c \in C}
             t == UpdateElimHeap(r, V)
  <1>1. r \in Cnf /\ r.db = s.db \ C /\ r.queue = s.queue \ C
        /\ r.units = s.units /\ r.ok = s.ok /\ r.touched = s.touched
        /\ r.checked = s.checked /\ r.eliminated = s.eliminated
    BY DEF Cnf
  <1>2. V \in SUBSET Var
    BY VarsFacts
  <1> HIDE DEF r, V
  <1>3. t \in Cnf /\ t = [r EXCEPT !.heap = t.heap]
    BY <1>1, <1>2, HeapFacts
  <1>4. RemoveClauses(s, C) = t
    BY DEF RemoveClauses, r, V
  <1> HIDE DEF t
  <1> QED BY <1>1, <1>3, <1>4 DEF Cnf

\* Removing clauses leaves the others looked at as they were.
LEMMA RemoveFacts ==
    ASSUME NEW s \in Cnf, Tidy(s), NEW C \in SUBSET Clause
    PROVE  Keeps(RemoveClauses(s, C), s)
  <1> DEFINE t == RemoveClauses(s, C)
  <1>1. /\ t \in Cnf /\ t.db = s.db \ C /\ t.queue = s.queue \ C
        /\ t.units = s.units /\ t.ok = s.ok /\ t.touched = s.touched
        /\ t.checked = s.checked /\ t.eliminated = s.eliminated
    BY RemoveType
  <1> HIDE DEF t
  <1>2. Tidy(t)
    BY <1>1 DEF Tidy
  <1>3. \A L : Clean(s, L) => Clean(t, L)
    BY <1>1 DEF Clean
  <1>4. ASSUME NEW X, Looked(s, X) PROVE Looked(t, X)
    BY <1>1, <1>2, <1>4, LookedStays
  <1>5. Keeps(t, s)
    BY <1>1, <1>2, <1>3, <1>4 DEF Keeps
  <1> QED BY <1>5 DEF t

\* A clause that comes.
LEMMA InsertType ==
    ASSUME NEW s \in Cnf, NEW c \in Clause
    PROVE  /\ Insert(s, c) \in Cnf
           /\ Insert(s, c).db = s.db \cup {c} /\ Insert(s, c).queue = s.queue \cup {c}
           /\ Insert(s, c).units = s.units /\ Insert(s, c).ok = s.ok
           /\ Insert(s, c).touched = s.touched
           /\ Insert(s, c).checked = s.checked /\ Insert(s, c).eliminated = s.eliminated
  <1> DEFINE r == [s EXCEPT !.db = @ \cup {c}, !.queue = @ \cup {c}]
             t == UpdateElimHeap(r, Vars(c))
  <1>1. r \in Cnf /\ r.db = s.db \cup {c} /\ r.queue = s.queue \cup {c}
        /\ r.units = s.units /\ r.ok = s.ok /\ r.touched = s.touched
        /\ r.checked = s.checked /\ r.eliminated = s.eliminated
    BY DEF Cnf
  <1>2. Vars(c) \in SUBSET Var
    BY VarsFacts
  <1>3. Insert(s, c) = r \/ Insert(s, c) = t
    BY DEF Insert
  <1> HIDE DEF r
  <1>4. t \in Cnf /\ t = [r EXCEPT !.heap = t.heap]
    BY <1>1, <1>2, HeapFacts
  <1> HIDE DEF t
  <1> QED BY <1>1, <1>3, <1>4 DEF Cnf

\* The literals of a clause that are not false at level 0 say what it says, and none
\* of its variables is assigned when it has no true literal.
LEMMA RestFacts ==
    ASSUME NEW s \in Cnf, NEW c \in Clause
    PROVE  LET rest == {p \in c : -p \notin s.units}
           IN /\ rest \in Clause /\ Vars(rest) \subseteq Vars(c)
              /\ \A m \in Models : s.units \subseteq m =>
                   (Satisfies(m, {c}) <=> Satisfies(m, {rest}))
              /\ c \cap s.units = {} =>
                   \A l \in s.units : l \notin rest /\ -l \notin rest
              /\ IsFiniteSet(rest) /\ IsFiniteSet(c)
  <1> DEFINE rest == {p \in c : -p \notin s.units}
  <1>1. rest \in Clause /\ rest \subseteq c
    BY DEF Clause
  <1>2. Vars(rest) \subseteq Vars(c)
    BY <1>1, VarsFacts
  <1>3. ASSUME NEW m \in Models, s.units \subseteq m
        PROVE  Satisfies(m, {c}) <=> Satisfies(m, {rest})
    <2>1. \A p \in c : p \in m => p \in rest
      BY <1>3, ModelFacts DEF Clause
    <2> QED BY <1>1, <2>1 DEF Satisfies
  <1>4. ASSUME c \cap s.units = {}, NEW l \in s.units PROVE l \notin rest /\ -l \notin rest
    <2>1. l \in Lit /\ -(-l) = l
      BY Literals DEF Cnf
    <2> QED BY <1>1, <1>4, <2>1
  <1>5. IsFiniteSet(rest) /\ IsFiniteSet(c)
    BY <1>1, FiniteFacts
  <1> QED BY <1>1, <1>2, <1>3, <1>4, <1>5

\* A finite set of one element.
LEMMA Single ==
    \A S : IsFiniteSet(S) => (Cardinality(S) = 1 <=> \E p : S = {p})
  BY FS_Singleton

\* addClause_ keeps the type of the record.
LEMMA AddClauseType ==
    ASSUME NEW s \in Cnf, NEW c \in Clause
    PROVE  AddClause_(s, c) \in Cnf
  <1> DEFINE rest == {p \in c : -p \notin s.units}
  <1>1. rest \in Clause
    BY DEF Clause
  <1>2. \/ AddClause_(s, c) = s
        \/ AddClause_(s, c) = [s EXCEPT !.ok = FALSE]
        \/ AddClause_(s, c) = Enqueue(s, rest)
        \/ AddClause_(s, c) = [Insert(s, rest) EXCEPT !.touched = @ \cup Vars(rest)]
        \/ AddClause_(s, c) = [s EXCEPT !.db = @ \cup {rest}]
    BY DEF AddClause_
  <1> HIDE DEF rest
  <1>3. Enqueue(s, rest) \in Cnf
    BY <1>1, EnqueueType DEF Clause
  <1>4. [Insert(s, rest) EXCEPT !.touched = @ \cup Vars(rest)] \in Cnf
    <2>1. Insert(s, rest) \in Cnf /\ Vars(rest) \subseteq Var
      BY <1>1, InsertType, VarsFacts
    <2> QED BY <2>1 DEF Cnf
  <1>5. [s EXCEPT !.ok = FALSE] \in Cnf
    BY DEF Cnf
  <1>6. [s EXCEPT !.db = @ \cup {rest}] \in Cnf
    BY <1>1 DEF Cnf
  <1> QED BY <1>2, <1>3, <1>4, <1>5, <1>6

\* A contradiction is known.
LEMMA ContraFacts ==
    ASSUME NEW s \in Cnf, Tidy(s)
    PROVE  Keeps([s EXCEPT !.ok = FALSE], s) /\ ~[s EXCEPT !.ok = FALSE].ok
  <1> DEFINE t == [s EXCEPT !.ok = FALSE]
  <1>1. /\ t \in Cnf /\ t.db = s.db /\ t.queue = s.queue /\ t.touched = s.touched
        /\ t.checked = s.checked /\ t.eliminated = s.eliminated /\ t.units = s.units
        /\ ~t.ok
    BY DEF Cnf
  <1> HIDE DEF t
  <1>2. Tidy(t)
    BY <1>1 DEF Tidy
  <1>3. Keeps(t, s)
    BY <1>1, <1>2 DEF Keeps
  <1> QED BY <1>1, <1>3 DEF t

\* A clause with two or more literals comes that says what c does.
LEMMA NewFacts ==
    ASSUME NEW s \in Cnf, Tidy(s), NEW t \in Cnf, NEW rest \in Clause,
           Proper(rest, s.eliminated), \A l \in s.units : l \notin rest /\ -l \notin rest,
           t.db = s.db \cup {rest}, t.units = s.units, t.ok = s.ok,
           t.checked = s.checked, t.eliminated = s.eliminated, s.touched \subseteq t.touched,
           t.queue \in {s.queue, s.queue \cup {rest}},
           use_simplification => rest \in t.queue /\ Vars(rest) \subseteq t.touched
    PROVE  Keeps(t, s) /\ Says(t, s, {rest})
  <1>1. Tidy(t)
    BY DEF Tidy
  <1>2. ASSUME NEW L, L \subseteq s.units, Clean(s, L) PROVE Clean(t, L)
    BY <1>2 DEF Clean
  <1>3. ASSUME use_simplification, NEW X, Looked(s, X) PROVE Looked(t, X)
    <2>1. \A c \in t.db \ t.queue : c \in s.db \ s.queue
      BY <1>3
    <2>2. \A d \in t.db : d \in s.db \/ Vars(d) \subseteq t.touched
      BY <1>3
    <2> QED BY <1>1, <1>3, <2>1, <2>2, LookedStays
  <1>4. Keeps(t, s)
    BY <1>1, <1>2, <1>3 DEF Keeps
  <1>5. Says(t, s, {rest})
    BY DEF Says, Meets, Satisfies
  <1> QED BY <1>4, <1>5

\* A clause is added.
LEMMA AddClauseFacts ==
    ASSUME NEW s \in Cnf, Tidy(s), NEW c \in Clause, Vars(c) \cap s.eliminated = {}
    PROVE  /\ Keeps(AddClause_(s, c), s) /\ Says(AddClause_(s, c), s, {c})
           /\ use_simplification /\ AddClause_(s, c).ok /\ (s.queue = {} \/ s.touched # {}) =>
                AddClause_(s, c).queue = {} \/ AddClause_(s, c).touched # {}
  <1> DEFINE rest == {p \in c : -p \notin s.units}
             t == AddClause_(s, c)
             Q(u) == use_simplification /\ u.ok /\ (s.queue = {} \/ s.touched # {}) =>
                       u.queue = {} \/ u.touched # {}
             Goal(u) == Keeps(u, s) /\ Says(u, s, {c}) /\ Q(u)
  <1>1. /\ rest \in Clause /\ Vars(rest) \subseteq Vars(c)
        /\ \A m \in Models : s.units \subseteq m =>
             (Satisfies(m, {c}) <=> Satisfies(m, {rest}))
        /\ c \cap s.units = {} => \A l \in s.units : l \notin rest /\ -l \notin rest
        /\ IsFiniteSet(rest)
    BY RestFacts
  <1>2. Keeps(s, s)
    BY DEF Keeps
  <1>3. \A p \in c : -p \notin c => -p \notin rest
    OBVIOUS
  <1>4. \A m \in Models : Meets(m, s) =>
          s.ok /\ s.units \subseteq m /\ (Satisfies(m, {c}) <=> Satisfies(m, {rest}))
    BY <1>1 DEF Meets
  <1>5. CASE ~s.ok \/ \E p \in c : p \in s.units \/ -p \in c
    <2>1. t = s
      BY <1>5 DEF AddClause_
    <2>2. \A m \in Models : Meets(m, s) => Satisfies(m, {c})
      <3>1. CASE ~s.ok
        BY <3>1 DEF Meets
      <3>2. CASE \E p \in c : p \in s.units \/ -p \in c
        BY <3>2, ModelFacts DEF Meets, Satisfies, Clause
      <3> QED BY <1>5, <3>1, <3>2
    <2> QED BY <1>2, <2>1, <2>2 DEF Says
  <1>6. CASE ~(~s.ok \/ \E p \in c : p \in s.units \/ -p \in c)
    <2>1. s.ok /\ c \cap s.units = {} /\ \A p \in c : -p \notin c
      BY <1>6
    <2>2. CASE rest = {}
      <3>1. t = [s EXCEPT !.ok = FALSE]
        BY <1>6, <2>2 DEF AddClause_
      <3>2. Keeps(t, s) /\ ~t.ok
        BY <3>1, ContraFacts
      <3>3. ~Satisfies({}, {rest}) /\ \A m : ~Satisfies(m, {rest})
        BY <2>2 DEF Satisfies
      <3>4. Says(t, s, {c})
        BY <1>4, <3>2, <3>3 DEF Says, Meets
      <3> QED BY <3>2, <3>4
    <2>3. CASE rest # {} /\ Cardinality(rest) = 1
      <3>1. t = Enqueue(s, rest)
        BY <1>6, <2>3 DEF AddClause_
      <3>2. PICK p : rest = {p}
        BY <1>1, <2>3, Single
      <3>3. rest \in SUBSET Lit
        BY <1>1 DEF Clause
      <3>4. Keeps(t, s) /\ \A m \in Models : Meets(m, t) <=> Meets(m, s) /\ rest \subseteq m
        BY <2>1, <3>1, <3>3, EnqueueFacts
      <3>5. \A m : rest \subseteq m <=> Satisfies(m, {rest})
        BY <3>2 DEF Satisfies
      <3>6. Says(t, s, {c})
        BY <1>4, <3>4, <3>5 DEF Says
      <3>7. t.queue = s.queue /\ t.touched = s.touched
        BY <3>1, <3>3, EnqueueType
      <3> QED BY <3>4, <3>6, <3>7
    <2>4. CASE rest # {} /\ Cardinality(rest) # 1
      <3>1. \A p : rest # {p}
        BY <1>1, <2>4, Single
      <3>2. Proper(rest, s.eliminated)
        BY <1>1, <2>1, <2>4, <3>1 DEF Proper
      <3>3. Says(t, s, {rest}) => Says(t, s, {c})
        BY <1>4 DEF Says
      <3>4. CASE use_simplification
        <4>1. t = [Insert(s, rest) EXCEPT !.touched = @ \cup Vars(rest)]
          BY <1>6, <2>4, <3>4 DEF AddClause_
        <4>2. /\ Insert(s, rest) \in Cnf
              /\ Insert(s, rest).db = s.db \cup {rest}
              /\ Insert(s, rest).queue = s.queue \cup {rest}
              /\ Insert(s, rest).units = s.units /\ Insert(s, rest).ok = s.ok
              /\ Insert(s, rest).touched = s.touched
              /\ Insert(s, rest).checked = s.checked
              /\ Insert(s, rest).eliminated = s.eliminated
          BY <1>1, InsertType
        <4>3. /\ t.db = s.db \cup {rest} /\ t.queue = s.queue \cup {rest}
              /\ t.units = s.units /\ t.ok = s.ok /\ t.touched = s.touched \cup Vars(rest)
              /\ t.checked = s.checked /\ t.eliminated = s.eliminated /\ t \in Cnf
          <5> HIDE DEF rest
          <5>1. Vars(rest) \subseteq Var
            BY VarsFacts
          <5> QED BY <4>1, <4>2, <5>1 DEF Cnf
        <4> HIDE DEF rest, t
        <4>4. Keeps(t, s) /\ Says(t, s, {rest})
          BY <1>1, <2>1, <3>2, <4>3, NewFacts
        <4>5. Vars(rest) # {}
          BY <1>1, <2>4, VarsFacts
        <4> QED BY <3>3, <4>3, <4>4, <4>5 DEF t
      <3>5. CASE ~use_simplification
        <4>1. t = [s EXCEPT !.db = @ \cup {rest}]
          BY <1>6, <2>4, <3>5 DEF AddClause_
        <4>2. /\ t.db = s.db \cup {rest} /\ t.queue = s.queue
              /\ t.units = s.units /\ t.ok = s.ok /\ t.touched = s.touched
              /\ t.checked = s.checked /\ t.eliminated = s.eliminated /\ t \in Cnf
          <5> HIDE DEF rest
          <5> QED BY <1>1, <4>1 DEF Cnf
        <4> HIDE DEF rest, t
        <4>3. Keeps(t, s) /\ Says(t, s, {rest})
          BY <1>1, <2>1, <3>2, <3>5, <4>2, NewFacts
        <4> QED BY <3>3, <3>5, <4>3 DEF t
      <3> QED BY <3>4, <3>5
    <2> QED BY <2>2, <2>3, <2>4
  <1>7. Goal(t)
    BY <1>5, <1>6
  <1> QED BY <1>7

\* One clause goes.
LEMMA RemoveOne ==
    ASSUME NEW s \in Cnf, NEW d \in Clause
    PROVE  /\ RemoveClause(s, d) \in Cnf
           /\ RemoveClause(s, d).db = s.db \ {d} /\ RemoveClause(s, d).queue = s.queue \ {d}
           /\ RemoveClause(s, d).units = s.units /\ RemoveClause(s, d).ok = s.ok
           /\ Tidy(s) => Keeps(RemoveClause(s, d), s)
  <1> DEFINE C == {d}
  <1>1. C \in SUBSET Clause
    OBVIOUS
  <1>2. RemoveClause(s, d) = RemoveClauses(s, C)
    BY DEF RemoveClause
  <1> HIDE DEF C
  <1>3. /\ RemoveClauses(s, C) \in Cnf
        /\ RemoveClauses(s, C).db = s.db \ C /\ RemoveClauses(s, C).queue = s.queue \ C
        /\ RemoveClauses(s, C).units = s.units /\ RemoveClauses(s, C).ok = s.ok
    BY <1>1, RemoveType
  <1>4. Tidy(s) => Keeps(RemoveClauses(s, C), s)
    BY <1>1, RemoveFacts
  <1> QED BY <1>2, <1>3, <1>4 DEF C

\* With the unit or empty clause they are, the literals ps replace the clause d.
LEMMA UnitFacts ==
    ASSUME NEW s \in Cnf, Tidy(s), s.ok, NEW d \in s.db, NEW ps \in SUBSET Lit,
           NEW p, ps = {p}, p \in d,
           \A m \in Models : Meets(m, s) => p \in m
    PROVE  LET t == Enqueue(RemoveClause(s, d), ps)
           IN /\ Keeps(t, s) /\ Says(t, s, {})
              /\ t.db = s.db \ {d} /\ t.queue = s.queue \ {d}
  <1> DEFINE r == RemoveClause(s, d)
             t == Enqueue(r, ps)
  <1>1. d \in Clause
    BY DEF Cnf
  <1>2. /\ r \in Cnf /\ r.db = s.db \ {d} /\ r.queue = s.queue \ {d}
        /\ r.units = s.units /\ r.ok = s.ok /\ Keeps(r, s)
    BY <1>1, RemoveOne
  <1>3. Keeps(r, s) /\ Tidy(r) /\ r.ok
    BY <1>2 DEF Keeps
  <1> HIDE DEF r
  <1>4. Keeps(t, r) /\ \A m \in Models : Meets(m, t) <=> Meets(m, r) /\ ps \subseteq m
    BY <1>2, <1>3, EnqueueFacts
  <1>5. t.db = s.db \ {d} /\ t.queue = s.queue \ {d}
    BY <1>2, EnqueueType
  <1> HIDE DEF t
  <1>6. Keeps(t, s)
    BY <1>3, <1>4, KeepsTwice
  <1>7. \A m \in Models : Meets(m, r) /\ p \in m <=> Meets(m, s)
    BY <1>2 DEF Meets, Satisfies
  <1>8. Says(t, s, {})
    BY <1>4, <1>7 DEF Says, Satisfies
  <1> QED BY <1>5, <1>6, <1>8 DEF t, r

\* A clause is replaced by a smaller one.
LEMMA ReplaceFacts ==
    ASSUME NEW s \in Cnf, Tidy(s), NEW t \in Cnf, NEW d \in s.db, NEW rest \in Clause,
           Proper(rest, s.eliminated), rest \subseteq d, rest # d,
           \A m \in Models : Meets(m, s) => Satisfies(m, {rest}),
           t.db = (s.db \ {d}) \cup {rest}, t.queue = (s.queue \ {d}) \cup {rest},
           t.units = s.units, t.ok = s.ok, t.touched = s.touched,
           t.checked = s.checked, t.eliminated = s.eliminated
    PROVE  Keeps(t, s) /\ Says(t, s, {})
  <1>1. Tidy(t)
    BY DEF Tidy
  <1>2. ASSUME NEW L, Clean(s, L) PROVE Clean(t, L)
    BY <1>2 DEF Clean
  <1>3. ASSUME NEW X, Looked(s, X) PROVE Looked(t, X)
    <2>1. \A c \in t.db \ t.queue : c \in s.db \ s.queue
      OBVIOUS
    <2>2. \A c \in t.db : c \in s.db \/ \E e \in s.db \ t.db : c \subseteq e
      OBVIOUS
    <2> QED BY <1>1, <1>3, <2>1, <2>2, LookedStays
  <1>4. Keeps(t, s)
    BY <1>1, <1>2, <1>3 DEF Keeps
  <1>5. \A m : Satisfies(m, {rest}) => Satisfies(m, {d})
    BY DEF Satisfies
  <1>6. \A m \in Models : Meets(m, t) <=> Meets(m, s)
    BY <1>5 DEF Meets, Satisfies
  <1> QED BY <1>4, <1>6 DEF Says, Satisfies

\* strengthenClause keeps the type of the record.
LEMMA StrengthenType ==
    ASSUME NEW s \in Cnf, NEW d \in Clause, NEW k
    PROVE  StrengthenClause(s, d, k) \in Cnf
  <1> DEFINE others == d \ {k}
             rest == {p \in others : -p \notin s.units}
             r == RemoveClause(s, d)
             q == [s EXCEPT !.db = @ \ {d}, !.queue = @ \ {d}]
  <1>1. others \in SUBSET Lit /\ rest \in SUBSET Lit /\ rest \in Clause
    BY DEF Clause
  <1>2. r \in Cnf /\ q \in Cnf
    <2>1. r \in Cnf
      BY RemoveOne
    <2> QED BY <2>1 DEF Cnf
  <1>3. \/ StrengthenClause(s, d, k) = Enqueue(r, others)
        \/ StrengthenClause(s, d, k) = r
        \/ StrengthenClause(s, d, k) = [s EXCEPT !.ok = FALSE]
        \/ StrengthenClause(s, d, k) = Enqueue(r, rest)
        \/ StrengthenClause(s, d, k) = UpdateElimHeap(Insert(q, rest), Vars({k}))
    BY DEF StrengthenClause
  <1> HIDE DEF others, rest, r, q
  <1>4. Enqueue(r, others) \in Cnf /\ Enqueue(r, rest) \in Cnf
    BY <1>1, <1>2, EnqueueType
  <1>5. UpdateElimHeap(Insert(q, rest), Vars({k})) \in Cnf
    BY <1>1, <1>2, InsertType, HeapFacts, VarsFacts
  <1>6. [s EXCEPT !.ok = FALSE] \in Cnf
    BY DEF Cnf
  <1> QED BY <1>2, <1>3, <1>4, <1>5, <1>6

\* k is taken out of d, without which d still holds.
LEMMA StrengthenFacts ==
    ASSUME NEW s \in Cnf, Tidy(s), s.ok, NEW d \in s.db, NEW k \in d,
           \A m \in Models : Meets(m, s) => Satisfies(m, {d \ {k}})
    PROVE  LET t == StrengthenClause(s, d, k)
           IN /\ Keeps(t, s) /\ Says(t, s, {})
              /\ t.ok => /\ s.db \ {d} \subseteq t.db
                         /\ \A e \in t.db : e \in s.db \ {d} \/ e \subseteq d \ {k}
  <1> DEFINE others == d \ {k}
             rest == {p \in others : -p \notin s.units}
             r == RemoveClause(s, d)
             t == StrengthenClause(s, d, k)
             Goal == /\ Keeps(t, s) /\ Says(t, s, {})
                     /\ t.ok => /\ s.db \ {d} \subseteq t.db
                                /\ \A e \in t.db : e \in s.db \ {d} \/ e \subseteq d \ {k}
  <1>1. d \in Clause /\ others \in Clause /\ Proper(d, s.eliminated)
    BY DEF Cnf, Clause, Tidy
  <1>2. /\ rest \in Clause /\ Vars(rest) \subseteq Vars(others)
        /\ \A m \in Models : s.units \subseteq m =>
             (Satisfies(m, {others}) <=> Satisfies(m, {rest}))
        /\ others \cap s.units = {} => \A l \in s.units : l \notin rest /\ -l \notin rest
        /\ IsFiniteSet(rest) /\ IsFiniteSet(others)
    BY <1>1, RestFacts
  <1>3. \A m \in Models : Meets(m, s) => Satisfies(m, {others}) /\ Satisfies(m, {rest})
    BY <1>2 DEF Meets
  <1>4. /\ r \in Cnf /\ r.db = s.db \ {d} /\ r.queue = s.queue \ {d}
        /\ r.units = s.units /\ r.ok = s.ok /\ Keeps(r, s)
    BY <1>1, RemoveOne
  <1>6. CASE Cardinality(d) = 2
    <2>1. t = Enqueue(r, others)
      BY <1>6 DEF StrengthenClause
    <2>2. Cardinality(others) = 1
      BY <1>1, <1>6, FiniteFacts, FS_RemoveElement
    <2>3. PICK p : others = {p}
      BY <1>2, <2>2, Single
    <2>4. p \in d /\ others \in SUBSET Lit
      BY <1>1, <2>3 DEF Clause
    <2>5. \A m \in Models : Meets(m, s) => p \in m
      BY <1>3, <2>3 DEF Satisfies
    <2> HIDE DEF others
    <2>6. /\ Keeps(t, s) /\ Says(t, s, {}) /\ t.db = s.db \ {d}
      BY <2>1, <2>3, <2>4, <2>5, UnitFacts
    <2> QED BY <2>6
  <1>7. CASE Cardinality(d) # 2 /\ others \cap s.units # {}
    <2>1. t = r
      BY <1>7 DEF StrengthenClause
    <2>2. PICK p \in others : p \in s.units
      BY <1>7
    <2>3. \A m \in Models : Meets(m, r) <=> Meets(m, s)
      BY <1>4, <2>2 DEF Meets, Satisfies
    <2>4. Says(r, s, {})
      BY <2>3 DEF Says, Satisfies
    <2> HIDE DEF r
    <2> QED BY <1>4, <2>1, <2>4
  <1>8. CASE Cardinality(d) # 2 /\ others \cap s.units = {} /\ rest = {}
    <2>1. t = [s EXCEPT !.ok = FALSE]
      BY <1>8 DEF StrengthenClause
    <2>2. Keeps(t, s) /\ ~t.ok
      BY <2>1, ContraFacts
    <2>3. \A m : ~Satisfies(m, {rest})
      BY <1>8 DEF Satisfies
    <2>4. Says(t, s, {})
      BY <1>3, <2>2, <2>3 DEF Says, Meets
    <2> QED BY <2>2, <2>4
  <1>9. CASE Cardinality(d) # 2 /\ others \cap s.units = {} /\ Cardinality(rest) = 1
    <2>1. PICK p : rest = {p}
      BY <1>2, <1>9, Single
    <2>2. t = Enqueue(r, rest)
      BY <1>9, <2>1 DEF StrengthenClause
    <2>3. p \in d /\ rest \in SUBSET Lit
      BY <1>1, <2>1 DEF Clause
    <2>4. \A m \in Models : Meets(m, s) => p \in m
      BY <1>3, <2>1 DEF Satisfies
    <2> HIDE DEF rest
    <2>5. /\ Keeps(t, s) /\ Says(t, s, {}) /\ t.db = s.db \ {d}
      BY <2>1, <2>2, <2>3, <2>4, UnitFacts
    <2> QED BY <2>5
  <1>10. CASE /\ Cardinality(d) # 2 /\ others \cap s.units = {}
              /\ rest # {} /\ Cardinality(rest) # 1
    <2> DEFINE q == [s EXCEPT !.db = @ \ {d}, !.queue = @ \ {d}]
               i == Insert(q, rest)
    <2>1. t = UpdateElimHeap(i, Vars({k}))
      BY <1>10 DEF StrengthenClause
    <2>2. /\ q \in Cnf /\ q.db = s.db \ {d} /\ q.queue = s.queue \ {d}
          /\ q.units = s.units /\ q.ok = s.ok /\ q.touched = s.touched
          /\ q.checked = s.checked /\ q.eliminated = s.eliminated
      BY DEF Cnf
    <2>3. rest \subseteq others /\ rest \subseteq d /\ rest # d
      OBVIOUS
    <2>4. \A p : rest # {p}
      BY <1>2, <1>10, Single
    <2>5. Proper(rest, s.eliminated)
      <3>1. Vars(rest) \subseteq Vars(d)
        BY <2>3, VarsFacts
      <3> QED BY <1>1, <1>10, <2>3, <2>4, <3>1 DEF Proper
    <2> HIDE DEF q, rest
    <2>6. /\ i \in Cnf /\ i.db = q.db \cup {rest} /\ i.queue = q.queue \cup {rest}
          /\ i.units = q.units /\ i.ok = q.ok /\ i.touched = q.touched
          /\ i.checked = q.checked /\ i.eliminated = q.eliminated
      BY <1>2, <2>2, InsertType
    <2> HIDE DEF i
    <2>7. t \in Cnf /\ t = [i EXCEPT !.heap = t.heap]
      <3>1. Vars({k}) \in SUBSET Var
        BY VarsFacts
      <3> QED BY <2>1, <2>6, <3>1, HeapFacts
    <2> HIDE DEF t
    <2>8. /\ t.db = (s.db \ {d}) \cup {rest} /\ t.queue = (s.queue \ {d}) \cup {rest}
          /\ t.units = s.units /\ t.ok = s.ok /\ t.touched = s.touched
          /\ t.checked = s.checked /\ t.eliminated = s.eliminated
      BY <2>2, <2>6, <2>7 DEF Cnf
    <2>9. Keeps(t, s) /\ Says(t, s, {})
      BY <1>2, <1>3, <2>3, <2>5, <2>7, <2>8, ReplaceFacts
    <2> QED BY <2>3, <2>8, <2>9 DEF t
  <1>11. Goal
    BY <1>6, <1>7, <1>8, <1>9, <1>10
  <1> QED BY <1>11

\* What is done to the clauses, one thing after the other.
LEMMA CnfCourse ==
    ASSUME NEW s \in Cnf, NEW n \in Nat, NEW F \in [1..n -> [Cnf -> Cnf]]
    PROVE  \E f \in [0..n -> Cnf] : f[0] = s /\ \A i \in 1..n : f[i] = F[i][f[i - 1]]
  BY Course

-----------------------------------------------------------------------------
(***************************************************************************)
(* One clause against all others.                                          *)
(***************************************************************************)
LEMMA VisitType ==
    ASSUME NEW c, NEW s \in Cnf, NEW d \in Clause
    PROVE  Visit(c, s, d) \in Cnf
  <1> DEFINE k == -(CHOOSE l \in Strengthens(c, d) : TRUE)
  <1>1. \/ Visit(c, s, d) = s
        \/ Visit(c, s, d) = RemoveClause(s, d)
        \/ Visit(c, s, d) = StrengthenClause(s, d, k)
    BY DEF Visit
  <1>2. RemoveClause(s, d) \in Cnf
    BY RemoveOne
  <1>3. StrengthenClause(s, d, k) \in Cnf
    BY StrengthenType
  <1> HIDE DEF k
  <1> QED BY <1>1, <1>2, <1>3

\* What c may be: a clause, or an assigned literal.
Visitor(c, s) ==
    /\ c \in Clause /\ \A p \in c : -p \notin c
    /\ c \in s.db \/ \E l \in s.units : c = {l}

\* What a visit of c does to d: it loses no solution, and leaves nothing c could take from d.
LEMMA VisitFacts ==
    ASSUME NEW s \in Cnf, Tidy(s), NEW c, Visitor(c, s),
           NEW d, s.ok => d \in s.db, d # c
    PROVE  LET t == Visit(c, s, d)
           IN /\ Keeps(t, s) /\ Says(t, s, {})
              /\ t.ok => /\ s.db \ {d} \subseteq t.db
                         /\ \A e \in t.db : e \in s.db \ {d} \/ ~Redundant(c, e)
  <1> DEFINE t == Visit(c, s, d)
             Goal == /\ Keeps(t, s) /\ Says(t, s, {})
                     /\ t.ok => /\ s.db \ {d} \subseteq t.db
                                /\ \A e \in t.db : e \in s.db \ {d} \/ ~Redundant(c, e)
  <1>1. Keeps(s, s) /\ Says(s, s, {})
    BY DEF Keeps, Says, Satisfies
  <1>2. CASE ~s.ok
    <2>1. t = s
      BY <1>2 DEF Visit
    <2> QED BY <1>1, <1>2, <2>1
  <1>3. CASE s.ok
    <2>1. d \in s.db /\ d \in Clause /\ \A p \in d : -p \notin d
      BY <1>3 DEF Cnf, Tidy, Proper
    <2>2. \A m \in Models : Meets(m, s) => \E q \in c : q \in m
      BY DEF Visitor, Meets, Satisfies
    <2>3. CASE c \subseteq d
      <3>1. t = RemoveClause(s, d)
        BY <1>3, <2>3 DEF Visit
      <3> DEFINE r == RemoveClause(s, d)
      <3>2. /\ r \in Cnf /\ r.db = s.db \ {d} /\ r.units = s.units /\ r.ok = s.ok
            /\ Keeps(r, s)
        BY <2>1, RemoveOne
      <3> HIDE DEF r
      <3>3. \A m \in Models : Meets(m, r) => \E q \in c : q \in m
        BY <3>2 DEF Visitor, Meets, Satisfies
      <3>4. \A m \in Models : Meets(m, r) <=> Meets(m, s)
        BY <2>2, <2>3, <3>2, <3>3 DEF Meets, Satisfies
      <3>5. Says(r, s, {})
        BY <3>4 DEF Says, Satisfies
      <3> QED BY <3>1, <3>2, <3>5 DEF r
    <2>4. CASE ~(c \subseteq d) /\ Strengthens(c, d) # {}
      <3> DEFINE x == CHOOSE l \in Strengthens(c, d) : TRUE
      <3>1. t = StrengthenClause(s, d, -x)
        BY <1>3, <2>4 DEF Visit
      <3>2. x \in c /\ -x \in d /\ c \ {x} \subseteq d
        BY <2>4 DEF Strengthens
      <3> HIDE DEF x
      <3>3. x \in Lit /\ -x \in Lit /\ -(-x) = x
        BY <3>2, Literals DEF Visitor, Clause
      <3>4. ASSUME NEW m \in Models, Meets(m, s) PROVE Satisfies(m, {d \ {-x}})
        <4>1. PICK p \in d : p \in m
          BY <2>1, <3>4 DEF Meets, Satisfies
        <4>2. CASE p # -x
          BY <4>1, <4>2 DEF Satisfies
        <4>3. CASE p = -x
          <5>1. x \notin m
            BY <3>3, <4>1, <4>3, ModelFacts
          <5>2. PICK q \in c : q \in m
            BY <2>2, <3>4
          <5>3. q # -x
            BY <3>2, <5>2 DEF Visitor
          <5> QED BY <3>2, <5>1, <5>2, <5>3 DEF Satisfies
        <4> QED BY <4>2, <4>3
      <3> DEFINE r == StrengthenClause(s, d, -x)
      <3>5. /\ Keeps(r, s) /\ Says(r, s, {})
            /\ r.ok => /\ s.db \ {d} \subseteq r.db
                       /\ \A e \in r.db : e \in s.db \ {d} \/ e \subseteq d \ {-x}
        BY <1>3, <2>1, <3>2, <3>4, StrengthenFacts
      <3>6. ASSUME NEW e, e \subseteq d \ {-x} PROVE ~Redundant(c, e)
        <4>1. x \notin d
          BY <2>1, <3>2, <3>3
        <4> QED BY <3>2, <3>6, <4>1 DEF Redundant, Strengthens
      <3> HIDE DEF r
      <3> QED BY <3>1, <3>5, <3>6 DEF r
    <2>5. CASE ~(c \subseteq d) /\ Strengthens(c, d) = {}
      <3>1. t = s
        BY <1>3, <2>5 DEF Visit
      <3>2. ~Redundant(c, d)
        BY <2>5 DEF Redundant
      <3> QED BY <1>1, <3>1, <3>2
    <2> QED BY <2>3, <2>4, <2>5
  <1>4. Goal
    BY <1>2, <1>3
  <1> QED BY <1>4

\* VisitAll, visit by visit.
LEMMA VisitTurns ==
    ASSUME NEW c \in Clause, NEW s \in Cnf, NEW D \in SUBSET Clause
    PROVE  LET ds == SetToSeq(D)
           IN \E t \in [0..Len(ds) -> Cnf] :
                /\ t[0] = s /\ VisitAll(c, s, D) = t[Len(ds)]
                /\ \A i \in 1..Len(ds) : t[i] = Visit(c, t[i - 1], ds[i])
  <1> DEFINE ds == SetToSeq(D)
             n == Len(ds)
             F == [i \in 1..n |-> [x \in Cnf |-> Visit(c, x, ds[i])]]
             R(t) == t = [i \in 0..n |-> IF i = 0 THEN s ELSE Visit(c, t[i - 1], ds[i])]
             h == CHOOSE t : R(t)
  <1>1. ds \in Seq(Clause) /\ n \in Nat
    <2>1. IsFiniteSet(D)
      BY FiniteFacts
    <2> QED BY <2>1, SetAsSeq
  <1> HIDE DEF ds
  <1>2. \A i \in 1..n : ds[i] \in Clause
    BY <1>1
  <1> HIDE DEF n
  <1>3. F \in [1..n -> [Cnf -> Cnf]]
    BY <1>2, VisitType
  <1>4. \A i \in 1..n, x \in Cnf : F[i][x] = Visit(c, x, ds[i])
    OBVIOUS
  <1> HIDE DEF F
  <1>5. PICK f \in [0..n -> Cnf] : f[0] = s /\ \A i \in 1..n : f[i] = F[i][f[i - 1]]
    <2> HIDE DEF R, h
    <2> QED BY <1>1, <1>3, CnfCourse
  <1>6. ASSUME NEW i \in 0..n
        PROVE  f[i] = IF i = 0 THEN s ELSE Visit(c, f[i - 1], ds[i])
    <2>1. i # 0 => i \in 1..n /\ i - 1 \in 0..n
      BY <1>1
    <2> QED BY <1>4, <1>5, <2>1
  <1>7. R(f)
    BY <1>6, f = [i \in 0..n |-> f[i]]
  <1>8. R(h)
    BY <1>7
  <1>9. VisitAll(c, s, D) = h[n]
    BY DEF VisitAll, ds, n
  <1> HIDE DEF h
  <1>10. h[0] = s
    BY <1>1, <1>8, 0 \in 0..n
  <1>11. ASSUME NEW i \in 1..n PROVE h[i] = Visit(c, h[i - 1], ds[i])
    BY <1>1, <1>8
  <1> DEFINE G == {i \in Nat : i <= n => h[i] \in Cnf}
  <1>12. \A i \in Nat : i \in G
    <2>1. 0 \in G
      BY <1>10
    <2>2. ASSUME NEW i \in Nat, i \in G PROVE i + 1 \in G
      <3>1. CASE i + 1 <= n
        <4>1. i + 1 \in 1..n /\ (i + 1) - 1 = i /\ i <= n
          BY <1>1, <3>1
        <4>2. h[i + 1] = Visit(c, h[i], ds[i + 1])
          BY <1>11, <4>1
        <4> QED BY <1>2, <2>2, <4>1, <4>2, VisitType
      <3> QED BY <3>1
    <2> HIDE DEF G, R
    <2> QED BY <2>1, <2>2, NatSet
  <1>13. \A i \in 0..n : h[i] \in Cnf
    BY <1>1, <1>12
  <1>14. h \in [0..n -> Cnf]
    BY <1>8, <1>13
  <1> QED BY <1>9, <1>10, <1>11, <1>14 DEF n, ds

\* When c has visited all other clauses, none of them is redundant for it.
LEMMA VisitAllFacts ==
    ASSUME NEW s \in Cnf, Tidy(s), NEW c, Visitor(c, s)
    PROVE  LET t == VisitAll(c, s, s.db \ {c})
           IN /\ Keeps(t, s) /\ Says(t, s, {})
              /\ t.ok => \A e \in t.db \ {c} : ~Redundant(c, e)
  <1> DEFINE D == s.db \ {c}
             ds == SetToSeq(D)
             n == Len(ds)
  <1>1. D \in SUBSET Clause /\ IsFiniteSet(D)
    BY FiniteFacts DEF Cnf
  <1>2. /\ ds \in Seq(D) /\ n \in Nat
        /\ \A x \in D : \E i \in 1..n : ds[i] = x
        /\ \A i, j \in 1..n : ds[i] = ds[j] => i = j
    <2> HIDE DEF D
    <2> QED BY <1>1, SetAsSeq
  <1>3. PICK t \in [0..n -> Cnf] :
               /\ t[0] = s /\ VisitAll(c, s, D) = t[n]
               /\ \A i \in 1..n : t[i] = Visit(c, t[i - 1], ds[i])
    <2>1. c \in Clause
      BY DEF Visitor
    <2> HIDE DEF D
    <2> QED BY <1>1, <2>1, VisitTurns, Zenon
  <1> HIDE DEF ds
  <1>4. \A i \in 1..n : ds[i] \in s.db /\ ds[i] # c
    BY <1>2
  <1> HIDE DEF n
  <1> DEFINE Good(i) ==
               /\ Keeps(t[i], s) /\ Says(t[i], s, {})
               /\ t[i].ok => /\ c \in s.db => c \in t[i].db
                             /\ \A j \in (i + 1)..n : ds[j] \in t[i].db
                             /\ \A e \in t[i].db :
                                  \/ e = c \/ ~Redundant(c, e)
                                  \/ \E j \in (i + 1)..n : e = ds[j]
             G == {i \in Nat : i <= n => Good(i)}
  <1>5. 0 \in G
    <2>1. Keeps(s, s) /\ Says(s, s, {})
      BY DEF Keeps, Says, Satisfies
    <2>2. \A j \in (0 + 1)..n : ds[j] \in s.db
      BY <1>2, <1>4
    <2>3. \A e \in s.db : e = c \/ \E j \in (0 + 1)..n : e = ds[j]
      BY <1>2 DEF D
    <2>4. t[0] = s
      BY <1>3
    <2>5. Good(0)
      BY <2>1, <2>2, <2>3, <2>4
    <2> QED BY <2>5
  <1>6. ASSUME NEW i \in Nat, i \in G PROVE i + 1 \in G
    <2> SUFFICES ASSUME i + 1 <= n PROVE Good(i + 1)
      OBVIOUS
    <2>1. /\ i + 1 \in 1..n /\ (i + 1) - 1 = i /\ i <= n /\ i \in 0..n /\ i + 1 \in 0..n
          /\ i + 1 \in (i + 1)..n
          /\ \A j \in ((i + 1) + 1)..n : j \in (i + 1)..n /\ j \in 1..n /\ j # i + 1
          /\ \A j \in (i + 1)..n : j # i + 1 => j \in ((i + 1) + 1)..n
      BY <1>2
    <2>2. Good(i)
      BY <1>6, <2>1
    <2> DEFINE x == t[i]
               y == t[i + 1]
               d == ds[i + 1]
    <2>3. x \in Cnf /\ y = Visit(c, x, d) /\ Tidy(x)
      BY <1>3, <2>1, <2>2 DEF Keeps
    <2>4. (x.ok => d \in x.db) /\ d # c
      BY <1>4, <2>1, <2>2
    <2>5. CASE x.ok
      <3>1. Visitor(c, x)
        BY <2>2, <2>5 DEF Visitor, Keeps
      <3>2. /\ Keeps(y, x) /\ Says(y, x, {})
            /\ y.ok => /\ x.db \ {d} \subseteq y.db
                       /\ \A e \in y.db : e \in x.db \ {d} \/ ~Redundant(c, e)
        BY <2>3, <2>4, <3>1, VisitFacts
      <3>3. Keeps(y, s)
        BY <2>2, <3>2, KeepsTwice
      <3>4. Says(y, s, {})
        BY <2>2, <3>2 DEF Says, Satisfies
      <3>5. ASSUME y.ok
            PROVE  /\ c \in s.db => c \in y.db
                   /\ \A j \in ((i + 1) + 1)..n : ds[j] \in y.db
                   /\ \A e \in y.db :
                        \/ e = c \/ ~Redundant(c, e)
                        \/ \E j \in ((i + 1) + 1)..n : e = ds[j]
        <4>1. c \in s.db => c \in y.db
          BY <2>2, <2>4, <2>5, <3>2, <3>5
        <4>2. ASSUME NEW j \in ((i + 1) + 1)..n PROVE ds[j] \in y.db
          <5>1. ds[j] \in x.db /\ ds[j] # d
            BY <1>2, <2>1, <2>2, <2>5
          <5> QED BY <3>2, <3>5, <5>1
        <4>3. ASSUME NEW e \in y.db, e # c, Redundant(c, e)
              PROVE  \E j \in ((i + 1) + 1)..n : e = ds[j]
          <5>1. e \in x.db /\ e # d
            BY <3>2, <3>5, <4>3
          <5>2. PICK j \in (i + 1)..n : e = ds[j]
            BY <2>2, <2>5, <4>3, <5>1
          <5> QED BY <2>1, <5>1, <5>2
        <4> QED BY <4>1, <4>2, <4>3
      <3> QED BY <3>3, <3>4, <3>5
    <2>6. CASE ~x.ok
      <3>1. y = x
        BY <2>3, <2>6 DEF Visit
      <3> QED BY <2>2, <2>6, <3>1
    <2> QED BY <2>5, <2>6
  <1> HIDE DEF G
  <1>7. n \in G
    BY <1>2, <1>5, <1>6, NatSet
  <1>8. Good(n)
    BY <1>2, <1>7 DEF G
  <1>9. \A j \in (n + 1)..n : FALSE
    BY <1>2
  <1> QED BY <1>3, <1>8, <1>9

-----------------------------------------------------------------------------
(***************************************************************************)
(* Clauses, one after the other.                                           *)
(***************************************************************************)
LEMMA AddTurns ==
    ASSUME NEW s \in Cnf, NEW C \in SUBSET Clause
    PROVE  LET cs == SetToSeq(C)
           IN \E t \in [0..Len(cs) -> Cnf] :
                /\ t[0] = s /\ AddClauses(s, C) = t[Len(cs)]
                /\ \A i \in 1..Len(cs) : t[i] = AddClause_(t[i - 1], cs[i])
  <1> DEFINE cs == SetToSeq(C)
             n == Len(cs)
             F == [i \in 1..n |-> [x \in Cnf |-> AddClause_(x, cs[i])]]
             R(t) == t = [i \in 0..n |-> IF i = 0 THEN s ELSE AddClause_(t[i - 1], cs[i])]
             h == CHOOSE t : R(t)
  <1>1. cs \in Seq(Clause) /\ n \in Nat
    <2>1. IsFiniteSet(C)
      BY FiniteFacts
    <2> QED BY <2>1, SetAsSeq
  <1> HIDE DEF cs
  <1>2. \A i \in 1..n : cs[i] \in Clause
    BY <1>1
  <1> HIDE DEF n
  <1>3. F \in [1..n -> [Cnf -> Cnf]]
    BY <1>2, AddClauseType
  <1>4. \A i \in 1..n, x \in Cnf : F[i][x] = AddClause_(x, cs[i])
    OBVIOUS
  <1> HIDE DEF F
  <1>5. PICK f \in [0..n -> Cnf] : f[0] = s /\ \A i \in 1..n : f[i] = F[i][f[i - 1]]
    <2> HIDE DEF R, h
    <2> QED BY <1>1, <1>3, CnfCourse
  <1>6. ASSUME NEW i \in 0..n
        PROVE  f[i] = IF i = 0 THEN s ELSE AddClause_(f[i - 1], cs[i])
    <2>1. i # 0 => i \in 1..n /\ i - 1 \in 0..n
      BY <1>1
    <2> QED BY <1>4, <1>5, <2>1
  <1>7. R(f)
    BY <1>6, f = [i \in 0..n |-> f[i]]
  <1>8. R(h)
    BY <1>7
  <1>9. AddClauses(s, C) = h[n]
    BY DEF AddClauses, cs, n
  <1> HIDE DEF h
  <1>10. h[0] = s
    BY <1>1, <1>8, 0 \in 0..n
  <1>11. ASSUME NEW i \in 1..n PROVE h[i] = AddClause_(h[i - 1], cs[i])
    BY <1>1, <1>8
  <1> DEFINE G == {i \in Nat : i <= n => h[i] \in Cnf}
  <1>12. \A i \in Nat : i \in G
    <2>1. 0 \in G
      BY <1>10
    <2>2. ASSUME NEW i \in Nat, i \in G PROVE i + 1 \in G
      <3>1. CASE i + 1 <= n
        <4>1. i + 1 \in 1..n /\ (i + 1) - 1 = i /\ i <= n
          BY <1>1, <3>1
        <4>2. h[i + 1] = AddClause_(h[i], cs[i + 1])
          BY <1>11, <4>1
        <4> QED BY <1>2, <2>2, <4>1, <4>2, AddClauseType
      <3> QED BY <3>1
    <2> HIDE DEF G, R
    <2> QED BY <2>1, <2>2, NatSet
  <1>13. \A i \in 0..n : h[i] \in Cnf
    BY <1>1, <1>12
  <1>14. h \in [0..n -> Cnf]
    BY <1>8, <1>13
  <1> QED BY <1>9, <1>10, <1>11, <1>14 DEF n, cs

\* Together they say what each of them says.
LEMMA AddAllFacts ==
    ASSUME NEW s \in Cnf, Tidy(s), NEW C \in SUBSET Clause,
           \A c \in C : Vars(c) \cap s.eliminated = {}
    PROVE  LET t == AddClauses(s, C)
           IN Keeps(t, s) /\ Says(t, s, C)
  <1> DEFINE cs == SetToSeq(C)
             n == Len(cs)
  <1>1. IsFiniteSet(C)
    BY FiniteFacts
  <1>2. /\ cs \in Seq(C) /\ n \in Nat
        /\ \A x \in C : \E i \in 1..n : cs[i] = x
    BY <1>1, SetAsSeq
  <1>3. PICK t \in [0..n -> Cnf] :
               /\ t[0] = s /\ AddClauses(s, C) = t[n]
               /\ \A i \in 1..n : t[i] = AddClause_(t[i - 1], cs[i])
    BY AddTurns
  <1> HIDE DEF cs
  <1>4. \A i \in 1..n : cs[i] \in C
    BY <1>2
  <1> HIDE DEF n
  <1> DEFINE Good(i) == /\ Keeps(t[i], s)
                        /\ \A m \in Models : Meets(m, t[i]) <=>
                             Meets(m, s) /\ \A j \in 1..i : Satisfies(m, {cs[j]})
             G == {i \in Nat : i <= n => Good(i)}
  <1>5. 0 \in G
    <2>1. Keeps(s, s)
      BY DEF Keeps
    <2>2. t[0] = s
      BY <1>3
    <2>3. Good(0)
      BY <2>1, <2>2
    <2> QED BY <2>3
  <1>6. ASSUME NEW i \in Nat, i \in G PROVE i + 1 \in G
    <2> SUFFICES ASSUME i + 1 <= n PROVE Good(i + 1)
      <3> HIDE DEF Good
      <3> QED OBVIOUS
    <2>1. i + 1 \in 1..n /\ (i + 1) - 1 = i /\ i <= n /\ i \in 0..n
      BY <1>2
    <2>2. Good(i)
      BY <1>6, <2>1
    <2> DEFINE x == t[i]
               y == t[i + 1]
               c == cs[i + 1]
    <2>3. x \in Cnf /\ y = AddClause_(x, c) /\ Tidy(x) /\ x.eliminated = s.eliminated
      BY <1>3, <2>1, <2>2 DEF Keeps
    <2>4. c \in C
      BY <1>4, <2>1
    <2>5. c \in Clause /\ Vars(c) \cap x.eliminated = {}
      BY <2>3, <2>4
    <2> HIDE DEF c
    <2>6. Keeps(y, x) /\ Says(y, x, {c})
      BY <2>3, <2>5, AddClauseFacts
    <2>7. Keeps(y, s)
      BY <2>2, <2>6, KeepsTwice
    <2>8. ASSUME NEW m \in Models
          PROVE  Meets(m, y) <=> Meets(m, s) /\ \A j \in 1..(i + 1) : Satisfies(m, {cs[j]})
      <3>1. Meets(m, y) <=> Meets(m, x) /\ Satisfies(m, {cs[i + 1]})
        BY <2>6 DEF Says, c
      <3>2. \A j : j \in 1..(i + 1) <=> j \in 1..i \/ j = i + 1
        OBVIOUS
      <3> QED BY <2>2, <3>1, <3>2
    <2> QED BY <2>7, <2>8
  <1> HIDE DEF G
  <1>7. n \in G
    BY <1>2, <1>5, <1>6, NatSet
  <1>8. Good(n)
    BY <1>2, <1>7 DEF G
  <1>9. \A m : (\A j \in 1..n : Satisfies(m, {cs[j]})) <=> Satisfies(m, C)
    BY <1>2, <1>4 DEF Satisfies
  <1>10. Says(t[n], s, C)
    BY <1>8, <1>9 DEF Says
  <1> QED BY <1>3, <1>8, <1>10

-----------------------------------------------------------------------------
(***************************************************************************)
(* Models extended to eliminated variables.                                *)
(***************************************************************************)
Entry == [lit : Lit, rest : Clause]

\* n and m agree on the variables that are not in V.
Same(n, m, V) == \A v \in Var \ V : v \in n <=> v \in m

\* Then they satisfy the same clauses without variables in V.
LEMMA SameFacts ==
    ASSUME NEW m \in Assignments, NEW n \in Assignments, NEW V \in SUBSET Var, Same(n, m, V)
    PROVE  \A c \in Clause : Vars(c) \cap V = {} =>
             (Satisfies(m, {c}) <=> Satisfies(n, {c})) /\ (c \subseteq m <=> c \subseteq n)
  <1>1. ASSUME NEW p \in Lit, Vars({p}) \cap V = {} PROVE p \in n <=> p \in m
    <2>1. PICK v \in Var : p = v \/ p = -v
      BY Literals
    <2>2. v \in Lit /\ -(-v) = v
      BY <2>1, Literals
    <2>3. v \in Vars({p})
      BY <2>1, <2>2 DEF Vars
    <2>4. v \in n <=> v \in m
      BY <1>1, <2>1, <2>3 DEF Same
    <2> QED BY <2>1, <2>2, <2>4, AssignmentFacts
  <1>2. ASSUME NEW c \in Clause, Vars(c) \cap V = {}
        PROVE  (Satisfies(m, {c}) <=> Satisfies(n, {c})) /\ (c \subseteq m <=> c \subseteq n)
    <2>1. ASSUME NEW p \in c PROVE p \in n <=> p \in m
      <3>1. p \in Lit /\ Vars({p}) \subseteq Vars(c)
        BY VarsFacts DEF Clause
      <3> QED BY <1>1, <1>2, <3>1
    <2> QED BY <2>1 DEF Satisfies
  <1> QED BY <1>2

\* One stored literal changes one variable.
LEMMA ExtendedFacts ==
    ASSUME NEW m \in Assignments, NEW e \in Entry
    PROVE  /\ Extended(m, e) \in Assignments
           /\ \A p \in Lit : p # e.lit /\ p # -e.lit => (p \in Extended(m, e) <=> p \in m)
           /\ m \cap e.rest = {} => e.lit \in Extended(m, e)
           /\ m \cap e.rest # {} => Extended(m, e) = m
  <1> DEFINE n == Extended(m, e)
             x == e.lit
  <1>1. x \in Lit /\ -x \in Lit /\ -(-x) = x /\ x # -x
    BY Literals DEF Entry
  <1>2. m \cap e.rest # {} => n = m
    BY DEF Extended
  <1>3. m \cap e.rest = {} => n = (m \ {-x}) \cup {x}
    BY DEF Extended
  <1> HIDE DEF n, x
  <1>4. CASE m \cap e.rest = {}
    <2>1. n \subseteq Lit
      BY <1>1, <1>3, <1>4, AssignmentFacts
    <2>2. ASSUME NEW p \in Lit PROVE p \in n <=> -p \notin n
      <3>1. -p \in Lit /\ -(-p) = p
        BY Literals
      <3>2. CASE p = x
        BY <1>1, <1>3, <1>4, <3>2
      <3>3. CASE p = -x
        BY <1>1, <1>3, <1>4, <3>3
      <3>4. CASE p # x /\ p # -x
        <4>1. -p # x /\ -p # -x
          BY <1>1, <3>1, <3>4
        <4> QED BY <1>3, <1>4, <3>4, <4>1, AssignmentFacts
      <3> QED BY <3>2, <3>3, <3>4
    <2>3. n \in Assignments
      BY <2>1, <2>2, AssignmentFacts
    <2> QED BY <1>3, <1>4, <2>3 DEF n, x
  <1>5. CASE m \cap e.rest # {}
    BY <1>2, <1>5 DEF n
  <1> QED BY <1>4, <1>5

\* What is done to an assignment, one thing after the other.
LEMMA ModelCourse ==
    ASSUME NEW m \in Assignments, NEW n \in Nat,
           NEW F \in [1..n -> [Assignments -> Assignments]]
    PROVE  \E f \in [0..n -> Assignments] :
             f[0] = m /\ \A i \in 1..n : f[i] = F[i][f[i - 1]]
  BY Course

\* The extension, entry by entry.
LEMMA ExtendTurns ==
    ASSUME NEW m \in Assignments, NEW s \in Seq(Entry)
    PROVE  \E n \in [0..Len(s) -> Assignments] :
             /\ n[0] = m /\ ExtendedBy(m, s) = n[Len(s)]
             /\ \A i \in 1..Len(s) : n[i] = Extended(n[i - 1], s[Len(s) + 1 - i])
  <1> DEFINE k == Len(s)
             A == Assignments
             F == [i \in 1..k |-> [x \in A |-> Extended(x, s[k + 1 - i])]]
             R(n) == n = [i \in 0..k |-> IF i = 0 THEN m ELSE Extended(n[i - 1], s[k + 1 - i])]
             h == CHOOSE n : R(n)
  <1>1. k \in Nat
    OBVIOUS
  <1>2. \A i \in 1..k : k + 1 - i \in 1..k /\ s[k + 1 - i] \in Entry
    OBVIOUS
  <1>3. ExtendedBy(m, s) = h[k]
    BY DEF ExtendedBy
  <1> HIDE DEF k, A
  <1>4. \A x \in A, i \in 1..k : Extended(x, s[k + 1 - i]) \in A
    BY <1>2, ExtendedFacts DEF A
  <1>5. F \in [1..k -> [A -> A]]
    BY <1>4
  <1>6. \A i \in 1..k, x \in A : F[i][x] = Extended(x, s[k + 1 - i])
    OBVIOUS
  <1> HIDE DEF F
  <1>7. PICK f \in [0..k -> A] : f[0] = m /\ \A i \in 1..k : f[i] = F[i][f[i - 1]]
    <2> HIDE DEF R, h
    <2> QED BY <1>1, <1>5, ModelCourse DEF A
  <1>8. ASSUME NEW i \in 0..k
        PROVE  f[i] = IF i = 0 THEN m ELSE Extended(f[i - 1], s[k + 1 - i])
    <2>1. i # 0 => i \in 1..k /\ i - 1 \in 0..k
      BY <1>1
    <2> QED BY <1>6, <1>7, <2>1
  <1>9. R(f)
    BY <1>8, f = [i \in 0..k |-> f[i]]
  <1>10. R(h)
    BY <1>9
  <1> HIDE DEF h
  <1>11. h[0] = m
    BY <1>1, <1>10, 0 \in 0..k
  <1>12. ASSUME NEW i \in 1..k PROVE h[i] = Extended(h[i - 1], s[k + 1 - i])
    BY <1>1, <1>10
  <1> DEFINE G == {i \in Nat : i <= k => h[i] \in A}
  <1>13. \A i \in Nat : i \in G
    <2>1. 0 \in G
      BY <1>11 DEF A
    <2>2. ASSUME NEW i \in Nat, i \in G PROVE i + 1 \in G
      <3>1. CASE i + 1 <= k
        <4>1. i + 1 \in 1..k /\ (i + 1) - 1 = i /\ i <= k
          BY <1>1, <3>1
        <4>2. h[i + 1] = Extended(h[i], s[k + 1 - (i + 1)])
          BY <1>12, <4>1
        <4> QED BY <1>4, <2>2, <4>1, <4>2
      <3> QED BY <3>1
    <2> HIDE DEF G, R
    <2> QED BY <2>1, <2>2, NatSet
  <1>14. \A i \in 0..k : h[i] \in A
    BY <1>1, <1>13
  <1>15. h \in [0..k -> A]
    BY <1>10, <1>14
  <1> QED BY <1>3, <1>11, <1>12, <1>15 DEF A, k

\* The last entries come first.
LEMMA ExtendConcat ==
    ASSUME NEW m \in Assignments, NEW s \in Seq(Entry), NEW t \in Seq(Entry)
    PROVE  /\ ExtendedBy(m, t) \in Assignments
           /\ ExtendedBy(m, s \o t) = ExtendedBy(ExtendedBy(m, t), s)
  <1> DEFINE a == Len(s)
             b == Len(t)
             st == s \o t
  <1>1. PICK g \in [0..b -> Assignments] :
               /\ g[0] = m /\ ExtendedBy(m, t) = g[b]
               /\ \A i \in 1..b : g[i] = Extended(g[i - 1], t[b + 1 - i])
    BY ExtendTurns
  <1>2. a \in Nat /\ b \in Nat /\ st \in Seq(Entry) /\ Len(st) = a + b
    OBVIOUS
  <1>3. g[b] \in Assignments
    BY <1>1, <1>2
  <1>4. PICK h \in [0..a -> Assignments] :
               /\ h[0] = g[b] /\ ExtendedBy(g[b], s) = h[a]
               /\ \A i \in 1..a : h[i] = Extended(h[i - 1], s[a + 1 - i])
    BY <1>3, ExtendTurns
  <1>5. PICK n \in [0..Len(st) -> Assignments] :
               /\ n[0] = m /\ ExtendedBy(m, st) = n[Len(st)]
               /\ \A i \in 1..Len(st) : n[i] = Extended(n[i - 1], st[Len(st) + 1 - i])
    <2> HIDE DEF st
    <2> QED BY <1>2, ExtendTurns
  <1>6. \A i \in 1..b : i \in 1..Len(st) /\ st[Len(st) + 1 - i] = t[b + 1 - i]
    BY <1>2
  <1>7. \A i \in 1..a : b + i \in 1..Len(st) /\ st[Len(st) + 1 - (b + i)] = s[a + 1 - i]
    BY <1>2
  <1> DEFINE G == {i \in Nat : i <= b => n[i] = g[i]}
             H == {i \in Nat : i <= a => n[b + i] = h[i]}
  <1> HIDE DEF a, b, st
  <1>8. \A i \in Nat : i \in G
    <2>1. 0 \in G
      BY <1>1, <1>5
    <2>2. ASSUME NEW i \in Nat, i \in G PROVE i + 1 \in G
      <3>1. CASE i + 1 <= b
        <4>1. i + 1 \in 1..b /\ (i + 1) - 1 = i /\ i <= b
          BY <1>2, <3>1
        <4>2. n[i + 1] = Extended(n[i], t[b + 1 - (i + 1)])
          BY <1>5, <1>6, <4>1
        <4>3. g[i + 1] = Extended(g[i], t[b + 1 - (i + 1)])
          BY <1>1, <4>1
        <4> QED BY <2>2, <4>1, <4>2, <4>3
      <3> QED BY <3>1
    <2> HIDE DEF G
    <2> QED BY <2>1, <2>2, NatSet
  <1>9. n[b] = g[b]
    BY <1>2, <1>8
  <1>10. \A i \in Nat : i \in H
    <2>1. 0 \in H
      BY <1>2, <1>4, <1>9
    <2>2. ASSUME NEW i \in Nat, i \in H PROVE i + 1 \in H
      <3>1. CASE i + 1 <= a
        <4>1. i + 1 \in 1..a /\ (i + 1) - 1 = i /\ i <= a /\ (b + (i + 1)) - 1 = b + i
          BY <1>2, <3>1
        <4>2. n[b + (i + 1)] = Extended(n[b + i], s[a + 1 - (i + 1)])
          BY <1>5, <1>7, <4>1
        <4>3. h[i + 1] = Extended(h[i], s[a + 1 - (i + 1)])
          BY <1>4, <4>1
        <4> QED BY <2>2, <4>1, <4>2, <4>3
      <3> QED BY <3>1
    <2> HIDE DEF H
    <2> QED BY <2>1, <2>2, NatSet
  <1>11. n[b + a] = h[a]
    BY <1>2, <1>10
  <1> QED BY <1>1, <1>2, <1>3, <1>4, <1>5, <1>11 DEF st

\* The clauses with x make it true exactly when one of them has no other true literal.
LEMMA BlockFacts ==
    ASSUME NEW m \in Assignments, NEW x \in Lit, NEW cs \in SUBSET Clause,
           \A c \in cs : -x \notin c
    PROVE  LET block == [i \in 1..Cardinality(cs) |->
                           [lit |-> x, rest |-> SetToSeq(cs)[i] \ {x}]]
                        \o <<[lit |-> -x, rest |-> {}]>>
               n == ExtendedBy(m, block)
           IN /\ block \in Seq(Entry) /\ n \in Assignments
              /\ \A p \in Lit : p # x /\ p # -x => (p \in n <=> p \in m)
              /\ x \in n <=> \E c \in cs : m \cap (c \ {x}) = {}
  <1> DEFINE q == SetToSeq(cs)
             k == Cardinality(cs)
             b == [i \in 1..k |-> [lit |-> x, rest |-> q[i] \ {x}]]
             e == [lit |-> -x, rest |-> {}]
  <1>1. /\ q \in Seq(cs) /\ Len(q) = k /\ k \in Nat
        /\ \A c \in cs : \E i \in 1..k : q[i] = c
    BY FiniteFacts, SetAsSeq
  <1>2. x \in Lit /\ -x \in Lit /\ -(-x) = x /\ x # -x
    BY Literals
  <1>3. \A i \in 1..k : q[i] \in cs /\ q[i] \in Clause
    BY <1>1
  <1>4. e \in Entry /\ e.rest = {} /\ e.lit = -x
    BY <1>2 DEF Entry, Clause
  <1> HIDE DEF q, k, e
  <1>5. \A i \in 1..k : [lit |-> x, rest |-> q[i] \ {x}] \in Entry
    BY <1>3 DEF Entry, Clause
  <1>6. b \in Seq(Entry) /\ Len(b) = k
    BY <1>1, <1>5
  <1>7. \A i \in 1..k : b[i].lit = x /\ b[i].rest = q[i] \ {x} /\ b[i] \in Entry
    BY <1>5
  <1> HIDE DEF b
  <1>8. <<e>> \in Seq(Entry) /\ Len(<<e>>) = 1 /\ <<e>>[1] = e
    BY <1>4
  <1> DEFINE m0 == ExtendedBy(m, <<e>>)
  <1>9. m0 = Extended(m, e)
    <2>1. PICK g \in [0..1 -> Assignments] :
                 /\ g[0] = m /\ m0 = g[1]
                 /\ \A i \in 1..1 : g[i] = Extended(g[i - 1], <<e>>[1 + 1 - i])
      <3> DEFINE w == <<e>>
      <3>1. w \in Seq(Entry) /\ Len(w) = 1
        BY <1>8
      <3> HIDE DEF w
      <3>2. PICK g \in [0..Len(w) -> Assignments] :
                   /\ g[0] = m /\ ExtendedBy(m, w) = g[Len(w)]
                   /\ \A i \in 1..Len(w) : g[i] = Extended(g[i - 1], w[Len(w) + 1 - i])
        BY <3>1, ExtendTurns
      <3> QED BY <3>1, <3>2 DEF w
    <2>2. m0 = Extended(g[1 - 1], <<e>>[1 + 1 - 1])
      BY <2>1
    <2> QED BY <1>8, <2>1, <2>2
  <1>10. /\ m0 \in Assignments /\ -x \in m0
         /\ \A p \in Lit : p # x /\ p # -x => (p \in m0 <=> p \in m)
    BY <1>2, <1>4, <1>9, ExtendedFacts
  <1>11. x \notin m0
    BY <1>10, AssignmentFacts
  <1> HIDE DEF m0
  <1>12. PICK n \in [0..k -> Assignments] :
                /\ n[0] = m0 /\ ExtendedBy(m0, b) = n[k]
                /\ \A i \in 1..k : n[i] = Extended(n[i - 1], b[k + 1 - i])
    BY <1>6, <1>10, ExtendTurns
  <1> DEFINE Hit(i) == \E j \in (k + 1 - i)..k : m \cap (q[j] \ {x}) = {}
             Good(i) == /\ \A p \in Lit : p # x /\ p # -x => (p \in n[i] <=> p \in m)
                        /\ x \in n[i] <=> Hit(i)
             G == {i \in Nat : i <= k => Good(i)}
  <1>13. 0 \in G
    <2>1. ~Hit(0)
      BY <1>1
    <2> HIDE DEF Hit
    <2>2. Good(0)
      BY <1>10, <1>11, <1>12, <2>1
    <2> QED BY <2>2
  <1>14. ASSUME NEW i \in Nat, i \in G PROVE i + 1 \in G
    <2> SUFFICES ASSUME i + 1 <= k PROVE Good(i + 1)
      <3> HIDE DEF Good
      <3> QED OBVIOUS
    <2> DEFINE j == k + 1 - (i + 1)
               y == n[i]
               z == n[i + 1]
    <2>1. /\ i + 1 \in 1..k /\ (i + 1) - 1 = i /\ i <= k /\ i \in 0..k /\ j \in 1..k
          /\ \A l : l \in (k + 1 - (i + 1))..k <=> l = j \/ l \in (k + 1 - i)..k
      BY <1>1
    <2>2. Good(i) /\ y \in Assignments
      BY <1>12, <1>14, <2>1
    <2>3. z = Extended(y, b[j])
      BY <1>12, <2>1
    <2>4. Hit(i + 1) <=> m \cap (q[j] \ {x}) = {} \/ Hit(i)
      BY <2>1
    <2>5. b[j].lit = x /\ b[j].rest = q[j] \ {x} /\ b[j] \in Entry /\ q[j] \in cs
          /\ q[j] \in Clause
      BY <1>3, <1>7, <2>1
    <2> HIDE DEF Hit, j, y, z
    <2>6. y \cap (q[j] \ {x}) = m \cap (q[j] \ {x})
      <3>1. \A p \in q[j] \ {x} : p \in Lit /\ p # x /\ p # -x
        BY <2>5 DEF Clause
      <3> QED BY <2>2, <3>1 DEF y
    <2>7. \A p \in Lit : p # x /\ p # -x => (p \in z <=> p \in y)
      BY <2>2, <2>3, <2>5, ExtendedFacts
    <2>8. m \cap (q[j] \ {x}) = {} => x \in z
      BY <2>2, <2>3, <2>5, <2>6, ExtendedFacts
    <2>9. m \cap (q[j] \ {x}) # {} => z = y
      BY <2>2, <2>3, <2>5, <2>6, ExtendedFacts
    <2>10. x \in y => x \in z
      BY <2>8, <2>9
    <2>11. x \in z <=> Hit(i + 1)
      BY <2>2, <2>4, <2>8, <2>9, <2>10 DEF y
    <2> QED BY <2>2, <2>7, <2>11 DEF y, z
  <1> HIDE DEF G
  <1>15. k \in G
    BY <1>1, <1>13, <1>14, NatSet
  <1>16. Good(k)
    BY <1>1, <1>15 DEF G
  <1>17. Hit(k) <=> \E c \in cs : m \cap (c \ {x}) = {}
    <2>1. \A l : l \in (k + 1 - k)..k <=> l \in 1..k
      BY <1>1
    <2> QED BY <1>1, <1>3, <2>1
  <1>18. ExtendedBy(m, b \o <<e>>) = n[k] /\ n[k] \in Assignments
    <2> DEFINE w == <<e>>
    <2>1. w \in Seq(Entry)
      BY <1>8
    <2> HIDE DEF w
    <2>2. ExtendedBy(m, b \o w) = ExtendedBy(ExtendedBy(m, w), b)
      BY <1>6, <2>1, ExtendConcat
    <2> QED BY <1>1, <1>12, <2>2 DEF m0, w
  <1>19. b \o <<e>> \in Seq(Entry)
    BY <1>6, <1>8
  <1> HIDE DEF Hit
  <1>20. /\ b \o <<e>> \in Seq(Entry) /\ n[k] \in Assignments
         /\ \A p \in Lit : p # x /\ p # -x => (p \in n[k] <=> p \in m)
         /\ x \in n[k] <=> \E c \in cs : m \cap (c \ {x}) = {}
    BY <1>16, <1>17, <1>18, <1>19
  <1>21. b \o <<e>> = [i \in 1..Cardinality(cs) |->
                         [lit |-> x, rest |-> SetToSeq(cs)[i] \ {x}]]
                      \o <<[lit |-> -x, rest |-> {}]>>
    BY DEF b, e, k, q
  <1> QED BY <1>18, <1>20, <1>21

-----------------------------------------------------------------------------
(***************************************************************************)
(* The elimination of a variable.                                          *)
(***************************************************************************)
Pos(h, v) == {c \in h.db : v \in c}
Neg(h, v) == {c \in h.db : -v \in c}
Resolvents(h, v) ==
    {Resolvent(pn[1], pn[2], v) :
       pn \in {qn \in Pos(h, v) \X Neg(h, v) : ~Clash(qn[1], qn[2], v)}}

\* The resolvents are those of the pairs that do not clash.
LEMMA ResolventFacts ==
    ASSUME NEW h \in Cnf, NEW v \in Var
    PROVE  /\ \A p \in Pos(h, v), q \in Neg(h, v) :
                ~Clash(p, q, v) => Resolvent(p, q, v) \in Resolvents(h, v)
           /\ \A e \in Resolvents(h, v) : \E p \in Pos(h, v), q \in Neg(h, v) :
                e = Resolvent(p, q, v) /\ ~Clash(p, q, v)
  <1> DEFINE pairs == {qn \in Pos(h, v) \X Neg(h, v) : ~Clash(qn[1], qn[2], v)}
  <1>1. ASSUME NEW p \in Pos(h, v), NEW q \in Neg(h, v), ~Clash(p, q, v)
        PROVE  Resolvent(p, q, v) \in Resolvents(h, v)
    <2>1. <<p, q>> \in pairs /\ <<p, q>>[1] = p /\ <<p, q>>[2] = q
      BY <1>1
    <2> HIDE DEF pairs
    <2> QED BY <2>1 DEF Resolvents, pairs
  <1>2. ASSUME NEW e \in Resolvents(h, v)
        PROVE  \E p \in Pos(h, v), q \in Neg(h, v) :
                 e = Resolvent(p, q, v) /\ ~Clash(p, q, v)
    <2>1. PICK pn \in pairs : e = Resolvent(pn[1], pn[2], v)
      BY DEF Resolvents
    <2>2. pn[1] \in Pos(h, v) /\ pn[2] \in Neg(h, v) /\ ~Clash(pn[1], pn[2], v)
      OBVIOUS
    <2> QED BY <2>1, <2>2
  <1> QED BY <1>1, <1>2

\* There is an assignment.
LEMMA AssignmentExists == \E m : m \in Assignments
  <1>1. Var \in SUBSET Lit /\ \A p \in Lit : p \in Var <=> -p \notin Var
    BY SimpSolverAssumption DEF Var, Lit
  <1> QED BY <1>1, AssignmentFacts

\* What is stored says which value the variable gets: that of the literal x of one
\* side, when a clause of that side has no other true literal.
LEMMA StoredFacts ==
    ASSUME NEW m \in Assignments, NEW v \in Var, NEW pos \in SUBSET Clause,
           NEW neg \in SUBSET Clause, \A c \in pos : -v \notin c, \A c \in neg : v \notin c
    PROVE  LET s == Stored(pos, neg, v)
               n == ExtendedBy(m, s)
           IN /\ s \in Seq(Entry) /\ n \in Assignments
              /\ \A p \in Lit : p # v /\ p # -v => (p \in n <=> p \in m)
              /\ \/ v \in n <=> \E c \in pos : m \cap (c \ {v}) = {}
                 \/ -v \in n <=> \E c \in neg : m \cap (c \ {-v}) = {}
  <1> DEFINE B(x, cs) == [i \in 1..Cardinality(cs) |->
                            [lit |-> x, rest |-> SetToSeq(cs)[i] \ {x}]]
                         \o <<[lit |-> -x, rest |-> {}]>>
             Good(x, cs) == LET n == ExtendedBy(m, B(x, cs))
                            IN /\ B(x, cs) \in Seq(Entry) /\ n \in Assignments
                               /\ \A p \in Lit : p # x /\ p # -x => (p \in n <=> p \in m)
                               /\ x \in n <=> \E c \in cs : m \cap (c \ {x}) = {}
  <1>1. v \in Lit /\ -v \in Lit /\ -(-v) = v
    BY Literals
  <1>2. Good(v, pos)
    BY <1>1, BlockFacts
  <1>3. Good(-v, neg)
    <2>1. \A c \in neg : -(-v) \notin c
      BY <1>1
    <2> QED BY <1>1, <2>1, BlockFacts
  <1>4. Stored(pos, neg, v) = B(v, pos) \/ Stored(pos, neg, v) = B(-v, neg)
    BY DEF Stored
  <1> HIDE DEF B
  <1>5. CASE Stored(pos, neg, v) = B(v, pos)
    BY <1>2, <1>5
  <1>6. CASE Stored(pos, neg, v) = B(-v, neg)
    BY <1>1, <1>3, <1>6
  <1> QED BY <1>4, <1>5, <1>6

\* Of a variable and its negation, a clause has one at most.
LEMMA SidesFacts ==
    ASSUME NEW h \in Cnf, Tidy(h), NEW v \in Var
    PROVE  /\ Pos(h, v) \in SUBSET Clause /\ Neg(h, v) \in SUBSET Clause
           /\ \A c \in Pos(h, v) : c \in h.db /\ v \in c /\ -v \notin c
           /\ \A c \in Neg(h, v) : c \in h.db /\ -v \in c /\ v \notin c
           /\ \A c \in h.db \ (Pos(h, v) \cup Neg(h, v)) : v \notin c /\ -v \notin c
           /\ v \in Lit /\ -v \in Lit /\ -(-v) = v
  <1>1. v \in Lit /\ -v \in Lit /\ -(-v) = v
    BY Literals
  <1>2. \A c \in h.db : c \in Clause /\ ~(v \in c /\ -v \in c)
    BY DEF Cnf, Tidy, Proper
  <1> QED BY <1>1, <1>2 DEF Pos, Neg

\* Every solution satisfies the resolvents.
LEMMA ResolventsHold ==
    ASSUME NEW h \in Cnf, Tidy(h), NEW v \in Var, NEW m \in Models, Satisfies(m, h.db)
    PROVE  Satisfies(m, Resolvents(h, v))
  <1> SUFFICES ASSUME NEW e \in Resolvents(h, v) PROVE \E l \in e : l \in m
    BY DEF Satisfies
  <1>1. PICK p \in Pos(h, v), q \in Neg(h, v) : e = Resolvent(p, q, v)
    BY ResolventFacts
  <1>2. /\ p \in h.db /\ -v \notin p /\ q \in h.db /\ v \notin q
        /\ v \in Lit /\ -v \in Lit /\ -(-v) = v
    BY <1>1, SidesFacts
  <1>3. PICK a \in p, b \in q : a \in m /\ b \in m
    BY <1>2 DEF Satisfies
  <1>4. v \notin m \/ -v \notin m
    BY <1>2, ModelFacts
  <1>5. CASE a # v
    BY <1>1, <1>2, <1>3, <1>5 DEF Resolvent
  <1>6. CASE b # -v
    BY <1>1, <1>2, <1>3, <1>6 DEF Resolvent
  <1> QED BY <1>3, <1>4, <1>5, <1>6

\* A solution of the resolvents, and of the clauses without the variable, can be
\* extended to one of all clauses.
LEMMA ResolventsSuffice ==
    ASSUME NEW h \in Cnf, Tidy(h), NEW v \in Var, NEW m \in Assignments,
           Satisfies(m, h.db \ (Pos(h, v) \cup Neg(h, v))), Satisfies(m, Resolvents(h, v))
    PROVE  LET n == ExtendedBy(m, Stored(Pos(h, v), Neg(h, v), v))
           IN n \in Assignments /\ Same(n, m, {v}) /\ Satisfies(n, h.db)
  <1> DEFINE n == ExtendedBy(m, Stored(Pos(h, v), Neg(h, v), v))
  <1>1. /\ Pos(h, v) \in SUBSET Clause /\ Neg(h, v) \in SUBSET Clause
        /\ \A c \in Pos(h, v) : c \in h.db /\ v \in c /\ -v \notin c
        /\ \A c \in Neg(h, v) : c \in h.db /\ -v \in c /\ v \notin c
        /\ \A c \in h.db \ (Pos(h, v) \cup Neg(h, v)) : v \notin c /\ -v \notin c
        /\ v \in Lit /\ -v \in Lit /\ -(-v) = v
    BY SidesFacts
  <1>2. /\ n \in Assignments
        /\ \A p \in Lit : p # v /\ p # -v => (p \in n <=> p \in m)
        /\ \/ v \in n <=> \E c \in Pos(h, v) : m \cap (c \ {v}) = {}
           \/ -v \in n <=> \E c \in Neg(h, v) : m \cap (c \ {-v}) = {}
    BY <1>1, StoredFacts
  <1> HIDE DEF n
  <1>3. Same(n, m, {v})
    <2>1. \A w \in Var \ {v} : w \in Lit /\ w # v /\ w # -v
      BY Literals
    <2> QED BY <1>2, <2>1 DEF Same
  <1>4. v \in n <=> -v \notin n
    BY <1>1, <1>2, AssignmentFacts
  <1>5. ASSUME NEW c \in Pos(h, v), NEW d \in Neg(h, v),
               m \cap (c \ {v}) = {}, m \cap (d \ {-v}) = {}
        PROVE  FALSE
    <2>1. ~Clash(c, d, v)
      <3> SUFFICES ASSUME NEW l \in c, -l \in d, l \notin {v, -v} PROVE FALSE
        BY DEF Clash
      <3>1. l \in Lit /\ -l # -v
        BY <1>1, Literals DEF Clause
      <3>2. l \in m \/ -l \in m
        BY <3>1, AssignmentFacts
      <3> QED BY <1>5, <3>1, <3>2
    <2>2. Resolvent(c, d, v) \in Resolvents(h, v)
      BY <2>1, ResolventFacts
    <2>3. PICK l \in Resolvent(c, d, v) : l \in m
      BY <2>2 DEF Satisfies
    <2> QED BY <1>5, <2>3 DEF Resolvent
  <1>6. ASSUME NEW c \in h.db PROVE \E p \in c : p \in n
    <2>1. c \in Clause
      BY DEF Cnf
    <2>2. \A p \in c : p # v /\ p # -v => (p \in n <=> p \in m)
      BY <1>2, <2>1 DEF Clause
    <2>3. CASE c \notin Pos(h, v) \cup Neg(h, v)
      <3>1. PICK p \in c : p \in m
        BY <2>3 DEF Satisfies
      <3> QED BY <1>1, <2>2, <2>3, <3>1
    <2>4. CASE c \in Pos(h, v)
      <3>1. v \in c /\ -v \notin c
        BY <1>1, <2>4
      <3>2. CASE m \cap (c \ {v}) = {}
        <4>1. ~\E d \in Neg(h, v) : m \cap (d \ {-v}) = {}
          BY <1>5, <2>4, <3>2
        <4>2. v \in n
          BY <1>2, <1>4, <2>4, <3>2, <4>1
        <4> QED BY <3>1, <4>2
      <3>3. CASE m \cap (c \ {v}) # {}
        BY <2>2, <3>1, <3>3
      <3> QED BY <3>2, <3>3
    <2>5. CASE c \in Neg(h, v)
      <3>1. -v \in c /\ v \notin c
        BY <1>1, <2>5
      <3>2. CASE m \cap (c \ {-v}) = {}
        <4>1. ~\E d \in Pos(h, v) : m \cap (d \ {v}) = {}
          BY <1>5, <2>5, <3>2
        <4>2. -v \in n
          BY <1>2, <1>4, <2>5, <3>2, <4>1
        <4> QED BY <3>1, <4>2
      <3>3. CASE m \cap (c \ {-v}) # {}
        BY <2>2, <3>1, <3>3
      <3> QED BY <3>2, <3>3
    <2> QED BY <2>3, <2>4, <2>5
  <1>7. Satisfies(n, h.db)
    BY <1>6 DEF Satisfies
  <1> QED BY <1>2, <1>3, <1>7 DEF n

\* The clauses of a variable go, and their resolvents come.
Gone(h, v) == RemoveClauses([h EXCEPT !.eliminated = @ \cup {v}], Pos(h, v) \cup Neg(h, v))
Eliminated(h, v) == AddClauses(Gone(h, v), Resolvents(h, v))

\* The clauses of v are gone, and nothing else has changed.
LEMMA GoneFacts ==
    ASSUME NEW h \in Cnf, Tidy(h), NEW v \in Var
    PROVE  LET r == Gone(h, v)
           IN /\ r \in Cnf /\ Tidy(r) /\ r.db = h.db \ (Pos(h, v) \cup Neg(h, v))
              /\ r.units = h.units /\ r.ok = h.ok /\ r.touched = h.touched
              /\ r.checked = h.checked /\ r.eliminated = h.eliminated \cup {v}
              /\ \A L : Clean(h, L) => Clean(r, L)
              /\ \A X : Looked(h, X) => Looked(r, X)
  <1> DEFINE g == [h EXCEPT !.eliminated = @ \cup {v}]
             C == Pos(h, v) \cup Neg(h, v)
             r == Gone(h, v)
  <1>1. /\ Pos(h, v) \in SUBSET Clause /\ Neg(h, v) \in SUBSET Clause
        /\ \A c \in h.db \ C : v \notin c /\ -v \notin c
    BY SidesFacts
  <1>2. /\ g \in Cnf /\ g.db = h.db /\ g.queue = h.queue /\ g.units = h.units /\ g.ok = h.ok
        /\ g.touched = h.touched /\ g.checked = h.checked
        /\ g.eliminated = h.eliminated \cup {v}
    BY DEF Cnf
  <1>3. C \in SUBSET Clause
    BY <1>1
  <1>4. r = RemoveClauses(g, C)
    BY DEF Gone
  <1> HIDE DEF g, C, r
  <1>5. /\ r \in Cnf /\ r.db = h.db \ C /\ r.queue = h.queue \ C
        /\ r.units = h.units /\ r.ok = h.ok /\ r.touched = h.touched
        /\ r.checked = h.checked /\ r.eliminated = h.eliminated \cup {v}
    BY <1>2, <1>3, <1>4, RemoveType
  <1>6. ASSUME NEW c \in h.db \ C PROVE Vars(c) \cap {v} = {}
    BY <1>1, <1>6 DEF Vars
  <1>7. Tidy(r)
    BY <1>5, <1>6 DEF Tidy, Proper
  <1>8. \A L : Clean(h, L) => Clean(r, L)
    BY <1>5 DEF Clean
  <1>9. ASSUME NEW X, Looked(h, X) PROVE Looked(r, X)
    BY <1>5, <1>7, <1>9, LookedStays
  <1> QED BY <1>5, <1>7, <1>8, <1>9 DEF r, C

\* Eliminating v keeps every solution, and each one left gives one of before by way of
\* what was stored.
LEMMA EliminateFacts ==
    ASSUME NEW h \in Cnf, Tidy(h), h.ok, NEW v \in Var, v \notin h.units, -v \notin h.units,
           v \notin TheoryVars
    PROVE  LET t == Eliminated(h, v)
               s == Stored(Pos(h, v), Neg(h, v), v)
           IN /\ t \in Cnf /\ Tidy(t) /\ t.checked = h.checked
              /\ t.eliminated = h.eliminated \cup {v} /\ h.units \subseteq t.units
              /\ t.ok => \A L : L \subseteq h.units /\ Clean(h, L) => Clean(t, L)
              /\ t.ok /\ use_simplification => \A X : Looked(h, X) => Looked(t, X)
              /\ \A m \in Models : Meets(m, h) => Meets(m, t)
              /\ s \in Seq(Entry)
              /\ \A m \in Models : Meets(m, t) =>
                   /\ ExtendedBy(m, s) \in Models /\ Meets(ExtendedBy(m, s), h)
                   /\ Same(ExtendedBy(m, s), m, {v})
  <1> DEFINE r == Gone(h, v)
             t == Eliminated(h, v)
             s == Stored(Pos(h, v), Neg(h, v), v)
             R == Resolvents(h, v)
             C == Pos(h, v) \cup Neg(h, v)
  <1>1. /\ r \in Cnf /\ Tidy(r) /\ r.db = h.db \ C
        /\ r.units = h.units /\ r.ok = h.ok /\ r.touched = h.touched
        /\ r.checked = h.checked /\ r.eliminated = h.eliminated \cup {v}
        /\ \A L : Clean(h, L) => Clean(r, L)
        /\ \A X : Looked(h, X) => Looked(r, X)
    BY GoneFacts
  <1>2. /\ Pos(h, v) \in SUBSET Clause /\ Neg(h, v) \in SUBSET Clause
        /\ \A c \in Pos(h, v) : c \in h.db /\ v \in c /\ -v \notin c
        /\ \A c \in Neg(h, v) : c \in h.db /\ -v \in c /\ v \notin c
        /\ v \in Lit /\ -v \in Lit /\ -(-v) = v
    BY SidesFacts
  <1>3. ASSUME NEW e \in R
        PROVE  e \in Clause /\ Vars(e) \cap r.eliminated = {}
    <2>1. PICK p \in Pos(h, v), q \in Neg(h, v) : e = Resolvent(p, q, v)
      BY ResolventFacts
    <2>2. p \in Clause /\ q \in Clause /\ Vars(p) \cap h.eliminated = {}
          /\ Vars(q) \cap h.eliminated = {}
      BY <1>2, <2>1 DEF Tidy, Proper
    <2>3. e \in Clause
      BY <2>1, <2>2 DEF Resolvent, Clause
    <2>4. Vars(e) \subseteq Vars(p) \cup Vars(q) /\ v \notin Vars(e)
      BY <2>1 DEF Resolvent, Vars
    <2> QED BY <1>1, <2>2, <2>3, <2>4
  <1>4. R \in SUBSET Clause /\ t = AddClauses(r, R)
    BY <1>3 DEF Eliminated
  <1>5. s \in Seq(Entry)
    <2>1. PICK m \in Assignments : TRUE
      BY AssignmentExists
    <2> DEFINE pos == Pos(h, v)
               neg == Neg(h, v)
    <2>2. /\ pos \in SUBSET Clause /\ neg \in SUBSET Clause
          /\ (\A c \in pos : -v \notin c) /\ (\A c \in neg : v \notin c)
      BY <1>2
    <2> HIDE DEF pos, neg
    <2>3. Stored(pos, neg, v) \in Seq(Entry)
      BY <2>1, <2>2, StoredFacts
    <2> QED BY <2>3 DEF pos, neg
  <1>6. ASSUME NEW m \in Models, Meets(m, h) PROVE Satisfies(m, R)
    BY <1>6, ResolventsHold DEF Meets
  <1>7. ASSUME NEW m \in Models, Satisfies(m, h.db \ C), Satisfies(m, R)
        PROVE  LET n == ExtendedBy(m, s)
               IN n \in Assignments /\ Same(n, m, {v}) /\ Satisfies(n, h.db)
    BY <1>7, ResolventsSuffice, ModelFacts
  <1> HIDE DEF r, t, s, R, C
  <1>8. Keeps(t, r) /\ Says(t, r, R)
    BY <1>1, <1>3, <1>4, AddAllFacts
  <1>9. /\ t \in Cnf /\ Tidy(t) /\ t.checked = h.checked
        /\ t.eliminated = h.eliminated \cup {v} /\ h.units \subseteq t.units
        /\ t.ok => \A L : L \subseteq h.units /\ Clean(h, L) => Clean(t, L)
        /\ t.ok /\ use_simplification => \A X : Looked(h, X) => Looked(t, X)
    BY <1>1, <1>8 DEF Keeps
  <1>10. ASSUME NEW m \in Models, Meets(m, h) PROVE Meets(m, t)
    <2>1. Meets(m, r)
      BY <1>1, <1>10 DEF Meets, Satisfies
    <2> QED BY <1>6, <1>8, <1>10, <2>1 DEF Says
  <1>11. ASSUME NEW m \in Models, Meets(m, t)
         PROVE  /\ ExtendedBy(m, s) \in Models /\ Meets(ExtendedBy(m, s), h)
                /\ Same(ExtendedBy(m, s), m, {v})
    <2> DEFINE n == ExtendedBy(m, s)
    <2>1. Meets(m, r) /\ Satisfies(m, R)
      BY <1>8, <1>11 DEF Says
    <2>2. n \in Assignments /\ Same(n, m, {v}) /\ Satisfies(n, h.db)
      BY <1>1, <1>7, <2>1 DEF Meets
    <2> HIDE DEF n
    <2>3. \A c \in Clause : Vars(c) \cap {v} = {} =>
            (Satisfies(m, {c}) <=> Satisfies(n, {c})) /\ (c \subseteq m <=> c \subseteq n)
      <3> DEFINE V == {v}
      <3>1. m \in Assignments /\ Same(n, m, V) /\ V \in SUBSET Var
        BY <2>2, ModelFacts
      <3> HIDE DEF V
      <3>2. \A c \in Clause : Vars(c) \cap V = {} =>
              (Satisfies(m, {c}) <=> Satisfies(n, {c})) /\ (c \subseteq m <=> c \subseteq n)
        BY <2>2, <3>1, SameFacts
      <3> QED BY <3>2 DEF V
    <2>4. Satisfies(n, Theory)
      <3> SUFFICES ASSUME NEW c \in Theory PROVE \E p \in c : p \in n
        BY DEF Satisfies
      <3>1. c \in Clause /\ Vars(c) \cap {v} = {}
        BY SimpSolverAssumption DEF TheoryVars
      <3>2. Satisfies(m, {c})
        BY DEF Models, Satisfies
      <3> QED BY <2>3, <3>1, <3>2 DEF Satisfies
    <2>5. h.units \subseteq n
      <3>1. h.units \subseteq m
        BY <1>1, <2>1 DEF Meets
      <3>2. h.units \in Clause /\ Vars(h.units) \cap {v} = {}
        BY DEF Cnf, Clause, Vars
      <3> QED BY <2>3, <3>1, <3>2
    <2>6. n \in Models /\ Meets(n, h)
      BY <2>2, <2>4, <2>5 DEF Models, Meets
    <2> QED BY <2>2, <2>6 DEF n
  <1> QED BY <1>5, <1>9, <1>10, <1>11 DEF t, s

-----------------------------------------------------------------------------
(***************************************************************************)
(* The inductive invariant.                                                *)
(***************************************************************************)
\* The phases of preprocessing.
Work == {"simplify", "main", "subsume", "elim", "eliminated", "cleanup"}

TypeInv ==
    /\ cnf \in Cnf /\ given \in SUBSET Clause /\ frozen \in SUBSET Var
    /\ elimclauses \in Seq(Entry)
    /\ use_simplification \in BOOLEAN /\ turnOff \in BOOLEAN
    /\ complete \in BOOLEAN /\ interrupt \in BOOLEAN
    /\ phase \in {"idle", "search"} \cup Work
    /\ asked \in Clause /\ extraFrozen \in SUBSET Var

\* What must not be eliminated is frozen; the preprocessor works only when it is on
\* and no contradiction is known.
FrozenInv ==
    /\ TheoryVars \subseteq frozen \ extraFrozen
    /\ frozen \cap cnf.eliminated = {}
    /\ phase \in Work => Vars(asked) \subseteq frozen /\ use_simplification /\ cnf.ok
    /\ phase # "idle" => Vars(asked) \cap cnf.eliminated = {}
    /\ ~(interrupt /\ complete)

\* The clauses are rid of the assigned literals that were checked.
CheckedInv == complete /\ cnf.ok => Clean(cnf, cnf.checked)

\* What there is to look at is in the queue, or can be found by touched variables.
QueueInv ==
    /\ phase = "elim" => cnf.queue = {}
    /\ phase \notin {"subsume", "eliminated"} /\ use_simplification /\ cnf.ok =>
         cnf.queue = {} \/ cnf.touched # {}
    /\ use_simplification /\ cnf.ok /\ complete => Looked(cnf, {})

\* The solutions of what the user gave are solutions of what is left of it, and those
\* extend to solutions of all.
Right(g, s, e) ==
    /\ \A m \in Models : Satisfies(m, g) => Meets(m, s)
    /\ \A m \in Models : Meets(m, s) =>
         /\ ExtendedBy(m, e) \in Assignments /\ Satisfies(ExtendedBy(m, e), g)
         /\ Same(ExtendedBy(m, e), m, s.eliminated)
Sound == Right(given, cnf, elimclauses)

IInv == TypeInv /\ FrozenInv /\ Tidy(cnf) /\ CheckedInv /\ QueueInv /\ Sound

\* The same solutions, the same invariant.
LEMMA RightStays ==
    ASSUME NEW g, NEW s, NEW t, NEW e, Right(g, s, e), Says(t, s, {}),
           t.eliminated = s.eliminated
    PROVE  Right(g, t, e)
  <1>1. \A m \in Models : Meets(m, t) <=> Meets(m, s)
    BY DEF Says, Satisfies
  <1> QED BY <1>1 DEF Right

\* A new solver satisfies the invariant.
LEMMA InitInv == Init => IInv
  <1> SUFFICES ASSUME Init PROVE IInv
    OBVIOUS
  <1>1. TheoryVars \subseteq Var
    BY VarsFacts DEF TheoryVars
  <1>2. TypeInv
    <2>1. cnf \in Cnf
      BY DEF Init, Cnf
    <2>2. elimclauses \in Seq(Entry)
      BY DEF Init
    <2>3. asked \in Clause
      BY DEF Init, Clause
    <2> QED BY <1>1, <2>1, <2>2, <2>3 DEF Init, TypeInv, Work
  <1>3. FrozenInv
    BY DEF Init, FrozenInv, Work
  <1>4. Tidy(cnf) /\ CheckedInv /\ QueueInv
    BY DEF Init, Tidy, CheckedInv, QueueInv, Clean, Looked
  <1>5. Sound
    <2>1. \A m \in Models : Meets(m, cnf)
      BY DEF Init, Meets, Satisfies
    <2>2. ASSUME NEW m \in Models PROVE ExtendedBy(m, <<>>) = m
      <3>1. m \in Assignments
        BY ModelFacts
      <3> DEFINE e == <<>>
      <3>2. e \in Seq(Entry) /\ Len(e) = 0
        OBVIOUS
      <3> HIDE DEF e
      <3>3. PICK n \in [0..Len(e) -> Assignments] : n[0] = m /\ ExtendedBy(m, e) = n[Len(e)]
        BY <3>1, <3>2, ExtendTurns
      <3>4. ExtendedBy(m, e) = m
        BY <3>2, <3>3
      <3> QED BY <3>4 DEF e
    <2>3. \A m : Satisfies(m, {}) /\ \A V : Same(m, m, V)
      BY DEF Satisfies, Same
    <2>4. given = {} /\ elimclauses = <<>>
      BY DEF Init
    <2> QED BY <2>1, <2>2, <2>3, <2>4, ModelFacts DEF Sound, Right
  <1> QED BY <1>2, <1>3, <1>4, <1>5 DEF IInv

-----------------------------------------------------------------------------
(***************************************************************************)
(* Steps of preprocessing.                                                 *)
(***************************************************************************)
\* When a step ends a call, there is a contradiction, and the answer says so.
Answered ==
    phase' = "idle" => status' = "False" /\ \A m \in Models : ~Satisfies(m, given)

\* Preprocessing goes on with the clauses s.
LEMMA ContinueFacts ==
    ASSUME IInv, phase \in Work, NEW s \in Cnf, Tidy(s), s.ok, NEW to \in Work,
           Continue(s, to), elimclauses' \in Seq(Entry), Right(given, s, elimclauses'),
           frozen \cap s.eliminated = {}, complete => Clean(s, s.checked),
           to = "elim" => s.queue = {},
           to \notin {"subsume", "eliminated"} => s.queue = {} \/ s.touched # {},
           complete => Looked(s, {})
    PROVE  IInv' /\ Answered
  <1>1. /\ cnf' = s /\ phase' = to /\ given' = given /\ frozen' = frozen
        /\ use_simplification' = use_simplification /\ interrupt' = interrupt
        /\ asked' = asked /\ turnOff' = turnOff /\ extraFrozen' = extraFrozen
        /\ complete' = complete
    BY DEF Continue, call
  <1>2. TypeInv'
    BY <1>1 DEF IInv, TypeInv
  <1>3. FrozenInv'
    <2>1. Vars(asked) \subseteq frozen /\ use_simplification
      BY DEF IInv, FrozenInv
    <2>2. Vars(asked) \cap s.eliminated = {}
      BY <2>1
    <2> QED BY <1>1, <2>1, <2>2 DEF IInv, FrozenInv
  <1>4. Tidy(cnf)' /\ CheckedInv'
    BY <1>1 DEF CheckedInv
  <1>5. QueueInv'
    BY <1>1 DEF QueueInv
  <1>6. Sound'
    BY <1>1 DEF Sound
  <1>7. Answered
    BY <1>1 DEF Answered, Work
  <1> QED BY <1>2, <1>3, <1>4, <1>5, <1>6, <1>7 DEF IInv

\* The same, when no variable was eliminated.
LEMMA ContinueSame ==
    ASSUME IInv, phase \in Work, NEW s \in Cnf, Tidy(s), s.ok, NEW to \in Work,
           Continue(s, to), UNCHANGED elimclauses, Says(s, cnf, {}),
           s.eliminated = cnf.eliminated, complete => Clean(s, s.checked),
           to = "elim" => s.queue = {},
           to \notin {"subsume", "eliminated"} => s.queue = {} \/ s.touched # {},
           complete => Looked(s, {})
    PROVE  IInv' /\ Answered
  <1>1. Right(given, s, elimclauses') /\ elimclauses' \in Seq(Entry)
    BY RightStays DEF IInv, Sound, TypeInv
  <1>2. frozen \cap s.eliminated = {}
    BY DEF IInv, FrozenInv
  <1> QED BY <1>1, <1>2, ContinueFacts

\* Nothing but the work for the heap changes.
LEMMA ThawedFacts ==
    ASSUME TypeInv, NEW s \in Cnf
    PROVE  LET t == Thawed(s)
           IN /\ t \in Cnf /\ t.db = s.db /\ t.units = s.units /\ t.checked = s.checked
              /\ t.queue = s.queue /\ t.touched = s.touched
              /\ t.eliminated = s.eliminated /\ t.ok = s.ok
  BY DEF TypeInv, Thawed, Cnf

\* Switching preprocessing off empties the queue and keeps the clauses.
LEMMA DisabledFacts ==
    ASSUME NEW s \in Cnf
    PROVE  LET t == Disabled(s)
           IN /\ t \in Cnf /\ t.db = s.db /\ t.units = s.units /\ t.checked = s.checked
              /\ t.queue = {} /\ t.eliminated = s.eliminated /\ t.ok = s.ok
  BY DEF Disabled, Cnf

\* When preprocessing finds a contradiction, there is one.
LEMMA FailFacts ==
    ASSUME IInv, phase \in Work, NEW s \in Cnf, Tidy(s), Fail(s),
           frozen \cap s.eliminated = {}, \A m \in Models : ~Meets(m, cnf)
    PROVE  IInv' /\ Answered
  <1> DEFINE r == IF turnOff THEN Disabled(s) ELSE Thawed(s)
             t == [r EXCEPT !.ok = FALSE]
  <1>1. /\ r \in Cnf /\ r.db = s.db /\ r.units = s.units /\ r.checked = s.checked
        /\ r.queue \subseteq s.queue /\ r.eliminated = s.eliminated
    BY ThawedFacts, DisabledFacts DEF IInv
  <1>2. /\ cnf' = t /\ phase' = "idle" /\ given' = given /\ frozen' = frozen \ extraFrozen
        /\ elimclauses' = elimclauses
        /\ use_simplification' = (use_simplification /\ ~turnOff) /\ interrupt' = interrupt
        /\ asked' = asked /\ turnOff' = turnOff /\ extraFrozen' = {}
        /\ complete' = complete
    BY DEF Fail
  <1> HIDE DEF r
  <1>3. /\ t \in Cnf /\ t.db = s.db /\ t.units = s.units /\ t.checked = s.checked
        /\ t.queue \subseteq s.queue /\ t.eliminated = s.eliminated /\ ~t.ok
    BY <1>1 DEF Cnf
  <1> HIDE DEF t
  <1>4. TypeInv'
    BY <1>2, <1>3 DEF IInv, TypeInv
  <1>5. FrozenInv'
    BY <1>2, <1>3 DEF IInv, FrozenInv, Work
  <1>6. Tidy(cnf)'
    BY <1>2, <1>3 DEF Tidy
  <1>7. CheckedInv' /\ QueueInv'
    BY <1>2, <1>3 DEF CheckedInv, QueueInv
  <1>8. \A m \in Models : ~Satisfies(m, given) /\ ~Meets(m, t)
    BY <1>3 DEF IInv, Sound, Right, Meets
  <1>9. Sound'
    BY <1>2, <1>8 DEF Sound, Right
  <1>10. Answered
    BY <1>8 DEF Answered, Fail
  <1> QED BY <1>4, <1>5, <1>6, <1>7, <1>9, <1>10 DEF IInv

\* What the theories or the search find out at level 0.
LEMMA LearnFacts ==
    ASSUME NEW s \in Cnf, Tidy(s), s.ok, NEW ps \in {{}} \cup Units(Learnable(s))
    PROVE  /\ Keeps(Enqueue(s, ps), s) /\ Says(Enqueue(s, ps), s, {})
           /\ Enqueue(s, ps).db = s.db /\ Enqueue(s, ps).queue = s.queue
           /\ Enqueue(s, ps).touched = s.touched
  <1>1. ps \in SUBSET Lit
    BY DEF Units, Learnable
  <1>2. ASSUME NEW m \in Models, Meets(m, s) PROVE ps \subseteq m
    <2>1. Satisfies(m, s.db \cup Units(s.units) \cup Theory)
      BY <1>2 DEF Meets, Models, Satisfies, Units
    <2>2. m \in Assignments
      BY ModelFacts
    <2> QED BY <2>1, <2>2 DEF Units, Learnable
  <1>3. /\ Keeps(Enqueue(s, ps), s)
        /\ \A m \in Models : Meets(m, Enqueue(s, ps)) <=> Meets(m, s) /\ ps \subseteq m
    BY <1>1, EnqueueFacts
  <1>4. /\ Enqueue(s, ps).db = s.db /\ Enqueue(s, ps).queue = s.queue
        /\ Enqueue(s, ps).touched = s.touched
    BY <1>1, EnqueueType
  <1>5. Says(Enqueue(s, ps), s, {})
    BY <1>2, <1>3 DEF Says, Satisfies
  <1> QED BY <1>3, <1>4, <1>5

\* Each step of a call keeps the invariant and, if it ends the call, answers rightly.
\* First simplify, at the head of eliminate.
LEMMA SimplifyInv == ASSUME IInv, Simplify PROVE IInv' /\ Answered
  <1>1. phase = "simplify" /\ phase \in Work /\ cnf.ok /\ cnf \in Cnf /\ Tidy(cnf)
        /\ use_simplification
    BY DEF Simplify, Work, IInv, FrozenInv, TypeInv
  <1>2. PICK ps \in {{}} \cup Units(Learnable(cnf)) :
               IF Enqueue(cnf, ps).ok
                 THEN Continue(Enqueue(cnf, ps), "main") /\ UNCHANGED elimclauses
                 ELSE Fail(Enqueue(cnf, ps))
    BY DEF Simplify
  <1> DEFINE s == Enqueue(cnf, ps)
  <1>3. /\ Keeps(s, cnf) /\ Says(s, cnf, {}) /\ s.db = cnf.db /\ s.queue = cnf.queue
        /\ s.touched = cnf.touched
    BY <1>1, LearnFacts
  <1>4. IF s.ok THEN Continue(s, "main") /\ UNCHANGED elimclauses ELSE Fail(s)
    BY <1>2
  <1> HIDE DEF s
  <1>5. s \in Cnf /\ Tidy(s) /\ s.eliminated = cnf.eliminated /\ s.checked = cnf.checked
    BY <1>3 DEF Keeps
  <1>6. CASE s.ok
    <2>1. complete => Clean(s, s.checked)
      BY <1>1, <1>3, <1>5, <1>6 DEF IInv, CheckedInv, Keeps, Tidy
    <2>2. complete => Looked(s, {})
      BY <1>1, <1>3, <1>6 DEF IInv, QueueInv, Keeps
    <2>3. s.queue = {} \/ s.touched # {}
      BY <1>1, <1>3 DEF IInv, QueueInv
    <2> QED BY <1>1, <1>3, <1>4, <1>5, <1>6, <2>1, <2>2, <2>3, ContinueSame DEF Work
  <1>7. CASE ~s.ok
    <2>1. \A m \in Models : ~Meets(m, cnf)
      BY <1>3, <1>7 DEF Says, Meets, Satisfies
    <2>2. frozen \cap s.eliminated = {}
      BY <1>5 DEF IInv, FrozenInv
    <2> QED BY <1>1, <1>4, <1>5, <1>7, <2>1, <2>2, FailFacts
  <1> QED BY <1>6, <1>7

\* gatherTouchedClauses puts the touched clauses in the queue.
LEMMA GatherInv == ASSUME IInv, Gather PROVE IInv' /\ Answered
  <1> DEFINE Q == cnf.queue \cup {c \in cnf.db : Vars(c) \cap cnf.touched # {}}
             s == [cnf EXCEPT !.queue = Q, !.touched = {}]
  <1>1. phase = "main" /\ phase \in Work /\ cnf.ok /\ cnf \in Cnf /\ Tidy(cnf)
        /\ use_simplification
    BY DEF Gather, Work, IInv, FrozenInv, TypeInv
  <1>2. Continue(s, "subsume") /\ UNCHANGED elimclauses
    BY <1>1 DEF Gather, Cnf
  <1>3. Q \subseteq cnf.db
    BY <1>1 DEF Tidy
  <1>4. /\ s \in Cnf /\ s.db = cnf.db /\ s.queue = Q /\ s.touched = {} /\ s.ok = cnf.ok
        /\ s.units = cnf.units /\ s.checked = cnf.checked /\ s.eliminated = cnf.eliminated
    BY <1>1, <1>3 DEF Cnf
  <1>5. complete => Looked(s, {})
    <2> SUFFICES ASSUME complete, NEW c \in s.db \ s.queue, NEW d \in s.db \ {c}
                 PROVE  ~Redundant(c, d)
      BY DEF Looked
    <2>1. c \in cnf.db \ cnf.queue /\ Vars(c) \cap cnf.touched = {}
      BY <1>4
    <2>2. Looked(cnf, {})
      BY <1>1 DEF IInv, QueueInv
    <2> QED BY <1>4, <2>1, <2>2 DEF Looked
  <1> HIDE DEF s
  <1>6. Tidy(s)
    BY <1>1, <1>3, <1>4 DEF Tidy
  <1>7. Says(s, cnf, {})
    BY <1>4 DEF Says, Meets, Satisfies
  <1>8. complete => Clean(s, s.checked)
    BY <1>1, <1>4 DEF IInv, CheckedInv, Clean
  <1> HIDE DEF Q
  <1> QED BY <1>1, <1>2, <1>4, <1>5, <1>6, <1>7, <1>8, ContinueSame DEF Work

\* The result of the visits, and of what the theories propagate after them.
LEMMA SubsumeWithFacts ==
    ASSUME IInv, phase \in {"subsume", "eliminated"}, NEW s \in Cnf, Tidy(s), s.ok,
           s.eliminated = cnf.eliminated, Says(s, cnf, {}), NEW c, Visitor(c, s),
           NEW X, complete => Looked(s, X), X \subseteq {c},
           NEW L, L = {} \/ \E l : L = {l} /\ c = {l}, s.checked \subseteq L \cup cnf.checked,
           cnf.checked \subseteq s.units, complete => Clean(s, cnf.checked),
           SubsumeWith(s, c)
    PROVE  IInv' /\ Answered
  <1>1. phase \in Work /\ cnf.ok /\ use_simplification
    BY DEF Work, IInv, FrozenInv
  <1> DEFINE t == VisitAll(c, s, s.db \ {c})
  <1>2. /\ Keeps(t, s) /\ Says(t, s, {})
        /\ t.ok => \A e \in t.db \ {c} : ~Redundant(c, e)
    BY VisitAllFacts
  <1>3. PICK ps \in {{}} \cup (IF t.units = s.units THEN {} ELSE Units(Learnable(t))) :
               LET u == IF ps = {} \/ ~t.ok THEN t ELSE Enqueue(t, ps)
               IN IF u.ok THEN Continue(u, phase) /\ UNCHANGED elimclauses ELSE Fail(u)
    BY DEF SubsumeWith
  <1> DEFINE u == IF ps = {} \/ ~t.ok THEN t ELSE Enqueue(t, ps)
  <1>4. IF u.ok THEN Continue(u, phase) /\ UNCHANGED elimclauses ELSE Fail(u)
    BY <1>3
  <1> HIDE DEF t
  <1>5. t \in Cnf /\ Tidy(t) /\ t.eliminated = cnf.eliminated /\ t.checked = s.checked
    BY <1>2 DEF Keeps
  <1>6. Keeps(u, t) /\ Says(u, t, {}) /\ u.db = t.db /\ u.queue = t.queue
        /\ u.touched = t.touched
    <2>1. Keeps(t, t) /\ Says(t, t, {})
      BY <1>5 DEF Keeps, Says, Satisfies
    <2>2. CASE ps = {} \/ ~t.ok
      BY <2>1, <2>2
    <2>3. CASE ~(ps = {} \/ ~t.ok)
      <3>1. ps \in {{}} \cup Units(Learnable(t)) /\ t.ok
        BY <1>3, <2>3
      <3>2. u = Enqueue(t, ps)
        BY <2>3
      <3> HIDE DEF u
      <3> QED BY <1>5, <3>1, <3>2, LearnFacts
    <2> QED BY <2>2, <2>3
  <1> HIDE DEF u
  <1>7. u \in Cnf /\ Tidy(u) /\ u.eliminated = cnf.eliminated /\ u.checked = s.checked
    BY <1>5, <1>6 DEF Keeps
  <1>8. Says(u, cnf, {})
    BY <1>2, <1>6 DEF Says, Satisfies
  <1>9. CASE u.ok
    <2>1. t.ok
      BY <1>6, <1>9 DEF Keeps
    <2>2. Keeps(u, s)
      BY <1>2, <1>6, KeepsTwice
    <2>3. complete => Clean(u, u.checked)
      <3>1. complete => Clean(u, cnf.checked)
        BY <1>9, <2>2 DEF Keeps
      <3>2. ASSUME L # {}, NEW e \in u.db, NEW l \in L
            PROVE  l \notin e /\ -l \notin e
        <4>1. c = {l} /\ L = {l}
          BY <3>2
        <4>2. e # c
          BY <1>7, <4>1 DEF Tidy, Proper
        <4>3. ~Redundant(c, e)
          BY <1>2, <1>6, <2>1, <4>2
        <4> QED BY <4>1, <4>3 DEF Redundant, Strengthens
      <3> QED BY <1>7, <3>1, <3>2 DEF Clean
    <2>4. complete => Looked(u, {})
      <3> SUFFICES ASSUME complete, NEW d \in u.db \ u.queue, Vars(d) \cap u.touched = {},
                          NEW e \in u.db \ {d}
                   PROVE  ~Redundant(d, e)
        BY DEF Looked
      <3>1. CASE d = c
        BY <1>2, <1>6, <2>1, <3>1
      <3>2. CASE d # c
        <4>1. Looked(u, X)
          BY <1>1, <1>9, <2>2 DEF Keeps
        <4> QED BY <3>2, <4>1 DEF Looked
      <3> QED BY <3>1, <3>2
    <2>5. Continue(u, phase) /\ UNCHANGED elimclauses /\ phase # "elim"
          /\ phase \in {"subsume", "eliminated"}
      BY <1>4, <1>9
    <2> QED BY <1>1, <1>7, <1>8, <1>9, <2>3, <2>4, <2>5, ContinueSame
  <1>10. CASE ~u.ok
    <2>1. \A m \in Models : ~Meets(m, cnf)
      BY <1>8, <1>10 DEF Says, Meets, Satisfies
    <2>2. frozen \cap u.eliminated = {}
      BY <1>7 DEF IInv, FrozenInv
    <2> QED BY <1>1, <1>4, <1>7, <1>10, <2>1, <2>2, FailFacts
  <1> QED BY <1>9, <1>10

\* One clause, or one new unit, visits the others.
LEMMA SubsumeInv == ASSUME IInv, Subsume PROVE IInv' /\ Answered
  <1>1. /\ phase \in {"subsume", "eliminated"} /\ phase \in Work /\ cnf.ok /\ cnf \in Cnf
        /\ Tidy(cnf) /\ use_simplification
    BY DEF Subsume, Work, IInv, FrozenInv, TypeInv
  <1>2. complete => Looked(cnf, {}) /\ Clean(cnf, cnf.checked)
    BY <1>1 DEF IInv, QueueInv, CheckedInv
  <1>3. cnf.checked \subseteq cnf.units /\ cnf.queue \subseteq cnf.db
    BY <1>1 DEF Tidy
  <1>4. ASSUME NEW c \in cnf.queue, SubsumeWith([cnf EXCEPT !.queue = @ \ {c}], c)
        PROVE  IInv' /\ Answered
    <2> DEFINE s == [cnf EXCEPT !.queue = @ \ {c}]
    <2>1. /\ s \in Cnf /\ s.db = cnf.db /\ s.units = cnf.units /\ s.checked = cnf.checked
          /\ s.queue = cnf.queue \ {c} /\ s.touched = cnf.touched
          /\ s.eliminated = cnf.eliminated /\ s.ok = cnf.ok
      BY <1>1 DEF Cnf
    <2>2. SubsumeWith(s, c)
      BY <1>4
    <2> HIDE DEF s
    <2>3. Tidy(s)
      BY <1>1, <2>1 DEF Tidy
    <2>4. Says(s, cnf, {})
      BY <2>1 DEF Says, Meets, Satisfies
    <2>5. Visitor(c, s)
      BY <1>1, <1>3, <2>1 DEF Visitor, Tidy, Proper, Cnf
    <2> DEFINE X == {c}
    <2>6. complete => Looked(s, X)
      BY <1>2, <1>3, <2>1 DEF Looked
    <2>7. complete => Clean(s, cnf.checked)
      BY <1>2, <2>1 DEF Clean
    <2>8. X \subseteq {c}
      OBVIOUS
    <2> HIDE DEF X
    <2>9. s.checked \subseteq {} \cup cnf.checked /\ cnf.checked \subseteq s.units
      BY <1>3, <2>1
    <2> QED BY <1>1, <2>1, <2>2, <2>3, <2>4, <2>5, <2>6, <2>7, <2>8, <2>9, SubsumeWithFacts
  <1>5. ASSUME NEW l \in cnf.units \ cnf.checked,
               SubsumeWith([cnf EXCEPT !.checked = @ \cup {l}], {l})
        PROVE  IInv' /\ Answered
    <2> DEFINE s == [cnf EXCEPT !.checked = @ \cup {l}]
               L == {l}
    <2>1. l \in Lit
      BY <1>1 DEF Cnf
    <2>2. /\ s \in Cnf /\ s.db = cnf.db /\ s.units = cnf.units
          /\ s.checked = cnf.checked \cup {l}
          /\ s.queue = cnf.queue /\ s.touched = cnf.touched
          /\ s.eliminated = cnf.eliminated /\ s.ok = cnf.ok
      BY <1>1, <2>1 DEF Cnf
    <2>3. SubsumeWith(s, L)
      BY <1>5
    <2> HIDE DEF s
    <2>4. Tidy(s)
      BY <1>1, <1>3, <2>2 DEF Tidy
    <2>5. Says(s, cnf, {})
      BY <2>2 DEF Says, Meets, Satisfies
    <2>6. Visitor(L, s)
      BY <1>5, <2>1, <2>2, Literals DEF Visitor, Clause
    <2> DEFINE X == {}
    <2>7. complete => Looked(s, X)
      BY <1>2, <2>2 DEF Looked
    <2>8. complete => Clean(s, cnf.checked)
      BY <1>2, <2>2 DEF Clean
    <2>9. s.checked \subseteq L \cup cnf.checked /\ cnf.checked \subseteq s.units
      BY <1>3, <2>2
    <2>10. L = {} \/ \E k : L = {k} /\ L = {k}
      OBVIOUS
    <2>11. X \subseteq {L}
      OBVIOUS
    <2> HIDE DEF L, X
    <2> QED BY <1>1, <2>2, <2>3, <2>4, <2>5, <2>6, <2>7, <2>8, <2>9, <2>10, <2>11,
               SubsumeWithFacts
  <1> QED BY <1>4, <1>5 DEF Subsume

\* backwardSubsumptionCheck ends, with the queue empty or dropped.
LEMMA SubsumedInv == ASSUME IInv, Subsumed PROVE IInv' /\ Answered
  <1>1. /\ phase \in {"subsume", "eliminated"} /\ phase \in Work /\ cnf.ok /\ cnf \in Cnf
        /\ Tidy(cnf) /\ use_simplification /\ UNCHANGED elimclauses
    BY DEF Subsumed, Work, IInv, FrozenInv, TypeInv
  <1>2. CASE interrupt
    <2>1. PICK H \in SUBSET Var, to \in {"cleanup", "elim"} :
                 Continue([cnf EXCEPT !.queue = {}, !.checked = cnf.units, !.heap = H], to)
      <3>1. CASE phase = "subsume"
        <4>1. {} \in SUBSET Var
          OBVIOUS
        <4>2. Continue([[cnf EXCEPT !.queue = {}, !.checked = cnf.units] EXCEPT !.heap = {}],
                       "cleanup")
          BY <1>2, <3>1 DEF Subsumed
        <4>3. [[cnf EXCEPT !.queue = {}, !.checked = cnf.units] EXCEPT !.heap = {}]
                = [cnf EXCEPT !.queue = {}, !.checked = cnf.units, !.heap = {}]
          BY <1>1 DEF Cnf
        <4> QED BY <4>1, <4>2, <4>3
      <3>2. CASE phase # "subsume"
        <4>1. cnf.heap \in SUBSET Var
          BY <1>1 DEF Cnf
        <4>2. Continue([cnf EXCEPT !.queue = {}, !.checked = cnf.units], "elim")
          BY <1>2, <3>2 DEF Subsumed
        <4>3. [cnf EXCEPT !.queue = {}, !.checked = cnf.units]
                = [cnf EXCEPT !.queue = {}, !.checked = cnf.units, !.heap = cnf.heap]
          BY <1>1 DEF Cnf
        <4> QED BY <4>1, <4>2, <4>3
      <3> QED BY <3>1, <3>2
    <2> DEFINE s == [cnf EXCEPT !.queue = {}, !.checked = cnf.units, !.heap = H]
    <2>2. /\ s \in Cnf /\ s.db = cnf.db /\ s.units = cnf.units /\ s.checked = cnf.units
          /\ s.queue = {} /\ s.eliminated = cnf.eliminated /\ s.ok = cnf.ok
      BY <1>1 DEF Cnf
    <2>3. Continue(s, to)
      BY <2>1
    <2> HIDE DEF s
    <2>4. Tidy(s) /\ Says(s, cnf, {})
      BY <1>1, <2>2 DEF Tidy, Says, Meets, Satisfies
    <2>5. ~complete
      BY <1>2 DEF IInv, FrozenInv
    <2>6. to \in Work
      BY DEF Work
    <2> QED BY <1>1, <2>2, <2>3, <2>4, <2>5, <2>6, ContinueSame
  <1>3. CASE ~interrupt
    <2>1. Continue(cnf, "elim") /\ cnf.queue = {}
      BY <1>3 DEF Subsumed
    <2>2. Says(cnf, cnf, {})
      BY DEF Says, Satisfies
    <2>3. complete => Clean(cnf, cnf.checked) /\ Looked(cnf, {})
      BY <1>1 DEF IInv, CheckedInv, QueueInv
    <2>4. "elim" \in Work
      BY DEF Work
    <2> QED BY <1>1, <2>1, <2>2, <2>3, <2>4, ContinueSame
  <1> QED BY <1>2, <1>3

\* A variable is not eliminated, or it is, or that leads to a contradiction.
LEMMA EliminateCases ==
    ASSUME NEW v, NEW h, EliminateVar(v, h)
    PROVE  LET t == Eliminated(h, v)
           IN \/ Continue(h, "elim") /\ UNCHANGED elimclauses
              \/ /\ t.ok /\ Continue(t, "eliminated")
                 /\ elimclauses' = elimclauses \o Stored(Pos(h, v), Neg(h, v), v)
              \/ ~t.ok /\ Fail(t)
  BY DEF EliminateVar, Eliminated, Gone, Resolvents, Pos, Neg

\* One variable is eliminated, or not.
LEMMA ElimInv == ASSUME IInv, Elim PROVE IInv' /\ Answered
  <1>1. /\ phase = "elim" /\ phase \in Work /\ cnf.ok /\ cnf \in Cnf
        /\ Tidy(cnf) /\ use_simplification /\ cnf.queue = {}
    BY DEF Elim, Work, IInv, FrozenInv, TypeInv, QueueInv
  <1>2. complete => Clean(cnf, cnf.checked) /\ Looked(cnf, {})
    BY <1>1 DEF IInv, CheckedInv, QueueInv
  <1>3. "elim" \in Work /\ "main" \in Work /\ "eliminated" \in Work
    BY DEF Work
  <1>4. CASE Continue(cnf, "main") /\ UNCHANGED elimclauses
    <2>1. Says(cnf, cnf, {})
      BY DEF Says, Satisfies
    <2> QED BY <1>1, <1>2, <1>3, <1>4, <2>1, ContinueSame
  <1>5. ASSUME NEW v \in cnf.heap, NEW h, h = [cnf EXCEPT !.heap = @ \ {v}],
               \/ /\ Continue(h, "main") \/ Continue(h, "elim")
                  /\ UNCHANGED elimclauses
               \/ v \notin frozen /\ v \notin cnf.units /\ -v \notin cnf.units /\ EliminateVar(v, h)
        PROVE  IInv' /\ Answered
    <2>1. /\ h \in Cnf /\ h.db = cnf.db /\ h.units = cnf.units /\ h.checked = cnf.checked
          /\ h.queue = {} /\ h.touched = cnf.touched
          /\ h.eliminated = cnf.eliminated /\ h.ok = cnf.ok
      BY <1>1, <1>5 DEF Cnf
    <2>2. Tidy(h)
      BY <1>1, <2>1 DEF Tidy
    <2>3. \A m : Meets(m, h) <=> Meets(m, cnf)
      BY <2>1 DEF Meets
    <2>4. complete => Clean(h, cnf.checked) /\ Looked(h, {})
      BY <1>1, <1>2, <2>1 DEF Clean, Looked
    <2>5. h.checked \subseteq h.units
      BY <2>2 DEF Tidy
    <2>6. CASE (Continue(h, "main") \/ Continue(h, "elim")) /\ UNCHANGED elimclauses
      <3>1. Says(h, cnf, {})
        BY <2>3 DEF Says, Satisfies
      <3> QED BY <1>1, <1>3, <2>1, <2>2, <2>4, <2>6, <3>1, ContinueSame
    <2>7. CASE v \notin frozen /\ v \notin cnf.units /\ -v \notin cnf.units /\ EliminateVar(v, h)
      <3> DEFINE t == Eliminated(h, v)
                 s == Stored(Pos(h, v), Neg(h, v), v)
      <3>1. v \in Var /\ v \notin TheoryVars
        BY <1>1, <2>7 DEF Cnf, IInv, FrozenInv
      <3>2. /\ t \in Cnf /\ Tidy(t) /\ t.checked = h.checked
            /\ t.eliminated = h.eliminated \cup {v} /\ h.units \subseteq t.units
            /\ t.ok => \A L : L \subseteq h.units /\ Clean(h, L) => Clean(t, L)
            /\ t.ok /\ use_simplification => \A X : Looked(h, X) => Looked(t, X)
            /\ \A m \in Models : Meets(m, h) => Meets(m, t)
            /\ s \in Seq(Entry)
            /\ \A m \in Models : Meets(m, t) =>
                 /\ ExtendedBy(m, s) \in Models /\ Meets(ExtendedBy(m, s), h)
                 /\ Same(ExtendedBy(m, s), m, {v})
        BY <1>1, <2>1, <2>2, <2>7, <3>1, EliminateFacts
      <3>3. \/ Continue(h, "elim") /\ UNCHANGED elimclauses
            \/ t.ok /\ Continue(t, "eliminated") /\ elimclauses' = elimclauses \o s
            \/ ~t.ok /\ Fail(t)
        BY <2>7, EliminateCases
      <3> HIDE DEF t, s
      <3>4. frozen \cap t.eliminated = {}
        BY <2>1, <2>7, <3>2 DEF IInv, FrozenInv
      <3>5. CASE t.ok /\ Continue(t, "eliminated") /\ elimclauses' = elimclauses \o s
        <4>1. elimclauses \in Seq(Entry)
          BY DEF IInv, TypeInv
        <4>2. elimclauses' \in Seq(Entry)
          BY <3>2, <3>5, <4>1
        <4>3. ASSUME NEW m \in Models, Satisfies(m, given) PROVE Meets(m, t)
          BY <2>3, <3>2, <4>3 DEF IInv, Sound, Right
        <4>4. ASSUME NEW m \in Models, Meets(m, t)
              PROVE  LET n == ExtendedBy(m, elimclauses')
                     IN n \in Assignments /\ Satisfies(n, given) /\ Same(n, m, t.eliminated)
          <5> DEFINE k == ExtendedBy(m, s)
                     n == ExtendedBy(k, elimclauses)
          <5>1. k \in Models /\ Meets(k, cnf) /\ Same(k, m, {v})
            BY <2>3, <3>2, <4>4
          <5>2. ExtendedBy(m, elimclauses') = n
            <6>1. m \in Assignments
              BY ModelFacts
            <6> QED BY <3>2, <3>5, <4>1, <6>1, ExtendConcat
          <5> HIDE DEF k, n
          <5>3. n \in Assignments /\ Satisfies(n, given) /\ Same(n, k, cnf.eliminated)
            BY <5>1 DEF IInv, Sound, Right, n
          <5>4. Same(n, m, t.eliminated)
            BY <2>1, <3>2, <5>1, <5>3 DEF Same
          <5> QED BY <5>2, <5>3, <5>4
        <4>5. Right(given, t, elimclauses')
          BY <4>3, <4>4 DEF Right
        <4>6. complete => Clean(t, t.checked) /\ Looked(t, {})
          BY <1>1, <2>1, <2>4, <2>5, <3>2, <3>5
        <4> QED BY <1>1, <1>3, <3>2, <3>4, <3>5, <4>2, <4>5, <4>6, ContinueFacts
      <3>6. CASE ~t.ok /\ Fail(t)
        <4>1. \A m \in Models : ~Meets(m, cnf)
          BY <2>3, <3>2, <3>6 DEF Meets
        <4> QED BY <1>1, <3>2, <3>4, <3>6, <4>1, FailFacts
      <3> QED BY <2>6, <3>3, <3>5, <3>6
    <2> QED BY <1>5, <2>6, <2>7
  <1>6. \/ Continue(cnf, "main") /\ UNCHANGED elimclauses
        \/ \E v \in cnf.heap :
             LET h == [cnf EXCEPT !.heap = @ \ {v}]
             IN \/ (Continue(h, "main") \/ Continue(h, "elim")) /\ UNCHANGED elimclauses
                \/ /\ v \notin frozen /\ v \notin cnf.units /\ -v \notin cnf.units
                   /\ EliminateVar(v, h)
    BY DEF Elim
  <1> QED BY <1>4, <1>5, <1>6

\* eliminate ends, and may switch preprocessing off for good.
LEMMA CleanupInv == ASSUME IInv, Cleanup PROVE IInv' /\ Answered
  <1> DEFINE s == IF turnOff THEN Disabled(cnf) ELSE cnf
  <1>1. /\ phase \in {"main", "cleanup"} /\ phase \in Work /\ cnf \in Cnf /\ Tidy(cnf)
        /\ TypeInv /\ FrozenInv /\ QueueInv /\ CheckedInv /\ Sound
    BY DEF Cleanup, Work, IInv, TypeInv
  <1>2. /\ cnf' = s /\ phase' = "search" /\ given' = given /\ frozen' = frozen
        /\ elimclauses' = elimclauses
        /\ use_simplification' = (use_simplification /\ ~turnOff) /\ interrupt' = interrupt
        /\ asked' = asked /\ turnOff' = turnOff /\ extraFrozen' = extraFrozen
        /\ complete' = complete
    BY DEF Cleanup, call
  <1>3. /\ s \in Cnf /\ s.db = cnf.db /\ s.units = cnf.units /\ s.checked = cnf.checked
        /\ s.eliminated = cnf.eliminated /\ s.ok = cnf.ok
        /\ s.queue \subseteq cnf.queue
        /\ ~turnOff => s = cnf
    BY <1>1, DisabledFacts
  <1> HIDE DEF s
  <1>4. TypeInv'
    BY <1>1, <1>2, <1>3 DEF TypeInv
  <1>5. FrozenInv'
    BY <1>1, <1>2, <1>3 DEF FrozenInv, Work
  <1>6. Tidy(cnf)' /\ CheckedInv'
    BY <1>1, <1>2, <1>3 DEF Tidy, CheckedInv, Clean
  <1>7. QueueInv'
    BY <1>1, <1>2, <1>3 DEF QueueInv
  <1>8. Says(s, cnf, {})
    BY <1>3 DEF Says, Meets, Satisfies
  <1>9. Sound'
    BY <1>1, <1>2, <1>3, <1>8, RightStays DEF Sound
  <1>10. Answered
    BY <1>2 DEF Answered
  <1> QED BY <1>4, <1>5, <1>6, <1>7, <1>9, <1>10 DEF IInv

-----------------------------------------------------------------------------
(***************************************************************************)
(* The search, and the user.                                               *)
(***************************************************************************)
\* What the search answers leaves the solutions alone, or finds that there are none.
LEMMA AnswerFacts ==
    ASSUME TypeInv, Tidy(cnf), Answer
    PROVE  /\ cnf' \in Cnf /\ Tidy(cnf') /\ cnf'.queue = cnf.queue
           /\ cnf'.touched = cnf.touched /\ cnf'.eliminated = cnf.eliminated
           /\ Says(cnf', cnf, {})
           /\ cnf'.ok => /\ cnf.ok
                         /\ Clean(cnf, cnf.checked) => Clean(cnf', cnf'.checked)
                         /\ use_simplification /\ Looked(cnf, {}) => Looked(cnf', {})
  <1> DEFINE Goal == /\ cnf' \in Cnf /\ Tidy(cnf') /\ cnf'.queue = cnf.queue
                     /\ cnf'.touched = cnf.touched /\ cnf'.eliminated = cnf.eliminated
                     /\ Says(cnf', cnf, {})
                     /\ cnf'.ok => /\ cnf.ok
                                   /\ Clean(cnf, cnf.checked) => Clean(cnf', cnf'.checked)
                                   /\ use_simplification /\ Looked(cnf, {}) => Looked(cnf', {})
             Undef == cnf.ok /\ cnf' = Thawed(cnf)
             Sat == cnf.ok /\ \E ps \in {{}} \cup Units(Learnable(cnf)) :
                                  cnf' = Thawed(Enqueue(cnf, ps))
             Unsat == \E core \in SUBSET asked :
               /\ cnf.ok => ~\E m \in Assignments : Satisfies(m, Constraints \cup Units(core))
               /\ cnf' = [Thawed(cnf) EXCEPT !.ok = cnf.ok /\ core # {}]
  <1>1. cnf \in Cnf
    BY DEF TypeInv
  <1>2. ASSUME NEW s \in Cnf, Tidy(s), s.queue = cnf.queue, s.touched = cnf.touched,
               s.db = cnf.db, s.checked = cnf.checked, s.eliminated = cnf.eliminated,
               s.ok => cnf.ok, Says(s, cnf, {}), cnf' = Thawed(s)
        PROVE  Goal
    <2>1. /\ cnf' \in Cnf /\ cnf'.db = s.db /\ cnf'.units = s.units
          /\ cnf'.checked = s.checked /\ cnf'.queue = s.queue
          /\ cnf'.touched = s.touched /\ cnf'.eliminated = s.eliminated
          /\ cnf'.ok = s.ok
      BY <1>2, ThawedFacts
    <2>2. Tidy(cnf')
      BY <1>2, <2>1 DEF Tidy
    <2>3. Says(cnf', cnf, {})
      BY <1>2, <2>1 DEF Says, Meets
    <2>4. /\ Clean(cnf, cnf.checked) => Clean(cnf', cnf'.checked)
          /\ Looked(cnf, {}) => Looked(cnf', {})
      BY <1>2, <2>1 DEF Clean, Looked
    <2> QED BY <1>2, <2>1, <2>2, <2>3, <2>4
  <1>3. CASE Undef
    BY <1>1, <1>2, <1>3 DEF Says, Satisfies
  <1>4. CASE Sat
    <2>1. PICK ps \in {{}} \cup Units(Learnable(cnf)) : cnf' = Thawed(Enqueue(cnf, ps))
      BY <1>4
    <2> DEFINE s == Enqueue(cnf, ps)
    <2>2. /\ Keeps(s, cnf) /\ Says(s, cnf, {}) /\ s.db = cnf.db /\ s.queue = cnf.queue
          /\ s.touched = cnf.touched
      BY <1>1, <1>4, LearnFacts
    <2>3. cnf' = Thawed(s)
      BY <2>1
    <2> HIDE DEF s
    <2>4. s \in Cnf /\ Tidy(s) /\ s.checked = cnf.checked /\ s.eliminated = cnf.eliminated
      BY <2>2 DEF Keeps
    <2> QED BY <1>2, <1>4, <2>2, <2>3, <2>4
  <1>5. CASE Unsat
    <2>1. PICK core \in SUBSET asked :
                 /\ cnf.ok => ~\E m \in Assignments : Satisfies(m, Constraints \cup Units(core))
                 /\ cnf' = [Thawed(cnf) EXCEPT !.ok = cnf.ok /\ core # {}]
      BY <1>5
    <2> DEFINE r == Thawed(cnf)
               k == cnf.ok /\ core # {}
    <2>2. /\ r \in Cnf /\ r.db = cnf.db /\ r.units = cnf.units /\ r.checked = cnf.checked
          /\ r.queue = cnf.queue /\ r.touched = cnf.touched
          /\ r.eliminated = cnf.eliminated /\ r.ok = cnf.ok
      BY <1>1, ThawedFacts
    <2>3. cnf' = [r EXCEPT !.ok = k] /\ k \in BOOLEAN /\ (k => cnf.ok)
      BY <2>1
    <2>4. ~k => \A m \in Models : ~Meets(m, cnf)
      <3> SUFFICES ASSUME ~k, NEW m \in Models, Meets(m, cnf) PROVE FALSE
        OBVIOUS
      <3>1. cnf.ok /\ core = {}
        BY DEF Meets
      <3>2. Satisfies(m, Constraints \cup Units(core)) /\ m \in Assignments
        BY <3>1, ModelFacts DEF Constraints, Units, Satisfies, Meets, Models
      <3> QED BY <2>1, <3>1, <3>2
    <2> HIDE DEF r, k
    <2>5. /\ cnf' \in Cnf /\ cnf'.db = cnf.db /\ cnf'.units = cnf.units
          /\ cnf'.checked = cnf.checked /\ cnf'.queue = cnf.queue
          /\ cnf'.touched = cnf.touched /\ cnf'.eliminated = cnf.eliminated
          /\ cnf'.ok = k
      BY <2>2, <2>3 DEF Cnf
    <2>6. Tidy(cnf')
      BY <2>5 DEF Tidy
    <2>7. Says(cnf', cnf, {})
      BY <2>3, <2>4, <2>5 DEF Says, Meets, Satisfies
    <2>8. /\ Clean(cnf, cnf.checked) => Clean(cnf', cnf'.checked)
          /\ Looked(cnf, {}) => Looked(cnf', {})
      BY <2>5 DEF Clean, Looked
    <2> QED BY <2>3, <2>5, <2>6, <2>7, <2>8
  <1>6. Undef \/ Sat \/ Unsat
    BY Zenon DEF Answer
  <1> HIDE DEF Goal, Undef, Sat, Unsat
  <1> QED BY <1>3, <1>4, <1>5, <1>6

\* The search below answers, and its model is extended.
LEMMA SearchInv == ASSUME IInv, Search PROVE IInv'
  <1>1. TypeInv /\ FrozenInv /\ Tidy(cnf) /\ CheckedInv /\ QueueInv /\ Sound
    BY DEF IInv
  <1>2. /\ phase' = "idle" /\ given' = given /\ frozen' = frozen \ extraFrozen
        /\ elimclauses' = elimclauses /\ use_simplification' = use_simplification
        /\ interrupt' = FALSE /\ asked' = asked /\ turnOff' = turnOff /\ extraFrozen' = {}
        /\ complete' = complete /\ Answer /\ phase = "search"
    BY DEF Search
  <1>3. /\ cnf' \in Cnf /\ Tidy(cnf') /\ cnf'.queue = cnf.queue
        /\ cnf'.touched = cnf.touched /\ cnf'.eliminated = cnf.eliminated
        /\ Says(cnf', cnf, {})
        /\ cnf'.ok => /\ cnf.ok
                      /\ Clean(cnf, cnf.checked) => Clean(cnf', cnf'.checked)
                      /\ use_simplification /\ Looked(cnf, {}) => Looked(cnf', {})
    BY <1>1, <1>2, AnswerFacts
  <1>4. TypeInv'
    BY <1>1, <1>2, <1>3 DEF TypeInv
  <1>5. FrozenInv'
    BY <1>1, <1>2, <1>3 DEF FrozenInv, Work
  <1>6. Tidy(cnf)' /\ CheckedInv'
    BY <1>1, <1>2, <1>3 DEF CheckedInv
  <1>7. QueueInv'
    BY <1>1, <1>2, <1>3 DEF QueueInv
  <1>8. Sound'
    BY <1>1, <1>2, <1>3, RightStays DEF Sound
  <1> QED BY <1>4, <1>5, <1>6, <1>7, <1>8 DEF IInv

\* The user adds a clause between calls.
LEMMA AddClauseInv == ASSUME IInv, NEW c \in Problem, AddClause(c) PROVE IInv'
  <1>1. TypeInv /\ FrozenInv /\ Tidy(cnf) /\ CheckedInv /\ QueueInv /\ Sound /\ cnf \in Cnf
    BY DEF IInv, TypeInv
  <1> DEFINE t == AddClause_(cnf, c)
  <1>2. /\ cnf' = t /\ phase' = phase /\ given' = given \cup {c} /\ frozen' = frozen
        /\ elimclauses' = elimclauses /\ use_simplification' = use_simplification
        /\ interrupt' = interrupt /\ asked' = asked /\ turnOff' = turnOff
        /\ extraFrozen' = extraFrozen /\ complete' = complete
        /\ phase = "idle" /\ Vars(c) \cap cnf.eliminated = {}
    BY DEF AddClause, call, Usable
  <1>3. c \in Clause
    BY SimpSolverAssumption
  <1>4. /\ Keeps(t, cnf) /\ Says(t, cnf, {c})
        /\ use_simplification /\ t.ok /\ (cnf.queue = {} \/ cnf.touched # {}) =>
             t.queue = {} \/ t.touched # {}
    BY <1>1, <1>2, <1>3, AddClauseFacts
  <1> HIDE DEF t
  <1>5. /\ t \in Cnf /\ Tidy(t) /\ t.eliminated = cnf.eliminated /\ t.checked = cnf.checked
        /\ t.ok => cnf.ok
    BY <1>4 DEF Keeps
  <1>6. TypeInv'
    BY <1>1, <1>2, <1>3, <1>5 DEF TypeInv
  <1>7. FrozenInv'
    BY <1>1, <1>2, <1>5 DEF FrozenInv, Work
  <1>8. Tidy(cnf)'
    BY <1>2, <1>5
  <1>9. CheckedInv'
    BY <1>1, <1>2, <1>4, <1>5 DEF CheckedInv, Tidy, Keeps
  <1>10. QueueInv'
    <2>1. use_simplification /\ t.ok /\ complete => Looked(t, {})
      BY <1>1, <1>4, <1>5 DEF QueueInv, Keeps
    <2> QED BY <1>1, <1>2, <1>4, <1>5, <2>1 DEF QueueInv
  <1>11. Sound'
    <2>1. ASSUME NEW m \in Models, Satisfies(m, given \cup {c}) PROVE Meets(m, t)
      <3>1. Satisfies(m, given) /\ Satisfies(m, {c})
        BY <2>1 DEF Satisfies
      <3> QED BY <1>1, <1>4, <3>1 DEF Sound, Right, Says
    <2>2. ASSUME NEW m \in Models, Meets(m, t)
          PROVE  LET n == ExtendedBy(m, elimclauses)
                 IN /\ n \in Assignments /\ Satisfies(n, given \cup {c})
                    /\ Same(n, m, t.eliminated)
      <3> DEFINE n == ExtendedBy(m, elimclauses)
      <3>1. Meets(m, cnf) /\ Satisfies(m, {c})
        BY <1>4, <2>2 DEF Says
      <3>2. n \in Assignments /\ Satisfies(n, given) /\ Same(n, m, cnf.eliminated)
        BY <1>1, <3>1 DEF Sound, Right
      <3> HIDE DEF n
      <3>3. m \in Assignments /\ cnf.eliminated \in SUBSET Var
        BY <1>1, ModelFacts DEF Cnf
      <3>4. Satisfies(n, {c})
        BY <1>2, <1>3, <3>1, <3>2, <3>3, SameFacts
      <3> QED BY <1>5, <3>2, <3>4 DEF n, Satisfies
    <2> QED BY <1>2, <2>1, <2>2 DEF Sound, Right
  <1> QED BY <1>6, <1>7, <1>8, <1>9, <1>10, <1>11 DEF IInv

\* The user freezes a variable between calls.
LEMMA SetFrozenInv == ASSUME IInv, NEW v \in Kept, SetFrozen(v) PROVE IInv'
  <1>1. /\ UNCHANGED <<given, cnf, elimclauses, use_simplification, phase, interrupt, asked,
                       turnOff, extraFrozen, complete>>
        /\ frozen' = frozen \cup {v} /\ v \notin frozen /\ phase = "idle"
        /\ Vars({v}) \cap cnf.eliminated = {}
    BY DEF SetFrozen, call, Usable
  <1>2. v \in Var
    BY SimpSolverAssumption
  <1>3. v \notin cnf.eliminated
    BY <1>1, <1>2 DEF Vars
  <1>4. TypeInv'
    BY <1>1, <1>2 DEF IInv, TypeInv
  <1>5. FrozenInv'
    BY <1>1, <1>3 DEF IInv, FrozenInv, Work
  <1>6. Tidy(cnf)' /\ CheckedInv' /\ QueueInv' /\ Sound'
    BY <1>1 DEF IInv, CheckedInv, QueueInv, Sound
  <1> QED BY <1>4, <1>5, <1>6 DEF IInv

\* The user switches preprocessing off.
LEMMA DisableInv == ASSUME IInv, DisablePreprocessing PROVE IInv'
  <1> DEFINE s == Disabled(cnf)
  <1>1. /\ UNCHANGED <<given, frozen, elimclauses, phase, interrupt, asked,
                       turnOff, extraFrozen, complete>>
        /\ phase = "idle" /\ use_simplification' = FALSE /\ cnf' = s
    BY DEF DisablePreprocessing, call
  <1>2. /\ s \in Cnf /\ s.db = cnf.db /\ s.units = cnf.units /\ s.checked = cnf.checked
        /\ s.queue = {} /\ s.eliminated = cnf.eliminated /\ s.ok = cnf.ok
    BY DisabledFacts DEF IInv, TypeInv
  <1> HIDE DEF s
  <1>3. TypeInv' /\ FrozenInv'
    BY <1>1, <1>2 DEF IInv, TypeInv, FrozenInv, Work
  <1>4. Tidy(cnf)' /\ CheckedInv' /\ QueueInv'
    BY <1>1, <1>2 DEF IInv, Tidy, CheckedInv, QueueInv, Clean
  <1>5. Says(s, cnf, {})
    BY <1>2 DEF Says, Meets, Satisfies
  <1>6. Sound'
    BY <1>1, <1>2, <1>5, RightStays DEF IInv, Sound
  <1> QED BY <1>3, <1>4, <1>6 DEF IInv

\* A call begins.
LEMMA SolveInv ==
    ASSUME IInv, NEW A \in Assumptions, NEW doSimp \in BOOLEAN, NEW off \in BOOLEAN,
           Solve(A, doSimp, off)
    PROVE  IInv'
  <1>1. /\ UNCHANGED <<given, cnf, elimclauses, use_simplification, complete>>
        /\ asked' = A /\ turnOff' = off /\ interrupt' = FALSE /\ phase = "idle"
        /\ Vars(A) \cap cnf.eliminated = {}
    BY DEF Solve, Usable
  <1>2. A \in Clause /\ Vars(A) \subseteq Var
    BY SimpSolverAssumption, VarsFacts
  <1>3. \/ /\ phase' = "simplify" /\ cnf.ok /\ use_simplification
           /\ extraFrozen' = Vars(A) \ frozen /\ frozen' = frozen \cup Vars(A)
        \/ phase' = "search" /\ extraFrozen' = {} /\ frozen' = frozen
    BY DEF Solve
  <1>4. TypeInv'
    BY <1>1, <1>2, <1>3 DEF IInv, TypeInv, Work
  <1>5. FrozenInv'
    BY <1>1, <1>3 DEF IInv, FrozenInv, Work
  <1>6. Tidy(cnf)' /\ CheckedInv' /\ Sound'
    BY <1>1 DEF IInv, CheckedInv, Sound
  <1>7. QueueInv'
    BY <1>1, <1>3 DEF IInv, QueueInv
  <1> QED BY <1>4, <1>5, <1>6, <1>7 DEF IInv

\* An interrupt comes.
LEMMA InterruptInv == ASSUME IInv, Interrupt PROVE IInv'
  <1>1. /\ UNCHANGED <<given, cnf, frozen, elimclauses, use_simplification, phase, asked,
                       turnOff, extraFrozen>>
        /\ interrupt' = TRUE /\ complete' = FALSE
    BY DEF Interrupt
  <1>2. TypeInv' /\ FrozenInv'
    BY <1>1 DEF IInv, TypeInv, FrozenInv
  <1>3. Tidy(cnf)' /\ CheckedInv' /\ QueueInv' /\ Sound'
    BY <1>1 DEF IInv, CheckedInv, QueueInv, Sound
  <1> QED BY <1>2, <1>3 DEF IInv

\* Nothing happens.
LEMMA StutterInv == ASSUME IInv, UNCHANGED vars PROVE IInv'
  BY DEF IInv, TypeInv, FrozenInv, CheckedInv, QueueInv, Sound, vars, call, result

\* Every step keeps the invariant.
LEMMA NextInv == ASSUME IInv, [Next]_vars PROVE IInv'
  <1>1. CASE Simplify
    BY <1>1, SimplifyInv
  <1>2. CASE Gather
    BY <1>2, GatherInv
  <1>3. CASE Subsume
    BY <1>3, SubsumeInv
  <1>4. CASE Subsumed
    BY <1>4, SubsumedInv
  <1>5. CASE Elim
    BY <1>5, ElimInv
  <1>6. CASE Cleanup
    BY <1>6, CleanupInv
  <1>7. CASE Search
    BY <1>7, SearchInv
  <1>8. CASE \E c \in Problem : AddClause(c)
    BY <1>8, AddClauseInv
  <1>9. CASE \E v \in Kept : SetFrozen(v)
    BY <1>9, SetFrozenInv
  <1>10. CASE DisablePreprocessing
    BY <1>10, DisableInv
  <1>11. CASE \E A \in Assumptions, doSimp, off \in BOOLEAN : Solve(A, doSimp, off)
    BY <1>11, SolveInv
  <1>12. CASE Interrupt
    BY <1>12, InterruptInv
  <1>13. CASE UNCHANGED vars
    BY <1>13, StutterInv
  <1> QED
    BY <1>1, <1>2, <1>3, <1>4, <1>5, <1>6, <1>7, <1>8, <1>9, <1>10, <1>11, <1>12, <1>13
       DEF Next, Step

-----------------------------------------------------------------------------
(***************************************************************************)
(* What the properties say.                                                *)
(***************************************************************************)
LEMMA Invariant == Spec => []IInv
  <1>1. Init => IInv
    BY InitInv
  <1>2. IInv /\ [Next]_vars => IInv'
    BY NextInv
  <1> QED BY <1>1, <1>2, PTL DEF Spec

\* To satisfy clauses is to satisfy each, and a unit clause says that its literal holds.
LEMMA SatisfiesFacts ==
    /\ \A m, C, D : Satisfies(m, C \cup D) <=> Satisfies(m, C) /\ Satisfies(m, D)
    /\ \A m, A : Satisfies(m, Units(A)) <=> A \subseteq m
  <1>1. \A m, C, D : Satisfies(m, C \cup D) <=> Satisfies(m, C) /\ Satisfies(m, D)
    BY DEF Satisfies
  <1>2. ASSUME NEW m, NEW A PROVE Satisfies(m, Units(A)) <=> A \subseteq m
    <2>1. ASSUME Satisfies(m, Units(A)), NEW p \in A PROVE p \in m
      <3>1. {p} \in Units(A)
        BY DEF Units
      <3> QED BY <2>1, <3>1 DEF Satisfies
    <2>2. ASSUME A \subseteq m, NEW c \in Units(A) PROVE \E p \in c : p \in m
      BY <2>2 DEF Units
    <2> QED BY <2>1, <2>2 DEF Satisfies
  <1> QED BY <1>1, <1>2

\* The models of the record are those of its constraints.
LEMMA MeetsFacts ==
    ASSUME NEW m \in Models
    PROVE  Meets(m, cnf) <=> cnf.ok /\ Satisfies(m, Constraints)
  <1>1. Satisfies(m, cnf.db \cup Units(cnf.units)) <=>
          Satisfies(m, cnf.db) /\ cnf.units \subseteq m
    <2>1. Satisfies(m, cnf.db \cup Units(cnf.units)) <=>
            Satisfies(m, cnf.db) /\ Satisfies(m, Units(cnf.units))
      BY SatisfiesFacts
    <2>2. Satisfies(m, Units(cnf.units)) <=> cnf.units \subseteq m
      BY SatisfiesFacts
    <2> QED BY <2>1, <2>2
  <1>2. Satisfies(m, Constraints) <=>
          Satisfies(m, cnf.db \cup Units(cnf.units)) /\ Satisfies(m, Theory)
    BY SatisfiesFacts DEF Constraints
  <1> QED BY <1>1, <1>2 DEF Meets, Models

\* What the theories demand does not depend on eliminated variables.
LEMMA TheoryKept ==
    ASSUME IInv, NEW m \in Assignments, NEW n \in Assignments,
           Same(n, m, cnf.eliminated), Satisfies(m, Theory)
    PROVE  Satisfies(n, Theory)
  <1> SUFFICES ASSUME NEW c \in Theory PROVE Satisfies(n, {c})
    BY DEF Satisfies
  <1>1. c \in Clause /\ Satisfies(m, {c})
    BY SimpSolverAssumption DEF Satisfies
  <1>2. Vars(c) \cap cnf.eliminated = {}
    BY DEF TheoryVars, IInv, FrozenInv
  <1>3. cnf.eliminated \in SUBSET Var
    BY DEF IInv, TypeInv, Cnf
  <1> QED BY <1>1, <1>2, <1>3, SameFacts

\* The invariant implies that solutions are preserved.
LEMMA IInvPreserved == ASSUME IInv PROVE Preserved
  <1> DEFINE left == Lit \ (cnf.eliminated \cup {-v : v \in cnf.eliminated})
             solutions(C) == {m \cap left : m \in {a \in Assignments : Satisfies(a, C)}}
  <1>1. \A m \in Models : Meets(m, cnf) <=> cnf.ok /\ Satisfies(m, Constraints)
    BY MeetsFacts
  <1>2. ASSUME NEW m \in Assignments, Satisfies(m, given \cup Theory)
        PROVE  cnf.ok /\ Satisfies(m, Constraints)
    <2>1. m \in Models /\ Satisfies(m, given)
      BY <1>2 DEF Models, Satisfies
    <2>2. Meets(m, cnf)
      BY <2>1 DEF IInv, Sound, Right
    <2> QED BY <1>1, <2>1, <2>2
  <1>3. ASSUME NEW m \in Assignments, cnf.ok, Satisfies(m, Constraints)
        PROVE  \E n \in Assignments : Satisfies(n, given \cup Theory) /\ n \cap left = m \cap left
    <2>1. m \in Models /\ Meets(m, cnf)
      BY <1>1, <1>3 DEF Models, Satisfies, Constraints
    <2> DEFINE n == ExtendedBy(m, elimclauses)
    <2>2. n \in Assignments /\ Satisfies(n, given) /\ Same(n, m, cnf.eliminated)
      BY <2>1 DEF IInv, Sound, Right
    <2> HIDE DEF n
    <2>3. Satisfies(n, Theory)
      BY <1>3, <2>1, <2>2, TheoryKept DEF Models
    <2>4. ASSUME NEW p \in left PROVE p \in n <=> p \in m
      <3>1. PICK v \in Var : p = v \/ p = -v
        BY Literals
      <3>2. v \in Lit /\ v \notin cnf.eliminated
        BY <2>4, <3>1, Literals
      <3>3. v \in n <=> v \in m
        BY <2>2, <3>2 DEF Same
      <3> QED BY <1>3, <2>2, <3>1, <3>2, <3>3, AssignmentFacts
    <2>5. n \cap left = m \cap left
      <3> HIDE DEF left
      <3> QED BY <2>4
    <2>6. Satisfies(n, given \cup Theory)
      BY <2>2, <2>3 DEF Satisfies
    <2> QED BY <2>2, <2>5, <2>6
  <1> HIDE DEF left
  <1>4. CASE cnf.ok
    <2>1. solutions(given \cup Theory) \subseteq solutions(Constraints)
      BY <1>2
    <2>2. solutions(Constraints) \subseteq solutions(given \cup Theory)
      BY <1>3, <1>4
    <2>3. solutions(given \cup Theory) = solutions(Constraints)
      BY <2>1, <2>2
    <2> QED BY <1>4, <2>3 DEF Preserved, left
  <1>5. CASE ~cnf.ok
    <2>1. solutions(given \cup Theory) = {}
      BY <1>2, <1>5
    <2> QED BY <1>5, <2>1 DEF Preserved, left
  <1> QED BY <1>4, <1>5

\* The invariant implies that nothing is left to subsume.
LEMMA IInvNothingSubsumed == ASSUME IInv PROVE NothingSubsumed
  <1> SUFFICES ASSUME phase = "main", ~Busy, complete, NEW c \in cnf.db
               PROVE  /\ Usable(c)
                      /\ c \cap (cnf.units \cup {-p : p \in cnf.units}) = {}
                      /\ \A d \in cnf.db \ {c} : ~(c \subseteq d) /\ Strengthens(c, d) = {}
    BY DEF NothingSubsumed
  <1>1. phase \in Work /\ cnf.ok /\ use_simplification
    BY DEF Work, IInv, FrozenInv
  <1>2. cnf.touched = {} /\ cnf.checked = cnf.units
    BY DEF Busy
  <1>3. cnf.queue = {}
    BY <1>1, <1>2 DEF IInv, QueueInv
  <1>4. Usable(c)
    BY DEF Usable, IInv, Tidy, Proper
  <1>5. c \cap (cnf.units \cup {-p : p \in cnf.units}) = {}
    BY <1>1, <1>2 DEF IInv, CheckedInv, Clean
  <1>6. \A d \in cnf.db \ {c} : ~Redundant(c, d)
    BY <1>1, <1>2, <1>3 DEF IInv, QueueInv, Looked
  <1> QED BY <1>4, <1>5, <1>6 DEF Redundant

\* An answer is right.
RightAnswer ==
    LET all == given \cup Theory \cup Units(asked)
    IN /\ status' = "True" => model' \in Assignments /\ Satisfies(model', all)
       /\ status' = "False" => ~\E m \in Assignments : Satisfies(m, all)

\* An answer that ends the search is right.
LEMMA SearchAnswers == ASSUME IInv, Search PROVE RightAnswer
  <1> DEFINE all == given \cup Theory \cup Units(asked)
  <1>1. Answer /\ phase = "search" /\ TypeInv /\ cnf \in Cnf
    BY DEF Search, IInv, TypeInv
  <1>2. \A m \in Models : Meets(m, cnf) <=> cnf.ok /\ Satisfies(m, Constraints)
    BY MeetsFacts
  <1>3. ASSUME status' = "True" PROVE model' \in Assignments /\ Satisfies(model', all)
    <2>1. cnf.ok /\ \E m \in Assignments :
                      Satisfies(m, Constraints \cup Units(asked)) /\ model' = ExtendModel(m)
      BY <1>1, <1>3 DEF Answer
    <2>2. PICK m \in Assignments :
                 Satisfies(m, Constraints \cup Units(asked)) /\ model' = ExtendModel(m)
      BY <2>1
    <2>3. m \in Models /\ Satisfies(m, Constraints) /\ asked \subseteq m
      BY <2>2, SatisfiesFacts DEF Models, Constraints
    <2>4. Meets(m, cnf)
      BY <1>2, <2>1, <2>3
    <2> DEFINE n == ExtendedBy(m, elimclauses)
    <2>5. n \in Assignments /\ Satisfies(n, given) /\ Same(n, m, cnf.eliminated)
      BY <2>3, <2>4 DEF IInv, Sound, Right
    <2>6. model' = n
      BY <2>2 DEF ExtendModel
    <2> HIDE DEF n
    <2>7. Satisfies(n, Theory)
      BY <2>3, <2>5, TheoryKept DEF Models
    <2>8. asked \subseteq n
      <3>1. asked \in Clause /\ Vars(asked) \cap cnf.eliminated = {}
        BY <1>1 DEF TypeInv, IInv, FrozenInv
      <3>2. cnf.eliminated \in SUBSET Var
        BY <1>1 DEF Cnf
      <3> DEFINE V == cnf.eliminated
      <3>3. Same(n, m, V) /\ V \in SUBSET Var
        BY <2>5, <3>2
      <3> HIDE DEF V
      <3>4. \A c \in Clause : Vars(c) \cap V = {} =>
              (Satisfies(m, {c}) <=> Satisfies(n, {c})) /\ (c \subseteq m <=> c \subseteq n)
        BY <2>5, <3>3, SameFacts
      <3>5. \A c \in Clause : Vars(c) \cap cnf.eliminated = {} => (c \subseteq m <=> c \subseteq n)
        BY <3>4 DEF V
      <3> QED BY <2>3, <3>1, <3>5
    <2> QED BY <2>5, <2>6, <2>7, <2>8, SatisfiesFacts
  <1>4. ASSUME status' = "False", NEW m \in Assignments, Satisfies(m, all) PROVE FALSE
    <2>1. m \in Models /\ Satisfies(m, given) /\ asked \subseteq m
      BY <1>4, SatisfiesFacts DEF Models
    <2>2. cnf.ok /\ Satisfies(m, Constraints)
      BY <1>2, <2>1 DEF IInv, Sound, Right
    <2>3. PICK core \in SUBSET asked :
                 ~\E a \in Assignments : Satisfies(a, Constraints \cup Units(core))
      BY <1>1, <1>4, <2>2 DEF Answer
    <2>4. Satisfies(m, Constraints \cup Units(core))
      BY <2>1, <2>2 DEF Satisfies, Units
    <2> QED BY <2>3, <2>4
  <1> QED BY <1>3, <1>4 DEF RightAnswer

\* Whichever step ends the call, the answer is right.
LEMMA AnswerStep ==
    ASSUME IInv, [Next]_vars, phase # "idle", phase' = "idle" PROVE RightAnswer
  <1>1. ASSUME Answered PROVE RightAnswer
    <2>1. status' = "False" /\ \A m \in Models : ~Satisfies(m, given)
      BY <1>1 DEF Answered
    <2>2. \A m \in Assignments : ~Satisfies(m, given \cup Theory \cup Units(asked))
      BY <2>1 DEF Models, Satisfies
    <2> QED BY <2>1, <2>2 DEF RightAnswer
  <1>2. CASE Simplify
    BY <1>1, <1>2, SimplifyInv
  <1>3. CASE Gather
    BY <1>1, <1>3, GatherInv
  <1>4. CASE Subsume
    BY <1>1, <1>4, SubsumeInv
  <1>5. CASE Subsumed
    BY <1>1, <1>5, SubsumedInv
  <1>6. CASE Elim
    BY <1>1, <1>6, ElimInv
  <1>7. CASE Cleanup
    BY <1>1, <1>7, CleanupInv
  <1>8. CASE Search
    BY <1>8, SearchAnswers
  <1>9. ~(\E c \in Problem : AddClause(c)) /\ ~(\E v \in Kept : SetFrozen(v))
        /\ ~DisablePreprocessing
        /\ ~(\E A \in Assumptions, doSimp, off \in BOOLEAN : Solve(A, doSimp, off))
    BY DEF AddClause, SetFrozen, DisablePreprocessing, Solve
  <1>10. ~Interrupt /\ ~UNCHANGED vars
    BY DEF Interrupt, vars
  <1> QED BY <1>2, <1>3, <1>4, <1>5, <1>6, <1>7, <1>8, <1>9, <1>10 DEF Next, Step

\* Preprocessing loses and invents nothing (subsumption, strengthening, elimination,
\* interrupts in any of them, and clauses added afterwards): the user's clauses and
\* what is left of them have the same solutions, seen from the variables left.
THEOREM PreservedAlways == Spec => []Preserved
  <1>1. IInv => Preserved
    BY IInvPreserved
  <1> QED BY Invariant, <1>1, PTL

\* When the main loop of eliminate ends uninterrupted, backward subsumption has left
\* nothing undone, although each clause was looked at only when queued or touched.
THEOREM NothingSubsumedAlways == Spec => []NothingSubsumed
  <1>1. IInv => NothingSubsumed
    BY IInvNothingSubsumed
  <1> QED BY Invariant, <1>1, PTL

\* Every answer of solve_ is right: a model, extended to the eliminated variables by
\* extendModel, satisfies the user's clauses, the theories and the assumptions, and
\* when the answer is False there is none.
THEOREM AnswersAreRight == Spec => AnswersRight
  <1>1. IInv /\ [Next]_vars => [phase # "idle" /\ phase' = "idle" => RightAnswer]_vars
    BY AnswerStep
  <1>2. Spec => [][phase # "idle" /\ phase' = "idle" => RightAnswer]_vars
    BY <1>1, Invariant, PTL DEF Spec
  <1> QED BY <1>2 DEF AnswersRight, RightAnswer
=============================================================================
