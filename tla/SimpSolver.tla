----------------------------- MODULE SimpSolver -----------------------------
(***************************************************************************)
(* The solver with preprocessing (src/monosat/simp/SimpSolver.cc):         *)
(* backward subsumption, elimination of variables by resolution, and the   *)
(* extension of models to eliminated variables, over many calls of solve   *)
(* with clauses added in between.  The search behind it is known by its    *)
(* contract.                                                               *)
(*                                                                         *)
(* Literals are integers and clauses sets of them.  A clause that comes    *)
(* about twice is kept once: the other would be removed at its turn, which *)
(* puts its variables on the heap.  Queues are sets, and any member may be *)
(* next.                                                                   *)
(***************************************************************************)
EXTENDS Integers, Sequences, FiniteSets, SequencesExt

CONSTANTS
    NVars,
    Problem,      \* the clauses the user may add
    Theory,       \* what the theories demand, as clauses over their literals
    Assumptions,
    Kept,         \* variables the user may ask to keep
    Grow,         \* grow
    ClauseLim,    \* clause_lim
    MaxSolves     \* bound: calls of solve

Var == 1..NVars
Lit == Var \cup {-v : v \in Var}
Clause == SUBSET Lit
Vars(c) == {v \in Var : v \in c \/ -v \in c}

ASSUME SimpSolverAssumption ==
    /\ NVars \in Nat /\ Grow \in Int /\ ClauseLim \in Int /\ MaxSolves \in Nat
    /\ Kept \subseteq Var
    /\ Problem \cup Theory \cup Assumptions \subseteq Clause

VARIABLES
    given,              \* history: the clauses the user has added
    cnf,                \* clauses, assigned literals, and the work to be done on them
    frozen,
    elimclauses,
    use_simplification,
    phase,
    asked, turnOff,     \* the arguments of this call
    extraFrozen, interrupt, solves,
    complete,           \* history: no call was interrupted so far
    status, model, conflict

call == <<asked, turnOff, extraFrozen, solves, complete>>
result == <<status, model, conflict>>
vars == <<given, cnf, frozen, elimclauses, use_simplification, phase, interrupt, call, result>>

-----------------------------------------------------------------------------
Assignments == {{IF f[v] THEN v ELSE -v : v \in Var} : f \in [Var -> BOOLEAN]}
Satisfies(m, C) == \A c \in C : \E p \in c : p \in m
Units(ps) == {{p} : p \in ps}

\* Unit propagation, as often as it can have an effect.
Propagated(u, db) ==
    u \cup {p \in Lit : \E c \in db : p \in c /\ \A q \in c \ {p} : -q \in u}
Closure(units, db) ==
    LET u[i \in 0..NVars] == IF i = 0 THEN units ELSE Propagated(u[i - 1], db)
    IN u[NVars]

\* enqueue and propagate.
Enqueue(s, ps) ==
    LET u == Closure(s.units \cup ps, s.db)
    IN [s EXCEPT !.units = u, !.ok = \A p \in u : -p \notin u]

\* updateElimHeap.
UpdateElimHeap(s, V) ==
    [s EXCEPT !.heap = @ \cup {v \in V \ (frozen \cup s.eliminated) :
                                 v \notin s.units /\ -v \notin s.units}]

RemoveClauses(s, C) ==
    UpdateElimHeap([s EXCEPT !.db = @ \ C, !.queue = @ \ C], UNION {Vars(c) : c \in C})
RemoveClause(s, c) == RemoveClauses(s, {c})

\* A clause that is new, or new in this form, is to be looked at.
Insert(s, c) ==
    LET t == [s EXCEPT !.db = @ \cup {c}, !.queue = @ \cup {c}]
    IN IF c \in s.db THEN UpdateElimHeap(t, Vars(c)) ELSE t

\* Mutant of AddClause_: the variables of the clause are not touched.
AddClause_untouched(s, c) ==
    LET rest == {p \in c : -p \notin s.units}
    IN IF ~s.ok \/ \E p \in c : p \in s.units \/ -p \in c THEN s
       ELSE IF rest = {} THEN [s EXCEPT !.ok = FALSE]
       ELSE IF Cardinality(rest) = 1 THEN Enqueue(s, rest)
       ELSE IF use_simplification THEN Insert(s, rest)
       ELSE [s EXCEPT !.db = @ \cup {rest}]

AddClause_(s, c) ==
    LET rest == {p \in c : -p \notin s.units}
    IN IF ~s.ok \/ \E p \in c : p \in s.units \/ -p \in c THEN s
       ELSE IF rest = {} THEN [s EXCEPT !.ok = FALSE]
       ELSE IF Cardinality(rest) = 1 THEN Enqueue(s, rest)
       ELSE IF use_simplification
         THEN [Insert(s, rest) EXCEPT !.touched = @ \cup Vars(rest)]
       ELSE [s EXCEPT !.db = @ \cup {rest}]

\* The clauses of C are added one after the other.
AddClauses(s, C) ==
    LET cs == SetToSeq(C)
        t[i \in 0..Len(cs)] == IF i = 0 THEN s ELSE AddClause_(t[i - 1], cs[i])
    IN t[Len(cs)]

\* l is taken out of c, with the literals that are false by now.
StrengthenClause(s, c, l) ==
    LET others == c \ {l}
        rest == {p \in others : -p \notin s.units}
    IN IF Cardinality(c) = 2 THEN Enqueue(RemoveClause(s, c), others)
       ELSE IF others \cap s.units # {} THEN RemoveClause(s, c)
       ELSE IF rest = {} THEN [s EXCEPT !.ok = FALSE]
       ELSE IF Cardinality(rest) = 1 THEN Enqueue(RemoveClause(s, c), rest)
       ELSE UpdateElimHeap(Insert([s EXCEPT !.db = @ \ {c}, !.queue = @ \ {c}], rest),
                           Vars({l}))

-----------------------------------------------------------------------------
(***************************************************************************)
(* The user, between calls of solve.                                       *)
(***************************************************************************)
\* Mutant of TheoryVars: literals of theories may be eliminated.
TheoryVars_free == {}

\* setTheoryVar freezes.
TheoryVars == UNION {Vars(c) : c \in Theory}

Init ==
    /\ given = {}
    /\ cnf = [db |-> {}, units |-> {}, checked |-> {}, queue |-> {}, touched |-> {},
              heap |-> Var, eliminated |-> {}, ok |-> TRUE]
    /\ frozen = TheoryVars /\ elimclauses = <<>> /\ use_simplification = TRUE
    /\ phase = "idle" /\ asked = {} /\ turnOff = FALSE /\ extraFrozen = {}
    /\ interrupt = FALSE /\ solves = 0 /\ complete = TRUE
    /\ status = "Undef" /\ model = {} /\ conflict = {}

\* Clauses and assumptions must not mention eliminated variables (asserted).
Usable(c) == Vars(c) \cap cnf.eliminated = {}

AddClause(c) ==
    /\ phase = "idle" /\ c \notin given /\ Usable(c)
    /\ given' = given \cup {c} /\ cnf' = AddClause_(cnf, c)
    /\ UNCHANGED <<frozen, elimclauses, use_simplification, phase, interrupt, call, result>>

\* disallowLiteralSimplification.
SetFrozen(v) ==
    /\ phase = "idle" /\ Usable({v}) /\ v \notin frozen /\ frozen' = frozen \cup {v}
    /\ UNCHANGED <<given, cnf, elimclauses, use_simplification, phase, interrupt, call, result>>

Disabled(s) == [s EXCEPT !.queue = {}, !.touched = {}, !.heap = {}]

DisablePreprocessing ==
    /\ phase = "idle" /\ use_simplification
    /\ use_simplification' = FALSE /\ cnf' = Disabled(cnf)
    /\ UNCHANGED <<given, frozen, elimclauses, phase, interrupt, call, result>>

\* solve_, up to eliminate.
Solve(A, doSimp, off) ==
    /\ phase = "idle" /\ solves < MaxSolves /\ Usable(A)
    /\ solves' = solves + 1 /\ asked' = A /\ turnOff' = off /\ interrupt' = FALSE
    /\ IF doSimp /\ cnf.ok /\ use_simplification
         THEN /\ phase' = "simplify"
              /\ extraFrozen' = Vars(A) \ frozen /\ frozen' = frozen \cup Vars(A)
         ELSE phase' = "search" /\ extraFrozen' = {} /\ UNCHANGED frozen
    /\ UNCHANGED <<given, cnf, elimclauses, use_simplification, complete, result>>

Interrupt ==
    /\ phase \notin {"idle", "search"} /\ ~interrupt /\ interrupt' = TRUE /\ complete' = FALSE
    /\ UNCHANGED <<given, cnf, frozen, elimclauses, use_simplification, phase, asked, turnOff,
                   extraFrozen, solves, result>>

-----------------------------------------------------------------------------
(***************************************************************************)
(* eliminate.                                                              *)
(***************************************************************************)
\* Variables that were frozen for this call only.
Thawed(s) ==
    IF use_simplification
      THEN [s EXCEPT !.heap = @ \cup {v \in extraFrozen \ s.eliminated :
                                        v \notin s.units /\ -v \notin s.units}]
      ELSE s

\* eliminate finds a contradiction: solve_ returns without the search, which
\* would have emptied model and conflict.
Fail(s) ==
    /\ phase' = "idle" /\ status' = "False"
    /\ use_simplification' = (use_simplification /\ ~turnOff)
    /\ cnf' = [(IF turnOff THEN Disabled(s) ELSE Thawed(s)) EXCEPT !.ok = FALSE]
    /\ frozen' = frozen \ extraFrozen /\ extraFrozen' = {}
    /\ UNCHANGED <<given, elimclauses, interrupt, asked, turnOff, solves, complete,
                   model, conflict>>

Continue(s, to) ==
    /\ cnf' = s /\ phase' = to
    /\ UNCHANGED <<given, frozen, use_simplification, interrupt, call, result>>

\* Literals at level 0 that the theories, or clauses learnt by the search, imply.
Learnable(s) ==
    LET M == {m \in Assignments : Satisfies(m, s.db \cup Units(s.units) \cup Theory)}
    IN {p \in Lit : \A m \in M : p \in m}

\* simplify.  With remove_satisfied off, it propagates and no more.
Simplify ==
    /\ phase = "simplify"
    /\ \E ps \in {{}} \cup Units(Learnable(cnf)) :
         LET s == Enqueue(cnf, ps)
         IN IF s.ok THEN Continue(s, "main") /\ UNCHANGED elimclauses ELSE Fail(s)

Busy == cnf.touched # {} \/ cnf.checked # cnf.units \/ cnf.heap # {}

\* Mutant of Gather: the touched variables are not reset.
Gather_stillTouched ==
    /\ phase = "main" /\ Busy
    /\ Continue([cnf EXCEPT !.queue = @ \cup {c \in cnf.db : Vars(c) \cap cnf.touched # {}}],
                "subsume")
    /\ UNCHANGED elimclauses

\* gatherTouchedClauses, and backwardSubsumptionCheck begins.
Gather ==
    /\ phase = "main" /\ Busy
    /\ Continue([cnf EXCEPT !.queue = @ \cup {c \in cnf.db : Vars(c) \cap cnf.touched # {}},
                            !.touched = {}], "subsume")
    /\ UNCHANGED elimclauses

\* The literals by which c strengthens d.
Strengthens(c, d) == {l \in c : -l \in d /\ c \ {l} \subseteq d}

\* Mutant of Visit: the literal of the other clause is taken for that of this one.
Visit_flipped(c, s, d) ==
    IF ~s.ok THEN s
    ELSE IF c \subseteq d THEN RemoveClause(s, d)
    ELSE IF Strengthens(c, d) # {}
      THEN StrengthenClause(s, d, CHOOSE p \in d : p \in c \/ -p \in Strengthens(c, d))
    ELSE s

Visit(c, s, d) ==
    IF ~s.ok THEN s
    ELSE IF c \subseteq d THEN RemoveClause(s, d)
    ELSE IF Strengthens(c, d) # {}
      THEN StrengthenClause(s, d, -(CHOOSE l \in Strengthens(c, d) : TRUE))
    ELSE s

\* c visits the clauses of D.
VisitAll(c, s, D) ==
    LET ds == SetToSeq(D)
        t[i \in 0..Len(ds)] == IF i = 0 THEN s ELSE Visit(c, t[i - 1], ds[i])
    IN t[Len(ds)]

\* One clause of the queue, or when there is none, an assigned literal, against
\* all clauses.  When strengthening has found a unit clause, the theories
\* propagate, too.
SubsumeWith(s, c) ==
    LET t == VisitAll(c, s, s.db \ {c})
    IN \E ps \in {{}} \cup (IF t.units = s.units THEN {} ELSE Units(Learnable(t))) :
         LET u == IF ps = {} \/ ~t.ok THEN t ELSE Enqueue(t, ps)
         IN IF u.ok THEN Continue(u, phase) /\ UNCHANGED elimclauses ELSE Fail(u)

Subsume ==
    /\ phase \in {"subsume", "eliminated"} /\ ~interrupt
    /\ \/ \E c \in cnf.queue : SubsumeWith([cnf EXCEPT !.queue = @ \ {c}], c)
       \/ /\ cnf.queue = {}
          /\ \E l \in cnf.units \ cnf.checked :
               SubsumeWith([cnf EXCEPT !.checked = @ \cup {l}], {l})

\* The check is done, or cut short; in the latter case the main loop ends as well.
Subsumed ==
    /\ phase \in {"subsume", "eliminated"}
    /\ interrupt \/ (cnf.queue = {} /\ cnf.checked = cnf.units)
    /\ IF interrupt
         THEN LET s == [cnf EXCEPT !.queue = {}, !.checked = cnf.units]
              IN IF phase = "subsume" THEN Continue([s EXCEPT !.heap = {}], "cleanup")
                 ELSE Continue(s, "elim")
         ELSE Continue(cnf, "elim")
    /\ UNCHANGED elimclauses

\* merge.
Clash(p, n, v) == \E l \in p : -l \in n /\ l \notin {v, -v}
Resolvent(p, n, v) == (p \cup n) \ {v, -v}

\* Mutant of Stored: the clauses of the other side.
Stored_otherSide(pos, neg, v) ==
    LET side == IF Cardinality(pos) > Cardinality(neg)
                  THEN [cs |-> neg, lit |-> -v] ELSE [cs |-> pos, lit |-> v]
    IN [i \in 1..Cardinality(side.cs) |->
          [lit |-> side.lit, rest |-> SetToSeq(side.cs)[i] \ {side.lit}]]
       \o <<[lit |-> side.lit, rest |-> {}]>>

\* mkElimClause: the clauses of the smaller side, and last the opposite value
\* by default.
Stored(pos, neg, v) ==
    LET side == IF Cardinality(pos) > Cardinality(neg)
                  THEN [cs |-> neg, lit |-> -v] ELSE [cs |-> pos, lit |-> v]
    IN [i \in 1..Cardinality(side.cs) |->
          [lit |-> side.lit, rest |-> SetToSeq(side.cs)[i] \ {side.lit}]]
       \o <<[lit |-> -side.lit, rest |-> {}]>>

EliminateVar(v, h) ==
    LET pos == {c \in h.db : v \in c}
        neg == {c \in h.db : -v \in c}
        pairs == {pn \in pos \X neg : ~Clash(pn[1], pn[2], v)}
        gone == RemoveClauses([h EXCEPT !.eliminated = @ \cup {v}], pos \cup neg)
        t == AddClauses(gone, {Resolvent(pn[1], pn[2], v) : pn \in pairs})
        tooLong == {pn \in pairs : Cardinality(Resolvent(pn[1], pn[2], v)) > ClauseLim}
    IN IF Cardinality(pairs) > Cardinality(pos \cup neg) + Grow
            \/ (ClauseLim # -1 /\ tooLong # {})
         THEN Continue(h, "elim") /\ UNCHANGED elimclauses
       ELSE IF t.ok
         THEN /\ Continue(t, "eliminated")
              /\ elimclauses' = elimclauses \o Stored(pos, neg, v)
       ELSE Fail(t)

Elim ==
    /\ phase = "elim"
    /\ \/ cnf.heap = {} /\ Continue(cnf, "main") /\ UNCHANGED elimclauses
       \/ \E v \in cnf.heap :
            LET h == [cnf EXCEPT !.heap = @ \ {v}]
            IN IF interrupt THEN Continue(h, "main") /\ UNCHANGED elimclauses
               ELSE IF v \in cnf.eliminated \cup frozen \/ {v, -v} \cap cnf.units # {}
                 THEN Continue(h, "elim") /\ UNCHANGED elimclauses
               ELSE EliminateVar(v, h)

Cleanup ==
    /\ \/ phase = "main" /\ ~Busy
       \/ phase = "cleanup"
    /\ phase' = "search"
    /\ use_simplification' = (use_simplification /\ ~turnOff)
    /\ cnf' = IF turnOff THEN Disabled(cnf) ELSE cnf
    /\ UNCHANGED <<given, frozen, elimclauses, interrupt, call, result>>

-----------------------------------------------------------------------------
(***************************************************************************)
(* The search, and what is made of its answer.                             *)
(***************************************************************************)
\* A stored literal becomes true when the rest of its clause is false.
Extended(m, e) == IF m \cap e.rest = {} THEN (m \ {-e.lit}) \cup {e.lit} ELSE m

\* The stack s, from its end.
ExtendedBy(m, s) ==
    LET n[i \in 0..Len(s)] ==
          IF i = 0 THEN m ELSE Extended(n[i - 1], s[Len(s) + 1 - i])
    IN n[Len(s)]

\* Mutant of ExtendModel: variables in the order of their elimination.
ExtendModel_forward(m) == ExtendedBy(m, Reverse(elimclauses))

\* Variables in reverse order of their elimination.
ExtendModel(m) == ExtendedBy(m, elimclauses)

Constraints == cnf.db \cup Units(cnf.units) \cup Theory

Answer ==
    \/ /\ status' = "Undef" /\ model' = {} /\ conflict' = {} /\ cnf.ok
       /\ cnf' = Thawed(cnf)
    \/ /\ status' = "True" /\ conflict' = {} /\ cnf.ok
       /\ \E m \in Assignments :
             Satisfies(m, Constraints \cup Units(asked)) /\ model' = ExtendModel(m)
       /\ \E ps \in {{}} \cup Units(Learnable(cnf)) : cnf' = Thawed(Enqueue(cnf, ps))
    \/ /\ status' = "False" /\ model' = {}
       /\ \E core \in SUBSET asked :
             /\ ~cnf.ok => core = {}
             /\ cnf.ok => ~\E m \in Assignments : Satisfies(m, Constraints \cup Units(core))
             /\ conflict' = {-p : p \in core}
             /\ cnf' = [Thawed(cnf) EXCEPT !.ok = cnf.ok /\ core # {}]

Search ==
    /\ phase = "search" /\ phase' = "idle" /\ interrupt' = FALSE
    /\ Answer
    /\ frozen' = frozen \ extraFrozen /\ extraFrozen' = {}
    /\ UNCHANGED <<given, elimclauses, use_simplification, asked, turnOff,
                   solves, complete>>

Step ==
    \/ Simplify \/ Gather \/ Subsume \/ Subsumed \/ Elim \/ Cleanup \/ Search

Next ==
    \/ Step
    \/ \E c \in Problem : AddClause(c)
    \/ \E v \in Kept : SetFrozen(v)
    \/ DisablePreprocessing
    \/ \E A \in Assumptions, doSimp, off \in BOOLEAN : Solve(A, doSimp, off)
    \/ Interrupt

\* One thread; the search returns.  A step of its own is enabled in every phase
\* but "idle", so that this is weak fairness of Step.
Fairness == []<>(phase = "idle") \/ []<><<Step>>_vars

Spec == Init /\ [][Next]_vars /\ Fairness

-----------------------------------------------------------------------------
(***************************************************************************)
(* Properties.                                                             *)
(***************************************************************************)
\* Preprocessing loses and invents nothing: the user's clauses and what is left
\* of them have the same solutions, seen from the variables that are left.
Preserved ==
    LET left == Lit \ (cnf.eliminated \cup {-v : v \in cnf.eliminated})
        solutions(C) == {m \cap left : m \in {a \in Assignments : Satisfies(a, C)}}
    IN solutions(given \cup Theory) = IF cnf.ok THEN solutions(Constraints) ELSE {}

\* Every answer is right: the model satisfies the user's own clauses,
\* eliminated ones included, the theories and the assumptions.
AnswersRight ==
    [][phase # "idle" /\ phase' = "idle" =>
         LET all == given \cup Theory \cup Units(asked)
         IN /\ status' = "True" => model' \in Assignments /\ Satisfies(model', all)
            /\ status' = "False" => ~\E m \in Assignments : Satisfies(m, all)]_vars

\* When preprocessing is done, and no call has been interrupted, no clause
\* subsumes or strengthens another, and none mentions an assigned or an
\* eliminated variable.
NothingSubsumed ==
    phase = "main" /\ ~Busy /\ complete =>
      \A c \in cnf.db :
        /\ Usable(c) /\ c \cap (cnf.units \cup {-p : p \in cnf.units}) = {}
        /\ \A d \in cnf.db \ {c} : ~(c \subseteq d) /\ Strengthens(c, d) = {}

\* Every call returns, however much work elimination makes for subsumption.
Terminates == phase # "idle" ~> phase = "idle"
=============================================================================
