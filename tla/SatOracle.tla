----------------------------- MODULE SatOracle -----------------------------
(***************************************************************************)
(* What the solver promises its user: a clause may be added between calls, *)
(* and solve(assumps) ends with a model of the clauses, the theory and the *)
(* assumptions, or with the assumptions it found not to be satisfiable     *)
(* together.                                                               *)
(***************************************************************************)
EXTENDS Integers, FiniteSets

CONSTANTS Vars,     \* a finite set of positive integers; literals are v and -v
          Theory,   \* the clauses of the theory, as sets of literals
          Clauses   \* the clauses the user may add

VARIABLES clauses,  \* those added
          assumed,  \* the assumptions of the call that runs, or of the last one
          status,   \* "idle", "solving", "True" or "False"
          answer    \* the model, or the assumptions in conflict

vars == <<clauses, assumed, status, answer>>

Models == {{IF f[v] THEN v ELSE -v : v \in Vars} : f \in [Vars -> BOOLEAN]}
Satisfies(M, S) == \A C \in S : M \cap C # {}
Units(A) == {{p} : p \in A}
Entails(S, C) == \A M \in Models : Satisfies(M, S) => M \cap C # {}

Init == /\ clauses = {} /\ assumed = {} /\ status = "idle" /\ answer = {}

Add(C) == /\ status # "solving"
          /\ clauses' = clauses \cup {C}
          /\ UNCHANGED <<assumed, status, answer>>

Solve(A) == /\ status # "solving"
            /\ status' = "solving" /\ assumed' = A /\ answer' = {}
            /\ UNCHANGED clauses

AnswerTrue(M) ==
    /\ status = "solving"
    /\ M \in Models /\ Satisfies(M, clauses \cup Theory \cup Units(assumed))
    /\ status' = "True" /\ answer' = M /\ UNCHANGED <<clauses, assumed>>

AnswerFalse(core) ==
    /\ status = "solving"
    /\ core \subseteq assumed
    /\ Entails(clauses \cup Theory \cup Units(core), {})
    /\ status' = "False" /\ answer' = core /\ UNCHANGED <<clauses, assumed>>

Next == \/ \E C \in Clauses : Add(C)
        \/ \E A \in SUBSET (Vars \cup {-v : v \in Vars}) : Solve(A)
        \/ \E M \in Models : AnswerTrue(M)
        \/ \E core \in SUBSET assumed : AnswerFalse(core)

Spec == Init /\ [][Next]_vars
=============================================================================
