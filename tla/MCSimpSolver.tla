---------------------------- MODULE MCSimpSolver ----------------------------
(***************************************************************************)
(* Three variables, one of a theory that makes it false.  With that, the   *)
(* clauses are unsatisfiable together and satisfiable when one is missing. *)
(***************************************************************************)
EXTENDS SimpSolver

MCProblem == {{1, 2, 3}, {-1, 2}, {1, -2}, {-1, -2}}
MCTheory == {{-3}}
MCAssumptions == {{}, {2}}
=============================================================================
