------------------------------ MODULE MCSolver ------------------------------
(***************************************************************************)
(* The problems on which SolverProperties is checked.                      *)
(***************************************************************************)
EXTENDS SolverProperties

\* Unsatisfiable once all three clauses are given, by way of the theory.
SearchProblem == {<<1, 2, -3>>, <<-1, 4>>, <<-4>>}
SearchLemmas == <<<<-2, -3, -4>>, <<2, 3>>, <<-2, 4>>>>
SearchAssumptions == {<<>>, <<2, 1>>, <<1, -4>>}

\* The theory says that exactly one of 2 and 3 is true.
LazyProblem == {<<1, 2>>, <<-1, 3>>}
LazyLemmas == <<<<-2, -3>>, <<2, 3>>>>
LazyAssumptions == {<<>>, <<1, -3>>, <<-3, -2>>}

\* The theory knows two facts and one implication, and may say so at any time.
AddProblem == {<<-1, 3>>, <<-2, -3>>}
AddLemmas == <<<<-1, 2>>, <<1>>, <<-3>>>>
AddAssumptions == {<<>>, <<1, -2>>}
=============================================================================
