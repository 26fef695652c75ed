----------------------------- MODULE MCBVTheory -----------------------------
(***************************************************************************)
(* Small problems for the checks of BVTheory.                              *)
(***************************************************************************)
EXTENDS BVTheory

BitsOf(b) == [kind |-> "bits", bv |-> b]
Const(n, b, rel, to) == [kind |-> "const", bv |-> b, rel |-> rel, to |-> to, lit |-> <<0, n>>]
CompareOf(n, b, rel, other) ==
    << [kind |-> "compare", bv |-> b, rel |-> rel, other |-> other, lit |-> <<0, n>>],
       [kind |-> "compare", bv |-> other, rel |-> Flip(rel), other |-> b, lit |-> <<0, n>>] >>
SumOf(s, a, b) ==
    << [kind |-> "sum", bv |-> s, args |-> <<a, b>>],
       [kind |-> "arg", bv |-> a, other |-> b, sum |-> s],
       [kind |-> "arg", bv |-> b, other |-> a, sum |-> s] >>

Both(v) == {<<v, TRUE>>, <<v, FALSE>>}

\* Two bit-vectors, one less than the other.
Ordered ==
    [bvs |-> 2,
     operations |-> <<BitsOf(1), BitsOf(2)>> \o CompareOf(1, 2, "lt", 1)
                      \o <<Const(2, 1, "leq", 2), Const(3, 2, "geq", 1)>>,
     levels |-> 1, postponed |-> 0,
     free |-> <<Both(<<0, 1>>) \cup {<<<<0, 2>>, TRUE>>, <<<<1, 0>>, TRUE>>}>>]

\* A sum.
Added ==
    [bvs |-> 3,
     operations |-> <<BitsOf(1), BitsOf(2), BitsOf(3)>> \o SumOf(3, 1, 2)
                      \o <<Const(1, 3, "leq", 2), Const(2, 1, "geq", 1)>>,
     levels |-> 1, postponed |-> 0,
     free |-> <<{<<<<0, 1>>, TRUE>>, <<<<0, 2>>, TRUE>>}, {<<<<2, 0>>, TRUE>>}>>]

\* The same, with less to say about them, but on two levels.
Nested ==
    [bvs |-> 2,
     operations |-> <<BitsOf(1), BitsOf(2)>> \o CompareOf(1, 2, "lt", 1)
                      \o <<Const(2, 1, "leq", 2)>>,
     levels |-> 2, postponed |-> 0,
     free |-> <<{<<<<0, 2>>, TRUE>>}, {<<<<0, 1>>, TRUE>>}>>]

\* A bit-vector and what it is compared with; a literal may come late.
Late ==
    [bvs |-> 1,
     operations |-> <<BitsOf(1), Const(1, 1, "leq", 2), Const(2, 1, "geq", 1)>>,
     levels |-> 1, postponed |-> 1,
     free |-> <<{<<<<0, 1>>, TRUE>>, <<<<0, 2>>, TRUE>>}>>]

\* A sum, an argument of which is compared with a fourth bit-vector.
Mixed ==
    [bvs |-> 4,
     operations |-> <<BitsOf(1), BitsOf(2), BitsOf(3), BitsOf(4)>> \o SumOf(3, 1, 2)
                      \o CompareOf(1, 4, "geq", 2)
                      \o <<Const(2, 3, "leq", 2), Const(3, 1, "geq", 1)>>,
     levels |-> 1, postponed |-> 0,
     free |-> <<{<<<<0, 2>>, TRUE>>, <<<<0, 3>>, TRUE>>}, {<<<<1, 1>>, TRUE>>},
                {<<<<2, 0>>, FALSE>>}, {<<<<4, 0>>, TRUE>>}>>]

MCProblems == <<Ordered, Added, Nested, Late>>
MCMixed == <<Mixed>>
=============================================================================
