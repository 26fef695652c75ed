----------------------------- MODULE BVAnalysis -----------------------------
(***************************************************************************)
(* Reasons and conflicts of bit-vectors                                    *)
(* (src/monosat/bv/BVTheorySolver.h): going back along the trail, every    *)
(* bound that is needed is replaced by the literals and bounds that made   *)
(* it so, as they were at the time.                                        *)
(*                                                                         *)
(* An analysis is a record x: the theory t, the literals of the clause so  *)
(* far, each a variable with the value that makes the literal true, and    *)
(* the bounds still to be explained, <<bit-vector, side, value>>.          *)
(***************************************************************************)
EXTENDS BVBounds

VARIABLES trail, level \* the solver's trail and decision level

SolverVars == {trail[i].var : i \in DOMAIN trail}
PositionOf(v) == CHOOSE i \in DOMAIN trail : trail[i].var = v
LevelOf(v) == IF v \in SolverVars THEN trail[PositionOf(v)].lev ELSE level

\* error: the program throws, or explains a bound that has no cause.
Start(t) == [t |-> t, lits |-> {}, pending |-> {}, error |-> FALSE]

\* The literal of v that is false now.
FalseLiteral(t, v) == <<v, t.assigns[v] = "F">>
AddLiterals(x, V) == [x EXCEPT !.lits = @ \cup {FalseLiteral(x.t, v) : v \in V}]

\* addAnalysis: what holds at level 0 needs no reason.
AddAnalysis(x, b, side, to) ==
    LET over == AtLeast(to, 0)
        under == AtMost(to, Top)
    IN IF side = "over"
         THEN IF to >= Top \/ over >= x.t.base[b].over THEN x
              ELSE [x EXCEPT !.pending = @ \cup {<<b, "over", over>>}]
         ELSE IF to <= 0 \/ under <= x.t.base[b].under THEN x
              ELSE [x EXCEPT !.pending = @ \cup {<<b, "under", under>>}]

\* BitOp: a bit is left out when the bound holds without it.
AnalyzeBits(x, b, rel, to) ==
    LET upper == IsLess(rel)
        value == IF upper THEN "F" ELSE "T"
        spare(n, i) == IF upper THEN n + 2^i ELSE n - 2^i
        add(y, i) ==
          IF y.t.assigns[<<b, i>>] # value THEN y
          ELSE IF Compare(rel, spare(y.bound, i), to) /\ LevelOf(<<b, i>>) > 0
            THEN [y EXCEPT !.bound = spare(@, i)]
          ELSE [y EXCEPT !.lits = @ \cup {FalseLiteral(x.t, <<b, i>>)}]
        y == FoldLeft(add, [t |-> x.t, lits |-> x.lits,
                            bound |-> IF upper THEN x.t.bounds[b].over ELSE x.t.bounds[b].under],
                      [n \in 1..Width |-> n - 1])
    IN [x EXCEPT !.lits = y.lits]

\* Mutant of AnalyzeSum: the bounds of the other argument are not subtracted.
AnalyzeSum_whole(x, o, side) ==
    LET s == x.t.bounds[o.bv]
        to == IF side = "over" THEN s.over ELSE s.under
    IN AddAnalysis(AddAnalysis(x, o.args[1], side, to), o.args[2], side, to)

\* Addition: each argument is within what the other leaves it.
AnalyzeSum(x, o, side) ==
    LET s == x.t.bounds[o.bv]
        a == x.t.bounds[o.args[1]]
        b == x.t.bounds[o.args[2]]
    IN IF side = "over"
         THEN AddAnalysis(AddAnalysis(x, o.args[1], "over", s.over - b.over),
                          o.args[2], "over", s.over - a.over)
         ELSE AddAnalysis(AddAnalysis(x, o.args[1], "under", s.under - b.under),
                          o.args[2], "under", s.under - a.under)

\* AdditionArg.
AnalyzeArg(x, o, side) ==
    LET n == x.t.bounds[o.bv]
        other == x.t.bounds[o.other]
        s == x.t.bounds[o.sum]
    IN IF side = "over"
         THEN AddAnalysis(AddAnalysis(x, o.other, "under", s.over - n.over),
                          o.sum, "over", n.over + other.under)
         ELSE AddAnalysis(AddAnalysis(x, o.other, "over", s.under - n.under),
                          o.sum, "under", n.under + other.over)

\* ComparisonBVOp: the literal, and the bound of the other bit-vector.
AnalyzeCompare(x, o, side) ==
    AddAnalysis(AddLiterals(x, {o.lit}), o.other, side,
                IF side = "over" THEN x.t.bounds[o.other].over ELSE x.t.bounds[o.other].under)

\* analyzeReason of each kind of operation.
AnalyzeReason(x, o, rel, to) ==
    LET side == IF IsLess(rel) THEN "over" ELSE "under"
    IN CASE o.kind = "bits" -> AnalyzeBits(x, o.bv, rel, to)
         [] o.kind = "const" -> AddLiterals(x, {o.lit})
         [] o.kind = "compare" -> AnalyzeCompare(x, o, side)
         [] o.kind = "sum" -> AnalyzeSum(x, o, side)
         [] o.kind = "arg" -> AnalyzeArg(x, o, side)

\* A refined bound is due to the bits and to the bound it was refined from.
AnalyzeRefined(x, b, side) ==
    LET assigned == {<<b, i>> : i \in {j \in 0..(Width - 1) : x.t.assigns[<<b, j>>] # "U"}}
        n == x.t.bounds[b]
        setsIt(e) == e.bv = b /\ IF side = "over" THEN e.old.over > n.over ELSE e.old.under < n.under
        e == x.t.trail[RewindUntil(x.t, {i \in DOMAIN x.t.trail : setsIt(x.t.trail[i])}).pos]
    IN AddAnalysis(AddLiterals(x, assigned), b, side,
                   IF side = "over" THEN e.old.over ELSE e.old.under)

\* analyzeValueReason: why does the bound of b satisfy the comparison?
AnalyzeValueReason(x, rel, b, to) ==
    LET upper == IsLess(rel)
        n == x.t.bounds[b]
        cause == IF upper THEN n.overCause ELSE n.underCause
    IN IF \/ IsConst(x.t, b)
          \/ IF upper THEN n.over >= x.t.base[b].over ELSE n.under <= x.t.base[b].under
         THEN x
       ELSE IF cause = None THEN [x EXCEPT !.error = TRUE]
       ELSE IF cause = Refined THEN AnalyzeRefined(x, b, IF upper THEN "over" ELSE "under")
       ELSE AnalyzeReason(x, Operations[cause], rel, to)

\* What is explained at an entry of the trail: what did not hold before it.
Due(x, e) ==
    {p \in x.pending : /\ p[1] = e.bv
                       /\ IF p[2] = "over" THEN e.old.over > p[3] ELSE e.old.under < p[3]}

ExplainBound(p, x) == AnalyzeValueReason(x, IF p[2] = "over" THEN "leq" ELSE "geq", p[1], p[3])

AnalyzeEntry(x, i) ==
    LET due == Due(x, x.t.trail[i])
    IN IF x.pending = {} THEN x
       ELSE [FoldSet(ExplainBound, [x EXCEPT !.pending = @ \ due], due) EXCEPT !.t = RewindTo(@, i - 1)]

Analyzed(x) == [x EXCEPT !.t = AtEnd(@), !.error = @ \/ x.pending # {}, !.pending = {}]

\* analyze.
Analyze(x) == Analyzed(FoldLeft(AnalyzeEntry, x, Reverse([i \in 1..x.t.pos |-> i])))

\* Why do these hold, each a relation, a bit-vector and a value?
AnalyzeValues(x, values) ==
    Analyze(FoldLeft(LAMBDA y, v : AnalyzeValueReason(y, v[1], v[2], v[3]), x, values))

\* buildComparisonReason: from the entry that made the comparison true.
BuildComparisonReason(x, rel, b, to) ==
    LET makesIt(e) == /\ e.bv = b
                      /\ ~Compare(rel, IF IsLess(rel) THEN e.old.over ELSE e.old.under, to)
        positions == {i \in DOMAIN x.t.trail : makesIt(x.t.trail[i])}
    IN AnalyzeValues([x EXCEPT !.t = RewindUntil(@, positions)], <<<<rel, b, to>>>>)

Flip(rel) == CASE rel = "lt" -> "gt" [] rel = "leq" -> "geq" [] rel = "gt" -> "lt" [] rel = "geq" -> "leq"

\* buildComparisonReasonBV: a value between the two is chosen, and each bound
\* explained as it is now.
BuildComparisonReasonBV(x, rel, b, c) ==
    LET m == x.t.bounds[b]
        n == x.t.bounds[c]
        mid == IF IsLess(rel) THEN m.over + (n.under - m.over + 1) \div 2
               ELSE n.over + (m.under - n.over) \div 2
        other == IF IsLess(rel) THEN "geq" ELSE "leq"
    IN IF IsConst(x.t, b) /\ IsConst(x.t, c) THEN x
       ELSE AnalyzeValues(x, IF IsConst(x.t, c) THEN <<<<rel, b, n.under>>>>
                             ELSE IF IsConst(x.t, b) THEN <<<<Flip(rel), c, m.over>>>>
                             ELSE <<<<rel, b, mid>>, <<other, c, mid>>>>)

-----------------------------------------------------------------------------
(***************************************************************************)
(* buildReason, for a literal the theory enqueued.                         *)
(***************************************************************************)
\* The bits of b from i on that have the value val.
HighBits(t, b, i, val) ==
    {<<b, j>> : j \in {k \in i..(Width - 1) : t.assigns[<<b, k>>] = val}}

\* The sums of BitOp when it comes to bit i: the least and the largest value.
LeastValue(t, b, i) == SumSet({2^v[2] : v \in HighBits(t, b, i, "T")})
LargestValue(t, b, i) == Top - SumSet({2^v[2] : v \in HighBits(t, b, i, "F")})

\* BitOp: the other value of the bit would be out of bounds.
BuildBitReason(y, b, i) ==
    LET x == [y EXCEPT !.t = RewindTo(@, y.t.pos - 1)]
        n == x.t.bounds[b]
    IN IF LargestValue(x.t, b, i) - 2^i < n.under
         THEN BuildComparisonReason(AddLiterals(x, HighBits(x.t, b, i, "F")), "geq", b, n.under)
       ELSE IF LeastValue(x.t, b, i) + 2^i > n.over
         THEN BuildComparisonReason(AddLiterals(x, HighBits(x.t, b, i, "T")), "leq", b, n.over)
       ELSE x

\* Mutant of BuildReason: from the end of the trail.
BuildReason_end(t, v, k) ==
    LET o == Operations[k]
        x == Start(AtEnd(t))
        rel == Relation(x.t, o)
    IN CASE o.kind = "bits" -> BuildBitReason(x, o.bv, v[2])
         [] o.kind = "const" -> BuildComparisonReason(x, rel, o.bv, o.to)
         [] o.kind = "compare" -> BuildComparisonReasonBV(x, rel, o.bv, o.other)

\* The clause explains v by operation k, from the moment v was told.
BuildReason(t, v, k) ==
    LET o == Operations[k]
        isIt(e) == e.bv = 0 /\ e.var = v
        x == Start(RewindUntil(AtEnd(t), {i \in DOMAIN t.trail : isIt(t.trail[i])}))
        rel == Relation(x.t, o)
    IN CASE o.kind = "bits" -> BuildBitReason(x, o.bv, v[2])
         [] o.kind = "const" -> BuildComparisonReason(x, rel, o.bv, o.to)
         [] o.kind = "compare" -> BuildComparisonReasonBV(x, rel, o.bv, o.other)
=============================================================================
