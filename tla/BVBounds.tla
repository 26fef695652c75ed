------------------------------ MODULE BVBounds ------------------------------
(***************************************************************************)
(* The bounds of bit-vectors and the trail of their changes                *)
(* (src/monosat/bv/BVTheorySolver.h).  Literals and bounds stand on one    *)
(* trail; conflict analysis goes back along it, undoing what it passes,    *)
(* and forth again, so that the theory's assignment is that of the first   *)
(* pos entries.                                                            *)
(*                                                                         *)
(* Operators take the theory's state as a record t and return the next     *)
(* one.  A variable is <<b, i>>, bit i of bit-vector b, or <<0, n>>, a     *)
(* comparison.  Operations are numbered, and a cause is the number of one. *)
(***************************************************************************)
EXTENDS Integers, Sequences, FiniteSets, FiniteSetsExt, SequencesExt

CONSTANTS Width,   \* of all bit-vectors
          Problems \* what may be declared, a sequence: the number of bit-vectors, the
             \* operations in the order of their declaration, the literals the
             \* solver's clauses imply, one set after the other, and two bounds:
             \* the decision levels, and how many literals wait at a later level

VARIABLE problem \* the number of the problem

ASSUME BVBoundsAssumption ==
    /\ Width \in Nat \ {0}
    /\ \A p \in DOMAIN Problems : \A k \in DOMAIN Problems[p].operations :
         /\ Problems[p].operations[k].bv \in 1..Problems[p].bvs
         /\ Problems[p].operations[k].kind \in {"bits", "const", "compare", "sum", "arg"}

AtMost(x, y) == IF x < y THEN x ELSE y
AtLeast(x, y) == IF x > y THEN x ELSE y
Bool(b) == IF b THEN "T" ELSE "F"

BV == 1..Problems[problem].bvs
Operations == Problems[problem].operations
Top == 2^Width - 1

\* What a problem declares: its variables and the operation of each, and for each
\* bit-vector operation_ids, and compares, kept in the order of the constants.
Declarations(bvs, operations) ==
    LET bits == (1..bvs) \X (0..(Width - 1))
        its(b, const) ==
          LET test(k) == operations[k].bv = b /\ (operations[k].kind = "const") = const
          IN SelectSeq([k \in DOMAIN operations |-> k], test)
        before(j, k) == operations[j].to < operations[k].to
        compares == {k \in DOMAIN operations : operations[k].kind \in {"const", "compare"}}
        vars == bits \cup {operations[k].lit : k \in compares}
        has(v, k) == IF v[1] = 0 THEN k \in compares /\ operations[k].lit = v
                     ELSE operations[k].kind = "bits" /\ operations[k].bv = v[1]
    IN [operationOf |-> [v \in vars |-> Min({k \in DOMAIN operations : has(v, k)})],
        ids |-> [b \in 1..bvs |-> its(b, FALSE)],
        compares |-> [b \in 1..bvs |-> SortSeq(its(b, TRUE), before)]]

Declaration == [p \in DOMAIN Problems |-> Declarations(Problems[p].bvs, Problems[p].operations)]

Var == DOMAIN Declaration[problem].operationOf
OperationOf(v) == Declaration[problem].operationOf[v]
OperationIDs(b) == Declaration[problem].ids[b]
Compares(b) == Declaration[problem].compares[b]

None == 0
Refined == -1

\* assigns and bounds hold at pos; base are the bounds of level 0; altered is
\* the stack of bit-vectors to be propagated, its last element the top.
Declared ==
    [assigns |-> [v \in Var |-> "U"],
     bounds |-> [b \in BV |-> [under |-> 0, over |-> Top, underCause |-> None, overCause |-> None]],
     base |-> [b \in BV |-> [under |-> 0, over |-> Top]],
     trail |-> <<>>, pos |-> 0, lim |-> <<>>,
     altered |-> [b \in BV |-> b], needs |-> BV, requires |-> TRUE,
     repropagate |-> {k \in DOMAIN Operations : Operations[k].kind \in {"const", "compare"}}]

IsConst(t, b) == t.base[b].under = t.base[b].over

-----------------------------------------------------------------------------
(***************************************************************************)
(* The trail.                                                              *)
(***************************************************************************)
UndoEntry(t, e) ==
    IF e.bv = 0 THEN [t EXCEPT !.assigns[e.var] = "U"] ELSE [t EXCEPT !.bounds[e.bv] = e.old]
RedoEntry(t, e) ==
    IF e.bv = 0 THEN [t EXCEPT !.assigns[e.var] = Bool(e.val)] ELSE [t EXCEPT !.bounds[e.bv] = e.new]

\* Mutant of RewindTo: literals come back, bounds do not.
RewindTo_literals(t, p) ==
    LET redo(u, e) == IF e.bv = 0 THEN RedoEntry(u, e) ELSE u
        u == IF p < t.pos THEN FoldLeft(UndoEntry, t, Reverse(SubSeq(t.trail, p + 1, t.pos)))
             ELSE FoldLeft(redo, t, SubSeq(t.trail, t.pos + 1, p))
    IN [u EXCEPT !.pos = p]

\* Mutant of RewindTo: what is undone is undone in the order it was done.
RewindTo_forwards(t, p) ==
    LET u == IF p < t.pos THEN FoldLeft(UndoEntry, t, SubSeq(t.trail, p + 1, t.pos))
             ELSE FoldLeft(RedoEntry, t, SubSeq(t.trail, t.pos + 1, p))
    IN [u EXCEPT !.pos = p]

\* rewind_trail_pos.
RewindTo(t, p) ==
    LET u == IF p < t.pos THEN FoldLeft(UndoEntry, t, Reverse(SubSeq(t.trail, p + 1, t.pos)))
             ELSE FoldLeft(RedoEntry, t, SubSeq(t.trail, t.pos + 1, p))
    IN [u EXCEPT !.pos = p]

AtEnd(t) == RewindTo(t, Len(t.trail))

\* rewindUntil: back to the last of these positions up to here, the entry of
\* which is not undone; before all entries when there is none.
RewindUntil(t, positions) ==
    RewindTo(t, Max({0} \cup {i \in positions : i <= t.pos}))

Append_(t, e) == LET u == RedoEntry([t EXCEPT !.trail = Append(@, e)], e)
                 IN [u EXCEPT !.pos = Len(u.trail)]

Tighten(t, b, new) == Append_(t, [bv |-> b, old |-> t.bounds[b], new |-> new])

NewDecisionLevels(t, lev) ==
    [t EXCEPT !.lim = @ \o [i \in 1..AtLeast(lev - Len(@), 0) |-> Len(t.trail)]]

\* A bit-vector is added below the one that is being propagated.
AddAlteredBV(t, b) ==
    [t EXCEPT !.needs = @ \cup {b},
              !.altered = IF b \in Range(@) THEN @
                          ELSE IF @ = <<>> THEN <<b>> ELSE Front(@) \o <<b, Last(@)>>]

\* Mutant of EnqueueTheory: the bit-vector is not marked for propagation.
EnqueueTheory_unaltered(t, v, val, lev) ==
    LET u == NewDecisionLevels(AtEnd(t), lev)
    IN IF u.assigns[v] # "U" THEN u
       ELSE Append_([u EXCEPT !.requires = TRUE], [bv |-> 0, var |-> v, val |-> val])

\* The solver tells that v got val at level lev.
EnqueueTheory(t, v, val, lev) ==
    LET u == NewDecisionLevels(AtEnd(t), lev)
    IN IF u.assigns[v] # "U" THEN u
       ELSE AddAlteredBV(Append_([u EXCEPT !.requires = TRUE], [bv |-> 0, var |-> v, val |-> val]),
                         Operations[OperationOf(v)].bv)

\* Comparisons that were declared since are to be looked at again.
Repropagate(t, K) ==
    LET push(s, k) == IF Operations[k].bv \in Range(s) THEN s ELSE Append(s, Operations[k].bv)
    IN [t EXCEPT !.altered = FoldLeft(push, @, K),
                 !.needs = @ \cup {Operations[k].bv : k \in Range(K)},
                 !.requires = @ \/ K # <<>>]

\* backtrackUntil(int).  What is altered stays so.
BacktrackUntil(t, lev) ==
    IF Len(t.lim) <= lev THEN AtEnd(t)
    ELSE LET end == AtEnd(t)
             gone == Reverse(SubSeq(t.trail, t.lim[lev + 1] + 1, Len(t.trail)))
             undone == [RewindTo(end, t.lim[lev + 1])
                          EXCEPT !.trail = SubSeq(@, 1, t.lim[lev + 1]), !.lim = SubSeq(@, 1, lev)]
             literal(e) == e.bv = 0 /\ e.var[1] = 0 /\ OperationOf(e.var) \in t.repropagate
             lits == SelectSeq(gone, literal)
             late(k) == k \in undone.repropagate
             u == Repropagate(undone, [i \in DOMAIN lits |-> OperationOf(lits[i].var)])
         IN IF lev > 0 THEN u
            ELSE [Repropagate(u, SelectSeq([k \in DOMAIN Operations |-> k], late)) EXCEPT !.repropagate = {}]

-----------------------------------------------------------------------------
(***************************************************************************)
(* What the operations say of the bounds of a bit-vector.                  *)
(***************************************************************************)
Bit(x, i) == (x \div 2^i) % 2
Consistent(t, b) ==
    {x \in 0..Top : \A i \in 0..(Width - 1) : t.assigns[<<b, i>>] \in {"U", Bool(Bit(x, i) = 1)}}

Compare(rel, x, y) ==
    CASE rel = "lt" -> x < y [] rel = "leq" -> x <= y [] rel = "gt" -> x > y [] rel = "geq" -> x >= y
Negated(rel) ==
    CASE rel = "lt" -> "geq" [] rel = "leq" -> "gt" [] rel = "gt" -> "leq" [] rel = "geq" -> "lt"
IsLess(rel) == rel \in {"lt", "leq"}

\* What the comparison says now, when its literal is not false.
Relation(t, o) == IF t.assigns[o.lit] = "F" THEN Negated(o.rel) ELSE o.rel

\* What a bit-vector is compared with.
ComparedTo(t, o) ==
    IF o.kind = "const" THEN [under |-> o.to, over |-> o.to] ELSE t.bounds[o.other]

LowerOver(n, x, k) == IF x < n.over THEN [n EXCEPT !.over = x, !.overCause = k] ELSE n
RaiseUnder(n, x, k) == IF x > n.under THEN [n EXCEPT !.under = x, !.underCause = k] ELSE n

\* The sum of two bounds is cut off at the largest value.
SumBounds(t, o) ==
    [under |-> AtMost(t.bounds[o.args[1]].under + t.bounds[o.args[2]].under, Top),
     over |-> AtMost(t.bounds[o.args[1]].over + t.bounds[o.args[2]].over, Top)]
ArgBounds(t, o) ==
    [under |-> AtLeast(t.bounds[o.sum].under - t.bounds[o.other].over, 0),
     over |-> AtLeast(t.bounds[o.sum].over - t.bounds[o.other].under, 0)]

\* A comparison lowers one bound or raises the other, but not beyond the bounds
\* of level 0; a false leq may go one step beyond.
UpdateRelation(t, o, k, n) ==
    LET rel == Relation(t, o)
        x == CASE rel = "lt" -> ComparedTo(t, o).over - 1 [] rel = "leq" -> ComparedTo(t, o).over
               [] rel = "gt" -> ComparedTo(t, o).under + 1 [] rel = "geq" -> ComparedTo(t, o).under
        limit == t.base[o.bv].over + IF o.kind = "const" /\ o.rel = "leq" THEN 1 ELSE 0
    IN IF t.assigns[o.lit] = "U" THEN n
       ELSE IF IsLess(rel) THEN IF x >= t.base[o.bv].under THEN LowerOver(n, x, k) ELSE n
       ELSE IF x <= limit THEN RaiseUnder(n, x, k) ELSE n

\* updateApprox of each kind of operation.
UpdateApprox(t, k, n) ==
    LET o == Operations[k]
        both(r) == LowerOver(RaiseUnder(n, r.under, k), r.over, k)
    IN CASE o.kind = "bits" -> both([under |-> Min(Consistent(t, o.bv)),
                                     over |-> Max(Consistent(t, o.bv))])
         [] o.kind = "sum" -> both(SumBounds(t, o))
         [] o.kind = "arg" -> both(ArgBounds(t, o))
         [] OTHER -> UpdateRelation(t, o, k, n)

\* refine_lbound, refine_ubound: the nearest value that agrees with the bits.
RefineOver(t, b, x) == Max({-1} \cup {y \in Consistent(t, b) : y <= x})
RefineUnder(t, b, x) ==
    LET above == {y \in Consistent(t, b) : y >= x} IN IF above = {} THEN -1 ELSE Min(above)

\* The bounds the operations give, with a cause for each that is new; of the
\* constants, the large ones come first for the one bound, last for the other.
Approximation(t, b) ==
    LET old == t.bounds[b]
        update(n, k) == UpdateApprox(t, k, n)
        less(k) == IsLess(Relation(t, Operations[k]))
        greater(k) == ~less(k)
        n == FoldLeft(update, [old EXCEPT !.underCause = None, !.overCause = None],
                      OperationIDs(b) \o Reverse(SelectSeq(Compares(b), less))
                        \o SelectSeq(Compares(b), greater))
    IN [n EXCEPT !.underCause = IF n.under = old.under THEN old.underCause ELSE @,
                 !.overCause = IF n.over = old.over THEN old.overCause ELSE @]

\* n are the new bounds of b.  One that is refined by the bits is first entered as
\* the operation left it, when that tightened it.
RefinedOver(t, b, n) ==
    LET x == RefineOver(t, b, n.over)
        old == t.bounds[b]
    IN IF x = -1 \/ x >= n.over THEN [t |-> t, n |-> n]
       ELSE [t |-> IF n.over < old.over
                     THEN Tighten(t, b, [old EXCEPT !.over = n.over, !.overCause = n.overCause])
                   ELSE t,
             n |-> [n EXCEPT !.over = x, !.overCause = Refined]]

RefinedUnder(u, b) ==
    LET x == RefineUnder(u.t, b, u.n.under)
    IN IF x = -1 \/ x <= u.n.under THEN u
       ELSE [t |-> IF u.n.under > u.t.bounds[b].under THEN Tighten(u.t, b, u.n) ELSE u.t,
             n |-> [u.n EXCEPT !.under = x, !.underCause = Refined]]

\* The bounds are entered if they are new, and kept apart at level 0.
SetBounds(u, b) ==
    LET n == u.n
        old == u.t.bounds[b]
        w == IF n.under = old.under /\ n.over = old.over THEN u.t ELSE Tighten(u.t, b, n)
    IN IF u.t.lim # <<>> THEN w
       ELSE [w EXCEPT !.base[b] = [under |-> n.under, over |-> n.over]]

\* updateApproximations.
UpdateApproximations(t, b) ==
    IF IsConst(t, b) THEN t
    ELSE SetBounds(RefinedUnder(RefinedOver(t, b, Approximation(t, b)), b), b)
=============================================================================
