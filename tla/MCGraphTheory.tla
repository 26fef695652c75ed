---------------------------- MODULE MCGraphTheory ---------------------------
(***************************************************************************)
(* A small graph for the checks of GraphTheory.                            *)
(***************************************************************************)
EXTENDS GraphTheory

CONSTANTS sa, ab, sb, pa, pb

MCNode == 1..3
MCFrom == [e \in Edge |-> IF e = ab THEN 2 ELSE 1]
MCTo == [e \in Edge |-> IF e = sa THEN 2 ELSE 3]
MCAt == [p \in Prop |-> IF p = pa THEN 2 ELSE 3]
=============================================================================
