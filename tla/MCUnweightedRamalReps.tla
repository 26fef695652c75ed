----------------------- MODULE MCUnweightedRamalReps ------------------------
(***************************************************************************)
(* Four nodes and six edges: two ways of length two, a short cut, a cycle. *)
(***************************************************************************)
EXTENDS UnweightedRamalReps

MCNode == 0..3
MCFrom == <<0, 0, 1, 2, 1, 3>>
MCTo == <<1, 2, 3, 3, 2, 1>>
=============================================================================
