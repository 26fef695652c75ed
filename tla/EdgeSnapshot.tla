---------------------------- MODULE EdgeSnapshot ----------------------------
(***************************************************************************)
(* What a dynamic-graph algorithm promises its caller: the set of edges it *)
(* works on only ever jumps from one complete snapshot of the graph to     *)
(* another, and it says it is up to date only while that snapshot is the   *)
(* current graph.                                                          *)
(***************************************************************************)
CONSTANTS Edge, Alg

VARIABLES status,  \* the enabled edges of the graph
          view,    \* the edges each algorithm works on
          fresh    \* the algorithms whose view is current

snapshotVars == <<status, view, fresh>>

Init ==
    /\ status \in SUBSET Edge
    /\ view = [a \in Alg |-> {}]
    /\ fresh = {}

\* The graph changes, or is declared changed: nobody is current any more.
Change ==
    /\ status' \in SUBSET Edge
    /\ fresh' = {}
    /\ UNCHANGED view

\* Some algorithms catch up, each with all of the graph as it is now.
Refresh(S) ==
    /\ view' = [a \in Alg |-> IF a \in S THEN status ELSE view[a]]
    /\ fresh' = fresh \cup S
    /\ UNCHANGED status

Next == Change \/ \E S \in SUBSET Alg : Refresh(S)

Spec == Init /\ [][Next]_snapshotVars

FreshIsCurrent == \A a \in fresh : view[a] = status
=============================================================================
