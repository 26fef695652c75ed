--------------------------- MODULE ShortestPaths ----------------------------
(***************************************************************************)
(* What a shortest path algorithm promises the detector that calls it      *)
(* (src/monosat/graph/ReachDetector.cpp, DistanceDetector.cpp): after an   *)
(* update it has the distance of every node in the graph as it is, and it  *)
(* has reported every node whose status changed since the update before.   *)
(***************************************************************************)
EXTENDS Integers, FiniteSets

CONSTANTS Node, Source, Edge, From, To

VARIABLES enabled,   \* the edges of the graph
          limit,     \* distances beyond it do not count
          polarity,  \* 1: who became reachable is reported, -1: who ceased to
                     \* be, 0: whose distance changed
          known,     \* the distances as of the last update, -1 before the first
          told       \* the nodes that update reported

pathVars == <<enabled, limit, polarity, known, told>>

Unreachable == Cardinality(Node) + 1

\* The number of edges on a shortest path, by breadth.
Distances(E, lim) ==
    LET within[k \in 0..Cardinality(Node)] ==
          IF k = 0 THEN {Source}
          ELSE within[k - 1] \cup {To[e] : e \in {d \in E : From[d] \in within[k - 1]}}
        near(n) == {k \in 0..Cardinality(Node) : n \in within[k] /\ k <= lim}
    IN [n \in Node |-> IF near(n) = {} THEN Unreachable
                       ELSE CHOOSE k \in near(n) : \A j \in near(n) : k <= j]

Init ==
    /\ enabled \in SUBSET Edge /\ limit \in 1..Unreachable /\ polarity \in -1..1
    /\ known = [n \in Node |-> -1] /\ told = {}

Change == enabled' \in SUBSET Edge /\ UNCHANGED <<limit, polarity, known, told>>

\* A larger limit: what is reachable must be found out and told again.
Raise ==
    /\ limit' \in limit..Unreachable /\ known' = [n \in Node |-> -1]
    /\ told' = {} /\ UNCHANGED <<enabled, polarity>>

News(old, new) ==
    CASE polarity = 1  -> {n \in Node : new[n] < Unreachable /\ old[n] \in {-1, Unreachable}}
      [] polarity = -1 -> {n \in Node : new[n] = Unreachable /\ old[n] # Unreachable}
      [] OTHER         -> {n \in Node : new[n] # old[n]}

Update ==
    /\ known' = Distances(enabled, limit)
    /\ told' \in SUBSET Node /\ News(known, known') \subseteq told'
    /\ UNCHANGED <<enabled, limit, polarity>>

Next == Change \/ Raise \/ Update

Spec == Init /\ [][Next]_pathVars
=============================================================================
