---------------------------- MODULE DynamicGraph ----------------------------
(***************************************************************************)
(* The dynamic graph of src/monosat/dgl/DynamicGraph.h: edges are declared *)
(* once and then enabled and disabled; every change gets a modification    *)
(* number and an entry of a bounded change history, from which the graph   *)
(* algorithms catch up.  End points, adjacency lists and the log file are  *)
(* left out: no operation of the graph itself reads them.                  *)
(*                                                                         *)
(* Sequence positions: the code's history[i] is history[i+1] here, and the *)
(* code's absolute position p is entry p - history_offset + 1.             *)
(***************************************************************************)
EXTENDS Integers, Sequences, FiniteSets

CONSTANTS
    Edge,                  \* the edge identifiers that may be declared
    Weight,                \* the edge weights
    Alg,                   \* the algorithms that may register themselves
    HistoryClearInterval,  \* historyClearInterval
    MaxNodes,              \* bound: nodes that may be added
    MaxModifications       \* bound: modifications is never driven past this

ASSUME DynamicGraphAssumption ==
    /\ Weight \subseteq Int /\ Weight # {}
    /\ HistoryClearInterval \in Nat \ {0}
    /\ MaxNodes \in Nat
    /\ MaxModifications \in Nat

VARIABLES
    num_nodes,
    all_edges,               \* the declared edges
    edge_status,             \* the enabled edges
    weights,
    history,
    history_offset,
    modifications,
    additions,
    deletions,
    edge_increases,
    edge_decreases,
    historyclears,
    is_changed,
    dynamic_algs,            \* the registered algorithms
    dynamic_history_pos,     \* the position each of them last reported
    dynamic_history_clears,  \* option: 0, 1 or 2
    disable_history_clears   \* option

marks == <<additions, deletions, edge_increases, edge_decreases>>
options == <<dynamic_history_clears, disable_history_clears>>
registry == <<dynamic_algs, dynamic_history_pos>>
graphVars == <<num_nodes, all_edges, edge_status, weights, history,
               history_offset, modifications, marks, historyclears,
               is_changed, registry, options>>

Change == {"addition", "deletion", "weight_increase", "weight_decrease"}
EdgeChange == [change : Change, id : Edge, mod : Nat, prev_mod : Nat]

GraphTypeOK ==
    /\ num_nodes \in Nat
    /\ all_edges \in SUBSET Edge
    /\ edge_status \in SUBSET all_edges
    /\ weights \in [Edge -> Weight]
    /\ history \in Seq(EdgeChange)
    /\ history_offset \in Nat
    /\ modifications \in Nat
    /\ additions \in Nat
    /\ deletions \in Nat
    /\ edge_increases \in Nat
    /\ edge_decreases \in Nat
    /\ historyclears \in Nat
    /\ is_changed \in BOOLEAN
    /\ dynamic_algs \in SUBSET Alg
    /\ dynamic_history_pos \in [Alg -> Nat]
    /\ dynamic_history_clears \in 0..2
    /\ disable_history_clears \in BOOLEAN

-----------------------------------------------------------------------------
HistorySize == Len(history) + history_offset

\* getChange: the retained entry at an absolute position.
Retained(p) == p >= history_offset /\ p < HistorySize
GetChange(p) == history[p - history_offset + 1]

\* modifications++ and the history entry that goes with it.
Record(change, e, prev) ==
    /\ modifications' = modifications + 1
    /\ history' = Append(history, [change |-> change, id |-> e,
                                   mod |-> modifications + 1,
                                   prev_mod |-> prev])

GraphInit ==
    /\ num_nodes = 0
    /\ all_edges = {}
    /\ edge_status = {}
    /\ weights \in [Edge -> {CHOOSE w \in Weight : TRUE}]
    /\ history = <<>>
    /\ history_offset = 0
    /\ modifications = 0
    /\ additions = 0
    /\ deletions = 0
    /\ edge_increases = 0
    /\ edge_decreases = 0
    /\ historyclears = 0
    /\ is_changed = FALSE
    /\ dynamic_algs = {}
    /\ dynamic_history_pos = [a \in Alg |-> 0]
    /\ dynamic_history_clears \in 0..2
    /\ disable_history_clears \in BOOLEAN

\* addNode: every mark moves, and the history is cleared by force.
AddNode ==
    /\ num_nodes < MaxNodes
    /\ num_nodes' = num_nodes + 1
    /\ modifications' = modifications + 1
    /\ additions' = modifications + 1
    /\ deletions' = modifications + 1
    /\ edge_increases' = modifications + 1
    /\ edge_decreases' = modifications + 1
    /\ is_changed' = TRUE
    /\ IF disable_history_clears \/ history = <<>>
         THEN UNCHANGED <<history, history_offset, historyclears>>
         ELSE /\ history' = <<>>
              /\ history_offset' = 0
              /\ historyclears' = historyclears + 1
    /\ UNCHANGED <<all_edges, edge_status, weights, registry, options>>

AddEdge(e, w) ==
    /\ num_nodes > 0
    /\ e \notin all_edges
    /\ all_edges' = all_edges \cup {e}
    /\ edge_status' = edge_status \cup {e}
    /\ weights' = [weights EXCEPT ![e] = w]
    /\ is_changed' = TRUE
    /\ edge_increases' = modifications + 1
    /\ modifications' = modifications + 2
    /\ additions' = modifications + 2
    /\ history' = Append(history, [change |-> "addition", id |-> e,
                                   mod |-> modifications + 2,
                                   prev_mod |-> modifications + 2])
    /\ UNCHANGED <<num_nodes, history_offset, deletions, edge_decreases,
                   historyclears, registry, options>>

\* enableEdge: prev_mod is the new value of additions, not the old one.
EnableEdge(e) ==
    /\ e \in all_edges \ edge_status
    /\ edge_status' = edge_status \cup {e}
    /\ Record("addition", e, modifications + 1)
    /\ additions' = modifications + 1
    /\ UNCHANGED <<num_nodes, all_edges, weights, history_offset, deletions,
                   edge_increases, edge_decreases, historyclears, is_changed,
                   registry, options>>

DisableEdge(e) ==
    /\ e \in edge_status
    /\ edge_status' = edge_status \ {e}
    /\ Record("deletion", e, deletions)
    /\ deletions' = modifications + 1
    /\ UNCHANGED <<num_nodes, all_edges, weights, history_offset, additions,
                   edge_increases, edge_decreases, historyclears, is_changed,
                   registry, options>>

SetEdgeWeight(e, w) ==
    /\ e \in all_edges
    /\ w # weights[e]
    /\ weights' = [weights EXCEPT ![e] = w]
    /\ IF w > weights[e]
         THEN /\ Record("weight_increase", e, additions)
              /\ edge_increases' = modifications + 1
              /\ UNCHANGED edge_decreases
         ELSE /\ Record("weight_decrease", e, additions)
              /\ edge_decreases' = modifications + 1
              /\ UNCHANGED edge_increases
    /\ UNCHANGED <<num_nodes, all_edges, edge_status, history_offset,
                   additions, deletions, historyclears, is_changed,
                   registry, options>>

\* invalidate: two modifications that leave no entry in the history.
Invalidate ==
    /\ modifications' = modifications + 2
    /\ additions' = modifications + 1
    /\ deletions' = modifications + 2
    /\ is_changed' = TRUE
    /\ UNCHANGED <<num_nodes, all_edges, edge_status, weights, history,
                   history_offset, edge_increases, edge_decreases,
                   historyclears, registry, options>>

ClearChanged ==
    /\ is_changed' = FALSE
    /\ UNCHANGED <<num_nodes, all_edges, edge_status, weights, history,
                   history_offset, modifications, marks, historyclears,
                   registry, options>>

AddDynamicAlgorithm(a) ==
    /\ a \notin dynamic_algs
    /\ dynamic_algs' = dynamic_algs \cup {a}
    /\ dynamic_history_pos' = [dynamic_history_pos EXCEPT ![a] = 0]
    /\ UNCHANGED <<num_nodes, all_edges, edge_status, weights, history,
                   history_offset, modifications, marks, historyclears,
                   is_changed, options>>

UpdateAlgorithmHistory(a, p) ==
    /\ a \in dynamic_algs
    /\ dynamic_history_pos' = [dynamic_history_pos EXCEPT ![a] = p]
    /\ UNCHANGED <<num_nodes, all_edges, edge_status, weights, history,
                   history_offset, modifications, marks, historyclears,
                   is_changed, dynamic_algs, options>>

\* clearHistory without force.  With dynamic clears, level 2 first calls back
\* the algorithms that lag; pos is what every algorithm has reported after
\* that.  If all of them stand at the end, only the offset moves; otherwise
\* the offset is reset and historyclears tells everyone to start again.
ClearDue ==
    /\ ~disable_history_clears
    /\ Len(history) >= HistoryClearInterval
CalledBack ==
    IF dynamic_history_clears = 2
      THEN {a \in dynamic_algs : dynamic_history_pos[a] # HistorySize}
      ELSE {}
\* Mutant of AllUpToDate: one algorithm at the end of the history suffices.
AllUpToDate_any(pos) == \E a \in dynamic_algs : pos[a] = HistorySize
AllUpToDate(pos) == \A a \in dynamic_algs : pos[a] = HistorySize
ClearHistory(pos) ==
    /\ ClearDue
    /\ dynamic_history_pos' = pos
    /\ history' = <<>>
    /\ IF dynamic_history_clears > 0 /\ AllUpToDate(pos)
         THEN /\ history_offset' = HistorySize
              /\ UNCHANGED historyclears
         ELSE /\ history_offset' = 0
              /\ historyclears' = historyclears + 1
    /\ UNCHANGED <<num_nodes, all_edges, edge_status, weights, modifications,
                   marks, is_changed, dynamic_algs, options>>

-----------------------------------------------------------------------------
(***************************************************************************)
(* Undoing the newest change.                                              *)
(***************************************************************************)
Newest == history[Len(history)]
DropNewest ==
    /\ history' = SubSeq(history, 1, Len(history) - 1)
    /\ modifications' = modifications - 1

\* Mutant of UndoEnableEdge: the edge stays enabled.
UndoEnableEdge_keepsStatus(e) ==
    /\ history # <<>>
    /\ Newest.change = "addition"
    /\ Newest.id = e
    /\ Newest.mod = modifications
    /\ DropNewest
    /\ additions' = Newest.prev_mod
    /\ UNCHANGED <<num_nodes, all_edges, edge_status, weights, history_offset,
                   deletions, edge_increases, edge_decreases, historyclears,
                   is_changed, registry, options>>

UndoEnableEdge(e) ==
    /\ history # <<>>
    /\ Newest.change = "addition"
    /\ Newest.id = e
    /\ Newest.mod = modifications
    /\ edge_status' = edge_status \ {e}
    /\ DropNewest
    /\ additions' = Newest.prev_mod
    /\ UNCHANGED <<num_nodes, all_edges, weights, history_offset, deletions,
                   edge_increases, edge_decreases, historyclears, is_changed,
                   registry, options>>

\* Every entry that is not an addition passes the test of the code.
UndoDisableEdge(e) ==
    /\ history # <<>>
    /\ Newest.change # "addition"
    /\ Newest.id = e
    /\ Newest.mod = modifications
    /\ edge_status' = edge_status \cup {e}
    /\ DropNewest
    /\ deletions' = Newest.prev_mod
    /\ UNCHANGED <<num_nodes, all_edges, weights, history_offset, additions,
                   edge_increases, edge_decreases, historyclears, is_changed,
                   registry, options>>
=============================================================================
