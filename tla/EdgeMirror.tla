----------------------------- MODULE EdgeMirror -----------------------------
(***************************************************************************)
(* The algorithms that register with a DynamicGraph and keep up with it    *)
(* through its change history.  Each works on its own idea of the enabled  *)
(* edges and brings it up to date in update(): by scanning all edges, or   *)
(* by replaying the entries after its own position (history_qhead).        *)
(*                                                                         *)
(* Two protocols are in use.  Topo is that of PKTopologicalSort.h (shared  *)
(* by SpiraPan.h and KohliTorr.h): it scans on the first update, after a   *)
(* history clear and when the graph was marked changed, and reports its    *)
(* new position.  Ramal is that of RamalReps.h: it scans only after a      *)
(* history clear and reports the position it had before the update.        *)
(***************************************************************************)
EXTENDS DynamicGraph

CONSTANTS
    Topo, Ramal,   \* the algorithms that follow each protocol
    InAdvance      \* nodes, edges and algorithms all precede the first update

ASSUME EdgeMirrorAssumption ==
    /\ Alg = Topo \cup Ramal
    /\ Topo \cap Ramal = {}
    /\ InAdvance \in BOOLEAN

VARIABLES
    edge_enabled,        \* the edges the algorithm has accounted for
    edge_slots,          \* the edges its per-edge arrays have room for
    history_qhead,
    last_history_clear,
    last_modification,
    solving              \* an update or a clear has taken place

followers == <<edge_enabled, edge_slots, history_qhead, last_history_clear,
               last_modification>>
mirrorVars == <<graphVars, followers, solving>>

TypeOK ==
    /\ GraphTypeOK
    /\ edge_enabled \in [Alg -> SUBSET Edge]
    /\ edge_slots \in [Alg -> SUBSET Edge]
    /\ history_qhead \in [Alg -> Nat]
    /\ last_history_clear \in [Alg -> Nat]
    /\ last_modification \in [Alg -> Nat \cup {-1}]
    /\ solving \in BOOLEAN

Init ==
    /\ GraphInit
    /\ edge_enabled = [a \in Alg |-> {}]
    /\ edge_slots = [a \in Alg |-> {}]
    /\ history_qhead = [a \in Alg |-> 0]
    /\ last_history_clear = [a \in Alg |-> 0]
    /\ last_modification = [a \in Alg |-> -1]
    /\ solving = FALSE

-----------------------------------------------------------------------------
\* update() returns at once when nothing was modified since the last one.
UpToDate(a) == last_modification[a] > 0 /\ last_modification[a] = modifications

\* Mutant of ScansAll: history clears go unnoticed.
ScansAll_ignoresClears(a) ==
    a \in Topo /\ (last_modification[a] <= 0 \/ is_changed)

ScansAll(a) ==
    \/ last_history_clear[a] # historyclears
    \/ a \in Topo /\ (last_modification[a] <= 0 \/ is_changed)

\* Mutant of Slots: no update ever makes room.
Slots_never(a) == edge_slots[a]

\* Room for every edge is made by setNodes before a scan, and by the resize at
\* the head of every update of Ramal.
Slots(a) == IF ScansAll(a) \/ a \in Ramal THEN all_edges ELSE edge_slots[a]

\* Mutant of Pending: the first entry not yet replayed is passed over.
Pending_offByOne(a) ==
    {i \in 1..Len(history) : i > history_qhead[a] - history_offset + 1}

\* The entries the replay loop goes through.
Pending(a) ==
    {i \in 1..Len(history) : i > history_qhead[a] - history_offset}

\* Some pending entry of the edge agrees with its present status; the loop
\* ignores the others.
Applied(a, e) ==
    \E i \in Pending(a) :
        /\ history[i].id = e
        /\ history[i].change = "addition" <=> e \in edge_status

Replayed(a) ==
    {e \in all_edges :
        IF Applied(a, e) /\ e \in Slots(a)
          THEN e \in edge_status
          ELSE e \in edge_enabled[a]}

NewView(a) == IF ScansAll(a) THEN edge_status ELSE Replayed(a)

\* What updateAlgorithmHistory is told.
Reported(a) ==
    IF a \in Topo \/ ScansAll(a) THEN HistorySize ELSE history_qhead[a]

\* update() of every algorithm of S.
UpdateAll(S) ==
    /\ edge_enabled' =
           [a \in Alg |-> IF a \in S THEN NewView(a) ELSE edge_enabled[a]]
    /\ edge_slots' =
           [a \in Alg |-> IF a \in S THEN Slots(a) ELSE edge_slots[a]]
    /\ history_qhead' =
           [a \in Alg |-> IF a \in S THEN HistorySize ELSE history_qhead[a]]
    /\ last_history_clear' =
           [a \in Alg |-> IF a \in S THEN historyclears
                          ELSE last_history_clear[a]]
    /\ last_modification' =
           [a \in Alg |-> IF a \in S THEN modifications
                          ELSE last_modification[a]]

Update(a) ==
    /\ a \in dynamic_algs
    /\ ~UpToDate(a)
    /\ UpdateAll({a})
    /\ UpdateAlgorithmHistory(a, Reported(a))
    /\ solving' = TRUE

\* clearHistory, with the updates it calls back.
Clear ==
    LET called == {a \in CalledBack : ~UpToDate(a)}
    IN  /\ ClearHistory([a \in Alg |-> IF a \in called THEN Reported(a)
                                       ELSE dynamic_history_pos[a]])
        /\ UpdateAll(called)
        /\ solving' = TRUE

Forget ==
    /\ ClearChanged
    /\ solving' = TRUE
    /\ UNCHANGED followers

-----------------------------------------------------------------------------
Declare ==
    /\ InAdvance => ~solving
    /\ \/ AddNode
       \/ \E e \in Edge, w \in Weight : AddEdge(e, w)

Mutate ==
    \/ \E e \in Edge : EnableEdge(e)
    \/ \E e \in Edge : DisableEdge(e)
    \/ \E e \in Edge, w \in Weight : SetEdgeWeight(e, w)
    \/ Invalidate

Bounded == modifications + 2 <= MaxModifications

Next ==
    \/ Bounded /\ Declare /\ UNCHANGED <<followers, solving>>
    \/ Bounded /\ Mutate /\ UNCHANGED <<followers, solving>>
    \/ \E a \in Alg : /\ InAdvance => ~solving
                      /\ AddDynamicAlgorithm(a)
                      /\ UNCHANGED <<followers, solving>>
    \/ \E a \in Alg : Update(a)
    \/ Clear
    \/ Forget

Spec == Init /\ [][Next]_mirrorVars

-----------------------------------------------------------------------------
\* An algorithm that has updated since the last modification works on exactly
\* the enabled edges, whatever was cleared, skipped or called back before:
\* PKToplogicalSort::update and RamalReps::update never lose a change.
MirrorSynced ==
    \A a \in dynamic_algs : UpToDate(a) => edge_enabled[a] = edge_status

\* The assertions of getChange: an update that replays starts at a position
\* the graph still retains.
ReplayRetained ==
    \A a \in dynamic_algs :
        ~UpToDate(a) /\ ~ScansAll(a) => history_qhead[a] >= history_offset

\* An update that replays has room in its per-edge arrays for every edge it
\* meets: edges declared since force a scan first.
ReplayHasRoom ==
    \A a \in dynamic_algs :
        ~UpToDate(a) /\ ~ScansAll(a) =>
            \A i \in Pending(a) : history[i].id \in Slots(a)

\* The algorithms as snapshots of the graph.
Snapshot == INSTANCE EdgeSnapshot WITH
    status <- edge_status,
    view <- edge_enabled,
    fresh <- {a \in dynamic_algs : UpToDate(a)}

RefinesSnapshot == Snapshot!Spec
=============================================================================
