-------------------------- MODULE EdgeMirrorProofs --------------------------
(***************************************************************************)
(* Proofs about EdgeMirror, for every set of edges, of weights and of      *)
(* algorithms, every clear interval and both values of every option.       *)
(***************************************************************************)
EXTENDS EdgeMirror, TLAPS

(***************************************************************************)
(* Type correctness.                                                       *)
(***************************************************************************)
LEMMA InitTypeOK == Init => TypeOK
  <1> SUFFICES ASSUME Init PROVE TypeOK
    OBVIOUS
  <1> USE DynamicGraphAssumption DEF Init, GraphInit
  <1>1. weights \in [Edge -> Weight]
    <2>1. (CHOOSE w \in Weight : TRUE) \in Weight
      OBVIOUS
    <2> QED BY <2>1
  <1>2. history \in Seq(EdgeChange)
    OBVIOUS
  <1>3. dynamic_history_pos \in [Alg -> Nat]
    OBVIOUS
  <1>4. GraphTypeOK
    BY <1>1, <1>2, <1>3 DEF GraphTypeOK
  <1> QED BY <1>4 DEF TypeOK

\* The shape every recorded change has.
LEMMA RecordType ==
  ASSUME GraphTypeOK, NEW e \in Edge, NEW c \in Change, NEW p \in Nat,
         Record(c, e, p)
  PROVE  /\ history' \in Seq(EdgeChange)
         /\ modifications' \in Nat
  BY DEF GraphTypeOK, Record, EdgeChange

\* The history has a length.
LEMMA HistorySizeType ==
  ASSUME GraphTypeOK PROVE HistorySize \in Nat
  BY DEF GraphTypeOK, HistorySize

\* An update leaves every follower with a well typed position.
LEMMA FollowersType ==
  ASSUME TypeOK, NEW S \in SUBSET Alg, UpdateAll(S)
  PROVE  /\ edge_enabled' \in [Alg -> SUBSET Edge]
         /\ edge_slots' \in [Alg -> SUBSET Edge]
         /\ history_qhead' \in [Alg -> Nat]
         /\ last_history_clear' \in [Alg -> Nat]
         /\ last_modification' \in [Alg -> Nat \cup {-1}]
  <1>1. HistorySize \in Nat
    BY HistorySizeType DEF TypeOK
  <1>2. \A a \in Alg : Slots(a) \in SUBSET Edge
    BY DEF TypeOK, GraphTypeOK, Slots
  <1>3. \A a \in Alg : NewView(a) \in SUBSET Edge
    BY DEF TypeOK, GraphTypeOK, NewView, Replayed
  <1> QED BY <1>1, <1>2, <1>3 DEF TypeOK, GraphTypeOK, UpdateAll

\* A follower reports a position in the history.
LEMMA ReportedType ==
  ASSUME TypeOK, NEW a \in Alg PROVE Reported(a) \in Nat
  BY HistorySizeType DEF TypeOK, Reported

\* Every step keeps the types.
LEMMA NextTypeOK == TypeOK /\ [Next]_mirrorVars => TypeOK'
  <1> SUFFICES ASSUME TypeOK, [Next]_mirrorVars PROVE TypeOK'
    OBVIOUS
  <1>1. CASE Bounded /\ Declare /\ UNCHANGED <<followers, solving>>
    <2>1. CASE AddNode
      <3>1. history' \in Seq(EdgeChange) /\ history_offset' \in Nat
                /\ historyclears' \in Nat
        <4>1. \/ /\ history' = history
                 /\ history_offset' = history_offset
                 /\ historyclears' = historyclears
              \/ /\ history' = <<>>
                 /\ history_offset' = 0
                 /\ historyclears' = historyclears + 1
          BY <2>1, Zenon DEF AddNode
        <4>2. /\ history \in Seq(EdgeChange)
              /\ history_offset \in Nat
              /\ historyclears \in Nat
          BY DEF TypeOK, GraphTypeOK
        <4>3. <<>> \in Seq(EdgeChange)
          OBVIOUS
        <4>4. history' \in Seq(EdgeChange)
          BY <4>1, <4>2, <4>3, Zenon
        <4>5. history_offset' \in Nat /\ historyclears' \in Nat
          BY <4>1, <4>2
        <4> QED BY <4>4, <4>5
      <3> QED BY <1>1, <2>1, <3>1 DEF TypeOK, GraphTypeOK, AddNode, registry,
              options, followers
    <2>2. ASSUME NEW e \in Edge, NEW w \in Weight, AddEdge(e, w)
          PROVE  TypeOK'
      <3>1. history' \in Seq(EdgeChange)
        BY <2>2 DEF TypeOK, GraphTypeOK, AddEdge, EdgeChange, Change
      <3> QED BY <1>1, <2>2, <3>1 DEF TypeOK, GraphTypeOK, AddEdge, registry,
              options, followers
    <2> QED BY <1>1, <2>1, <2>2 DEF Declare
  <1>2. CASE Bounded /\ Mutate /\ UNCHANGED <<followers, solving>>
    <2>1. ASSUME NEW e \in Edge, EnableEdge(e) PROVE TypeOK'
      <3>1. history' \in Seq(EdgeChange) /\ modifications' \in Nat
        BY <2>1, RecordType DEF TypeOK, GraphTypeOK, EnableEdge, Change
      <3> QED BY <1>2, <2>1, <3>1 DEF TypeOK, GraphTypeOK, EnableEdge,
              registry, options, followers
    <2>2. ASSUME NEW e \in Edge, DisableEdge(e) PROVE TypeOK'
      <3>1. history' \in Seq(EdgeChange) /\ modifications' \in Nat
        BY <2>2, RecordType DEF TypeOK, GraphTypeOK, DisableEdge, Change
      <3> QED BY <1>2, <2>2, <3>1 DEF TypeOK, GraphTypeOK, DisableEdge,
              registry, options, followers
    <2>3. ASSUME NEW e \in Edge, NEW w \in Weight, SetEdgeWeight(e, w)
          PROVE  TypeOK'
      <3>1. history' \in Seq(EdgeChange) /\ modifications' \in Nat
        BY <2>3, RecordType DEF TypeOK, GraphTypeOK, SetEdgeWeight, Change
      <3> QED BY <1>2, <2>3, <3>1 DEF TypeOK, GraphTypeOK, SetEdgeWeight,
              registry, options, followers
    <2>4. CASE Invalidate
      BY <1>2, <2>4 DEF TypeOK, GraphTypeOK, Invalidate, registry, options,
         followers
    <2> QED BY <1>2, <2>1, <2>2, <2>3, <2>4 DEF Mutate
  <1>3. ASSUME NEW a \in Alg, AddDynamicAlgorithm(a),
               UNCHANGED <<followers, solving>>
        PROVE  TypeOK'
    BY <1>3 DEF TypeOK, GraphTypeOK, AddDynamicAlgorithm, marks, options,
       followers
  <1>4. ASSUME NEW a \in Alg, Update(a) PROVE TypeOK'
    <2>1. Reported(a) \in Nat
      BY ReportedType
    <2>2. GraphTypeOK'
      BY <1>4, <2>1 DEF TypeOK, GraphTypeOK, Update, UpdateAlgorithmHistory,
         marks, options
    <2> QED BY <1>4, <2>2, FollowersType DEF TypeOK, Update
  <1>5. CASE Clear
    <2> DEFINE called == {a \in CalledBack : ~UpToDate(a)}
               pos == [a \in Alg |-> IF a \in called THEN Reported(a)
                                     ELSE dynamic_history_pos[a]]
    <2>1. called \in SUBSET Alg
      BY DEF TypeOK, GraphTypeOK, CalledBack
    <2>2. pos \in [Alg -> Nat]
      BY ReportedType DEF TypeOK, GraphTypeOK
    <2>3. ClearHistory(pos) /\ UpdateAll(called) /\ solving' = TRUE
      BY <1>5 DEF Clear
    <2> HIDE DEF called, pos
    <2>4. GraphTypeOK'
      BY <2>2, <2>3, HistorySizeType DEF TypeOK, GraphTypeOK, ClearHistory,
         marks, options
    <2> QED BY <2>1, <2>3, <2>4, FollowersType DEF TypeOK
  <1>6. CASE Forget
    BY <1>6 DEF TypeOK, GraphTypeOK, Forget, ClearChanged, marks, registry,
       options, followers
  <1>7. CASE UNCHANGED mirrorVars
    BY <1>7 DEF TypeOK, GraphTypeOK, mirrorVars, graphVars, followers, marks,
       registry, options
  <1> QED BY <1>1, <1>2, <1>3, <1>4, <1>5, <1>6, <1>7 DEF Next

\* Every reachable state of the graph and of its algorithms is well typed.
THEOREM TypeCorrect == Spec => []TypeOK
  BY InitTypeOK, NextTypeOK, PTL DEF Spec

-----------------------------------------------------------------------------
(***************************************************************************)
(* The inductive invariant.  It is stated for the algorithms in charge:    *)
(* the registered ones, and before solving also those still to register.   *)
(***************************************************************************)
InCharge(a) == a \in dynamic_algs \/ ~solving

\* The algorithm will replay, unless the graph is marked changed.
Following(a) ==
    /\ last_history_clear[a] = historyclears
    /\ a \in Topo => last_modification[a] > 0

\* Nothing has been updated or cleared yet.
FreshStart ==
    ~solving => /\ history_offset = 0
                /\ \A a \in Alg : /\ last_modification[a] = -1
                                  /\ history_qhead[a] = 0

\* No algorithm is ahead of the graph's counters.
NoneAhead ==
    \A a \in Alg : /\ last_modification[a] <= modifications
                   /\ last_history_clear[a] <= historyclears

\* Positions: what was reported is no later than where the algorithm stands,
\* and that is within the retained history.
Positions ==
    \A a \in Alg : InCharge(a) /\ Following(a) =>
        /\ history_offset <= history_qhead[a]
        /\ history_qhead[a] <= HistorySize
        /\ dynamic_history_pos[a] <= history_qhead[a]

\* An edge the algorithm has wrong is set right by a pending entry.
Explained ==
    \A a \in Alg : InCharge(a) /\ Following(a) =>
        \A e \in Edge :
            ~(e \in edge_enabled[a] <=> e \in edge_status) => Applied(a, e)

\* Its view and its arrays cover declared edges, the arrays all of them.
Covered ==
    /\ \A a \in Alg : edge_enabled[a] \subseteq all_edges
    /\ \A a \in Alg : InCharge(a) /\ Following(a) /\ a \in Topo =>
                         edge_slots[a] = all_edges
    /\ \A i \in 1..Len(history) : history[i].id \in all_edges

MirrorInv ==
    /\ TypeOK
    /\ FreshStart
    /\ NoneAhead
    /\ Positions
    /\ Explained
    /\ Covered
    /\ MirrorSynced

-----------------------------------------------------------------------------
(***************************************************************************)
(* Appending to the history.                                               *)
(***************************************************************************)
LEMMA AppendKeepsEntries ==
  ASSUME TypeOK, NEW r \in EdgeChange, history' = Append(history, r)
  PROVE  /\ Len(history') = Len(history) + 1
         /\ Len(history) \in Nat
         /\ history'[Len(history) + 1] = r
         /\ \A i \in 1..Len(history) : history'[i] = history[i]
  BY DEF TypeOK, GraphTypeOK

\* A pending entry stays pending, and the new one is pending for everybody.
LEMMA AppendKeepsApplied ==
  ASSUME TypeOK, NEW r \in EdgeChange, history' = Append(history, r),
         history_offset' = history_offset, history_qhead' = history_qhead,
         NEW a \in Alg, history_qhead[a] <= HistorySize,
         NEW e \in Edge
  PROVE  /\ Applied(a, e) /\ (e \in edge_status <=> e \in edge_status')
              => Applied(a, e)'
         /\ r.id = e /\ (r.change = "addition" <=> e \in edge_status')
              => Applied(a, e)'
  <1>1. /\ history_offset \in Nat
        /\ history_qhead[a] \in Nat
    BY DEF TypeOK, GraphTypeOK
  <1>2. \A i \in Pending(a) : i \in Pending(a)' /\ history'[i] = history[i]
    BY <1>1, AppendKeepsEntries DEF Pending
  <1>3. Len(history) + 1 \in Pending(a)'
    BY <1>1, AppendKeepsEntries DEF Pending, HistorySize
  <1>4. Applied(a, e) /\ (e \in edge_status <=> e \in edge_status')
          => Applied(a, e)'
    BY <1>2 DEF Applied
  <1>5. r.id = e /\ (r.change = "addition" <=> e \in edge_status')
          => Applied(a, e)'
    BY <1>3, AppendKeepsEntries DEF Applied
  <1> QED BY <1>4, <1>5

\* Every change that is recorded keeps the invariant: the entry says what the
\* edge's status has become, or the status is the same as before.
LEMMA RecordedChange ==
  ASSUME MirrorInv, TypeOK', NEW r \in EdgeChange,
         history' = Append(history, r),
         history_offset' = history_offset,
         historyclears' = historyclears,
         dynamic_algs' = dynamic_algs,
         dynamic_history_pos' = dynamic_history_pos,
         UNCHANGED followers, solving' = solving,
         modifications' > modifications,
         \A d \in Edge : d # r.id => (d \in edge_status <=> d \in edge_status'),
         \/ r.change = "addition" <=> r.id \in edge_status'
         \/ r.id \in edge_status <=> r.id \in edge_status',
         all_edges' = all_edges \cup {r.id},
         ~solving \/ all_edges' = all_edges
  PROVE  MirrorInv'
  <1> USE DEF followers
  <1>0. /\ TypeOK
        /\ \A a \in Alg : InCharge(a)' <=> InCharge(a)
        /\ \A a \in Alg : Following(a)' <=> Following(a)
    BY DEF MirrorInv, InCharge, Following
  <1>1. FreshStart'
    BY DEF MirrorInv, FreshStart
  <1>2. NoneAhead'
    <2> SUFFICES ASSUME NEW a \in Alg
                 PROVE  /\ last_modification[a] <= modifications'
                        /\ last_history_clear[a] <= historyclears
      BY DEF NoneAhead
    <2>1. /\ modifications \in Nat /\ modifications' \in Nat
          /\ last_modification[a] \in Int
      BY <1>0 DEF TypeOK, GraphTypeOK
    <2>2. /\ last_modification[a] <= modifications
          /\ last_history_clear[a] <= historyclears
      BY DEF MirrorInv, NoneAhead
    <2> QED BY <2>1, <2>2
  <1>3. Positions'
    <2> SUFFICES ASSUME NEW a \in Alg, InCharge(a), Following(a)
                 PROVE  /\ history_offset <= history_qhead[a]
                        /\ history_qhead[a] <= HistorySize'
                        /\ dynamic_history_pos[a] <= history_qhead[a]
      BY <1>0 DEF Positions
    <2>1. HistorySize' = HistorySize + 1 /\ HistorySize \in Nat
      <3>1. Len(history') = Len(history) + 1 /\ Len(history) \in Nat
        BY <1>0, AppendKeepsEntries
      <3>2. history_offset \in Nat
        BY <1>0 DEF TypeOK, GraphTypeOK
      <3> QED BY <3>1, <3>2 DEF HistorySize
    <2>2. /\ history_offset <= history_qhead[a]
          /\ history_qhead[a] <= HistorySize
          /\ dynamic_history_pos[a] <= history_qhead[a]
      BY DEF MirrorInv, Positions
    <2>3. history_qhead[a] \in Nat
      BY <1>0 DEF TypeOK
    <2> QED BY <2>1, <2>2, <2>3
  <1>4. Explained'
    <2> SUFFICES ASSUME NEW a \in Alg, InCharge(a), Following(a),
                        NEW e \in Edge,
                        ~(e \in edge_enabled[a] <=> e \in edge_status')
                 PROVE  Applied(a, e)'
      BY <1>0 DEF Explained
    <2>1. history_qhead[a] <= HistorySize
      BY DEF MirrorInv, Positions
    <2>2. CASE e \in edge_status <=> e \in edge_status'
      <3>1. Applied(a, e)
        BY <2>2 DEF MirrorInv, Explained
      <3> QED BY <1>0, <2>1, <2>2, <3>1, AppendKeepsApplied
    <2>3. CASE ~(e \in edge_status <=> e \in edge_status')
      <3>1. r.id = e /\ (r.change = "addition" <=> e \in edge_status')
        BY <2>3
      <3> QED BY <1>0, <2>1, <3>1, AppendKeepsApplied
    <2> QED BY <2>2, <2>3
  <1>5. Covered'
    <2>1. \A a \in Alg : edge_enabled'[a] \subseteq all_edges'
      BY DEF MirrorInv, Covered
    <2>2. \A a \in Alg : InCharge(a)' /\ Following(a)' /\ a \in Topo =>
                           edge_slots'[a] = all_edges'
      <3> SUFFICES ASSUME NEW a \in Alg, InCharge(a), Following(a), a \in Topo
                   PROVE  edge_slots[a] = all_edges'
        BY <1>0
      <3>1. CASE ~solving
        <4>1. last_modification[a] = -1
          BY <3>1 DEF MirrorInv, FreshStart
        <4> QED BY <4>1 DEF Following
      <3>2. CASE all_edges' = all_edges
        BY <3>2 DEF MirrorInv, Covered
      <3> QED BY <3>1, <3>2
    <2>3. \A i \in 1..Len(history') : history'[i].id \in all_edges'
      BY <1>0, AppendKeepsEntries DEF MirrorInv, Covered
    <2> QED BY <2>1, <2>2, <2>3 DEF Covered
  <1>6. MirrorSynced'
    <2> SUFFICES ASSUME NEW a \in dynamic_algs PROVE ~UpToDate(a)'
      BY DEF MirrorSynced
    <2>1. a \in Alg /\ modifications \in Nat /\ modifications' \in Nat
      BY <1>0 DEF TypeOK, GraphTypeOK
    <2>2. last_modification[a] <= modifications
      BY <2>1 DEF MirrorInv, NoneAhead
    <2>3. last_modification[a] \in Int
      BY <1>0, <2>1 DEF TypeOK
    <2> QED BY <2>1, <2>2, <2>3 DEF UpToDate
  <1> QED BY <1>1, <1>2, <1>3, <1>4, <1>5, <1>6 DEF MirrorInv

-----------------------------------------------------------------------------
(***************************************************************************)
(* Changes that leave no entry, and full clears.                           *)
(***************************************************************************)
\* Nobody is up to date after the counter moved.
LEMMA ModifiedMeansStale ==
  ASSUME MirrorInv, TypeOK', modifications' > modifications,
         last_modification' = last_modification, NEW a \in Alg
  PROVE  /\ ~UpToDate(a)'
         /\ last_modification'[a] <= modifications'
  <1>1. /\ modifications \in Nat /\ modifications' \in Nat
        /\ last_modification[a] \in Int
    BY DEF MirrorInv, TypeOK, GraphTypeOK
  <1>2. last_modification[a] <= modifications
    BY DEF MirrorInv, NoneAhead
  <1> QED BY <1>1, <1>2 DEF UpToDate

\* When the counter alone moves, it stays as it is.
LEMMA UnrecordedChange ==
  ASSUME MirrorInv, TypeOK',
         history' = history, history_offset' = history_offset,
         historyclears' = historyclears, all_edges' = all_edges,
         edge_status' = edge_status, dynamic_algs' = dynamic_algs,
         dynamic_history_pos' = dynamic_history_pos,
         UNCHANGED followers, solving' = solving,
         modifications' > modifications
  PROVE  MirrorInv'
  <1> USE DEF followers
  <1>1. FreshStart'
    BY DEF MirrorInv, FreshStart
  <1>2. NoneAhead'
    BY ModifiedMeansStale DEF MirrorInv, NoneAhead
  <1>3. Positions' /\ Explained' /\ Covered'
    BY DEF MirrorInv, Positions, Explained, Covered, InCharge, Following,
       Applied, Pending, HistorySize
  <1>4. MirrorSynced'
    BY ModifiedMeansStale DEF MirrorSynced, TypeOK, GraphTypeOK
  <1> QED BY <1>1, <1>2, <1>3, <1>4 DEF MirrorInv

\* After a full clear nobody follows: the next update of each scans.
LEMMA NobodyFollows ==
  ASSUME MirrorInv, historyclears' = historyclears + 1,
         \A a \in Alg : last_history_clear'[a] <= historyclears
  PROVE  \A a \in Alg : ~Following(a)'
  <1>1. historyclears \in Nat
    BY DEF MirrorInv, TypeOK, GraphTypeOK
  <1> QED BY <1>1 DEF Following

\* Adding a node may clear the history;
LEMMA AddNodeStep ==
  ASSUME MirrorInv, TypeOK', AddNode, UNCHANGED <<followers, solving>>
  PROVE  MirrorInv'
  <1>1. modifications' > modifications
    BY DEF MirrorInv, TypeOK, GraphTypeOK, AddNode
  <1>2. \/ /\ history' = history
           /\ history_offset' = history_offset
           /\ historyclears' = historyclears
        \/ /\ history' = <<>>
           /\ history_offset' = 0
           /\ historyclears' = historyclears + 1
    BY Zenon DEF AddNode
  <1>3. /\ all_edges' = all_edges /\ edge_status' = edge_status
        /\ dynamic_algs' = dynamic_algs
        /\ dynamic_history_pos' = dynamic_history_pos
        /\ solving' = solving /\ UNCHANGED followers
    BY DEF AddNode, registry
  <1>4. CASE historyclears' = historyclears
    <2>1. history' = history /\ history_offset' = history_offset
      <3>1. historyclears + 1 # historyclears
        BY DEF MirrorInv, TypeOK, GraphTypeOK
      <3> QED BY <1>2, <1>4, <3>1
    <2> QED BY <1>1, <1>3, <1>4, <2>1, UnrecordedChange
  <1>5. CASE /\ history' = <<>>
             /\ history_offset' = 0
             /\ historyclears' = historyclears + 1
    <2> USE DEF followers
    <2>1. \A a \in Alg : ~Following(a)'
      <3>1. \A a \in Alg : last_history_clear'[a] <= historyclears
        BY <1>3 DEF MirrorInv, NoneAhead
      <3> QED BY <1>5, <3>1, NobodyFollows
    <2>2. Positions' /\ Explained'
      BY <2>1 DEF Positions, Explained
    <2>3. Covered'
      <3>1. Len(history') = 0
        BY <1>5
      <3> QED BY <1>3, <2>1, <3>1 DEF MirrorInv, Covered
    <2>4. FreshStart'
      BY <1>3, <1>5 DEF MirrorInv, FreshStart
    <2>5. NoneAhead'
      <3>1. /\ \A a \in Alg : last_history_clear[a] <= historyclears
            /\ \A a \in Alg : last_history_clear[a] \in Nat
        BY DEF MirrorInv, NoneAhead, TypeOK
      <3>2. historyclears \in Nat
        BY DEF MirrorInv, TypeOK, GraphTypeOK
      <3>3. \A a \in Alg : last_history_clear[a] <= historyclears + 1
        BY <3>1, <3>2
      <3> QED BY <1>1, <1>3, <1>5, <3>3, ModifiedMeansStale DEF NoneAhead
    <2>6. MirrorSynced'
      BY <1>1, <1>3, ModifiedMeansStale DEF MirrorSynced, TypeOK, GraphTypeOK
    <2> QED BY <2>2, <2>3, <2>4, <2>5, <2>6 DEF MirrorInv
  <1> QED BY <1>2, <1>4, <1>5

-----------------------------------------------------------------------------
(***************************************************************************)
(* Updating.                                                               *)
(***************************************************************************)
\* The heart of the protocol: scan or replay, update() ends on the graph.
LEMMA UpdateYieldsStatus ==
  ASSUME MirrorInv, NEW a \in Alg, InCharge(a)
  PROVE  NewView(a) = edge_status
  <1>1. CASE ScansAll(a)
    BY <1>1 DEF NewView
  <1>2. CASE ~ScansAll(a)
    <2>1. Following(a)
      <3>1. last_modification[a] \in Int
        BY DEF MirrorInv, TypeOK
      <3> QED BY <1>2, <3>1 DEF ScansAll, Following
    <2>2. Slots(a) = all_edges
      BY <1>2, <2>1, EdgeMirrorAssumption DEF Slots, MirrorInv, Covered
    <2>3. edge_enabled[a] \subseteq all_edges /\ edge_status \subseteq all_edges
      BY DEF MirrorInv, Covered, TypeOK, GraphTypeOK
    <2>4. all_edges \subseteq Edge
      BY DEF MirrorInv, TypeOK, GraphTypeOK
    <2>5. \A e \in all_edges :
              ~Applied(a, e) => (e \in edge_enabled[a] <=> e \in edge_status)
      BY <2>1, <2>4 DEF MirrorInv, Explained
    <2>6. Replayed(a) = edge_status
      BY <2>2, <2>3, <2>5 DEF Replayed
    <2> QED BY <1>2, <2>6 DEF NewView
  <1> QED BY <1>1, <1>2

\* What it leaves behind, for the algorithms that updated.
LEMMA AfterUpdate ==
  ASSUME MirrorInv, NEW S \in SUBSET dynamic_algs, UpdateAll(S), NEW a \in S
  PROVE  /\ edge_enabled'[a] = edge_status
         /\ (a \in Topo \/ ScansAll(a)) => edge_slots'[a] = all_edges
         /\ history_qhead'[a] = HistorySize
         /\ last_history_clear'[a] = historyclears
         /\ last_modification'[a] = modifications
  <1>1. a \in Alg /\ InCharge(a)
    BY DEF MirrorInv, TypeOK, GraphTypeOK, InCharge
  <1>2. (a \in Topo \/ ScansAll(a)) => Slots(a) = all_edges
    <2>1. CASE ScansAll(a)
      BY <2>1 DEF Slots
    <2>2. CASE ~ScansAll(a) /\ a \in Topo
      <3>1. Following(a)
        <4>1. last_modification[a] \in Int
          BY <1>1 DEF MirrorInv, TypeOK
        <4> QED BY <2>2, <4>1 DEF ScansAll, Following
      <3> QED BY <1>1, <2>2, <3>1 DEF MirrorInv, Covered, Slots
    <2> QED BY <2>1, <2>2
  <1> QED BY <1>1, <1>2, UpdateYieldsStatus DEF UpdateAll

\* And for the others.
LEMMA NotUpdated ==
  ASSUME NEW S, UpdateAll(S), NEW a \in Alg, a \notin S
  PROVE  /\ edge_enabled'[a] = edge_enabled[a]
         /\ edge_slots'[a] = edge_slots[a]
         /\ history_qhead'[a] = history_qhead[a]
         /\ last_history_clear'[a] = last_history_clear[a]
         /\ last_modification'[a] = last_modification[a]
  BY DEF UpdateAll

\* A report never runs ahead of the end of the history.
LEMMA ReportedWithin ==
  ASSUME MirrorInv, NEW a \in dynamic_algs
  PROVE  Reported(a) <= HistorySize
  <1>1. a \in Alg /\ HistorySize \in Nat /\ InCharge(a)
    BY HistorySizeType DEF MirrorInv, TypeOK, GraphTypeOK, InCharge
  <1>2. CASE a \in Topo \/ ScansAll(a)
    BY <1>1, <1>2 DEF Reported
  <1>3. CASE a \notin Topo /\ ~ScansAll(a)
    BY <1>1, <1>3 DEF Reported, ScansAll, Following, MirrorInv, Positions
  <1> QED BY <1>2, <1>3

\* a follower that updates has what the graph has,
LEMMA UpdateStep ==
  ASSUME MirrorInv, TypeOK', NEW a \in Alg, Update(a)
  PROVE  MirrorInv'
  <1> DEFINE S == {a}
  <1>1. /\ a \in dynamic_algs /\ S \in SUBSET dynamic_algs
        /\ UpdateAll(S) /\ solving' = TRUE
        /\ UpdateAlgorithmHistory(a, Reported(a))
    BY DEF Update
  <1> HIDE DEF S
  <1>2. /\ history' = history /\ history_offset' = history_offset
        /\ historyclears' = historyclears /\ modifications' = modifications
        /\ all_edges' = all_edges /\ edge_status' = edge_status
        /\ dynamic_algs' = dynamic_algs
        /\ dynamic_history_pos' =
              [dynamic_history_pos EXCEPT ![a] = Reported(a)]
    BY <1>1 DEF UpdateAlgorithmHistory
  <1>3. \A b \in Alg : InCharge(b)' => b \in dynamic_algs /\ InCharge(b)
    BY <1>1, <1>2 DEF InCharge
  <1>4. HistorySize' = HistorySize /\ HistorySize \in Nat
    BY <1>2, HistorySizeType DEF HistorySize, MirrorInv, TypeOK
  <1>5. FreshStart'
    BY <1>1 DEF FreshStart
  <1>6. ASSUME NEW b \in Alg
        PROVE  /\ last_modification'[b] <= modifications
               /\ last_history_clear'[b] <= historyclears
               /\ edge_enabled'[b] \subseteq all_edges
    <2>1. CASE b \in S
      <3>1. /\ modifications \in Nat /\ historyclears \in Nat
            /\ edge_status \subseteq all_edges
        BY DEF MirrorInv, TypeOK, GraphTypeOK
      <3>2. /\ last_modification'[b] = modifications
            /\ last_history_clear'[b] = historyclears
            /\ edge_enabled'[b] = edge_status
        BY <1>1, <2>1, AfterUpdate
      <3> QED BY <3>1, <3>2
    <2>2. CASE b \notin S
      BY <1>1, <2>2, NotUpdated DEF MirrorInv, NoneAhead, Covered
    <2> QED BY <2>1, <2>2
  <1>7. NoneAhead'
    BY <1>2, <1>6 DEF NoneAhead
  <1>8. ASSUME NEW b \in Alg, InCharge(b)', Following(b)'
        PROVE  /\ history_offset <= history_qhead'[b]
               /\ history_qhead'[b] <= HistorySize
               /\ dynamic_history_pos'[b] <= history_qhead'[b]
               /\ \A e \in Edge :
                    ~(e \in edge_enabled'[b] <=> e \in edge_status)
                      => Applied(b, e)'
               /\ b \in Topo => edge_slots'[b] = all_edges
    <2>1. CASE b \in S
      <3>1. b = a
        BY <2>1 DEF S
      <3>2. dynamic_history_pos'[b] = Reported(a)
        BY <1>2, <3>1 DEF MirrorInv, TypeOK, GraphTypeOK
      <3>3. history_offset <= HistorySize
        BY DEF HistorySize, MirrorInv, TypeOK, GraphTypeOK
      <3>4. Reported(a) <= HistorySize
        BY <1>1, ReportedWithin
      <3> QED BY <1>1, <1>4, <2>1, <3>1, <3>2, <3>3, <3>4, AfterUpdate
    <2>2. CASE b \notin S
      <3>1. b # a
        BY <2>2 DEF S
      <3>2. InCharge(b) /\ Following(b)
        BY <1>1, <1>2, <1>3, <1>8, <2>2, NotUpdated DEF Following
      <3>3. dynamic_history_pos'[b] = dynamic_history_pos[b]
        BY <1>2, <3>1 DEF MirrorInv, TypeOK, GraphTypeOK
      <3>4. \A e \in Edge : Applied(b, e)' <=> Applied(b, e)
        BY <1>1, <1>2, <2>2, NotUpdated DEF Applied, Pending
      <3> QED BY <1>1, <2>2, <3>2, <3>3, <3>4, NotUpdated
              DEF MirrorInv, Positions, Explained, Covered
    <2> QED BY <2>1, <2>2
  <1>9. Positions'
    BY <1>2, <1>4, <1>8 DEF Positions
  <1>10. Explained'
    BY <1>2, <1>8 DEF Explained
  <1>11. Covered'
    BY <1>2, <1>6, <1>8 DEF Covered, MirrorInv
  <1>12. MirrorSynced'
    <2> SUFFICES ASSUME NEW b \in dynamic_algs, UpToDate(b)'
                 PROVE  edge_enabled'[b] = edge_status
      BY <1>2 DEF MirrorSynced
    <2>0. b \in Alg
      BY DEF MirrorInv, TypeOK, GraphTypeOK
    <2>1. CASE b \in S
      BY <1>1, <2>1, AfterUpdate
    <2>2. CASE b \notin S
      <3>1. UpToDate(b)
        BY <1>1, <1>2, <2>0, <2>2, NotUpdated DEF UpToDate
      <3> QED BY <1>1, <2>0, <2>2, <3>1, NotUpdated
              DEF MirrorInv, MirrorSynced
    <2> QED BY <2>1, <2>2
  <1> QED BY <1>5, <1>7, <1>9, <1>10, <1>11, <1>12 DEF MirrorInv

-----------------------------------------------------------------------------
(***************************************************************************)
(* Clearing the history.                                                   *)
(***************************************************************************)
LEMMA ClearStep ==
  ASSUME MirrorInv, TypeOK', Clear
  PROVE  MirrorInv'
  <1> DEFINE S == {a \in CalledBack : ~UpToDate(a)}
             pos == [a \in Alg |-> IF a \in S THEN Reported(a)
                                   ELSE dynamic_history_pos[a]]
  <1>1. S \in SUBSET dynamic_algs
    BY DEF CalledBack
  <1>2. ClearHistory(pos) /\ UpdateAll(S) /\ solving' = TRUE
    BY DEF Clear
  <1>3. \A a \in Alg : a \notin S => pos[a] = dynamic_history_pos[a]
    OBVIOUS
  <1> HIDE DEF S, pos
  <1>4. /\ history' = <<>> /\ modifications' = modifications
        /\ all_edges' = all_edges /\ edge_status' = edge_status
        /\ dynamic_algs' = dynamic_algs /\ dynamic_history_pos' = pos
    BY <1>2 DEF ClearHistory
  <1>5. \/ /\ AllUpToDate(pos)
           /\ history_offset' = HistorySize
           /\ historyclears' = historyclears
        \/ /\ history_offset' = 0
           /\ historyclears' = historyclears + 1
    BY <1>2 DEF ClearHistory
  <1>6. dynamic_algs \subseteq Alg /\ HistorySize \in Nat
    BY HistorySizeType DEF MirrorInv, TypeOK, GraphTypeOK
  <1>7. FreshStart'
    BY <1>2 DEF FreshStart
  <1>8. ASSUME NEW b \in Alg
        PROVE  /\ last_modification'[b] <= modifications
               /\ last_history_clear'[b] <= historyclears
               /\ edge_enabled'[b] \subseteq all_edges
    <2>1. CASE b \in S
      <3>1. /\ modifications \in Nat /\ historyclears \in Nat
            /\ edge_status \subseteq all_edges
        BY DEF MirrorInv, TypeOK, GraphTypeOK
      <3>2. /\ last_modification'[b] = modifications
            /\ last_history_clear'[b] = historyclears
            /\ edge_enabled'[b] = edge_status
        BY <1>1, <1>2, <2>1, AfterUpdate
      <3> QED BY <3>1, <3>2
    <2>2. CASE b \notin S
      BY <1>2, <2>2, NotUpdated DEF MirrorInv, NoneAhead, Covered
    <2> QED BY <2>1, <2>2
  <1>9. NoneAhead'
    <2>1. historyclears \in Nat
      BY DEF MirrorInv, TypeOK, GraphTypeOK
    <2>2. historyclears' = historyclears \/ historyclears' = historyclears + 1
      BY <1>5
    <2>3. \A b \in Alg : last_history_clear'[b] \in Nat
      BY DEF TypeOK
    <2> QED BY <1>4, <1>8, <2>1, <2>2, <2>3 DEF NoneAhead
  <1>10. Len(history') = 0
    BY <1>4
  <1>11. \A i \in 1..Len(history') : history'[i].id \in all_edges'
    BY <1>10
  <1>12. MirrorSynced'
    <2> SUFFICES ASSUME NEW b \in dynamic_algs, UpToDate(b)'
                 PROVE  edge_enabled'[b] = edge_status
      BY <1>4 DEF MirrorSynced
    <2>1. CASE b \in S
      BY <1>1, <1>2, <2>1, AfterUpdate
    <2>2. CASE b \notin S
      <3>1. UpToDate(b)
        BY <1>2, <1>4, <1>6, <2>2, NotUpdated DEF UpToDate
      <3> QED BY <1>2, <1>6, <2>2, <3>1, NotUpdated
              DEF MirrorInv, MirrorSynced
    <2> QED BY <2>1, <2>2
  <1>13. CASE /\ history_offset' = 0
              /\ historyclears' = historyclears + 1
    <2>1. \A b \in Alg : ~Following(b)'
      BY <1>8, <1>13, NobodyFollows
    <2>2. Positions' /\ Explained'
      BY <2>1 DEF Positions, Explained
    <2>3. Covered'
      BY <1>4, <1>8, <1>11, <2>1 DEF Covered
    <2> QED BY <1>7, <1>9, <1>12, <2>2, <2>3 DEF MirrorInv
  <1>14. CASE /\ AllUpToDate(pos)
              /\ history_offset' = HistorySize
              /\ historyclears' = historyclears
    <2>1. HistorySize' = HistorySize
      BY <1>6, <1>10, <1>14 DEF HistorySize
    <2>2. ASSUME NEW b \in Alg, InCharge(b)', Following(b)'
          PROVE  /\ history_qhead'[b] = HistorySize
                 /\ pos[b] = HistorySize
                 /\ edge_enabled'[b] = edge_status
                 /\ b \in Topo => edge_slots'[b] = all_edges
      <3>1. b \in dynamic_algs /\ InCharge(b)
        BY <1>2, <1>4, <2>2 DEF InCharge
      <3>2. pos[b] = HistorySize
        BY <1>14, <3>1 DEF AllUpToDate
      <3>3. CASE b \in S
        BY <1>1, <1>2, <3>2, <3>3, AfterUpdate
      <3>4. CASE b \notin S
        <4>1. Following(b)
          BY <1>2, <1>14, <2>2, <3>4, NotUpdated DEF Following
        <4>2. /\ dynamic_history_pos[b] <= history_qhead[b]
              /\ history_qhead[b] <= HistorySize
              /\ dynamic_history_pos[b] = HistorySize
              /\ history_qhead[b] \in Nat
          BY <1>3, <3>1, <3>2, <3>4, <4>1
          DEF MirrorInv, Positions, TypeOK
        <4>3. history_qhead[b] = HistorySize
          BY <1>6, <4>2
        <4>4. Pending(b) = {}
          <5>1. /\ Len(history) \in Nat /\ history_offset \in Nat
            BY DEF MirrorInv, TypeOK, GraphTypeOK
          <5> QED BY <4>3, <5>1 DEF Pending, HistorySize
        <4>5. \A e \in Edge : e \in edge_enabled[b] <=> e \in edge_status
          BY <3>1, <4>1, <4>4 DEF MirrorInv, Explained, Applied
        <4>6. edge_enabled[b] \subseteq Edge /\ edge_status \subseteq Edge
          BY DEF MirrorInv, TypeOK, GraphTypeOK
        <4>7. edge_enabled[b] = edge_status
          BY <4>5, <4>6
        <4>8. b \in Topo => edge_slots[b] = all_edges
          BY <3>1, <4>1 DEF MirrorInv, Covered
        <4> QED BY <1>2, <3>2, <3>4, <4>3, <4>7, <4>8, NotUpdated
      <3> QED BY <3>3, <3>4
    <2>3. Positions'
      BY <1>4, <1>6, <1>14, <2>1, <2>2 DEF Positions
    <2>4. Explained'
      BY <1>4, <2>2 DEF Explained
    <2>5. Covered'
      BY <1>4, <1>8, <1>11, <2>2 DEF Covered
    <2> QED BY <1>7, <1>9, <1>12, <2>3, <2>4, <2>5 DEF MirrorInv
  <1> QED BY <1>5, <1>13, <1>14

-----------------------------------------------------------------------------
(***************************************************************************)
(* The other steps, and the invariant.                                     *)
(***************************************************************************)
LEMMA RegisterStep ==
  ASSUME MirrorInv, TypeOK', ~solving, NEW a \in Alg, AddDynamicAlgorithm(a),
         UNCHANGED <<followers, solving>>
  PROVE  MirrorInv'
  <1>1. /\ history' = history /\ history_offset' = history_offset
        /\ historyclears' = historyclears /\ modifications' = modifications
        /\ all_edges' = all_edges /\ edge_status' = edge_status
        /\ dynamic_history_pos' = [dynamic_history_pos EXCEPT ![a] = 0]
        /\ UNCHANGED followers /\ solving' = solving
    BY DEF AddDynamicAlgorithm
  <1> USE DEF followers
  <1>2. /\ FreshStart' /\ NoneAhead' /\ Explained' /\ Covered'
    BY <1>1 DEF MirrorInv, FreshStart, NoneAhead, Explained, Covered,
       InCharge, Following, Applied, Pending
  <1>3. ASSUME NEW b \in Alg, Following(b)
        PROVE  /\ history_offset <= history_qhead[b]
               /\ history_qhead[b] <= HistorySize
               /\ dynamic_history_pos'[b] <= history_qhead[b]
    <2>1. /\ history_offset <= history_qhead[b]
          /\ history_qhead[b] <= HistorySize
          /\ dynamic_history_pos[b] <= history_qhead[b]
      BY <1>3 DEF MirrorInv, Positions, InCharge
    <2>2. dynamic_history_pos'[b] \in {0, dynamic_history_pos[b]}
      BY <1>1 DEF MirrorInv, TypeOK, GraphTypeOK
    <2>3. history_qhead[b] \in Nat
      BY DEF MirrorInv, TypeOK
    <2> QED BY <2>1, <2>2, <2>3
  <1>4. Positions'
    BY <1>1, <1>3 DEF Positions, Following, HistorySize
  <1>5. MirrorSynced'
    <2>1. \A b \in Alg : last_modification[b] = -1
      BY DEF MirrorInv, FreshStart
    <2> QED BY <1>1, <2>1 DEF MirrorSynced, UpToDate, TypeOK, GraphTypeOK
  <1> QED BY <1>2, <1>4, <1>5 DEF MirrorInv

\* forgetting history leaves what somebody still has to read,
LEMMA ForgetStep ==
  ASSUME MirrorInv, TypeOK', Forget
  PROVE  MirrorInv'
  <1>1. /\ history' = history /\ history_offset' = history_offset
        /\ historyclears' = historyclears /\ modifications' = modifications
        /\ all_edges' = all_edges /\ edge_status' = edge_status
        /\ dynamic_algs' = dynamic_algs
        /\ dynamic_history_pos' = dynamic_history_pos
        /\ UNCHANGED followers /\ solving' = TRUE
    BY DEF Forget, ClearChanged, registry
  <1> USE DEF followers
  <1>2. FreshStart' /\ NoneAhead' /\ MirrorSynced'
    BY <1>1 DEF MirrorInv, FreshStart, NoneAhead, MirrorSynced, UpToDate
  <1>3. Positions' /\ Explained' /\ Covered'
    BY <1>1 DEF MirrorInv, Positions, Explained, Covered, InCharge, Following,
       Applied, Pending, HistorySize
  <1> QED BY <1>2, <1>3 DEF MirrorInv

\* and an edge is added in advance.
LEMMA AddEdgeStep ==
  ASSUME MirrorInv, TypeOK', ~solving, NEW e \in Edge, NEW w \in Weight,
         AddEdge(e, w), UNCHANGED <<followers, solving>>
  PROVE  MirrorInv'
  <1> DEFINE r == [change |-> "addition", id |-> e, mod |-> modifications + 2,
                   prev_mod |-> modifications + 2]
  <1>1. modifications \in Nat
    BY DEF MirrorInv, TypeOK, GraphTypeOK
  <1>2. r \in EdgeChange /\ r.id = e /\ r.change = "addition"
    BY <1>1 DEF EdgeChange, Change
  <1>3. history' = Append(history, r)
    BY DEF AddEdge
  <1> HIDE DEF r
  <1>4. /\ history_offset' = history_offset
        /\ historyclears' = historyclears
        /\ modifications' = modifications + 2
        /\ edge_status' = edge_status \cup {e}
        /\ all_edges' = all_edges \cup {e}
        /\ dynamic_algs' = dynamic_algs
        /\ dynamic_history_pos' = dynamic_history_pos
    BY DEF AddEdge, registry
  <1>5. modifications' > modifications
    BY <1>1, <1>4
  <1> QED BY <1>2, <1>3, <1>4, <1>5, RecordedChange

\* EnableEdge, DisableEdge and SetEdgeWeight in one form.
LEMMA MutateStep ==
  ASSUME MirrorInv, TypeOK', NEW c \in Change, NEW e \in all_edges,
         NEW p \in Nat, Record(c, e, p), UNCHANGED <<followers, solving>>,
         UNCHANGED <<all_edges, history_offset, historyclears, registry>>,
         \/ c = "addition" /\ edge_status' = edge_status \cup {e}
         \/ c = "deletion" /\ edge_status' = edge_status \ {e}
         \/ edge_status' = edge_status
  PROVE  MirrorInv'
  <1> DEFINE r == [change |-> c, id |-> e, mod |-> modifications + 1,
                   prev_mod |-> p]
  <1>1. modifications \in Nat /\ e \in Edge
    BY DEF MirrorInv, TypeOK, GraphTypeOK
  <1>2. r \in EdgeChange /\ r.id = e /\ r.change = c
    BY <1>1 DEF EdgeChange
  <1>3. history' = Append(history, r)
    BY DEF Record
  <1> HIDE DEF r
  <1>4. /\ dynamic_algs' = dynamic_algs
        /\ dynamic_history_pos' = dynamic_history_pos
        /\ all_edges' = all_edges /\ all_edges \cup {e} = all_edges
    BY DEF registry
  <1>5. modifications' > modifications
    BY <1>1 DEF Record
  <1>6. \A d \in Edge :
            d # r.id => (d \in edge_status <=> d \in edge_status')
    BY <1>2
  <1>7. \/ r.change = "addition" <=> r.id \in edge_status'
        \/ r.id \in edge_status <=> r.id \in edge_status'
    BY <1>2
  <1> QED BY <1>2, <1>3, <1>4, <1>5, <1>6, <1>7, RecordedChange

\* The invariant holds in the beginning,
LEMMA InitMirrorInv == Init => MirrorInv
  <1> SUFFICES ASSUME Init PROVE MirrorInv
    OBVIOUS
  <1>1. TypeOK
    BY InitTypeOK
  <1> USE DEF Init, GraphInit
  <1>2. FreshStart /\ NoneAhead /\ Positions
    BY DEF FreshStart, NoneAhead, Positions, HistorySize
  <1>3. Explained
    BY DEF Explained
  <1>4. Covered
    BY DEF Covered, Following
  <1>5. MirrorSynced
    BY DEF MirrorSynced
  <1> QED BY <1>1, <1>2, <1>3, <1>4, <1>5 DEF MirrorInv

\* and every step keeps it.
LEMMA NextMirrorInv ==
  ASSUME InAdvance, MirrorInv, [Next]_mirrorVars
  PROVE  MirrorInv'
  <1>0. TypeOK /\ TypeOK'
    BY NextTypeOK DEF MirrorInv
  <1>1. CASE Declare /\ UNCHANGED <<followers, solving>>
    BY <1>0, <1>1, AddNodeStep, AddEdgeStep DEF Declare
  <1>2. CASE Mutate /\ UNCHANGED <<followers, solving>>
    <2>1. ASSUME NEW e \in Edge, EnableEdge(e) PROVE MirrorInv'
      BY <1>0, <1>2, <2>1, MutateStep
      DEF EnableEdge, Change, TypeOK, GraphTypeOK
    <2>2. ASSUME NEW e \in Edge, DisableEdge(e) PROVE MirrorInv'
      <3>1. e \in all_edges
        BY <1>0, <2>2 DEF DisableEdge, TypeOK, GraphTypeOK
      <3> QED BY <1>0, <1>2, <2>2, <3>1, MutateStep
              DEF DisableEdge, Change, TypeOK, GraphTypeOK
    <2>3. ASSUME NEW e \in Edge, NEW w \in Weight, SetEdgeWeight(e, w)
          PROVE  MirrorInv'
      <3>1. \/ Record("weight_increase", e, additions)
            \/ Record("weight_decrease", e, additions)
        BY <2>3 DEF SetEdgeWeight
      <3>2. /\ "weight_increase" \in Change /\ "weight_decrease" \in Change
            /\ additions \in Nat /\ e \in all_edges
        BY <1>0, <2>3 DEF SetEdgeWeight, Change, TypeOK, GraphTypeOK
      <3>3. /\ edge_status' = edge_status
            /\ UNCHANGED <<all_edges, history_offset, historyclears, registry>>
        BY <2>3 DEF SetEdgeWeight
      <3> QED BY <1>0, <1>2, <3>1, <3>2, <3>3, MutateStep
    <2>4. CASE Invalidate
      <3>1. modifications' > modifications
        BY <1>0, <2>4 DEF Invalidate, TypeOK, GraphTypeOK
      <3> QED BY <1>0, <1>2, <2>4, <3>1, UnrecordedChange
              DEF Invalidate, registry
    <2> QED BY <1>2, <2>1, <2>2, <2>3, <2>4 DEF Mutate
  <1>3. ASSUME NEW a \in Alg, InAdvance => ~solving, AddDynamicAlgorithm(a),
               UNCHANGED <<followers, solving>>
        PROVE  MirrorInv'
    BY <1>0, <1>3, RegisterStep
  <1>4. ASSUME NEW a \in Alg, Update(a) PROVE MirrorInv'
    BY <1>0, <1>4, UpdateStep
  <1>5. CASE Clear
    BY <1>0, <1>5, ClearStep
  <1>6. CASE Forget
    BY <1>0, <1>6, ForgetStep
  <1>7. CASE UNCHANGED mirrorVars
    <2>1. /\ history' = history /\ history_offset' = history_offset
          /\ historyclears' = historyclears /\ modifications' = modifications
          /\ all_edges' = all_edges /\ edge_status' = edge_status
          /\ dynamic_algs' = dynamic_algs
          /\ dynamic_history_pos' = dynamic_history_pos
          /\ UNCHANGED followers /\ solving' = solving
      BY <1>7 DEF mirrorVars, graphVars, registry
    <2> USE DEF followers
    <2>2. FreshStart' /\ NoneAhead' /\ MirrorSynced'
      BY <2>1 DEF MirrorInv, FreshStart, NoneAhead, MirrorSynced, UpToDate
    <2>3. Positions' /\ Explained' /\ Covered'
      BY <2>1 DEF MirrorInv, Positions, Explained, Covered, InCharge,
         Following, Applied, Pending, HistorySize
    <2> QED BY <1>0, <2>2, <2>3 DEF MirrorInv
  <1> QED BY <1>1, <1>2, <1>3, <1>4, <1>5, <1>6, <1>7 DEF Next

\* The invariant and the steps it is preserved by, put together.
LEMMA InvariantHolds ==
  ASSUME InAdvance PROVE Spec => []MirrorInv
  <1>1. MirrorInv /\ [Next]_mirrorVars => MirrorInv'
    BY NextMirrorInv
  <1> QED BY <1>1, InitMirrorInv, PTL DEF Spec

-----------------------------------------------------------------------------
\* An algorithm that says it is up to date works on exactly the enabled edges.
THEOREM AlwaysSynced ==
  ASSUME InAdvance PROVE Spec => []MirrorSynced
  <1>1. MirrorInv => MirrorSynced
    BY DEF MirrorInv
  <1> QED BY <1>1, InvariantHolds, PTL

\* An update that does not scan follows the history.
LEMMA ReplayMeansFollowing ==
  ASSUME TypeOK, NEW a \in Alg, ~ScansAll(a)
  PROVE  Following(a)
  <1>1. last_modification[a] \in Int
    BY DEF TypeOK
  <1> QED BY <1>1 DEF ScansAll, Following

\* getChange is never asked for an entry that was cleared away.
THEOREM AlwaysRetained ==
  ASSUME InAdvance PROVE Spec => []ReplayRetained
  <1>1. MirrorInv => ReplayRetained
    <2> SUFFICES ASSUME MirrorInv, NEW a \in dynamic_algs, ~ScansAll(a)
                 PROVE  history_qhead[a] >= history_offset
      BY DEF ReplayRetained
    <2>1. a \in Alg /\ Following(a)
      BY ReplayMeansFollowing DEF MirrorInv, TypeOK, GraphTypeOK
    <2>2. /\ history_offset <= history_qhead[a]
          /\ history_qhead[a] \in Nat /\ history_offset \in Nat
      BY <2>1 DEF MirrorInv, Positions, InCharge, TypeOK, GraphTypeOK
    <2> QED BY <2>2
  <1> QED BY <1>1, InvariantHolds, PTL

\* A replay meets only edges the algorithm's arrays have room for.
THEOREM AlwaysRoom ==
  ASSUME InAdvance PROVE Spec => []ReplayHasRoom
  <1>1. MirrorInv => ReplayHasRoom
    <2> SUFFICES ASSUME MirrorInv, NEW a \in dynamic_algs, ~ScansAll(a),
                        NEW i \in Pending(a)
                 PROVE  history[i].id \in Slots(a)
      BY DEF ReplayHasRoom
    <2>1. a \in Alg /\ Following(a)
      BY ReplayMeansFollowing DEF MirrorInv, TypeOK, GraphTypeOK
    <2>2. Slots(a) = all_edges
      BY <2>1, EdgeMirrorAssumption
      DEF Slots, MirrorInv, Covered, InCharge
    <2>3. i \in 1..Len(history)
      BY DEF Pending
    <2> QED BY <2>2, <2>3 DEF MirrorInv, Covered
  <1> QED BY <1>1, InvariantHolds, PTL

-----------------------------------------------------------------------------
(***************************************************************************)
(* Refinement of EdgeSnapshot.                                             *)
(***************************************************************************)
\* Every declaration and every mutation moves the modification counter.
LEMMA CounterMoves ==
  ASSUME TypeOK, Declare \/ Mutate
  PROVE  modifications' > modifications
  <1>0. modifications \in Nat
    BY DEF TypeOK, GraphTypeOK
  <1>1. CASE AddNode
    <2>1. modifications' = modifications + 1
      BY <1>1, Zenon DEF AddNode
    <2> QED BY <1>0, <2>1
  <1>2. CASE \E e \in Edge, w \in Weight : AddEdge(e, w)
    BY <1>0, <1>2 DEF AddEdge
  <1>3. CASE \/ \E e \in Edge : EnableEdge(e) \/ DisableEdge(e)
             \/ \E e \in Edge, w \in Weight : SetEdgeWeight(e, w)
    <2>1. modifications' = modifications + 1
      BY <1>3, Zenon DEF EnableEdge, DisableEdge, SetEdgeWeight, Record
    <2> QED BY <1>0, <2>1
  <1>4. CASE Invalidate
    BY <1>0, <1>4 DEF Invalidate
  <1> QED BY <1>1, <1>2, <1>3, <1>4, Zenon DEF Declare, Mutate

\* Without a modification there is no edge, and an update does nothing.
Untouched == modifications = 0 => all_edges = {}

\* That is so always.
LEMMA UntouchedHolds == Spec => []Untouched
  <1>1. Init => Untouched
    BY DEF Init, GraphInit, Untouched
  <1>2. TypeOK /\ Untouched /\ [Next]_mirrorVars => Untouched'
    <2> SUFFICES ASSUME TypeOK, Untouched, [Next]_mirrorVars
                 PROVE  Untouched'
      OBVIOUS
    <2>1. modifications \in Nat
      BY DEF TypeOK, GraphTypeOK
    <2>2. CASE Declare \/ Mutate
      <3>1. modifications' > modifications
        BY <2>2, CounterMoves
      <3> QED BY <2>1, <3>1 DEF Untouched
    <2>4. CASE \E a \in Alg : AddDynamicAlgorithm(a) \/ Update(a)
      BY <2>4 DEF AddDynamicAlgorithm, Update, UpdateAlgorithmHistory,
         Untouched
    <2>5. CASE Clear \/ Forget
      BY <2>5 DEF Clear, ClearHistory, Forget, ClearChanged, Untouched
    <2>6. CASE UNCHANGED mirrorVars
      BY <2>6 DEF mirrorVars, graphVars, Untouched
    <2> QED BY <2>2, <2>4, <2>5, <2>6 DEF Next
  <1> QED BY <1>1, <1>2, TypeCorrect, PTL DEF Spec

current == {a \in dynamic_algs : UpToDate(a)}

\* Updating some algorithms is the abstract refresh of those algorithms.
LEMMA UpdatesRefresh ==
  ASSUME MirrorInv, Untouched, NEW S \in SUBSET dynamic_algs, UpdateAll(S),
         edge_status' = edge_status, modifications' = modifications,
         dynamic_algs' = dynamic_algs
  PROVE  [Snapshot!Next]_(Snapshot!snapshotVars)
  <1>0. /\ dynamic_algs \subseteq Alg /\ S \subseteq Alg
        /\ edge_enabled' \in [Alg -> SUBSET Edge]
        /\ edge_enabled \in [Alg -> SUBSET Edge]
        /\ modifications \in Nat
    BY FollowersType DEF MirrorInv, TypeOK, GraphTypeOK
  <1>1. edge_enabled' =
            [a \in Alg |-> IF a \in S THEN edge_status ELSE edge_enabled[a]]
    <2>1. \A a \in S : edge_enabled'[a] = edge_status
      BY AfterUpdate
    <2>2. \A a \in Alg \ S : edge_enabled'[a] = edge_enabled[a]
      BY NotUpdated
    <2> QED BY <1>0, <2>1, <2>2
  <1>2. \A a \in Alg \ S : UpToDate(a)' <=> UpToDate(a)
    BY NotUpdated DEF UpToDate
  <1>3. \A a \in S : UpToDate(a)' <=> modifications > 0
    BY AfterUpdate DEF UpToDate
  <1>4. CASE modifications > 0
    <2>1. current' = current \cup S
      BY <1>0, <1>2, <1>3, <1>4 DEF current
    <2>2. Snapshot!Refresh(S)
      BY <1>1, <2>1 DEF Snapshot!Refresh, current
    <2> QED BY <1>0, <2>2 DEF Snapshot!Next
  <1>5. CASE modifications = 0
    <2>1. edge_status = {} /\ \A a \in Alg : edge_enabled[a] = {}
      BY <1>5 DEF Untouched, MirrorInv, Covered, TypeOK, GraphTypeOK
    <2>2. edge_enabled' = edge_enabled
      BY <1>0, <1>1, <2>1
    <2>3. \A a \in dynamic_algs : ~UpToDate(a)
      BY <1>5 DEF UpToDate
    <2>4. \A a \in dynamic_algs : ~UpToDate(a)'
      BY <1>0, <1>2, <1>3, <1>5, <2>3
    <2>5. current' = current
      BY <2>3, <2>4 DEF current
    <2> QED BY <2>2, <2>5 DEF Snapshot!snapshotVars, current
  <1> QED BY <1>0, <1>4, <1>5

\* Modifying the graph is the abstract change.
LEMMA ModifiesChange ==
  ASSUME MirrorInv, TypeOK', modifications' > modifications,
         UNCHANGED followers
  PROVE  Snapshot!Next
  <1>1. edge_enabled' = edge_enabled /\ last_modification' = last_modification
    BY DEF followers
  <1>2. current' = {}
    <2>1. \A a \in Alg : ~UpToDate(a)'
      BY <1>1, ModifiedMeansStale
    <2>2. dynamic_algs' \subseteq Alg
      BY DEF TypeOK, GraphTypeOK
    <2> QED BY <2>1, <2>2 DEF current
  <1>3. edge_status' \subseteq Edge
    BY DEF TypeOK, GraphTypeOK
  <1> QED BY <1>1, <1>2, <1>3 DEF Snapshot!Next, Snapshot!Change, current

\* Every step is one of the abstract graph, or leaves it alone.
LEMMA StepsRefine ==
  ASSUME InAdvance, MirrorInv, Untouched, [Next]_mirrorVars
  PROVE  [Snapshot!Next]_(Snapshot!snapshotVars)
  <1>0. TypeOK /\ TypeOK' /\ modifications \in Nat
    BY NextTypeOK DEF MirrorInv, TypeOK, GraphTypeOK
  <1>1. CASE (Declare \/ Mutate) /\ UNCHANGED <<followers, solving>>
    BY <1>0, <1>1, CounterMoves, ModifiesChange
  <1>3. ASSUME NEW a \in Alg, InAdvance => ~solving, AddDynamicAlgorithm(a),
               UNCHANGED <<followers, solving>>
        PROVE  UNCHANGED Snapshot!snapshotVars
    <2>1. /\ modifications' = modifications /\ edge_status' = edge_status
          /\ edge_enabled' = edge_enabled
          /\ last_modification' = last_modification
          /\ dynamic_algs \subseteq Alg /\ dynamic_algs' \subseteq Alg
      BY <1>0, <1>3 DEF AddDynamicAlgorithm, followers, TypeOK, GraphTypeOK
    <2>2. \A b \in Alg : ~UpToDate(b) /\ ~UpToDate(b)'
      BY <1>3, <2>1 DEF MirrorInv, FreshStart, UpToDate
    <2>3. current' = current
      BY <2>1, <2>2 DEF current
    <2> QED BY <2>1, <2>3 DEF Snapshot!snapshotVars, current
  <1>4. ASSUME NEW a \in Alg, Update(a)
        PROVE  [Snapshot!Next]_(Snapshot!snapshotVars)
    <2>1. /\ {a} \in SUBSET dynamic_algs /\ UpdateAll({a})
          /\ edge_status' = edge_status /\ modifications' = modifications
          /\ dynamic_algs' = dynamic_algs
      BY <1>4 DEF Update, UpdateAlgorithmHistory
    <2> QED BY <2>1, UpdatesRefresh
  <1>5. CASE Clear
    <2> DEFINE S == {a \in CalledBack : ~UpToDate(a)}
    <2>1. /\ S \in SUBSET dynamic_algs /\ UpdateAll(S)
          /\ edge_status' = edge_status /\ modifications' = modifications
          /\ dynamic_algs' = dynamic_algs
      BY <1>5 DEF Clear, ClearHistory, CalledBack
    <2> HIDE DEF S
    <2> QED BY <2>1, UpdatesRefresh
  <1>6. CASE Forget \/ UNCHANGED mirrorVars
    <2>1. /\ modifications' = modifications /\ edge_status' = edge_status
          /\ edge_enabled' = edge_enabled
          /\ last_modification' = last_modification
          /\ dynamic_algs' = dynamic_algs
      BY <1>6 DEF Forget, ClearChanged, registry, followers, mirrorVars,
         graphVars
    <2>2. current' = current
      BY <2>1 DEF current, UpToDate
    <2> QED BY <2>1, <2>2 DEF Snapshot!snapshotVars, current
  <1> QED BY <1>1, <1>3, <1>4, <1>5, <1>6 DEF Next

\* The algorithms behave as snapshots of the graph: whatever is skipped,
\* replayed or cleared, what they work on jumps from one whole graph to another.
THEOREM Refinement ==
  ASSUME InAdvance PROVE Spec => RefinesSnapshot
  <1>1. Init => Snapshot!Init
    BY DEF Init, GraphInit, Snapshot!Init
  <1>2. MirrorInv /\ Untouched /\ [Next]_mirrorVars
            => [Snapshot!Next]_(Snapshot!snapshotVars)
    BY StepsRefine
  <1> QED BY <1>1, <1>2, InvariantHolds, UntouchedHolds, PTL
          DEF Spec, RefinesSnapshot, Snapshot!Spec
=============================================================================
