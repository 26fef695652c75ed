------------------------- MODULE GraphHistoryProofs -------------------------
(***************************************************************************)
(* Proof that the change history of a DynamicGraph explains the status of  *)
(* its edges whatever its clients do and undo.                             *)
(***************************************************************************)
EXTENDS GraphHistory, SequenceTheorems, TLAPS

Item == [change : Change, id : Edge, mod : Int, prev_mod : Int]
Moves(h, i) == h[i].change \in {"addition", "deletion"}

\* No entry after i, up to n, moves the edge of entry i.
Settled(h, i, n) ==
    /\ Moves(h, i)
    /\ \A j \in (i + 1)..n : Moves(h, j) => h[j].id # h[i].id

Explains(h, S) ==
    \A i \in 1..Len(h) :
        Settled(h, i, Len(h)) => (h[i].change = "addition" <=> h[i].id \in S)

\* What undoing relies on: the additions and deletions of an edge alternate, so
\* that behind the newest one is the opposite one.
Alternate(h) ==
    \A i, j \in 1..Len(h) :
        (/\ i < j /\ Settled(h, i, j - 1)
         /\ Moves(h, j) /\ h[j].id = h[i].id) => h[i].change # h[j].change

Inv ==
    /\ history \in Seq(Item)
    /\ modifications \in Int /\ additions \in Int /\ deletions \in Int
    /\ edge_status \subseteq all_edges /\ all_edges \subseteq Edge
    /\ \A i \in 1..Len(history) : history[i].id \in all_edges
    /\ Explains(history, edge_status)
    /\ Alternate(history)

-----------------------------------------------------------------------------
\* A change that is recorded as it is made: the entry says what the edge was not.
LEMMA RecordKeeps ==
    ASSUME NEW h \in Seq(Item), NEW S, NEW r \in Item, NEW T,
           Explains(h, S), Alternate(h),
           \A i \in 1..Len(h) : h[i].id = r.id /\ Settled(h, i, Len(h))
                                   => h[i].change # r.change,
           \A e \in Edge : e # r.id => (e \in S <=> e \in T),
           r.change = "addition" <=> r.id \in T,
           r.change \in {"addition", "deletion"}
    PROVE /\ Append(h, r) \in Seq(Item)
          /\ Explains(Append(h, r), T) /\ Alternate(Append(h, r))
  <1> DEFINE g == Append(h, r)
             n == Len(h)
  <1>1. /\ g \in Seq(Item) /\ Len(g) = n + 1 /\ n \in Nat /\ g[n + 1] = r
        /\ \A i \in 1..n : g[i] = h[i] /\ h[i] \in Item
    OBVIOUS
  <1> HIDE DEF g, n
  <1>2. \A i \in 1..n, m \in 1..n : Settled(g, i, m) <=> Settled(h, i, m)
    BY <1>1 DEF Settled, Moves
  <1>3. \A i \in 1..n : Settled(g, i, n + 1) => Settled(h, i, n) /\ h[i].id # r.id
    BY <1>1 DEF Settled, Moves
  <1>4. Explains(g, T)
    <2> SUFFICES ASSUME NEW i \in 1..(n + 1), Settled(g, i, n + 1)
                 PROVE g[i].change = "addition" <=> g[i].id \in T
      BY <1>1 DEF Explains
    <2>1. CASE i = n + 1
      BY <1>1, <2>1
    <2>2. CASE i \in 1..n
      <3>1. h[i].change = "addition" <=> h[i].id \in S
        BY <1>3, <2>2 DEF Explains, n
      <3> QED BY <1>1, <1>3, <2>2, <3>1 DEF Item
    <2> QED BY <1>1, <2>1, <2>2
  <1>5. Alternate(g)
    <2> SUFFICES ASSUME NEW i \in 1..(n + 1), NEW j \in 1..(n + 1),
                        i < j, Settled(g, i, j - 1), Moves(g, j), g[j].id = g[i].id
                 PROVE g[i].change # g[j].change
      BY <1>1 DEF Alternate
    <2>1. CASE j = n + 1
      <3>1. i \in 1..n /\ Settled(h, i, n) /\ h[i].id = r.id
        BY <1>1, <1>2, <2>1
      <3> QED BY <1>1, <2>1, <3>1 DEF n
    <2>2. CASE j \in 1..n
      <3>1. i \in 1..n /\ j - 1 \in 1..n /\ Settled(h, i, j - 1)
        BY <1>1, <1>2, <2>2
      <3>2. Moves(h, j) /\ h[j].id = h[i].id
        BY <1>1, <2>2, <3>1 DEF Moves
      <3> QED BY <1>1, <2>2, <3>1, <3>2 DEF Alternate, n
    <2> QED BY <1>1, <2>1, <2>2
  <1> QED BY <1>1, <1>4, <1>5 DEF g

\* Taking the newest change of an edge back leaves the opposite one before it.
LEMMA DropKeeps ==
    ASSUME NEW h \in Seq(Item), NEW S, NEW T, h # <<>>,
           Explains(h, S), Alternate(h),
           h[Len(h)].change \in {"addition", "deletion"},
           \A e \in Edge : e # h[Len(h)].id => (e \in S <=> e \in T),
           h[Len(h)].change = "deletion" <=> h[Len(h)].id \in T
    PROVE /\ SubSeq(h, 1, Len(h) - 1) \in Seq(Item)
          /\ Explains(SubSeq(h, 1, Len(h) - 1), T)
          /\ Alternate(SubSeq(h, 1, Len(h) - 1))
  <1> DEFINE g == SubSeq(h, 1, Len(h) - 1)
             n == Len(h)
  <1>1. n \in Nat \ {0} /\ \A i \in 1..n : h[i] \in Item
    OBVIOUS
  <1>2. g \in Seq(Item) /\ Len(g) = n - 1 /\ \A i \in 1..(n - 1) : g[i] = h[i]
    <2>1. 1 \in Int /\ n - 1 \in Int /\ \A i \in 1..(n - 1) : h[i] \in Item
      BY <1>1
    <2>2. /\ SubSeq(h, 1, n - 1) \in Seq(Item)
          /\ Len(SubSeq(h, 1, n - 1)) = IF 1 <= n - 1 THEN n - 1 - 1 + 1 ELSE 0
          /\ \A i \in 1..(n - 1 - 1 + 1) : SubSeq(h, 1, n - 1)[i] = h[1 + i - 1]
      <3> HIDE DEF n, g
      <3> QED BY <2>1, SubSeqProperties
    <2>3. g = SubSeq(h, 1, n - 1) /\ n - 1 - 1 + 1 = n - 1 /\ \A i \in 1..(n - 1) : 1 + i - 1 = i
      BY <1>1
    <2>4. n \in Nat \ {0}
      BY <1>1
    <2> HIDE DEF g, n
    <2> QED BY <2>2, <2>3, <2>4
  <1>3. /\ \A i \in 1..n : Settled(h, i, n) => (h[i].change = "addition" <=> h[i].id \in S)
        /\ \A i, j \in 1..n : (/\ i < j /\ Settled(h, i, j - 1)
                               /\ Moves(h, j) /\ h[j].id = h[i].id)
                                => h[i].change # h[j].change
        /\ h[n].change \in {"addition", "deletion"}
        /\ \A e \in Edge : e # h[n].id => (e \in S <=> e \in T)
        /\ h[n].change = "deletion" <=> h[n].id \in T
    BY DEF Explains, Alternate
  <1> HIDE DEF g, n
  <1>4. \A i, m \in 1..(n - 1) : Settled(g, i, m) <=> Settled(h, i, m)
    BY <1>1, <1>2 DEF Settled, Moves
  <1>5. Explains(g, T)
    <2> SUFFICES ASSUME NEW i \in 1..(n - 1), Settled(g, i, n - 1)
                 PROVE g[i].change = "addition" <=> g[i].id \in T
      BY <1>2 DEF Explains
    <2>1. Settled(h, i, n - 1) /\ i \in 1..n /\ n \in 1..n /\ i < n /\ g[i] = h[i]
      BY <1>1, <1>2, <1>4, n - 1 \in 1..(n - 1)
    <2>2. CASE h[i].id = h[n].id
      <3>1. h[i].change # h[n].change
        BY <1>3, <2>1, <2>2 DEF Moves
      <3> QED BY <1>3, <2>1, <2>2, <3>1 DEF Settled, Moves
    <2>3. CASE h[i].id # h[n].id
      <3>1. Settled(h, i, n)
        BY <1>1, <2>1, <2>3 DEF Settled
      <3>2. h[i].id \in Edge
        BY <1>1, <2>1 DEF Item
      <3> QED BY <1>3, <2>1, <2>3, <3>1, <3>2
    <2> QED BY <2>2, <2>3
  <1>6. Alternate(g)
    <2> SUFFICES ASSUME NEW i \in 1..(n - 1), NEW j \in 1..(n - 1),
                        i < j, Settled(g, i, j - 1), Moves(g, j), g[j].id = g[i].id
                 PROVE g[i].change # g[j].change
      BY <1>2 DEF Alternate
    <2>1. Settled(h, i, j - 1) /\ Moves(h, j) /\ h[j].id = h[i].id
      BY <1>1, <1>2, <1>4, j - 1 \in 1..(n - 1) DEF Moves
    <2>2. i \in 1..n /\ j \in 1..n
      BY <1>1
    <2> QED BY <1>2, <1>3, <2>1, <2>2
  <1> QED BY <1>2, <1>5, <1>6 DEF g

\* An empty history says that nothing has changed.
LEMMA EmptyKeeps == \A S : Explains(<<>>, S) /\ Alternate(<<>>) /\ <<>> \in Seq(Item)
  BY DEF Explains, Alternate

-----------------------------------------------------------------------------
\* That is how a graph begins,
LEMMA InitInv == Init => Inv
  BY EmptyKeeps DEF Init, GraphInit, Inv

\* enableEdge, disableEdge and addEdge move an edge that was not so before.
LEMMA MutateInv == ASSUME Inv, Mutate PROVE Inv'
  <1> USE DEF Inv
  <1>1. CASE AddNode
    <2>1. history' = history \/ history' = <<>>
      BY <1>1 DEF AddNode
    <2>2. /\ history' \in Seq(Item) /\ Explains(history', edge_status) /\ Alternate(history')
          /\ \A i \in 1..Len(history') : history'[i].id \in all_edges
      <3>1. CASE history' = history
        BY <3>1
      <3>2. CASE history' = <<>>
        <4>1. Len(history') = 0
          BY <3>2
        <4> QED BY <3>2, <4>1, EmptyKeeps
      <3> QED BY <2>1, <3>1, <3>2
    <2>3. /\ edge_status' = edge_status /\ all_edges' = all_edges
          /\ modifications' \in Int /\ additions' \in Int /\ deletions' \in Int
      BY <1>1 DEF AddNode
    <2> QED BY <2>2, <2>3
  <1>2. ASSUME NEW e \in Edge, NEW w \in Weight, AddEdge(e, w) PROVE Inv'
    <2> DEFINE r == [change |-> "addition", id |-> e, mod |-> modifications + 2,
                     prev_mod |-> modifications + 2]
    <2>1. r \in Item /\ r.id = e /\ r.change = "addition"
      BY DEF Item, Change
    <2>2. history' = Append(history, r) /\ edge_status' = edge_status \cup {e}
          /\ all_edges' = all_edges \cup {e} /\ e \notin all_edges
      BY <1>2 DEF AddEdge
    <2> HIDE DEF r
    <2>3. history' \in Seq(Item) /\ Explains(history', edge_status') /\ Alternate(history')
      BY <2>1, <2>2, RecordKeeps
    <2>4. \A i \in 1..Len(history') : history'[i].id \in all_edges'
      BY <2>1, <2>2
    <2> QED BY <1>2, <2>2, <2>3, <2>4 DEF AddEdge
  <1>3. ASSUME NEW e \in Edge, EnableEdge(e) PROVE Inv'
    <2> DEFINE r == [change |-> "addition", id |-> e, mod |-> modifications + 1,
                     prev_mod |-> modifications + 1]
    <2>1. r \in Item /\ r.id = e /\ r.change = "addition"
      BY DEF Item, Change
    <2>2. history' = Append(history, r) /\ edge_status' = edge_status \cup {e}
          /\ all_edges' = all_edges /\ e \in all_edges \ edge_status
      BY <1>3 DEF EnableEdge, Record
    <2> HIDE DEF r
    <2>3. \A i \in 1..Len(history) : history[i].id = e /\ Settled(history, i, Len(history))
                                       => history[i].change # "addition"
      BY <2>2 DEF Explains
    <2>4. history' \in Seq(Item) /\ Explains(history', edge_status') /\ Alternate(history')
      BY <2>1, <2>2, <2>3, RecordKeeps
    <2>5. \A i \in 1..Len(history') : history'[i].id \in all_edges'
      BY <2>1, <2>2
    <2> QED BY <1>3, <2>2, <2>4, <2>5 DEF EnableEdge, Record
  <1>4. ASSUME NEW e \in Edge, DisableEdge(e) PROVE Inv'
    <2> DEFINE r == [change |-> "deletion", id |-> e, mod |-> modifications + 1,
                     prev_mod |-> deletions]
    <2>1. r \in Item /\ r.id = e /\ r.change = "deletion"
      BY DEF Item, Change
    <2>2. history' = Append(history, r) /\ edge_status' = edge_status \ {e}
          /\ all_edges' = all_edges /\ e \in edge_status
      BY <1>4 DEF DisableEdge, Record
    <2> HIDE DEF r
    <2>3. \A i \in 1..Len(history) : history[i].id = e /\ Settled(history, i, Len(history))
                                       => history[i].change = "addition"
      BY <2>2 DEF Explains
    <2>4. history' \in Seq(Item) /\ Explains(history', edge_status') /\ Alternate(history')
      BY <2>1, <2>2, <2>3, RecordKeeps
    <2>5. \A i \in 1..Len(history') : history'[i].id \in all_edges'
      BY <2>1, <2>2
    <2> QED BY <1>4, <2>2, <2>4, <2>5 DEF DisableEdge, Record
  <1>5. ASSUME NEW e \in Edge, NEW w \in Weight, SetEdgeWeight(e, w) PROVE Inv'
    <2>1. PICK r : /\ r \in Item /\ r.id = e
                   /\ r.change \in {"weight_increase", "weight_decrease"}
                   /\ history' = Append(history, r)
      BY <1>5 DEF SetEdgeWeight, Record, Item, Change
    <2>2. Explains(history', edge_status) /\ Alternate(history')
      BY <2>1 DEF Explains, Alternate, Settled, Moves
    <2> QED BY <1>5, <2>1, <2>2 DEF SetEdgeWeight, Record
  <1>6. CASE Invalidate
    BY <1>6 DEF Invalidate
  <1> QED BY <1>1, <1>2, <1>3, <1>4, <1>5, <1>6 DEF Mutate

\* rewindHistory takes back the newest change, or passes over it.
LEMMA RewindInv == ASSUME Inv, RewindTurn PROVE Inv'
  <1> USE DEF Inv
  <1> DEFINE n == Len(history)
  <1>1. ASSUME UndoEnableEdge(Newest.id) PROVE Inv'
    <2>1. /\ history # <<>> /\ history[n].change = "addition"
          /\ history' = SubSeq(history, 1, n - 1)
          /\ edge_status' = edge_status \ {history[n].id} /\ all_edges' = all_edges
          /\ modifications' = modifications - 1 /\ additions' = history[n].prev_mod
          /\ deletions' = deletions
      BY <1>1 DEF UndoEnableEdge, Newest, DropNewest
    <2>2. n \in 1..n /\ history[n] \in Item
      BY <2>1
    <2>3. history' \in Seq(Item) /\ Explains(history', edge_status') /\ Alternate(history')
      <3>1. /\ history \in Seq(Item) /\ Explains(history, edge_status) /\ Alternate(history)
            /\ history[n].change \in {"addition", "deletion"}
            /\ \A e \in Edge : e # history[n].id => (e \in edge_status <=> e \in edge_status')
            /\ history[n].change = "deletion" <=> history[n].id \in edge_status'
        BY <2>1
      <3> QED
        BY <2>1, <3>1, DropKeeps, Zenon
    <2>4. \A i \in 1..Len(history') : history'[i].id \in all_edges
      BY <2>1
    <2> QED BY <2>1, <2>2, <2>3, <2>4 DEF Item
  <1>2. ASSUME Newest.change = "deletion", UndoDisableEdge(Newest.id) PROVE Inv'
    <2>1. /\ history # <<>> /\ history[n].change = "deletion"
          /\ history' = SubSeq(history, 1, n - 1)
          /\ edge_status' = edge_status \cup {history[n].id} /\ all_edges' = all_edges
          /\ modifications' = modifications - 1 /\ deletions' = history[n].prev_mod
          /\ additions' = additions
      BY <1>2 DEF UndoDisableEdge, Newest, DropNewest
    <2>2. n \in 1..n /\ history[n] \in Item /\ history[n].id \in all_edges
      BY <2>1
    <2>3. history' \in Seq(Item) /\ Explains(history', edge_status') /\ Alternate(history')
      <3>1. /\ history \in Seq(Item) /\ Explains(history, edge_status) /\ Alternate(history)
            /\ history[n].change \in {"addition", "deletion"}
            /\ \A e \in Edge : e # history[n].id => (e \in edge_status <=> e \in edge_status')
            /\ history[n].change = "deletion" <=> history[n].id \in edge_status'
        BY <2>1
      <3> QED
        BY <2>1, <3>1, DropKeeps, Zenon
    <2>4. \A i \in 1..Len(history') : history'[i].id \in all_edges
      BY <2>1
    <2> QED BY <2>1, <2>2, <2>3, <2>4 DEF Item
  <1>3. ASSUME UNCHANGED graphVars PROVE Inv'
    BY <1>3 DEF graphVars, marks
  <1> QED BY <1>1, <1>2, <1>3 DEF RewindTurn

\* and every operation keeps the history true of it.
LEMMA NextInv == Inv /\ [Next]_historyVars => Inv'
  <1> SUFFICES ASSUME Inv, [Next]_historyVars PROVE Inv'
    OBVIOUS
  <1>1. CASE UNCHANGED graphVars
    BY <1>1 DEF Inv, graphVars, marks
  <1>2. CASE Mutate
    BY <1>2, MutateInv
  <1>3. CASE Maintain
    <2>1. ASSUME NEW pos, ClearHistory(pos) PROVE Inv'
      <3>1. /\ history' = <<>> /\ Len(history') = 0 /\ modifications' = modifications
            /\ additions' = additions /\ deletions' = deletions
            /\ edge_status' = edge_status /\ all_edges' = all_edges
        BY <2>1 DEF ClearHistory, marks
      <3> QED BY <3>1, EmptyKeeps DEF Inv
    <2>2. ClearChanged \/ (\E a \in Alg : AddDynamicAlgorithm(a))
            \/ (\E a \in Alg : UpdateAlgorithmHistory(a, HistorySize))
          => UNCHANGED <<history, modifications, additions, deletions, edge_status, all_edges>>
      BY DEF ClearChanged, AddDynamicAlgorithm, UpdateAlgorithmHistory, marks
    <2>3. CASE UNCHANGED <<history, modifications, additions, deletions, edge_status, all_edges>>
      BY <2>3 DEF Inv
    <2> QED BY <1>3, <2>1, <2>2, <2>3 DEF Maintain
  <1>4. CASE Rewinding
    BY <1>1, <1>4, RewindInv DEF Rewinding, RewindCall, RewindFail, RewindReturn
  <1> QED BY <1>1, <1>2, <1>3, <1>4 DEF Next, historyVars

\* The newest retained addition or deletion of an edge says whether it is
\* enabled, through clears and rewinds, for any graph and any client.
THEOREM HistoryAlwaysExplains == Spec => []HistoryExplainsStatus
  <1>1. Inv => HistoryExplainsStatus
    BY DEF Inv, Explains, Settled, Moves, HistoryExplainsStatus, StatusMoves
  <1> QED BY <1>1, InitInv, NextInv, PTL DEF Spec
=============================================================================
