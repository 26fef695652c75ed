---------------------------- MODULE GraphHistory ----------------------------
(***************************************************************************)
(* A DynamicGraph under an arbitrary client: every public operation in any *)
(* order, among them rewindHistory, which undoes the newest changes.       *)
(***************************************************************************)
EXTENDS DynamicGraph

CONSTANT MaxSteps   \* bound: the longest rewind a client asks for

ASSUME GraphHistoryAssumption == MaxSteps \in Nat \ {0}

VARIABLE rewind   \* rewindHistory: whether a call is running, and the turns left

historyVars == <<graphVars, rewind>>

Init ==
    /\ GraphInit
    /\ rewind = [running |-> FALSE, left |-> 0]

-----------------------------------------------------------------------------
\* An undo that fails makes rewindHistory return false at once.
UndoFails == Newest.mod # modifications

RewindCall(n) ==
    /\ ~rewind.running
    /\ n <= Len(history)
    /\ rewind' = [running |-> TRUE, left |-> n]
    /\ UNCHANGED graphVars

\* One turn of the loop: an addition or a deletion is undone, any other entry
\* is passed over and stays the newest.
RewindTurn ==
    /\ rewind.running
    /\ rewind.left > 0
    /\ rewind' = [rewind EXCEPT !.left = @ - 1]
    /\ \/ UndoEnableEdge(Newest.id)
       \/ Newest.change = "deletion" /\ UndoDisableEdge(Newest.id)
       \/ /\ Newest.change \in {"weight_increase", "weight_decrease"}
          /\ UNCHANGED graphVars

RewindFail ==
    /\ rewind.running
    /\ rewind.left > 0
    /\ Newest.change \in {"addition", "deletion"}
    /\ UndoFails
    /\ rewind' = [rewind EXCEPT !.running = FALSE]
    /\ UNCHANGED graphVars

RewindReturn ==
    /\ rewind.running
    /\ rewind.left = 0
    /\ rewind' = [rewind EXCEPT !.running = FALSE]
    /\ UNCHANGED graphVars

Rewinding ==
    \/ \E n \in 1..MaxSteps : RewindCall(n)
    \/ RewindTurn
    \/ RewindFail
    \/ RewindReturn

-----------------------------------------------------------------------------
\* What an algorithm called back by clearHistory may report: the end of the
\* history, or still the position it had reported before.
Reports ==
    {pos \in [Alg -> {HistorySize} \cup {dynamic_history_pos[a] : a \in Alg}] :
        \A a \in Alg : \/ pos[a] = dynamic_history_pos[a]
                       \/ a \in CalledBack /\ pos[a] = HistorySize}

Bounded == modifications + 2 <= MaxModifications

Mutate ==
    \/ AddNode
    \/ \E e \in Edge, w \in Weight : AddEdge(e, w)
    \/ \E e \in Edge : EnableEdge(e)
    \/ \E e \in Edge : DisableEdge(e)
    \/ \E e \in Edge, w \in Weight : SetEdgeWeight(e, w)
    \/ Invalidate

Maintain ==
    \/ ClearChanged
    \/ \E a \in Alg : AddDynamicAlgorithm(a)
    \/ \E a \in Alg : UpdateAlgorithmHistory(a, HistorySize)
    \/ \E pos \in Reports : ClearHistory(pos)

Next ==
    \/ ~rewind.running /\ Bounded /\ Mutate /\ UNCHANGED rewind
    \/ ~rewind.running /\ Maintain /\ UNCHANGED rewind
    \/ Rewinding

Spec == Init /\ [][Next]_historyVars

-----------------------------------------------------------------------------
\* The status of an edge is what the newest retained addition or deletion of
\* it says, whatever was cleared and undone: the algorithms compare entries
\* with edgeEnabled and would otherwise skip a change for good.
StatusMoves(i) == history[i].change \in {"addition", "deletion"}
HistoryExplainsStatus ==
    \A i \in 1..Len(history) :
        (/\ StatusMoves(i)
         /\ \A j \in (i + 1)..Len(history) :
                StatusMoves(j) => history[j].id # history[i].id)
        => (history[i].change = "addition" <=> history[i].id \in edge_status)
=============================================================================
