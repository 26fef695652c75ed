------------------------ MODULE UnweightedRamalReps -------------------------
(***************************************************************************)
(* The dynamic single-source shortest path algorithm that the reachability *)
(* and distance detectors use by default (UnweightedRamalReps in           *)
(* src/monosat/dgl/RamalReps.h).  Between two updates the graph may change *)
(* many times; an update replays the changes one after the other, each on  *)
(* the graph as it is in the end, not as it was after that change.         *)
(*                                                                         *)
(* A step is one turn of one of the algorithm's loops.  Edges are numbered *)
(* and adjacency lists ordered by number.                                  *)
(***************************************************************************)
EXTENDS Integers, Sequences, FiniteSets, SequencesExt

CONSTANTS
    Node, Source, Edge, From, To,
    Limits,      \* the longest distances the detector may ask for first
    MaxPending   \* bound: changes between two updates

ASSUME RamalRepsAssumption ==
    /\ IsFiniteSet(Node) /\ Source \in Node
    /\ Edge \subseteq Nat /\ IsFiniteSet(Edge)
    /\ From \in [Edge -> Node] /\ To \in [Edge -> Node]
    /\ Limits \subseteq 1..(Cardinality(Node) + 1)
    /\ MaxPending \in Nat

VARIABLES
    enabled,        \* the graph: its enabled edges
    pending,        \* its history from history_qhead on
    cleared,        \* historyclears is not last_history_clear
    modified,       \* modifications is not last_modification
    full,           \* last_modification <= 0, or the graph is marked changed
    maxDistance,
    reportPolarity, \* with 0, distances are reported, too
    alg,            \* what the algorithm keeps: dist, delta, and
                    \* tight, for edgeInShortestPathGraph
    changed,
    phase,
    todo,           \* the changes this update has still to replay
    queue, queue2,  \* what is left of q and q2
    queued, queued2,\* in_queue, in_queue2
    changeset, next,\* and the place in it
    known, told     \* history: what the last update found and reported

graph == <<enabled, pending, cleared, modified, full>>
settings == <<maxDistance, reportPolarity>>
queues == <<queue, queue2, queued, queued2, changeset, next>>
outcome == <<known, told>>
vars == <<graph, settings, alg, changed, phase, todo, queues, outcome>>

INF == Cardinality(Node) + 1
Ascending(S) == SetToSortSeq(S, <)
Incident == [n \in Node |-> Ascending({e \in Edge : From[e] = n})]
Incoming == [n \in Node |-> Ascending({e \in Edge : To[e] = n})]

Alt(a, n) == LET d == a.dist[n] + 1 IN IF d > maxDistance THEN INF ELSE d

\* An enabled edge turns out to lie on a shortest path.
AddTight(a, e) == [a EXCEPT !.tight = @ \cup {e}, !.delta[To[e]] = @ + 1]

-----------------------------------------------------------------------------
(***************************************************************************)
(* The graph and the detector, between two updates.                        *)
(***************************************************************************)
\* Every edge was added enabled; then all were disabled, or none.
Init ==
    /\ enabled \in {Edge, {}} /\ cleared \in BOOLEAN
    /\ pending = IF cleared THEN <<>>
                 ELSE [i \in 1..Cardinality(Edge) |->
                        [id |-> Ascending(Edge)[i], addition |-> enabled # {}]]
    /\ modified = TRUE /\ full = TRUE
    /\ maxDistance \in Limits /\ reportPolarity \in -1..1
    /\ alg = [dist |-> [n \in Node |-> IF n = Source THEN 0 ELSE INF],
              delta |-> [n \in Node |-> 0], tight |-> {}]
    /\ changed = {} /\ phase = "idle" /\ todo = <<>>
    /\ queue = <<>> /\ queue2 = <<>> /\ queued = {} /\ queued2 = {}
    /\ changeset = <<>> /\ next = 1
    /\ known = [n \in Node |-> -1] /\ told = {}

\* enableEdge or disableEdge.
Toggle(e) ==
    /\ phase = "idle" /\ Len(pending) < MaxPending
    /\ enabled' = IF e \in enabled THEN enabled \ {e} ELSE enabled \cup {e}
    /\ pending' = IF cleared THEN pending
                  ELSE Append(pending, [id |-> e, addition |-> e \notin enabled])
    /\ modified' = TRUE
    /\ UNCHANGED <<cleared, full, settings, alg, changed, phase, todo, queues, outcome>>

ClearHistory ==
    /\ phase = "idle" /\ pending # <<>>
    /\ pending' = <<>> /\ cleared' = TRUE
    /\ UNCHANGED <<enabled, modified, full, settings, alg, changed, phase, todo, queues,
                   outcome>>

\* addUnweightedShortestPathLit with a bound larger than any before: it
\* invalidates the graph, and setMaxDistance is called.
SetMaxDistance(d) ==
    /\ phase = "idle" /\ d > maxDistance
    /\ maxDistance' = d /\ full' = TRUE /\ modified' = TRUE
    /\ known' = [n \in Node |-> -1] /\ told' = {}
    /\ UNCHANGED <<enabled, pending, cleared, reportPolarity, alg, changed, phase, todo,
                   queues>>

-----------------------------------------------------------------------------
(***************************************************************************)
(* update.                                                                 *)
(***************************************************************************)
Reportable(a, n) ==
    IF a.dist[n] >= INF THEN reportPolarity <= 0 ELSE reportPolarity >= 0

\* On the first round the status of all nodes is reported.  After a clear of
\* the history the present status of every edge is replayed instead.
Update ==
    /\ full \/ modified
    /\ phase = "idle" /\ phase' = "replay"
    /\ changed' = IF full THEN {n \in Node : Reportable(alg, n)} ELSE {}
    /\ todo' = IF cleared
                 THEN [i \in 1..Cardinality(Edge) |->
                        LET e == Ascending(Edge)[i]
                        IN [id |-> e, addition |-> e \in enabled]]
                 ELSE pending
    /\ pending' = <<>> /\ cleared' = FALSE
    /\ UNCHANGED <<enabled, modified, full, settings, alg, queues, outcome>>

Change == Head(todo)
TakeNext == phase = "replay" /\ todo # <<>> /\ todo' = Tail(todo)
Increases(e) == Change.addition /\ e \in enabled /\ e \notin alg.tight
Decreases(e) == ~Change.addition /\ e \notin enabled /\ e \in alg.tight

\* A change that was undone by a later one, or does not concern any shortest path.
ReplayNothing ==
    /\ TakeNext
    /\ LET e == Change.id
       IN /\ ~Decreases(e)
          /\ Increases(e) => \/ alg.dist[To[e]] < Alt(alg, From[e])
                             \/ Alt(alg, From[e]) = INF
    /\ UNCHANGED <<graph, settings, alg, changed, phase, queues, outcome>>

\* GRRInc finds one more shortest path.
ReplayTie ==
    /\ TakeNext
    /\ LET e == Change.id
       IN /\ Increases(e)
          /\ alg.dist[To[e]] = Alt(alg, From[e]) /\ Alt(alg, From[e]) < INF
          /\ alg' = AddTight(alg, e)
    /\ UNCHANGED <<graph, settings, changed, phase, queues, outcome>>

\* GRRInc finds a shorter path.
ReplayShorter ==
    /\ TakeNext /\ phase' = "inc"
    /\ LET e == Change.id
       IN /\ Increases(e) /\ Alt(alg, From[e]) < alg.dist[To[e]]
          /\ alg' = [AddTight(alg, e) EXCEPT !.dist[To[e]] = Alt(alg, From[e])]
          /\ queue' = <<To[e]>> /\ queued' = {To[e]}
    /\ UNCHANGED <<graph, settings, changed, queue2, queued2, changeset, next, outcome>>

\* GRRInc: which edges into u are tight, counted anew.
Recount(a, u) ==
    LET into == {e \in enabled : To[e] = u}
        tie == {e \in into : a.dist[u] = Alt(a, From[e])}
        later == {e \in into : a.dist[u] > Alt(a, From[e])}
    IN [a EXCEPT !.delta[u] = Cardinality(tie),
                 !.tight = {e \in @ : To[e] = u => e \in later} \cup tie]

\* Mutant of LowerOut: a tie is not counted.
LowerOut_noTie(x, e) ==
    LET s == To[e]
        alt == Alt(x.a, From[e])
    IN IF e \in enabled /\ x.a.dist[s] > alt
       THEN [a |-> [x.a EXCEPT !.dist[s] = alt],
             queue |-> IF s \in x.queued THEN x.queue ELSE Append(x.queue, s),
             queued |-> x.queued \cup {s}, lowered |-> x.lowered \cup {s}]
       ELSE x

\* An enabled edge to a node that may get nearer, or a further shortest path.
LowerOut(x, e) ==
    LET s == To[e]
        alt == Alt(x.a, From[e])
    IN IF e \in enabled /\ x.a.dist[s] > alt
       THEN [a |-> [x.a EXCEPT !.dist[s] = alt],
             queue |-> IF s \in x.queued THEN x.queue ELSE Append(x.queue, s),
             queued |-> x.queued \cup {s}, lowered |-> x.lowered \cup {s}]
       ELSE IF e \in enabled /\ x.a.dist[s] = alt /\ e \notin x.a.tight /\ alt < INF
       THEN [x EXCEPT !.a = AddTight(x.a, e)]
       ELSE x

\* One turn of GRRInc's loop.
Increase ==
    LET u == Head(queue)
        x == FoldLeft(LowerOut, [a |-> Recount(alg, u), queue |-> Tail(queue),
                                 queued |-> queued, lowered |-> {}], Incident[u])
    IN /\ phase = "inc"
       /\ alg' = x.a /\ queue' = x.queue /\ queued' = x.queued
       /\ changed' = changed \cup {u}
       /\ phase' = IF x.queue = <<>> THEN "replay" ELSE "inc"
       /\ UNCHANGED <<graph, settings, todo, queue2, queued2, changeset, next, outcome>>

\* GRRDec: an edge of the shortest path graph is gone, other paths are left.
ReplaySpare ==
    /\ TakeNext
    /\ LET e == Change.id
       IN /\ Decreases(e) /\ alg.delta[To[e]] # 1
          /\ alg' = [alg EXCEPT !.tight = @ \ {e}, !.delta[To[e]] = @ - 1]
    /\ UNCHANGED <<graph, settings, changed, phase, queues, outcome>>

\* GRRDec: it was the last one.
ReplayLast ==
    /\ TakeNext /\ phase' = "affected"
    /\ LET e == Change.id
       IN /\ Decreases(e) /\ alg.delta[To[e]] = 1
          /\ alg' = [alg EXCEPT !.tight = @ \ {e}, !.delta[To[e]] = @ - 1]
          /\ changeset' = <<To[e]>> /\ next' = 1
    /\ queue' = <<>> /\ queue2' = <<>> /\ queued2' = {}
    /\ UNCHANGED <<graph, settings, changed, queued, outcome>>

Loosen(x, e) ==
    IF e \notin enabled \cap x.a.tight THEN x
    ELSE [a |-> [x.a EXCEPT !.tight = @ \ {e}, !.delta[To[e]] = @ - 1],
          set |-> IF x.a.delta[To[e]] = 1 THEN Append(x.set, To[e]) ELSE x.set]

\* GRRDec: the nodes all of whose shortest paths are gone.
Affect ==
    LET u == changeset[next]
        x == FoldLeft(Loosen, [a |-> [alg EXCEPT !.dist[u] = INF], set |-> changeset],
                      Incident[u])
    IN /\ phase = "affected"
       /\ alg' = x.a /\ changeset' = x.set
       /\ next' = IF next = Len(x.set) THEN 1 ELSE next + 1
       /\ phase' = IF next = Len(x.set) THEN "restore" ELSE phase
       /\ UNCHANGED <<graph, settings, changed, todo, queue, queue2, queued, queued2, outcome>>

\* Mutant of Nearest: edges are taken as if still enabled.
Nearest_disabled(a, u) ==
    LET alts == {Alt(a, From[e]) : e \in {d \in Edge : To[d] = u}} \cup {INF}
    IN CHOOSE d \in alts : \A c \in alts : d <= c
Nearest(a, u) ==
    LET alts == {Alt(a, From[e]) : e \in {d \in enabled : To[d] = u}} \cup {INF}
    IN CHOOSE d \in alts : \A c \in alts : d <= c

\* std::sort, by distance.
NearestFirst(q, a) == LET nearer(m, n) == a.dist[m] < a.dist[n] IN SortSeq(q, nearer)

\* GRRDec: what they reach by their other edges; in the end q is sorted.
Restore ==
    LET u == changeset[next]
        a == [alg EXCEPT !.dist[u] = Nearest(alg, u)]
        q == IF a.dist[u] < INF THEN Append(queue, u) ELSE queue
        last == next = Len(changeset)
    IN /\ phase = "restore"
       /\ alg' = a
       /\ changed' = IF Reportable(a, u) THEN changed \cup {u} ELSE changed
       /\ queue' = IF last THEN NearestFirst(q, a) ELSE q
       /\ next' = IF last THEN 1 ELSE next + 1
       /\ changeset' = IF last THEN <<>> ELSE changeset
       /\ phase' = IF ~last THEN "restore" ELSE IF q = <<>> THEN "replay" ELSE "settle"
       /\ UNCHANGED <<graph, settings, todo, queue2, queued, queued2, outcome>>

\* The nearer head of the two queues; q2's when they are equally near.
FromSecond ==
    queue = <<>> \/ (queue2 # <<>> /\ ~(alg.dist[Head(queue)] < alg.dist[Head(queue2)]))

RaiseIn(a, e) ==
    IF e \in enabled /\ a.dist[To[e]] = Alt(a, From[e]) /\ e \notin a.tight
      THEN AddTight(a, e)
    ELSE IF e \in enabled \cap a.tight /\ a.dist[To[e]] < Alt(a, From[e])
      THEN [a EXCEPT !.tight = @ \ {e}, !.delta[To[e]] = @ - 1]
    ELSE a

Settled(u, lowered) ==
    IF reportPolarity = 0 THEN {u} \cup lowered
    ELSE IF reportPolarity = 1 THEN lowered ELSE {}

\* One turn of GRRDec's last loop.
Settle ==
    LET u == IF FromSecond THEN Head(queue2) ELSE Head(queue)
        q == IF FromSecond THEN queue ELSE Tail(queue)
        q2 == IF FromSecond THEN Tail(queue2) ELSE queue2
        out == FoldLeft(LowerOut, [a |-> alg, queue |-> q2, queued |-> queued2,
                                   lowered |-> {}], Incident[u])
        twice == ~FromSecond /\ u \in queued2
    IN /\ phase = "settle"
       /\ queue' = q
       /\ IF twice
            THEN queue2' = q2 /\ UNCHANGED <<alg, changed, queued2>>
            ELSE /\ alg' = FoldLeft(RaiseIn, out.a, Incoming[u])
                 /\ queue2' = out.queue /\ queued2' = out.queued
                 /\ changed' = changed \cup Settled(u, out.lowered)
       /\ phase' = IF q = <<>> /\ queue2' = <<>> THEN "replay" ELSE "settle"
       /\ UNCHANGED <<graph, settings, todo, queued, changeset, next, outcome>>

\* Every node on the list is reported with its status of now.
Report ==
    /\ phase = "replay" /\ todo = <<>> /\ phase' = "idle"
    /\ known' = alg.dist /\ told' = {n \in changed : Reportable(alg, n)}
    /\ changed' = {} /\ modified' = FALSE /\ full' = FALSE
    /\ queued' = {} /\ queued2' = {}
    /\ UNCHANGED <<enabled, pending, cleared, settings, alg, todo, queue, queue2, changeset,
                   next>>

Next ==
    \/ \E e \in Edge : Toggle(e)
    \/ ClearHistory
    \/ Update \/ ReplayNothing \/ ReplayTie \/ ReplayShorter \/ Increase
    \/ ReplaySpare \/ ReplayLast \/ Affect \/ Restore \/ Settle \/ Report

Spec == Init /\ [][Next]_vars

\* The detector may also ask for longer distances later on; the algorithm does
\* not keep its promise then.
RaisingSpec == Init /\ [][Next \/ \E d \in 1..INF : SetMaxDistance(d)]_vars

-----------------------------------------------------------------------------
(***************************************************************************)
(* Properties.                                                             *)
(***************************************************************************)
\* After an update the counters are those of the graph (dbg_delta): an edge is
\* in the shortest path graph when it is tight, and delta counts these.  Within
\* GRRDec, no enabled edge into an affected node is in the shortest path graph
\* when its distance is looked for again (asserted there).
CountsExact ==
    /\ phase = "idle" /\ ~modified =>
         /\ alg.tight = {e \in enabled : /\ Alt(alg, From[e]) < INF
                                         /\ alg.dist[To[e]] = Alt(alg, From[e])}
         /\ \A n \in Node : alg.delta[n] = Cardinality({e \in alg.tight : To[e] = n})
    /\ phase = "restore" =>
         \A i \in next..Len(changeset), e \in enabled :
            To[e] = changeset[i] => e \notin alg.tight

\* The algorithm keeps the promise the detectors rely on.
Promise == INSTANCE ShortestPaths WITH limit <- maxDistance, polarity <- reportPolarity
KeepsPromise == Promise!Spec
=============================================================================
