------------------------------ MODULE Topology ------------------------------
(***************************************************************************)
(* Adding and removing storage nodes: NodeHandlerV2 of each coordinator,   *)
(* the tables storage_nodes and pending_changes that the coordinators      *)
(* share, the ring each RoutingService keeps and refreshes from the table, *)
(* and the streams the storage nodes run.                                  *)
(*                                                                         *)
(* A handler writes the tables, starts the streams and leaves a monitor    *)
(* behind, which polls the streams and then finishes the change or rolls   *)
(* it back.  The lock of a node is held by the handler only, and by one    *)
(* coordinator only; monitors live in memory and die with the coordinator. *)
(* A ring is the set of its nodes here (HashRing has the positions): with  *)
(* 150 virtual nodes a node that joins takes ranges from every other one.  *)
(***************************************************************************)
EXTENDS Integers, FiniteSets

CONSTANTS
  Nodes,        \* storage nodes
  Coords,       \* coordinators
  Initial,      \* the nodes that are in service at the start
  RF,           \* replication factor
  MinNodes,     \* nodes that must remain after a removal (3 in the code)
  Kinds,        \* requests that are made: "add", "remove", "force"
  Targets,      \* the nodes they are made for
  Faults,       \* what may go wrong: "db", "start", "stream", "slow", "hints", "crash", "restart"
  MaxAttempts,  \* polls before a monitor gives up (360 in the code)
  MaxOps        \* bound: requests

TopologyAssumption ==
  /\ Nodes # {} /\ Coords # {} /\ Initial \subseteq Nodes /\ Targets \subseteq Nodes
  /\ RF \in Nat \ {0} /\ MinNodes \in Nat /\ MaxAttempts \in Nat \ {0} /\ MaxOps \in Nat
  /\ Kinds \subseteq {"add", "remove", "force"}

VARIABLES
  node,      \* the rows of storage_nodes
  change,    \* the rows of pending_changes, one per request
  ring,      \* the ring of each coordinator
  stream,    \* the streams between storage nodes
  op,        \* the requests and their monitors
  streamed   \* the streams that have ever completed, to state properties

vars == <<node, change, ring, stream, op, streamed>>

Ops == 1..MaxOps
NoRow == [status |-> "none", state |-> "none", pending |-> {}, leaving |-> {}]
NormalRow == [NoRow EXCEPT !.status = "active", !.state = "NORMAL"]
NoChange == [status |-> "none", message |-> "null"]

\* A request: its kind, node and coordinator, where it is, the nodes it streams
\* from or to, those whose stream the monitor has seen completed, and its polls.
IsOp(o) ==
  /\ o.kind \in {"none", "add", "remove"}
  /\ o.pc \in {"free", "calc", "record", "start", "drain", "leave", "poll", "hints", "join",
               "normal", "active", "unring", "delete", "rollback",
               "done", "reverted", "error", "lost"}
  /\ o.peers \subseteq Nodes /\ o.seen \subseteq o.peers /\ o.tries \in 0..MaxAttempts

Ended == {"free", "done", "reverted", "error", "lost"}
Locking == {"calc", "record", "start", "drain", "leave"}
FreeOp == [kind |-> "none", node |-> CHOOSE n \in Nodes : TRUE, coord |-> CHOOSE c \in Coords : TRUE,
           pc |-> "free", peers |-> {}, seen |-> {}, tries |-> 0]

Init ==
  /\ node = [n \in Nodes |-> IF n \in Initial THEN NormalRow ELSE NoRow]
  /\ change = [i \in Ops |-> NoChange]
  /\ ring = [c \in Coords |-> Initial]
  /\ stream = [p \in Nodes \X Nodes |-> "none"]
  /\ op = [i \in Ops |-> FreeOp]
  /\ streamed = {}

------------------------------------------------------------------------------
\* The metadata store and the routing service.

Exists(n) == node[n].status # "none"

\* The nodes a refresh puts in the ring, and a removal counts.
Active == {n \in Nodes : node[n].status = "active"}

\* UpdateNodeRanges writes both columns; the row of a node that is gone is not there.
WithRanges(t, n, pending, leaving) ==
  IF t[n].status = "none" THEN t ELSE [t EXCEPT ![n].pending = pending, ![n].leaving = leaving]

WithState(t, n, s) == IF t[n].status = "none" THEN t ELSE [t EXCEPT ![n].state = s]

\* The table accepts active, draining and inactive.
WithStatus(t, n, s) ==
  IF t[n].status = "none" \/ s \notin {"active", "draining", "inactive"} THEN t
  ELSE [t EXCEPT ![n].status = s]

\* A write whose error is only logged.
Tried(t, u) == IF "db" \in Faults THEN {t, u} ELSE {u}

\* UpdateNodeRanges(nil, nil) on several nodes.
RangesCleared(t, S) ==
  [n \in Nodes |-> IF n \in S THEN WithRanges(t, n, {}, {})[n] ELSE t[n]]

\* RemoveStorageNode: the changes of the node go with its row.
ChangesWithout(n) == [i \in Ops |-> IF op[i].node = n /\ op[i].kind # "none" THEN NoChange ELSE change[i]]

\* GetPendingChange reads the error message into a string, and fails where it is
\* NULL; UpdatePendingChange follows when it did not.
ChangeClosed(i, status) ==
  IF change[i].status # "none" /\ change[i].message # "null"
  THEN [change EXCEPT ![i].status = status, ![i].message = "text"] ELSE change

\* Mutant: a bootstrapping node is not written to.
WriteStatesNormal == {"NORMAL", "LEAVING"}

\* The states of the nodes GetWriteReplicas returns.
WriteStates == {"NORMAL", "BOOTSTRAPPING", "LEAVING"}

\* GetWriteReplicas, for a key whose nodes are R.
WriteReplicas(R) == {n \in R : Exists(n) /\ node[n].state \in WriteStates}

\* GetReadReplicas takes the same states: a node that bootstraps may lack data.
ReadReplicas(R) == {n \in R : Exists(n) /\ node[n].state \in {"NORMAL", "BOOTSTRAPPING", "LEAVING"}}

\* Whether both find enough replicas, whatever the key.
Resolves(c) ==
  /\ Cardinality(ring[c]) >= RF
  /\ \A R \in SUBSET ring[c] : Cardinality(R) = RF =>
       Cardinality(WriteReplicas(R)) = RF /\ Cardinality(ReadReplicas(R)) = RF

\* updateHashRing, on its ticker.
Refresh(c) ==
  /\ ring' = [ring EXCEPT ![c] = Active]
  /\ UNCHANGED <<node, change, stream, op, streamed>>

------------------------------------------------------------------------------
\* The storage nodes.

\* A stream ends.
StreamEnds(p) ==
  /\ stream[p] = "running"
  /\ \/ stream' = [stream EXCEPT ![p] = "completed"] /\ streamed' = streamed \cup {p}
     \/ "stream" \in Faults /\ stream' = [stream EXCEPT ![p] = "failed"] /\ UNCHANGED streamed
  /\ UNCHANGED <<node, change, ring, op>>

\* A storage node restarts and has forgotten its streams.
NodeRestarts(n) ==
  /\ "restart" \in Faults
  /\ \E m \in Nodes : stream[<<n, m>>] # "none"
  /\ stream' = [p \in Nodes \X Nodes |-> IF p[1] = n THEN "none" ELSE stream[p]]
  /\ UNCHANGED <<node, change, ring, op, streamed>>

\* StartStreaming from every pair in P; a node refuses a stream it has, whatever
\* became of it.
Started(P) == [p \in Nodes \X Nodes |-> IF p \in P /\ stream[p] = "none" THEN "running" ELSE stream[p]]

Stopped(P) == [p \in Nodes \X Nodes |-> IF p \in P THEN "none" ELSE stream[p]]

\* The streams of an addition that its coordinator can ask for, the old node being
\* listed, and those of a removal.
Sources(i) == {<<m, op[i].node>> : m \in {m \in op[i].peers : Exists(m)}}
Targeted(i) == {<<op[i].node, m>> : m \in op[i].peers}

------------------------------------------------------------------------------
\* The handlers.

Unlocked(c, n) == \A i \in Ops : op[i].coord = c /\ op[i].node = n => op[i].pc \notin Locking

Goto(i, pc) == op' = [op EXCEPT ![i].pc = pc]

\* The database refuses a write: the handler returns what it has so far.
Refused(i) ==
  /\ "db" \in Faults /\ op[i].pc \in {"drain", "leave", "record"}
  /\ Goto(i, "error")
  /\ UNCHANGED <<node, change, ring, stream, streamed>>

\* The first request that is free; requests are made in order.
NextOp(i) == op[i].pc = "free" /\ \A j \in Ops : j < i => op[j].pc # "free"

Begin(i, kind, c, n, pc) ==
  op' = [op EXCEPT ![i] = [FreeOp EXCEPT !.kind = kind, !.node = n, !.coord = c, !.pc = pc]]

\* AddStorageNodeV2 inserts the row; a node that has one is refused.
AddStorageNode(i, c, n) ==
  /\ NextOp(i) /\ "add" \in Kinds /\ Unlocked(c, n)
  /\ ~Exists(n)
  /\ node' = [node EXCEPT ![n] = [NormalRow EXCEPT !.state = "BOOTSTRAPPING"]]
  /\ Begin(i, "add", c, n, "calc")
  /\ UNCHANGED <<change, ring, stream, streamed>>

\* It computes the old nodes from the ring: none, if the node is in it already.
CalculateForNewNode(i) ==
  /\ op[i].pc = "calc" /\ op[i].kind = "add"
  /\ LET r == ring[op[i].coord]
     IN op' = [op EXCEPT ![i].pc = "record", ![i].peers = IF op[i].node \in r THEN {} ELSE r]
  /\ UNCHANGED <<node, change, ring, stream, streamed>>

\* RemoveStorageNodeV2 looks the node up and counts what would remain.
RemoveStorageNode(i, c, n, force) ==
  /\ NextOp(i) /\ (IF force THEN "force" ELSE "remove") \in Kinds /\ Unlocked(c, n)
  /\ Exists(n)
  /\ force \/ Cardinality(Active) - 1 >= MinNodes
  /\ Begin(i, "remove", c, n, "drain")
  /\ UNCHANGED <<node, change, ring, stream, streamed>>

\* It sets the status, then the state; a row that is gone is an error.
Drain(i) ==
  /\ op[i].pc = "drain"
  /\ node' = WithStatus(node, op[i].node, "draining")
  /\ Goto(i, IF Exists(op[i].node) THEN "leave" ELSE "error")
  /\ UNCHANGED <<change, ring, stream, streamed>>

Leave(i) ==
  /\ op[i].pc = "leave"
  /\ node' = WithState(node, op[i].node, "LEAVING")
  /\ Goto(i, IF Exists(op[i].node) THEN "calc" ELSE "error")
  /\ UNCHANGED <<change, ring, stream, streamed>>

\* It computes the nodes that inherit: none, if the node is not in the ring.
CalculateForRemovedNode(i) ==
  /\ op[i].pc = "calc" /\ op[i].kind = "remove"
  /\ LET r == ring[op[i].coord]
     IN op' = [op EXCEPT ![i].pc = "record",
                         ![i].peers = IF op[i].node \in r THEN r \ {op[i].node} ELSE {}]
  /\ UNCHANGED <<node, change, ring, stream, streamed>>

\* AddPendingChange leaves the error message NULL; the database may refuse it.
AddPendingChange(i) ==
  \/ Goto(i, "start") /\ change' = [change EXCEPT ![i].status = "in_progress"]
  \/ "db" \in Faults /\ Goto(i, "error") /\ UNCHANGED change

\* The pending ranges of the new node and the change are stored.
RecordAddition(i) ==
  /\ op[i].pc = "record" /\ op[i].kind = "add"
  /\ IF Exists(op[i].node)
     THEN AddPendingChange(i) /\ node' = WithRanges(node, op[i].node, op[i].peers, {})
     ELSE Goto(i, "error") /\ UNCHANGED <<node, change>>
  /\ UNCHANGED <<ring, stream, streamed>>

\* The leaving ranges of the node, the pending ranges of those that inherit, and
\* the change are stored.
RecordRemoval(i) ==
  LET n == op[i].node
  IN /\ op[i].pc = "record" /\ op[i].kind = "remove"
     /\ IF Exists(n)
        THEN /\ AddPendingChange(i)
             /\ node' = [m \in Nodes |->
                           IF m = n THEN WithRanges(node, n, {}, op[i].peers)[n]
                           ELSE IF m \in op[i].peers THEN WithRanges(node, m, {n}, {})[m] ELSE node[m]]
        ELSE Goto(i, "error") /\ UNCHANGED <<node, change>>
     /\ UNCHANGED <<ring, stream, streamed>>

\* Each stream is started, or is not, which is only logged; the monitor starts.
StartEach(i, P) ==
  /\ op[i].pc = "start"
  /\ \E Q \in (IF "start" \in Faults THEN SUBSET P ELSE {P}) : stream' = Started(Q)
  /\ Goto(i, "poll")
  /\ UNCHANGED <<node, change, ring, streamed>>

\* From the old nodes that are still listed, to the new one.
StartToNewNode(i) == op[i].kind = "add" /\ StartEach(i, Sources(i))

\* From the node that leaves, to those that inherit and are listed.
StartFromLeaving(i) ==
  op[i].kind = "remove" /\ StartEach(i, {p \in Targeted(i) : Exists(p[2])})

------------------------------------------------------------------------------
\* The monitors.

\* Mutant: a stream that is not running counts as completed.
CompletedOrLost(P) == {p \in P : stream[p] # "running"}

\* The streams that are reported as completed.
Completed(P) == {p \in P : stream[p] = "completed"}

\* A tick of a monitor that has seen the streams of these nodes completed: it goes
\* on, gives up, or waits.  Unless "slow" is a fault, streams that run are done
\* before the last attempt.
Tick(i, seen, running, next) ==
  LET tries == op[i].tries + 1
  IN /\ seen = op[i].peers \/ running # op[i].peers \ seen \/ "slow" \in Faults
     /\ op' = [op EXCEPT ![i].seen = seen, ![i].tries = tries,
                 ![i].pc = IF seen = op[i].peers THEN next
                           ELSE IF tries = MaxAttempts THEN "rollback" ELSE "poll"]
     /\ UNCHANGED <<node, change, ring, stream, streamed>>

\* monitorStreamingProgress asks the old nodes it finds listed.
PollAddition(i) ==
  /\ op[i].pc = "poll" /\ op[i].kind = "add"
  /\ Tick(i, op[i].seen \cup {p[1] : p \in Completed(Sources(i))},
          {p[1] : p \in {q \in Sources(i) : stream[q] = "running"}}, "hints")

\* monitorRemovalProgress asks the node that leaves.
PollRemoval(i) ==
  /\ op[i].pc = "poll" /\ op[i].kind = "remove"
  /\ Tick(i, op[i].seen \cup {p[2] : p \in Completed(Targeted(i))},
          {p[2] : p \in {q \in Targeted(i) : stream[q] = "running"}}, "unring")

\* monitorStreamingProgress replays the hints of the new node.
ReplayHints(i) ==
  /\ op[i].pc = "hints"
  /\ \/ Goto(i, "join")
     \/ "hints" \in Faults /\ Goto(i, "rollback")
  /\ UNCHANGED <<node, change, ring, stream, streamed>>

JoinRing(i) ==
  /\ op[i].pc = "join"
  /\ ring' = [ring EXCEPT ![op[i].coord] = @ \cup {op[i].node}]
  /\ Goto(i, "normal")
  /\ UNCHANGED <<node, change, stream, streamed>>

\* A state that cannot be written ends the monitor.
BecomeNormal(i) ==
  /\ op[i].pc = "normal"
  /\ \/ /\ node' = WithState(node, op[i].node, "NORMAL")
        /\ Goto(i, IF Exists(op[i].node) THEN "active" ELSE "error")
     \/ "db" \in Faults /\ Goto(i, "error") /\ UNCHANGED node
  /\ UNCHANGED <<change, ring, stream, streamed>>

\* The status, the ranges, the change and the streams.
CompleteAddition(i) ==
  /\ op[i].pc = "active"
  /\ \E t \in Tried(node, WithStatus(node, op[i].node, "active")) :
        node' \in Tried(t, RangesCleared(t, {op[i].node}))
  /\ change' = ChangeClosed(i, "completed")
  /\ stream' = Stopped(Sources(i))
  /\ Goto(i, "done")
  /\ UNCHANGED <<ring, streamed>>

\* monitorRemovalProgress takes the node out of its ring.
LeaveRing(i) ==
  /\ op[i].pc = "unring"
  /\ ring' = [ring EXCEPT ![op[i].coord] = @ \ {op[i].node}]
  /\ Goto(i, "delete")
  /\ UNCHANGED <<node, change, stream, streamed>>

\* It clears the ranges of the nodes that inherit, deletes the row with its
\* changes, and stops the streams; where the row is gone it ends before that.
DeleteNode(i) ==
  /\ op[i].pc = "delete"
  /\ LET cleared == RangesCleared(node, op[i].peers)
     IN \/ /\ Exists(op[i].node)
           /\ node' = [cleared EXCEPT ![op[i].node] = NoRow]
           /\ change' = ChangesWithout(op[i].node)
           /\ stream' = Stopped(Targeted(i)) /\ Goto(i, "done")
        \/ /\ ~Exists(op[i].node) \/ "db" \in Faults
           /\ node' = cleared /\ Goto(i, "error") /\ UNCHANGED <<change, stream>>
  /\ UNCHANGED <<ring, streamed>>

\* rollbackNodeAddition asks for a status the table refuses.
RollbackAddition(i) ==
  /\ op[i].pc = "rollback" /\ op[i].kind = "add"
  /\ stream' = Stopped(Sources(i))
  /\ \E t \in Tried(node, WithState(WithStatus(node, op[i].node, "failed"), op[i].node, "DOWN")) :
        node' \in Tried(t, RangesCleared(t, {op[i].node}))
  /\ change' = ChangeClosed(i, "failed")
  /\ Goto(i, "reverted")
  /\ UNCHANGED <<ring, streamed>>

\* Mutant: the status is left as it is.
RollbackKeepsStatus(i) ==
  /\ op[i].pc = "rollback" /\ op[i].kind = "remove"
  /\ stream' = Stopped(Targeted(i))
  /\ node' = WithState(RangesCleared(node, op[i].peers \cup {op[i].node}), op[i].node, "NORMAL")
  /\ change' = ChangeClosed(i, "failed")
  /\ Goto(i, "reverted")
  /\ UNCHANGED <<ring, streamed>>

\* rollbackNodeRemoval puts the node back in service.
RollbackRemoval(i) ==
  /\ op[i].pc = "rollback" /\ op[i].kind = "remove"
  /\ stream' = Stopped(Targeted(i))
  /\ \E t \in Tried(node, RangesCleared(node, op[i].peers \cup {op[i].node})) :
       \E u \in Tried(t, WithState(t, op[i].node, "NORMAL")) :
         node' \in Tried(u, WithStatus(u, op[i].node, "active"))
  /\ change' = ChangeClosed(i, "failed")
  /\ Goto(i, "reverted")
  /\ UNCHANGED <<ring, streamed>>

\* A coordinator crashes and starts again: handlers and monitors are gone, and the
\* ring is loaded.
Crash(c) ==
  /\ "crash" \in Faults
  /\ \E i \in Ops : op[i].coord = c /\ op[i].pc \notin Ended
  /\ op' = [i \in Ops |-> IF op[i].coord = c /\ op[i].pc \notin Ended
                          THEN [op[i] EXCEPT !.pc = "lost"] ELSE op[i]]
  /\ ring' = [ring EXCEPT ![c] = Active]
  /\ UNCHANGED <<node, change, stream, streamed>>

------------------------------------------------------------------------------
Step(i) ==
  \/ CalculateForNewNode(i) \/ CalculateForRemovedNode(i) \/ Drain(i) \/ Leave(i)
  \/ RecordAddition(i) \/ RecordRemoval(i) \/ StartToNewNode(i) \/ StartFromLeaving(i)
  \/ PollAddition(i) \/ PollRemoval(i) \/ ReplayHints(i) \/ JoinRing(i)
  \/ BecomeNormal(i) \/ CompleteAddition(i) \/ LeaveRing(i) \/ DeleteNode(i)
  \/ RollbackAddition(i) \/ RollbackRemoval(i)

Next ==
  \/ \E i \in Ops, c \in Coords, n \in Targets :
       AddStorageNode(i, c, n) \/ \E force \in BOOLEAN : RemoveStorageNode(i, c, n, force)
  \/ \E i \in Ops : Step(i) \/ Refused(i)
  \/ \E c \in Coords : Refresh(c) \/ Crash(c)
  \/ \E p \in Nodes \X Nodes : StreamEnds(p)
  \/ \E n \in Nodes : NodeRestarts(n)

Spec == Init /\ [][Next]_vars

\* Handlers, monitors, tickers and streams do not stop by themselves.
FairSpec ==
  /\ Spec
  /\ \A i \in Ops : WF_vars(Step(i))
  /\ \A c \in Coords : WF_vars(Refresh(c))
  /\ \A p \in Nodes \X Nodes : WF_vars(StreamEnds(p))

------------------------------------------------------------------------------
\* Properties.

TypeOK ==
  /\ \A n \in Nodes : /\ node[n].status \in {"none", "active", "draining"}
                      /\ node[n].state \in {"none", "BOOTSTRAPPING", "NORMAL", "LEAVING", "DOWN"}
                      /\ (node[n].status = "none") = (node[n].state = "none")
  /\ \A i \in Ops : IsOp(op[i]) /\ change[i].status \in {"none", "in_progress", "completed", "failed"}
  /\ \A c \in Coords : ring[c] \subseteq Nodes

\* The row of a node is deleted only when every node that inherits from it has been
\* sent what it inherits.
DeletesWhenStreamed ==
  \A n \in Nodes : node[n].status # "none" /\ node'[n].status = "none" =>
    \E i \in Ops : /\ op[i].pc = "delete" /\ op[i].node = n
                   /\ \A m \in op[i].peers : <<n, m>> \in streamed

\* A bootstrapping node becomes authoritative only when every node the monitor
\* knows of has sent it its ranges.
ServesWhenStreamed ==
  \A n \in Nodes : node[n].state = "BOOTSTRAPPING" /\ node'[n].state = "NORMAL" =>
    \E i \in Ops : /\ op[i].pc = "normal" /\ op[i].node = n
                   /\ \A m \in op[i].peers : <<m, n>> \in streamed

\* The same, unless a removal of the node is rolled back: rollbackNodeRemoval writes
\* NORMAL whatever the state is, also when the node was removed by another request
\* and added again meanwhile.
ServesOrReverts ==
  \A n \in Nodes : node[n].state = "BOOTSTRAPPING" /\ node'[n].state = "NORMAL" =>
    \E i \in Ops : /\ op[i].node = n
                   /\ \/ op[i].pc = "normal" /\ \A m \in op[i].peers : <<m, n>> \in streamed
                      \/ op[i].kind = "remove" /\ op[i].pc = "rollback"

\* When all requests are over, no node is left between two states, and none keeps
\* the ranges of a change.
SettlesClean ==
  (\A i \in Ops : op[i].pc \in Ended) =>
    \A n \in Nodes : Exists(n) => /\ node[n].status = "active" /\ node[n].state \in {"NORMAL", "DOWN"}
                                  /\ node[n].pending = {} /\ node[n].leaving = {}

\* Writes find their replicas all through the addition of a node.
WritesResolve == \A c \in Coords : Resolves(c)

\* Writes find their replicas again after a node was removed.
WritesResolveAgain == \A c \in Coords : []<>Resolves(c)

\* Every request comes to an end.
RequestsEnd == \A i \in Ops : (op[i].pc # "free") ~> (op[i].pc \in Ended)

\* A removal that is rolled back has the node in the ring again.
RevertedServesAgain ==
  \A i \in Ops : (op[i].kind = "remove" /\ op[i].pc = "reverted")
                   ~> (op[i].node \in ring[op[i].coord])

------------------------------------------------------------------------------
\* What the documentation or a comment says, and this code does not do: TLC finds
\* a counterexample to each of these.

\* While the monitor of its bootstrap waits, a node is not in the ring.
BootstrappingNotInRing ==
  \A i \in Ops : op[i].kind = "add" /\ op[i].pc = "poll" => op[i].node \notin ring[op[i].coord]

\* While the monitor of its removal waits, a node is in the ring.
LeavingInRing ==
  \A i \in Ops : op[i].kind = "remove" /\ op[i].pc = "poll" => op[i].node \in ring[op[i].coord]

\* A node whose bootstrap is rolled back is not in the ring.
RolledBackNotInRing ==
  \A i \in Ops : op[i].kind = "add" /\ op[i].pc = "reverted" => op[i].node \notin ring[op[i].coord]

\* The change of a bootstrap that is done is completed.
DoneIsCompleted ==
  \A i \in Ops : op[i].kind = "add" /\ op[i].pc = "done" => change[i].status = "completed"

\* Removals that are not forced leave enough nodes in service.
EnoughRemain == Cardinality(Active) >= MinNodes

\* A node that is in service after its bootstrap was sent data by the others.
JoinedWithData ==
  \A i \in Ops : op[i].kind = "add" /\ op[i].pc = "done" =>
    \E m \in Initial : <<m, op[i].node>> \in streamed

\* A node that streams its ranges away has them recorded.
LeavingRangesKept ==
  \A i \in Ops : op[i].kind = "remove" /\ op[i].pc = "poll" => node[op[i].node].leaving = op[i].peers

\* A node does not bootstrap for ever, even when a coordinator crashes.
BootstrapEnds == \A n \in Nodes : (node[n].state = "BOOTSTRAPPING") ~> (node[n].state # "BOOTSTRAPPING")
==============================================================================
