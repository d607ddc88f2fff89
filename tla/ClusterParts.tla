---------------------------- MODULE ClusterParts -----------------------------
(***************************************************************************)
(* Parts that change the cluster and that are in front of it: the changes  *)
(* of the topology, the streams between storage nodes that they start, the *)
(* tenants, and the requests of the API gateway. They share no state with  *)
(* one another; each is an instance of its module.                         *)
(***************************************************************************)
EXTENDS Integers, Sequences, FiniteSets

CONSTANTS
  Targets, Top, Ranges, MaxStreams, StreamWrites,         \* Streaming
  Hosts, Coords, Initial, RF, MinNodes, Kinds, Candidates, Faults, MaxAttempts,
  MaxOps,                                                 \* Topology: Hosts are its nodes
  TenantCoords, Procs, Home, Factors, DbMayFail, MaxReqs, None,  \* Tenants
  Requests, GatewayOps, MaxRetries                        \* Gateway

VARIABLES
  active, ctx, run, stored, fresh, live, acks, sent, halted,
  row, change, ring, stream, op, streamed,
  tenantRow, objects, tenantCache, tenantProc, storedBy, reqs,
  req, tenant

Streams == INSTANCE Streaming WITH MaxWrites <- StreamWrites, got <- sent

Topo == INSTANCE Topology WITH Nodes <- Hosts, Targets <- Candidates, node <- row

Tenant == INSTANCE Tenants WITH
  Coords <- TenantCoords, db <- tenantRow, heap <- objects, cache <- tenantCache,
  proc <- tenantProc, stored <- storedBy

Gate == INSTANCE Gateway WITH Ops <- GatewayOps

ASSUME ClusterAssumption ==
  /\ Streams!StreamingAssumption /\ Topo!TopologyAssumption /\ Tenant!TenantAssumption
  /\ Gate!GatewayAssumption

\* The stream that GetStreamStatus reports as completed has come to its end in its
\* own goroutine, also when an earlier stream to the same target was stopped and
\* still runs; and as long as no stream was stopped, two goroutines never stream to
\* the same target.
StreamsAreOwn == Streams!CompletedIsOwn /\ Streams!OneRunPerTarget

\* A monitor goes on only when everything is streamed, whatever fails, crashes or is
\* restarted: a bootstrapping node becomes NORMAL when every node the monitor knows of
\* has sent it its ranges, or when a removal of it is rolled back, and the row of a
\* node is deleted when all that inherit from it have been sent what they inherit.
StreamedFirst == [][Topo!ServesOrReverts /\ Topo!DeletesWhenStreamed]_(Topo!vars)

\* The versions of a tenant's row are 1, 2, 3, ... and each was stored by one request,
\* however updates race on one coordinator or on several; and a request that reports
\* its change as stored has stored one.
UpdatesAreVersions == Tenant!OneWinnerPerVersion /\ Tenant!SuccessHasVersion

\* Of the requests that change something, the gateway answers a success only to one
\* the coordinator has run, and a status in the 400s only to one it has not, whichever
\* attempts were lost on the way.
StatusIsTrue == Gate!StatusIsTrue
==============================================================================
