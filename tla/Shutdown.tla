------------------------------ MODULE Shutdown ------------------------------
(***************************************************************************)
(* The end of a storage node's process: main's signal handler flushes the  *)
(* memtable and stops the gRPC server while handlers run, Serve returns,   *)
(* and the deferred calls close the services.  A write is the part of it   *)
(* that the order matters to: the log, then the memtable, then the answer. *)
(***************************************************************************)
EXTENDS Naturals, FiniteSets

CONSTANTS
  Clients,    \* callers of Write
  MaxWrites   \* bound: writes

ShutdownAssumption == MaxWrites \in Nat

VARIABLES
  main,      \* where the shutdown is
  logOpen,   \* the commit log's file is open
  log,       \* the writes in it
  memTable,  \* the writes in the memtable
  flushing,  \* the immutable memtable
  tables,    \* the writes in SSTables
  rpc,       \* a client's call: the write and how far it is
  acked,     \* acknowledged writes
  refused    \* calls whose append failed

vars == <<main, logOpen, log, memTable, flushing, tables, rpc, acked, refused>>

NoCall == [write |-> 0, pc |-> "idle"]

Begun == {rpc[c].write : c \in Clients} \cup log \cup acked \cup refused

Init ==
  /\ main = "serving" /\ logOpen = TRUE
  /\ log = {} /\ memTable = {} /\ flushing = {} /\ tables = {}
  /\ rpc = [c \in Clients |-> NoCall] /\ acked = {} /\ refused = {}

\* A call is accepted until GracefulStop begins.
Accepting == main \in {"serving", "flush", "flushing"}

Call(c, w) ==
  /\ Accepting /\ rpc[c] = NoCall /\ w \notin Begun
  /\ rpc' = [rpc EXCEPT ![c] = [write |-> w, pc |-> "append"]]
  /\ UNCHANGED <<main, logOpen, log, memTable, flushing, tables, acked, refused>>

AppendLog(c) ==
  /\ rpc[c].pc = "append"
  /\ IF logOpen
     THEN /\ log' = log \cup {rpc[c].write}
          /\ rpc' = [rpc EXCEPT ![c].pc = "put"] /\ UNCHANGED refused
     ELSE /\ refused' = refused \cup {rpc[c].write}
          /\ rpc' = [rpc EXCEPT ![c] = NoCall] /\ UNCHANGED log
  /\ UNCHANGED <<main, logOpen, memTable, flushing, tables, acked>>

PutMemTable(c) ==
  /\ rpc[c].pc = "put"
  /\ memTable' = memTable \cup {rpc[c].write}
  /\ rpc' = [rpc EXCEPT ![c].pc = "answer"]
  /\ UNCHANGED <<main, logOpen, log, flushing, tables, acked, refused>>

Answer(c) ==
  /\ rpc[c].pc = "answer"
  /\ acked' = acked \cup {rpc[c].write} /\ rpc' = [rpc EXCEPT ![c] = NoCall]
  /\ UNCHANGED <<main, logOpen, log, memTable, flushing, tables, refused>>

\* The signal arrives.
Signal ==
  /\ main = "serving" /\ main' = "flush"
  /\ UNCHANGED <<logOpen, log, memTable, flushing, tables, rpc, acked, refused>>

\* Flush takes the memtable
FlushBegins ==
  /\ main = "flush" /\ main' = "flushing"
  /\ flushing' = memTable /\ memTable' = {}
  /\ UNCHANGED <<logOpen, log, tables, rpc, acked, refused>>

\* and writes it, or fails, which is only logged.
FlushEnds ==
  /\ main = "flushing" /\ main' = "stopping"
  /\ \/ tables' = tables \cup flushing /\ flushing' = {}
     \/ UNCHANGED <<tables, flushing>>
  /\ UNCHANGED <<logOpen, log, memTable, rpc, acked, refused>>

\* Mutant: Stop, which waits for nobody.
StopAtOnce ==
  /\ main = "stopping" /\ main' = "closing"
  /\ UNCHANGED <<logOpen, log, memTable, flushing, tables, rpc, acked, refused>>

\* GracefulStop waits for the calls that run; then Serve and main return.
GracefulStop ==
  /\ main = "stopping" /\ \A c \in Clients : rpc[c] = NoCall
  /\ main' = "closing"
  /\ UNCHANGED <<logOpen, log, memTable, flushing, tables, rpc, acked, refused>>

\* The deferred calls, the one that closes the log last.
Close ==
  /\ main = "closing" /\ main' = "exited" /\ logOpen' = FALSE
  /\ UNCHANGED <<log, memTable, flushing, tables, rpc, acked, refused>>

Next ==
  \/ \E c \in Clients :
       \/ \E w \in 1..MaxWrites : Call(c, w)
       \/ AppendLog(c) \/ PutMemTable(c) \/ Answer(c)
  \/ Signal \/ FlushBegins \/ FlushEnds \/ GracefulStop \/ Close

\* Handlers that run go on, and so does the shutdown once it has begun.
Spec ==
  /\ Init /\ [][Next]_vars
  /\ \A c \in Clients : WF_vars(AppendLog(c) \/ PutMemTable(c) \/ Answer(c))
  /\ WF_vars(FlushBegins \/ FlushEnds \/ GracefulStop \/ Close)

------------------------------------------------------------------------------
\* Properties.

\* No call that was accepted meets a closed log, and none is running at the end.
CallsFinish ==
  /\ refused = {}
  /\ main = "exited" => \A c \in Clients : rpc[c] = NoCall

\* A shutdown comes to its end.
Exits == (main = "flush") ~> (main = "exited")

------------------------------------------------------------------------------
\* What the documentation or a comment says, and this code does not do: TLC finds
\* a counterexample to each of these.

\* At the end the SSTables have every acknowledged write, when the flush did not fail.
FlushedAtExit == main = "exited" /\ flushing = {} => acked \subseteq tables
==============================================================================
