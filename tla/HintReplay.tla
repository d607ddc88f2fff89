----------------------------- MODULE HintReplay -----------------------------
(***************************************************************************)
(* HintReplayService over the hints table (PostgresHintStore): the replay  *)
(* of the hints of one node before it becomes NORMAL, with hints stored,   *)
(* expired and directly written meanwhile, and statements that fail.       *)
(*                                                                         *)
(* The writes of one key are numbered in the order of their clocks and of  *)
(* created_at; a row of the table is the write it carries.                 *)
(***************************************************************************)
EXTENDS Integers, FiniteSets, FiniteSetsExt

CONSTANTS
  MaxWrites,   \* bound: writes of the key
  BatchSize,   \* batchSize (100 in the code)
  MaxRetries,  \* maxRetries (3 in the code)
  Refused,     \* writes the node refuses whenever they are replayed
  DbFails,     \* whether statements may fail
  NodeIsDown   \* whether a write to the node may fail although it is not refused

HintReplayAssumption ==
  /\ MaxWrites \in Nat /\ BatchSize \in Nat \ {0} /\ MaxRetries \in Nat \ {0}
  /\ Refused \subseteq 1..MaxWrites /\ DbFails \in BOOLEAN /\ NodeIsDown \in BOOLEAN

VARIABLES
  rows,     \* the hints of the node
  writes,   \* writes so far
  old,      \* writes older than the TTL: 1..old
  node,     \* the version the node holds
  got,      \* the writes the node has received
  at,       \* where ReplayHintsForNode is
  batch,    \* the rest of the batch it works on
  full,     \* the batch had BatchSize hints
  due       \* the hints there were when it began

vars == <<rows, writes, old, node, got, at, batch, full, due>>
replay == <<at, batch, full, due>>

Init ==
  /\ rows = {} /\ writes = 0 /\ old = 0 /\ node = 0 /\ got = {}
  /\ at = "idle" /\ batch = {} /\ full = FALSE /\ due = {}

\* replay_count of a row: StoreHint inserts the ReplayCount of the hint, which is
\* zero, and no statement changes it.
ReplayCount(h) == 0

\* PostgresHintStore.StoreHint
StoreHint ==
  /\ writes < MaxWrites
  /\ writes' = writes + 1
  /\ rows' = rows \cup {writes'}
  /\ UNCHANGED <<old, node, got, replay>>

\* A write of the key reaches the node itself.
DirectWrite ==
  /\ writes < MaxWrites
  /\ writes' = writes + 1
  /\ node' = writes' /\ got' = got \cup {writes'}
  /\ UNCHANGED <<rows, old, replay>>

Age ==
  /\ old < writes
  /\ old' = old + 1
  /\ UNCHANGED <<rows, writes, node, got, replay>>

\* CleanupOldHints: DELETE FROM hints WHERE created_at < cutoff.
CleanupOldHints ==
  /\ \E h \in rows : h <= old
  /\ rows' = {h \in rows : h > old}
  /\ UNCHANGED <<writes, old, node, got, replay>>

\* ReplayHintsForNode counts the hints and returns if there are none.
BeginReplay ==
  /\ at = "idle"
  /\ at' = IF rows = {} THEN "replayed" ELSE "fetch"
  /\ due' = rows
  /\ UNCHANGED <<rows, writes, old, node, got, batch, full>>

\* GetHintsForNode, the oldest first; an empty batch ends the replay.
FetchBatch ==
  /\ at = "fetch"
  /\ batch' = {h \in rows : Cardinality({g \in rows : g < h}) < BatchSize}
  /\ full' = (Cardinality(batch') = BatchSize)
  /\ at' = IF rows = {} THEN "replayed" ELSE "hint"
  /\ UNCHANGED <<rows, writes, old, node, got, due>>

\* A failing statement ends the replay with an error.
FetchFails ==
  /\ DbFails /\ at \in {"idle", "fetch"}
  /\ at' = "failed"
  /\ UNCHANGED <<rows, writes, old, node, got, batch, full, due>>

\* The hint it is at.
First == Min(batch)

\* Mutant: a batch that is not full is taken for the last one.
NextHintLastBatch ==
  IF batch # {First} THEN "hint" ELSE IF full THEN "wait" ELSE "replayed"

\* Where the loop goes after the first hint of the batch.
NextHint == IF batch # {First} THEN "hint" ELSE IF full THEN "wait" ELSE "fetch"

\* replayHint succeeds: the node keeps what arrives last.
ReplayHint ==
  /\ at = "hint" /\ First \notin Refused
  /\ node' = First /\ got' = got \cup {First}
  /\ at' = "delete"
  /\ UNCHANGED <<rows, writes, old, batch, full, due>>

\* replayHint fails: the hint stays, unless it has been tried too often.
ReplayHintFails ==
  /\ at = "hint" /\ (First \in Refused \/ NodeIsDown)
  /\ rows' = IF ReplayCount(First) >= MaxRetries
             THEN rows \ {First} ELSE rows
  /\ at' = NextHint /\ batch' = batch \ {First}
  /\ UNCHANGED <<writes, old, node, got, full, due>>

\* DeleteHint, of a hint that may be gone; its error is only logged.
DeleteHint ==
  /\ at = "delete"
  /\ \/ rows' = rows \ {First}
     \/ DbFails /\ rows' = rows
  /\ at' = NextHint /\ batch' = batch \ {First}
  /\ UNCHANGED <<writes, old, node, got, full, due>>

\* The pause after a full batch.
WaitBetween ==
  /\ at = "wait"
  /\ at' = "fetch"
  /\ UNCHANGED <<rows, writes, old, node, got, batch, full, due>>

\* The monitor that asked for the replay has its answer.
Returned == at \in {"replayed", "failed"} /\ UNCHANGED vars

Replaying == \/ BeginReplay \/ FetchBatch \/ FetchFails \/ ReplayHint
             \/ ReplayHintFails \/ DeleteHint \/ WaitBetween

Next == StoreHint \/ DirectWrite \/ Age \/ CleanupOldHints \/ Replaying \/ Returned

Spec == Init /\ [][Next]_vars

\* The replay runs.  Hints need not expire, and a node that is up and does not
\* refuse a write takes it in the end.
FairSpec == Spec /\ WF_vars(Replaying) /\ SF_vars(ReplayHint) /\ SF_vars(DeleteHint /\ rows' # rows)

------------------------------------------------------------------------------
\* Properties.

\* The table and the batch hold hints that were stored, and the node what it received.
TypeOK ==
  /\ rows \cup batch \cup got \subseteq 1..writes
  /\ at \in {"idle", "fetch", "hint", "delete", "wait", "replayed", "failed"}
  /\ Cardinality(batch) <= BatchSize
  /\ at \in {"hint", "delete"} => batch # {}
  /\ node \in got \cup {0}

\* When the replay returns without an error, so that the node becomes NORMAL,
\* the node has every hint there was when the replay began and that has not expired.
ReplayedMeansDelivered ==
  at = "replayed" => \A h \in due : h \in got \/ h <= old

\* The replay comes to an end once no more hints are stored.
ReplayEnds == <>(at \in {"replayed", "failed"})

------------------------------------------------------------------------------
\* What the documentation or a comment says, and this code does not do: TLC finds
\* a counterexample to each of these.

\* The replay of an old write never takes the place of a later one.
ReplayKeepsNewer == [][node' >= node]_vars
==============================================================================
