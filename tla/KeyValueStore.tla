---------------------------- MODULE KeyValueStore ----------------------------
(***************************************************************************)
(* What a storage node promises below its cache: a history of mutations    *)
(* that only grows, a view that a mutation changes once and nothing else   *)
(* changes, and answers that are given only when the mutation is in the    *)
(* history and in the view.  A restart shows the last mutation of each key.*)
(* StorageEngine implements it: flushes are invisible.                     *)
(***************************************************************************)
EXTENDS Naturals, Sequences

CONSTANTS Keys, Ops, None

VARIABLES
  history,  \* the mutations made durable, in order
  view,     \* the mutation a lookup of each key finds
  acked     \* the mutations answered with success

Mutation == [key : Keys, op : Ops, del : BOOLEAN]

PositionsOf(k) == {i \in DOMAIN history : history[i].key = k}
LastPosition(k) == CHOOSE i \in PositionsOf(k) : \A j \in PositionsOf(k) : j <= i

Init == history = <<>> /\ view = [k \in Keys |-> None] /\ acked = {}

\* A mutation becomes durable; its number is new.
Commit(m) ==
  /\ \A i \in DOMAIN history : history[i].op # m.op
  /\ history' = Append(history, m)
  /\ UNCHANGED <<view, acked>>

\* A durable mutation becomes visible, replacing an older one of its key.
Apply(i) ==
  /\ view[history[i].key] # None =>
       \E j \in 1..i : history[j] = view[history[i].key]
  /\ view' = [view EXCEPT ![history[i].key] = history[i]]
  /\ UNCHANGED <<history, acked>>

\* Success is answered when the mutation, or a newer one, is visible.
Answer(i) ==
  /\ \E j \in i..Len(history) : view[history[i].key] = history[j]
  /\ acked' = acked \cup {[key |-> history[i].key, op |-> history[i].op]}
  /\ UNCHANGED <<history, view>>

Restart ==
  /\ view' = [k \in Keys |-> IF PositionsOf(k) = {} THEN None
                             ELSE history[LastPosition(k)]]
  /\ UNCHANGED <<history, acked>>

Next ==
  \/ \E m \in Mutation : Commit(m)
  \/ \E i \in DOMAIN history : Apply(i) \/ Answer(i)
  \/ Restart

Spec == Init /\ [][Next]_<<history, view, acked>>
==============================================================================
