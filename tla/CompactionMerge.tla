-------------------------- MODULE CompactionMerge ---------------------------
(***************************************************************************)
(* The merge of a compaction job: kWayMerger over the readers of the input *)
(* tables, the elimination of duplicates, and the output table.            *)
(*                                                                         *)
(* A reader lists its keys in the order of a map, so any order.  The heap  *)
(* holds at most one entry of each reader and orders by the key without    *)
(* its tenant.  Reading an entry may fail (an error, a wrong checksum).    *)
(***************************************************************************)
EXTENDS Clocks, Sequences

CONSTANTS
  Inputs,       \* the input tables of jobs: sequences of sets of entries
                \* [tenant, key, vc, dead], one for each tenant and key
  ReadsMayFail  \* reading an entry may fail

MergeAssumption ==
  /\ ReadsMayFail \in BOOLEAN
  /\ \A in \in Inputs : \A i \in DOMAIN in : \A e, f \in in[i] :
       e.tenant = f.tenant /\ e.key = f.key => e = f

VARIABLES
  input,    \* the input tables
  left,     \* the entries of each reader that are not yet read
  heap,     \* the entry of each reader in the heap: a set of at most one
  best,     \* bestEntry: a set of at most one; its key is lastKey
  out,      \* the entries written to the output table
  bad,      \* entries that could not be read
  done      \* the table is finalized

vars == <<input, left, heap, best, out, bad, done>>

\* advance: what a reader with these entries left may come to.
Advances(l) ==
  {[heap |-> {}, left |-> l, bad |-> {}] : x \in IF l = {} THEN {1} ELSE {}}
    \cup {[heap |-> {e}, left |-> l \ {e}, bad |-> {}] : e \in l}
    \cup IF ReadsMayFail THEN {[heap |-> {}, left |-> l \ {e}, bad |-> {e}] : e \in l} ELSE {}

\* newKWayMerger: every reader is advanced once.
Init ==
  /\ input \in Inputs
  /\ \E a \in [DOMAIN input -> UNION {Advances(input[i]) : i \in DOMAIN input}] :
       /\ \A i \in DOMAIN input : a[i] \in Advances(input[i])
       /\ left = [i \in DOMAIN input |-> a[i].left]
       /\ heap = [i \in DOMAIN input |-> a[i].heap]
       /\ bad = UNION {a[i].bad : i \in DOMAIN input}
  /\ best = {} /\ out = <<>> /\ done = FALSE

\* writeEntryIfNotTombstone.
Written(b) == IF \E e \in b : ~e.dead THEN Append(out, CHOOSE e \in b : TRUE) ELSE out

\* The version that replaces the best one.
Newer(e, b) == CompactionCompare(e.vc, b.vc) > 0

\* next pops a least entry and advances its reader; the entry is a duplicate of the
\* key before it, or the best entry is written and the entry takes its place.
Step(i) ==
  \E e \in heap[i], a \in Advances(left[i]) :
    /\ \A j \in DOMAIN heap : \A f \in heap[j] : e.key <= f.key
    /\ left' = [left EXCEPT ![i] = a.left]
    /\ heap' = [heap EXCEPT ![i] = a.heap]
    /\ bad' = bad \cup a.bad
    /\ IF \E b \in best : b.key = e.key
       THEN /\ best' = IF \E b \in best : Newer(e, b) THEN {e} ELSE best
            /\ out' = out
       ELSE /\ out' = Written(best)
            /\ best' = {e}
    /\ UNCHANGED <<input, done>>

\* The final entry is written and the table finalized.
Finish ==
  /\ ~done /\ \A i \in DOMAIN heap : heap[i] = {}
  /\ out' = Written(best) /\ done' = TRUE
  /\ UNCHANGED <<input, left, heap, best, bad>>

Next == Finish \/ \E i \in DOMAIN heap : Step(i)

Spec == Init /\ [][Next]_vars

------------------------------------------------------------------------------
\* What the output holds.

All == UNION {input[i] : i \in DOMAIN input}
SameKey(e, f) == e.tenant = f.tenant /\ e.key = f.key

\* The later entries of all others of its key.
Newest(e) == \A f \in All : SameKey(e, f) /\ f # e => CompactionCompare(e.vc, f.vc) > 0

WrittenSet == {out[n] : n \in DOMAIN out}

\* What the index of the output finds for a key: the entry written last.
Found(e) ==
  LET at == {n \in DOMAIN out : SameKey(out[n], e)}
  IN  {out[n] : n \in {n \in at : \A m \in at : m <= n}}

------------------------------------------------------------------------------
\* Properties.

\* In whatever order the readers list their keys, the newest version of a key is
\* written to the output of a merge without errors if it is not a tombstone, and
\* every entry there is one of the inputs and alive (one tenant).
NewestIsWritten ==
  done => /\ bad = {} => \A e \in All : Newest(e) /\ ~e.dead => e \in WrittenSet
          /\ \A e \in WrittenSet : e \in All /\ ~e.dead

------------------------------------------------------------------------------
\* What the documentation or a comment says, and this code does not do: TLC finds
\* a counterexample to each of these.

\* The output finds the newest version of a key, and no key whose newest is a tombstone.
OutputHasNewest == done => \A e \in All : Newest(e) => Found(e) = IF e.dead THEN {} ELSE {e}

\* Every key of every tenant whose versions are alive is in the output.
TenantsKeepKeys == done => \A e \in All : (\A f \in All : SameKey(e, f) => ~f.dead) => Found(e) # {}

\* A newest version that could be read is in the output: an error costs the entry that
\* could not be read.
ErrorsSkipEntries == done => \A e \in All \ bad : Newest(e) /\ ~e.dead => e \in WrittenSet
==============================================================================
