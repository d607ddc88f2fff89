------------------------------ MODULE SkipList ------------------------------
(***************************************************************************)
(* The skip list of the memtable: towers of forward pointers, insertion at *)
(* a random level, search, deletion and iteration.  The memtable's lock    *)
(* makes each operation one step.                                          *)
(*                                                                         *)
(* A node is named by its key, the head by 0.                              *)
(***************************************************************************)
EXTENDS Integers, Sequences, FiniteSets

CONSTANTS
  Keys,      \* keys, as numbers in their order
  Values,
  NoValue,   \* what Search returns for a key that is not there
  MaxLevel

SkipListAssumption ==
  /\ Keys \subseteq Nat \ {0} /\ MaxLevel \in Nat \ {0} /\ NoValue \notin Values

VARIABLES
  forward,   \* forward[n][i]: the node after n at level i
  value,     \* the value of a node
  level,     \* the highest level in use
  size       \* SkipList.Size

vars == <<forward, value, level, size>>

Header == 0
Nil == -1
Nodes == Keys \cup {Header}
Levels == 0..MaxLevel - 1

\* NewSkipList.
Init ==
  /\ forward = [n \in Nodes |-> [i \in Levels |-> Nil]]
  /\ value = [k \in Keys |-> NoValue]
  /\ level = 0 /\ size = 0

\* Mutant: the descent stops at the key instead of before it.
AdvanceTo(n, i, key) ==
  LET last[m \in Nodes] ==
        IF forward[m][i] # Nil /\ forward[m][i] <= key THEN last[forward[m][i]] ELSE m
  IN  last[n]

\* The last node at level i, from n on, whose key is less than key.
Advance(n, i, key) ==
  LET last[m \in Nodes] ==
        IF forward[m][i] # Nil /\ forward[m][i] < key THEN last[forward[m][i]] ELSE m
  IN  last[n]

\* update: where the descent from the highest level leaves each level, and the
\* head for the levels above.
Update(key) ==
  LET up[i \in 0..MaxLevel] == IF i > level THEN Header ELSE Advance(up[i + 1], i, key)
  IN  up

\* The node the descent ends before.
Candidate(key) == forward[Update(key)[0]][0]

Search(key) == IF Candidate(key) = key THEN value[key] ELSE NoValue

\* Insert of a new key links it at the levels up to newLevel,
Insert(key, v, newLevel) ==
  LET update == Update(key)
  IN  /\ Candidate(key) # key
      /\ forward' = [n \in Nodes |-> [i \in Levels |->
           IF i > newLevel THEN forward[n][i]
           ELSE IF n = key THEN forward[update[i]][i]
           ELSE IF n = update[i] THEN key ELSE forward[n][i]]]
      /\ value' = [value EXCEPT ![key] = v]
      /\ level' = IF newLevel > level THEN newLevel ELSE level
      /\ size' = size + 1

\* and of a key that is there replaces its value.
Replace(key, v) ==
  /\ Candidate(key) = key
  /\ value' = [value EXCEPT ![key] = v]
  /\ UNCHANGED <<forward, level, size>>

\* The levels that Delete unlinks: from the lowest, until the node is not next.
Unlinked(key) == {i \in 0..level : \A j \in 0..i : forward[Update(key)[j]][j] = key}

\* The level once the empty ones at the top are gone.
Shrunk(f) ==
  CHOOSE l \in 0..level :
    /\ l = 0 \/ f[Header][l] # Nil
    /\ \A i \in l + 1..level : f[Header][i] = Nil

Delete(key) ==
  LET update == Update(key)
      unlinked == [n \in Nodes |-> [i \in Levels |->
        IF i \in Unlinked(key) /\ n = update[i] THEN forward[key][i]
        ELSE IF n = key THEN Nil ELSE forward[n][i]]]
  IN  /\ Candidate(key) = key
      /\ forward' = unlinked /\ level' = Shrunk(unlinked)
      /\ value' = [value EXCEPT ![key] = NoValue]
      /\ size' = size - 1

Next ==
  \E k \in Keys :
    \/ Delete(k)
    \/ \E v \in Values : Replace(k, v) \/ \E l \in Levels : Insert(k, v, l)

Spec == Init /\ [][Next]_vars

------------------------------------------------------------------------------
\* Properties.

\* The keys an iterator visits, which follows level 0 from the head.
Iteration ==
  LET rest[n \in Nodes] ==
        IF forward[n][0] = Nil THEN <<>> ELSE <<forward[n][0]>> \o rest[forward[n][0]]
  IN  rest[Header]

Contents == [k \in Keys |-> Search(k)]

\* An iterator visits each key that Search finds once, in order, and Len counts them.
Iterates ==
  /\ \A i, j \in DOMAIN Iteration : i < j => Iteration[i] < Iteration[j]
  /\ {Iteration[i] : i \in DOMAIN Iteration} = {k \in Keys : Search(k) # NoValue}
  /\ size = Len(Iteration)

\* What Search finds is a map, which each insertion and each deletion of the skip
\* list changes at its own key and nowhere else, whatever levels were drawn before,
\* and an iterator then visits it in order.
OneKeyChanges ==
  /\ \A k \in Keys :
       /\ Delete(k) => Contents' = [Contents EXCEPT ![k] = NoValue]
       /\ \A v \in Values :
            Replace(k, v) \/ (\E l \in Levels : Insert(k, v, l)) =>
              Contents' = [Contents EXCEPT ![k] = v]
  /\ Iterates'
IsAMap == [][OneKeyChanges]_vars
==============================================================================
