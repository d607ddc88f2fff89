--------------------------- MODULE MCStorageEngine ---------------------------
(***************************************************************************)
(* Small instances of StorageEngine for TLC.                               *)
(***************************************************************************)
EXTENDS StorageEngine

CONSTANTS k1, k2, c1, c2

\* Both clients do anything to one key; one of them also writes another key.
Contended == ({c1, c2} \X {k1} \X Kinds) \cup {<<c1, k2, "write">>}

\* Each key is mutated by one client only, and read by the other.
OneWriterPerKey ==
  ({c1} \X {k1} \X Mutations) \cup ({c2} \X {k2} \X {"write", "delete"})
    \cup {<<c1, k2, "read">>, <<c2, k1, "read">>}

\* Writes only, of one key.
WritesOnly == {c1, c2} \X {k1} \X {"write"}

\* One client writes two keys.
TwoKeys == {c1} \X {k1, k2} \X {"write", "read"}

\* Mutations that never check whether the memtable is full.
DeletesOnly == {c1, c2} \X {k1} \X {"delete", "repair"}

\* One client writes, reads and deletes one key.
Sequential == {c1} \X {k1} \X Kinds
==============================================================================
