------------------------------ MODULE KeyScans -------------------------------
(***************************************************************************)
(* ScanKeysInRange of SSTableService and of MemTableService, which are to  *)
(* find the keys that a stream copies and which nothing calls yet, over    *)
(* the ranges of the streams of Streaming.                                 *)
(***************************************************************************)
EXTENDS Streaming, SequencesExt

CONSTANT Tables    \* SSTables to scan: sequences of entries [key, time]

\* Mutant: an entry that was seen is replaced by whatever comes later.
SeeLater(seen, e) == IF \E x \in seen : x.key = e.key
                     THEN {x \in seen : x.key # e.key} \cup {e} ELSE seen \cup {e}

\* SSTableService.ScanKeysInRange meets an entry: the newer one of a key is kept.
See(seen, e) ==
  IF \E x \in seen : x.key = e.key
  THEN IF \E x \in seen : x.key = e.key /\ e.time > x.time
       THEN {x \in seen : x.key # e.key} \cup {e} ELSE seen
  ELSE seen \cup {e}

\* It goes through the tables of all levels, past those it cannot open.
ScanSSTables(ts, open, r) ==
  LET read == FlattenSeq([i \in DOMAIN ts |-> IF i \in open THEN ts[i] ELSE <<>>])
  IN  FoldLeft(See, {}, SelectSeq(read, LAMBDA e : ScanInRange(e.key, r)))

\* MemTableService.ScanKeysInRange reports the entries of both memtables.
ScanMemTables(mem, immutable, r) ==
  SelectSeq(mem, LAMBDA e : ScanInRange(e.key, r)) \o SelectSeq(immutable, LAMBDA e : ScanInRange(e.key, r))

------------------------------------------------------------------------------
\* For the ranges of every stream, the scan of the SSTables has the newest version of
\* every key in a table it could open, and the scan of the memtables misses no entry.
ScansKeepNewest ==
  \A i \in DOMAIN ctx : \A r \in ctx[i].ranges, ts \in Tables, open \in SUBSET (1..2) :
    LET of(n) == {x \in ToSet(ts[n]) : ScanInRange(x.key, r)}
        all   == UNION {of(n) : n \in open}
    IN  /\ ScanSSTables(ts, open, r) = {x \in all : \A y \in all : y.key = x.key => y.time <= x.time}
        /\ ToSet(ScanMemTables(ts[1], ts[2], r)) = of(1) \cup of(2)
==============================================================================
