----------------------------- MODULE SSTableFile ----------------------------
(***************************************************************************)
(* One SSTable: the data, index and bloom files that SSTableWriter writes  *)
(* and that a read finds a key in.                                         *)
(*                                                                         *)
(* The data file is a sequence of cells, each standing for four bytes: an  *)
(* entry's size, its checksum, and the cells of its JSON.  A table is read *)
(* only once Finalize has returned without an error.                       *)
(***************************************************************************)
EXTENDS Integers, Sequences, FiniteSets

CONSTANTS
  Keys,
  Lengths,     \* how many cells the JSON of an entry may take
  Checksums,   \* the checksums that entries may have
  Hashes,      \* the values of the two hash functions
  HashWidth,   \* bits of a hash value
  BloomSizes,  \* bits of the filter
  HashCount,   \* positions of a key in the filter
  MaxDamage    \* cells of the data file that go bad

FileAssumption ==
  /\ Lengths \subseteq Nat \ {0} /\ BloomSizes \subseteq Nat \ {0}
  /\ Checksums \subseteq Nat /\ Hashes \subseteq 0..2 ^ HashWidth - 1

VARIABLES
  data,      \* the data file
  offset,    \* SSTableWriter.offset
  index,     \* SSTableWriter.index, and the index file once final
  bits,      \* the filter's bits
  bloom,     \* the bloom file: the size and the packed bytes
  hash,      \* hash[k]: the two hash values of a key
  status,    \* of the writer
  damaged    \* cells gone bad

vars == <<data, offset, index, bits, bloom, hash, status, damaged>>

Size == Cardinality(DOMAIN bits)

\* NewSSTableWriter, with the filter of NewBloomFilter.
Init ==
  /\ data = <<>> /\ offset = 0 /\ index = <<>>
  /\ \E s \in BloomSizes : bits = [i \in 0..s - 1 |-> FALSE]
  /\ bloom = [size |-> 0, bytes |-> <<>>]
  /\ hash \in [Keys -> Hashes \X Hashes]
  /\ status = "writing" /\ damaged = 0

\* getHashes: double hashing, in unsigned arithmetic.
getHashes(key) ==
  {(hash[key][1] + i * hash[key][2]) % 2 ^ HashWidth : i \in 0..HashCount - 1}

MayContain(filter, key) ==
  \A h \in getHashes(key) : filter[h % Cardinality(DOMAIN filter)]

\* The cells of an entry.
Cells(e) ==
  <<[kind |-> "size", n |-> e.size], [kind |-> "sum", n |-> e.sum]>>
    \o [i \in 1..e.size |-> [kind |-> "json", at |-> i, of |-> e.size, entry |-> e]]

\* Write: the memtable and the merge hand each key once.
Write(e) ==
  /\ status = "writing" /\ \A i \in DOMAIN index : index[i].entry.key # e.key
  /\ data' = data \o Cells(e)
  /\ index' = Append(index, [entry |-> e, offset |-> offset])
  /\ bits' = [i \in DOMAIN bits |-> bits[i] \/ \E h \in getHashes(e.key) : i = h % Size]
  /\ offset' = offset + 2 + e.size
  /\ UNCHANGED <<bloom, hash, status, damaged>>

\* Write fails after some of the cells: the caller gives the table up.
WriteFails(e) ==
  /\ status = "writing" /\ \A i \in DOMAIN index : index[i].entry.key # e.key
  /\ \E n \in 0..e.size + 1 : data' = data \o SubSeq(Cells(e), 1, n)
  /\ status' = "failed"
  /\ UNCHANGED <<offset, index, bits, bloom, hash, damaged>>

\* Mutant: the byte count is rounded down.
ByteCountDown(size) == size \div 8

ByteCount(size) == (size + 7) \div 8

\* WriteTo: the bits packed into bytes, the lowest bit first.
Packed ==
  [j \in 0..ByteCount(Size) - 1 |->
    LET sum[b \in 0..8] ==
          IF b = 8 THEN 0
          ELSE sum[b + 1] + (IF 8 * j + b \in DOMAIN bits /\ bits[8 * j + b] THEN 2 ^ b ELSE 0)
    IN  sum[0]]

Finalize ==
  /\ status = "writing"
  /\ bloom' = [size |-> Size, bytes |-> Packed]
  /\ status' = "final"
  /\ UNCHANGED <<data, offset, index, bits, hash, damaged>>

\* An error of Finalize: the caller gives the table up.
FinalizeFails ==
  /\ status = "writing" /\ status' = "failed"
  /\ UNCHANGED <<data, offset, index, bits, bloom, hash, damaged>>

\* A cell of the data file after it went bad.
Bad(c) == IF c.kind = "json" THEN [c EXCEPT !.entry.size = 0] ELSE [c EXCEPT !.n = @ + 1]

\* A cell of a finished table goes bad on the disk.
Damage ==
  /\ status = "final" /\ damaged < MaxDamage
  /\ \E i \in DOMAIN data : data' = [data EXCEPT ![i] = Bad(@)]
  /\ damaged' = damaged + 1
  /\ UNCHANGED <<offset, index, bits, bloom, hash, status>>

Entries == [key : Keys, size : Lengths, sum : Checksums]

Next ==
  \/ \E e \in Entries : Write(e) \/ WriteFails(e)
  \/ Finalize \/ FinalizeFails \/ Damage

Spec == Init /\ [][Next]_vars

------------------------------------------------------------------------------
\* A read of the finished table.

\* LoadBloomFilter.
Loaded ==
  [i \in 0..bloom.size - 1 |->
    /\ i \div 8 \in DOMAIN bloom.bytes
    /\ (bloom.bytes[i \div 8] \div 2 ^ (i % 8)) % 2 = 1]

\* Whether the cells read are one JSON document.
IsJson(cells) ==
  \A i \in DOMAIN cells :
    cells[i].kind = "json" /\ cells[i].at = i /\ cells[i].of = Len(cells)

\* ValidateChecksum: no bytes but the entry's own have its checksum.
ValidateChecksum(cells, sum) ==
  /\ IsJson(cells) /\ cells # <<>>
  /\ \A i \in DOMAIN cells : cells[i].entry.size = Len(cells)
  /\ cells[1].entry.sum = sum

\* SSTableReader.Get at an index entry: the entry in each cell, nothing on an
\* error.  A checksum of 0 in the index stands for a file without checksums.
ReadAt(x) ==
  LET header == IF x.entry.sum # 0 THEN 2 ELSE 1
      last == x.offset + header + data[x.offset + 1].n
      cells == SubSeq(data, x.offset + header + 1, last)
  IN  IF \/ data[x.offset + 1].kind # "size" \/ last > Len(data)
         \/ x.entry.sum # 0 /\ ~ValidateChecksum(cells, data[x.offset + 2].n)
         \/ ~IsJson(cells)
      THEN <<>>
      ELSE [i \in DOMAIN cells |-> cells[i].entry]

\* SSTableService.Get of a key in one table: the filter, then the index.
Get(key) ==
  IF ~MayContain(Loaded, key) \/ \A i \in DOMAIN index : index[i].entry.key # key
  THEN <<>>
  ELSE ReadAt(CHOOSE x \in {index[i] : i \in DOMAIN index} : x.entry.key = key)

------------------------------------------------------------------------------
\* Properties.

\* What a read of an undamaged entry returns.
Whole(e) == [i \in 1..e.size |-> e]

\* Every entry of a finished table is read back as it was written: the filter that
\* was packed, stored and loaded rejects no key of the table, and each offset of the
\* index is where the entry is.  Writer.Write "writes a memtable entry to the SSTable
\* with checksum", and a read that fails passes the table over in silence.
WrittenIsRead ==
  status = "final" /\ damaged = 0 =>
    \A i \in DOMAIN index : Get(index[i].entry.key) = Whole(index[i].entry)

\* Bad cells make a read of SSTableReader.Get fail, and never return something else
\* than what was written.
DamageIsNoticed ==
  status = "final" =>
    \A i \in DOMAIN index : Get(index[i].entry.key) \in {<<>>, Whole(index[i].entry)}
==============================================================================
