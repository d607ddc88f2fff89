------------------------- MODULE StorageEngineProofs -------------------------
(***************************************************************************)
(* Proofs about StorageEngine, for every value of its constants: types,    *)
(* recovery, what unfinished appends leave in the log, the log that is     *)
(* written ahead, and what stays within reach.                             *)
(***************************************************************************)
EXTENDS StorageEngine, Integers, TLAPS

------------------------------------------------------------------------------
\* Type correctness needs to know what a request in flight carries: its key
\* (every step but the first reads it), the entry a reader is about to cache,
\* and the client an inline flush answers to.
ReqInv ==
  /\ \A c \in Clients : pc[c] # "idle" => req[c].key \in Keys
  /\ \A c \in Clients : pc[c] = "rfill" => req[c].found \in Entry
FlushInv ==
  flush.at # "free" =>
    /\ flush.owner \in Flushers
    /\ flush.owner \in Clients => pc[flush.owner] = "flushing"
\* The types but for memSize, which counts lines (see SizeStep).
CoreOK ==
  /\ clock \in Nat /\ ops \in Nat
  /\ log \in Seq(Line) /\ torn \in BOOLEAN /\ tears \in Nat
  /\ memTable \in MemTables /\ immutableMT \in MemTables
  /\ tables \in Nat /\ L0 \subseteq [id : Nat, data : MemTables]
  /\ compactJobs \subseteq SUBSET Nat
  /\ cache \in [Keys -> Nat \cup {None}]
  /\ pc \in [Clients -> PCs] /\ req \in [Clients -> Request]
  /\ flush \in [owner : Flushers \cup {None}, at : {"free", "write", "clear"}]
  /\ flushTasks \in Nat
  /\ acked \subseteq [key : Keys, op : Nat] /\ crashes \in Nat
\* Replay reads a last line of every key that has one.
LastInv ==
  \A k \in Keys : LinesOf(k) # {} =>
    \E i \in LinesOf(k) : \A j \in LinesOf(k) : j <= i
BaseInv == CoreOK /\ ReqInv /\ FlushInv
TypeInv == CoreOK /\ ReqInv /\ FlushInv /\ LastInv

ReqTypes == pc \in [Clients -> PCs] /\ req \in [Clients -> Request] /\ ReqInv

\* The fields of a request in flight.
LEMMA ReqFields ==
  ASSUME TypeInv, NEW c \in Clients
  PROVE  /\ req[c].op \in Nat /\ req[c].ts \in Nat
         /\ req[c].found \in MaybeEntry
         /\ pc[c] # "idle" => req[c].key \in Keys
         /\ pc[c] = "rfill" => req[c].found \in Entry
BY DEF TypeInv, CoreOK, ReqInv, Request

\* A request record built from well-typed fields.
LEMMA NewReqType ==
  ASSUME NEW kind \in Kinds \cup {"none"}, NEW k \in Keys \cup {None},
         NEW op \in Nat, NEW ts \in Nat, NEW must \in BOOLEAN
  PROVE  NewReq(kind, k, op, ts, must) \in Request
BY DEF NewReq, Request, MaybeEntry

\* The record of an idle client.
LEMMA NoReqType == NoReq \in Request
BY NewReqType, Zenon DEF NoReq

\* A client that moves on keeps its request; one that returns drops it.
LEMMA GotoTypes ==
  ASSUME TypeInv, NEW c \in Clients, NEW l \in PCs, Goto(c, l),
         pc[c] # "idle", l # "rfill"
  PROVE  ReqTypes' /\ pc'[c] = l /\ \A d \in Clients \ {c} : pc'[d] = pc[d]
BY DEF TypeInv, CoreOK, ReqInv, Goto, ReqTypes

\* A client whose handler returns is idle and has no request.
LEMMA ReturnTypes ==
  ASSUME TypeInv, NEW c \in Clients, Return(c)
  PROVE  ReqTypes' /\ pc'[c] = "idle" /\ \A d \in Clients \ {c} : pc'[d] = pc[d]
<1>1. "idle" \in PCs
  BY DEF PCs
<1> QED
  BY <1>1, NoReqType DEF TypeInv, CoreOK, ReqInv, Return, ReqTypes

\* A step of a background goroutine moves no client.
LEMMA SameReqTypes ==
  ASSUME TypeInv, UNCHANGED <<pc, req>>
  PROVE  ReqTypes'
BY DEF TypeInv, CoreOK, ReqInv, ReqTypes

\* A new request starts from a well-formed record.
LEMMA StartTypes ==
  ASSUME TypeInv, NEW c \in Clients, NEW l \in PCs, l # "rfill",
         NEW r \in Request, r.key \in Keys,
         pc' = [pc EXCEPT ![c] = l], req' = [req EXCEPT ![c] = r]
  PROVE  ReqTypes' /\ \A d \in Clients \ {c} : pc'[d] = pc[d]
BY DEF TypeInv, CoreOK, ReqInv, ReqTypes

\* A lookup that found an entry leaves the reader about to cache it, or done.
LEMMA FoundTypes ==
  ASSUME TypeInv, NEW c \in Clients, pc[c] # "idle", NEW e \in Entry, Found(c, e)
  PROVE  /\ ReqTypes' /\ pc'[c] # "flushing"
         /\ \A d \in Clients \ {c} : pc'[d] = pc[d]
<1>1. CASE e.del
  BY <1>1, ReturnTypes DEF Found
<1>2. CASE ~e.del
  <2>1. req' = [req EXCEPT ![c].found = e] /\ pc' = [pc EXCEPT ![c] = "rfill"]
    BY <1>2 DEF Found
  <2>2. [req[c] EXCEPT !.found = e] \in Request
    <3>1. req[c] \in Request /\ e \in MaybeEntry
      BY DEF TypeInv, CoreOK, MaybeEntry
    <3> QED
      BY <3>1 DEF Request
  <2>3. /\ req' = [req EXCEPT ![c] = [req[c] EXCEPT !.found = e]]
        /\ [req[c] EXCEPT !.found = e].key = req[c].key
        /\ [req[c] EXCEPT !.found = e].found = e
    BY <2>1 DEF TypeInv, CoreOK, Request
  <2>4. "rfill" \in PCs
    BY DEF PCs
  <2> QED
    BY <2>1, <2>2, <2>3, <2>4 DEF TypeInv, CoreOK, ReqInv, ReqTypes
<1> QED
  BY <1>1, <1>2

\* What is answered with success is a key and an operation.
LEMMA AckTypes ==
  ASSUME TypeInv, NEW c \in Clients, pc[c] # "idle", Ack(c)
  PROVE  acked' \subseteq [key : Keys, op : Nat]
BY ReqFields DEF TypeInv, CoreOK, Ack

\* The cache stays a map from keys to operations, whatever it evicts.
LEMMA CachePutTypes ==
  ASSUME TypeInv, NEW k \in Keys, NEW op \in Nat, CachePut(k, op)
  PROVE  cache' \in [Keys -> Nat \cup {None}]
BY DEF TypeInv, CoreOK, CachePut

\* The commit log stays a sequence of lines when an entry is appended.
LEMMA AppendLineTypes ==
  ASSUME TypeInv, NEW c \in Clients, pc[c] # "idle", AppendLine(req[c])
  PROVE  log' \in Seq(Line) /\ torn' \in BOOLEAN /\ tears' \in Nat
<1> DEFINE l == [key |-> req[c].key, op |-> req[c].op, ts |-> req[c].ts,
                 del |-> req[c].kind = "delete", ok |-> ~torn]
<1>1. l \in Line
  BY ReqFields DEF TypeInv, CoreOK, Line
<1>2. log' = Append(log, l) /\ torn' = FALSE /\ tears' = tears
  BY DEF AppendLine
<1>3. log \in Seq(Line) /\ tears \in Nat
  BY DEF TypeInv, CoreOK
<1> HIDE DEF l
<1>4. Append(log, l) \in Seq(Line)
  BY <1>1, <1>3
<1> QED
  BY <1>2, <1>3, <1>4, Zenon

\* Recover restores the last line of each key.
LEMMA LastLine ==
  ASSUME TypeInv, NEW k \in Keys, LinesOf(k) # {}
  PROVE  /\ LastOf(LinesOf(k)) \in LinesOf(k)
         /\ \A j \in LinesOf(k) : j <= LastOf(LinesOf(k))
         /\ log[LastOf(LinesOf(k))] \in Line /\ log[LastOf(LinesOf(k))].ok
         /\ Recovered[k] = EntryOf(log[LastOf(LinesOf(k))])
         /\ Recovered[k] \in Entry
<1>1. /\ LastOf(LinesOf(k)) \in LinesOf(k)
      /\ \A j \in LinesOf(k) : j <= LastOf(LinesOf(k))
  BY Zenon DEF TypeInv, LastInv, LastOf
<1>2. log[LastOf(LinesOf(k))] \in Line /\ log[LastOf(LinesOf(k))].ok
  BY <1>1 DEF LinesOf, TypeInv, CoreOK
<1>3. Recovered[k] = EntryOf(log[LastOf(LinesOf(k))])
  BY Zenon DEF Recovered
<1>4. Recovered[k] \in Entry
  BY <1>2, <1>3 DEF EntryOf, Entry, Line
<1> QED
  BY <1>1, <1>2, <1>3, <1>4

\* Recover rebuilds a well-formed memtable from the log.
LEMMA RecoveredTypes ==
  ASSUME TypeInv
  PROVE  Recovered \in MemTables
BY LastLine DEF Recovered, MemTables, MaybeEntry

\* What a request that begins carries.
LEMMA NewReqFields ==
  \A kind, k, op, ts, m : NewReq(kind, k, op, ts, m).key = k /\ NewReq(kind, k, op, ts, m).must = m
BY DEF NewReq

------------------------------------------------------------------------------
\* A node that starts on an empty data directory is well typed.
LEMMA TypeInvInit == Init => TypeInv
<1> SUFFICES ASSUME Init PROVE TypeInv
  OBVIOUS
<1> USE EngineAssumption DEF Init
<1>1. memTable \in MemTables /\ immutableMT \in MemTables
      /\ cache \in [Keys -> Nat \cup {None}]
  BY DEF NoEntries, MemTables, MaybeEntry
<1>2. pc \in [Clients -> PCs] /\ req \in [Clients -> Request]
  BY NoReqType DEF PCs
<1>3. flush \in [owner : Flushers \cup {None}, at : {"free", "write", "clear"}]
      /\ flush.at = "free"
  BY DEF NoFlush
<1>4. log \in Seq(Line)
  OBVIOUS
<1>5. LastInv
  BY DEF LastInv, LinesOf
<1> QED
  BY <1>1, <1>2, <1>3, <1>4, <1>5, Zenon DEF TypeInv, CoreOK, ReqInv, FlushInv

\* Every step keeps the types.
LEMMA BaseInvStep ==
  ASSUME TypeInv, [Next]_vars
  PROVE  BaseInv'
<1> USE EngineAssumption
<1> USE DEF logVars, memVars, tableVars, flushVars, histVars, timeVars
<1>1. ASSUME NEW c \in Clients, NEW k \in Keys, NEW kind \in Mutations,
             BeginMutation(c, k, kind)
      PROVE  BaseInv'
  <2> DEFINE r == NewReq(kind, k, ops + 1, clock, FALSE)
  <2>1. clock \in Nat /\ ops \in Nat
    BY DEF TypeInv, BaseInv, CoreOK
  <2>2. r \in Request /\ r.key = k
    <3>1. kind \in Kinds \cup {"none"} /\ ops + 1 \in Nat
      BY <2>1 DEF Mutations, Kinds
    <3>2. r \in Request
      BY <2>1, <3>1, NewReqType, Zenon
    <3> QED
      BY <3>2 DEF NewReq
  <2>3. /\ pc' = [pc EXCEPT ![c] = "append"] /\ req' = [req EXCEPT ![c] = r]
        /\ pc[c] = "idle" /\ ops' = ops + 1
        /\ UNCHANGED <<log, torn, tears, memTable, immutableMT, tables,
                       L0, compactJobs, cache, flush, flushTasks, acked, crashes>>
    BY <1>1 DEF BeginMutation
  <2>4. clock' \in Nat
    BY <1>1, <2>1 DEF BeginMutation
  <2> HIDE DEF r
  <2>5. ReqTypes' /\ \A d \in Clients \ {c} : pc'[d] = pc[d]
    BY <2>2, <2>3, StartTypes, Zenon DEF PCs
  <2> QED
    BY <2>1, <2>3, <2>4, <2>5 DEF TypeInv, BaseInv, CoreOK, ReqTypes, FlushInv
<1>2. ASSUME NEW c \in Clients, NEW k \in Keys, ReadHit(c, k)
      PROVE  BaseInv'
  BY <1>2 DEF ReadHit, vars, TypeInv, BaseInv, CoreOK, ReqInv, FlushInv
<1>3. ASSUME NEW c \in Clients, NEW k \in Keys, ReadCache(c, k)
      PROVE  BaseInv'
  <2> DEFINE m == \E a \in acked : a.key = k
             r == NewReq("read", k, 0, 0, m)
  <2>1. m \in BOOLEAN
    OBVIOUS
  <2>2. r \in Request /\ r.key = k
    <3> HIDE DEF m
    <3> QED
      BY <2>1, NewReqType DEF Kinds, NewReq
  <2>3. /\ pc' = [pc EXCEPT ![c] = "rmem"] /\ req' = [req EXCEPT ![c] = r]
        /\ pc[c] = "idle"
        /\ UNCHANGED <<clock, ops, log, torn, tears, memTable,
                       immutableMT, tables, L0, compactJobs, cache, flush,
                       flushTasks, acked, crashes>>
    BY <1>3 DEF ReadCache
  <2> HIDE DEF r
  <2>4. ReqTypes' /\ \A d \in Clients \ {c} : pc'[d] = pc[d]
    BY <2>2, <2>3, StartTypes, Zenon DEF PCs
  <2> QED
    BY <2>3, <2>4 DEF TypeInv, BaseInv, CoreOK, ReqTypes, FlushInv
<1>4. ASSUME NEW c \in Clients, LogAppend(c) PROVE BaseInv'
  <2>1. ReqTypes' /\ pc[c] # "flushing" /\ \A d \in Clients \ {c} : pc'[d] = pc[d]
    BY <1>4, GotoTypes DEF LogAppend, PCs
  <2>2. log' \in Seq(Line) /\ torn' \in BOOLEAN /\ tears' \in Nat
    BY <1>4, AppendLineTypes DEF LogAppend
  <2> QED
    BY <1>4, <2>1, <2>2 DEF LogAppend, TypeInv, BaseInv, CoreOK, ReqTypes, FlushInv
<1>5. ASSUME NEW c \in Clients, LogAppendTorn(c) PROVE BaseInv'
  <2>1. ReqTypes' /\ pc[c] # "flushing" /\ \A d \in Clients \ {c} : pc'[d] = pc[d]
    BY <1>5, ReturnTypes DEF LogAppendTorn
  <2> QED
    BY <1>5, <2>1 DEF LogAppendTorn, TypeInv, BaseInv, CoreOK, ReqTypes, FlushInv
<1>6. ASSUME NEW c \in Clients, LogAppendSyncFails(c) PROVE BaseInv'
  <2>1. ReqTypes' /\ pc[c] # "flushing" /\ \A d \in Clients \ {c} : pc'[d] = pc[d]
    BY <1>6, ReturnTypes DEF LogAppendSyncFails
  <2>2. log' \in Seq(Line) /\ torn' \in BOOLEAN /\ tears' \in Nat
    BY <1>6, AppendLineTypes DEF LogAppendSyncFails
  <2> QED
    BY <1>6, <2>1, <2>2 DEF LogAppendSyncFails, TypeInv, BaseInv, CoreOK, ReqTypes, FlushInv
<1>7. ASSUME NEW c \in Clients, MemPut(c) PROVE BaseInv'
  <2>1. ReqTypes' /\ pc[c] # "flushing" /\ \A d \in Clients \ {c} : pc'[d] = pc[d]
    BY <1>7, GotoTypes DEF MemPut, PCs
  <2>2. memTable' \in MemTables
    <3>1. ReqEntry(req[c]) \in Entry
      BY ReqFields DEF ReqEntry, Entry
    <3> QED
      BY <1>7, <3>1, Zenon DEF MemPut, TypeInv, BaseInv, CoreOK, MemTables, MaybeEntry
  <2> QED
    BY <1>7, <2>1, <2>2 DEF MemPut, TypeInv, BaseInv, CoreOK, ReqTypes, FlushInv
<1>8. ASSUME NEW c \in Clients, WriteCache(c) PROVE BaseInv'
  <2>1. ReqTypes' /\ pc[c] # "flushing" /\ \A d \in Clients \ {c} : pc'[d] = pc[d]
    BY <1>8, GotoTypes DEF WriteCache, PCs
  <2>2. cache' \in [Keys -> Nat \cup {None}]
    BY <1>8, ReqFields, CachePutTypes DEF WriteCache
  <2> QED
    BY <1>8, <2>1, <2>2 DEF WriteCache, TypeInv, BaseInv, CoreOK, ReqTypes, FlushInv
<1>9. ASSUME NEW c \in Clients, RepairCache(c) PROVE BaseInv'
  <2>1. ReqTypes' /\ pc[c] # "flushing" /\ \A d \in Clients \ {c} : pc'[d] = pc[d]
    BY <1>9, ReturnTypes DEF RepairCache
  <2>2. cache' \in [Keys -> Nat \cup {None}]
    BY <1>9, ReqFields, CachePutTypes DEF RepairCache
  <2>3. acked' \subseteq [key : Keys, op : Nat]
    BY <1>9, AckTypes DEF RepairCache
  <2> QED
    BY <1>9, <2>1, <2>2, <2>3 DEF RepairCache, TypeInv, BaseInv, CoreOK, ReqTypes, FlushInv
<1>10. ASSUME NEW c \in Clients, DeleteCache(c) PROVE BaseInv'
  <2>1. ReqTypes' /\ pc[c] # "flushing" /\ \A d \in Clients \ {c} : pc'[d] = pc[d]
    BY <1>10, ReturnTypes DEF DeleteCache
  <2>3. acked' \subseteq [key : Keys, op : Nat]
    BY <1>10, AckTypes DEF DeleteCache
  <2> QED
    BY <1>10, <2>1, <2>3, Zenon DEF DeleteCache, TypeInv, BaseInv, CoreOK, ReqTypes, FlushInv
<1>11. ASSUME NEW c \in Clients, NoFlushNeeded(c) PROVE BaseInv'
  <2>1. ReqTypes' /\ pc[c] # "flushing" /\ \A d \in Clients \ {c} : pc'[d] = pc[d]
    BY <1>11, ReturnTypes DEF NoFlushNeeded
  <2>3. acked' \subseteq [key : Keys, op : Nat]
    BY <1>11, AckTypes DEF NoFlushNeeded
  <2> QED
    BY <1>11, <2>1, <2>3 DEF NoFlushNeeded, TypeInv, BaseInv, CoreOK, ReqTypes, FlushInv
<1>12. ASSUME NEW c \in Clients, SubmitFlush(c) PROVE BaseInv'
  <2>1. ReqTypes' /\ pc[c] # "flushing" /\ \A d \in Clients \ {c} : pc'[d] = pc[d]
    BY <1>12, ReturnTypes DEF SubmitFlush
  <2>3. acked' \subseteq [key : Keys, op : Nat]
    BY <1>12, AckTypes DEF SubmitFlush
  <2> QED
    BY <1>12, <2>1, <2>3 DEF SubmitFlush, TypeInv, BaseInv, CoreOK, ReqTypes, FlushInv
<1>13. ASSUME NEW c \in Clients, InlineFlush(c) PROVE BaseInv'
  <2>1. ReqTypes' /\ pc[c] # "flushing" /\ \A d \in Clients \ {c} : pc'[d] = pc[d]
    BY <1>13, GotoTypes DEF InlineFlush, PCs
  <2> QED
    BY <1>13, <2>1 DEF InlineFlush, TypeInv, BaseInv, CoreOK, ReqTypes, FlushInv
<1>14. ASSUME NEW c \in Clients, ReadMem(c) PROVE BaseInv'
  <2>1. req[c].key \in Keys /\ MemGet(req[c].key) \in MaybeEntry
    BY <1>14, ReqFields DEF ReadMem, MemGet, TypeInv, BaseInv, CoreOK, MemTables
  <2>2. ReqTypes' /\ pc[c] # "flushing" /\ \A d \in Clients \ {c} : pc'[d] = pc[d]
    <3>1. CASE MemGet(req[c].key) = None
      BY <1>14, <3>1, GotoTypes DEF ReadMem, PCs
    <3>2. CASE MemGet(req[c].key) # None
      BY <1>14, <2>1, <3>2, FoundTypes DEF ReadMem, MaybeEntry
    <3> QED
      BY <3>1, <3>2
  <2> QED
    BY <1>14, <2>2 DEF ReadMem, TypeInv, BaseInv, CoreOK, ReqTypes, FlushInv
<1>15. ASSUME NEW c \in Clients, ReadSSTables(c) PROVE BaseInv'
  <2>1. ReqTypes' /\ pc[c] # "flushing" /\ \A d \in Clients \ {c} : pc'[d] = pc[d]
    <3>1. CASE Return(c)
      BY <1>15, <3>1, ReturnTypes DEF ReadSSTables
    <3>2. ASSUME NEW t \in L0, IsLatest(t, req[c].key),
                 Found(c, t.data[req[c].key])
          PROVE  ReqTypes' /\ \A d \in Clients \ {c} : pc'[d] = pc[d]
      <4>1. t.data \in MemTables /\ req[c].key \in Keys
        BY <1>15, ReqFields DEF TypeInv, BaseInv, CoreOK, ReadSSTables
      <4>2. t.data[req[c].key] \in Entry
        BY <3>2, <4>1 DEF IsLatest, MemTables, MaybeEntry
      <4> QED
        BY <1>15, <3>2, <4>2, FoundTypes DEF ReadSSTables
    <3> QED
      BY <1>15, <3>1, <3>2 DEF ReadSSTables
  <2> QED
    BY <1>15, <2>1 DEF ReadSSTables, TypeInv, BaseInv, CoreOK, ReqTypes, FlushInv
<1>16. ASSUME NEW c \in Clients, ReadFill(c) PROVE BaseInv'
  <2>1. ReqTypes' /\ pc[c] # "flushing" /\ \A d \in Clients \ {c} : pc'[d] = pc[d]
    BY <1>16, ReturnTypes DEF ReadFill
  <2>2. cache' \in [Keys -> Nat \cup {None}]
    BY <1>16, ReqFields, CachePutTypes DEF ReadFill, Entry
  <2>3. UNCHANGED <<logVars, memVars, tableVars, flushVars, histVars, timeVars>>
    BY <1>16 DEF ReadFill
  <2>4. FlushInv'
    BY <2>1, <2>3 DEF TypeInv, BaseInv, CoreOK, FlushInv
  <2>5. CoreOK'
    BY <2>1, <2>2, <2>3 DEF TypeInv, BaseInv, CoreOK, ReqTypes
  <2> QED
    BY <2>1, <2>4, <2>5 DEF TypeInv, BaseInv, ReqTypes
<1>17. ASSUME NEW o \in Flushers, FlushEmpty(o) PROVE BaseInv'
  <2>1. ReqTypes' /\ acked' \subseteq [key : Keys, op : Nat]
    <3>1. CASE o = Pool
      BY <1>17, <3>1, SameReqTypes DEF FlushEmpty, FlushReturns, TypeInv, BaseInv, CoreOK
    <3>2. CASE o \in Clients
      <4>1. Ack(o) /\ Return(o) /\ pc[o] # "idle"
        BY <1>17, <3>2 DEF FlushEmpty, FlushReturns, FlushCalled, Pool, TypeInv, FlushInv
      <4> QED
        BY <3>2, <4>1, AckTypes, ReturnTypes
    <3> QED
      BY <1>17, <3>1, <3>2 DEF FlushEmpty, Flushers, TypeInv, FlushInv
  <2>2. flush' = flush /\ flush.at = "free" /\ flushTasks' \in Nat
    BY <1>17 DEF FlushEmpty, FlushCalled, NoFlush, TypeInv, BaseInv, CoreOK
  <2> QED
    BY <1>17, <2>1, <2>2 DEF FlushEmpty, TypeInv, BaseInv, CoreOK, ReqTypes, FlushInv
<1>18. ASSUME NEW o \in Flushers, FlushSwap(o) PROVE BaseInv'
  <2>1. memTable' \in MemTables /\ immutableMT' \in MemTables
    BY <1>18 DEF FlushSwap, NoEntries, TypeInv, BaseInv, CoreOK, MemTables, MaybeEntry
  <2>2. flushTasks' \in Nat
    BY <1>18 DEF FlushSwap, FlushCalled, TypeInv, BaseInv, CoreOK
  <2>3. ReqTypes' /\ (o \in Clients => pc'[o] = "flushing")
    <3>1. CASE o = Pool
      BY <1>18, <3>1, SameReqTypes DEF FlushSwap, Pool
    <3>2. CASE o \in Clients
      BY <1>18, <3>2, GotoTypes DEF FlushSwap, FlushCalled, Pool, PCs
    <3> QED
      BY <3>1, <3>2 DEF Flushers
  <2>4. flush' = [owner |-> o, at |-> "write"]
    BY <1>18 DEF FlushSwap
  <2>5. UNCHANGED <<clock, ops, log, torn, tears, tables, L0, compactJobs, cache,
                    acked, crashes>>
    BY <1>18 DEF FlushSwap
  <2>6. flush' \in [owner : Flushers \cup {None}, at : {"free", "write", "clear"}]
    BY <2>4
  <2>7. FlushInv'
    BY <2>3, <2>4 DEF FlushInv
  <2>8. CoreOK'
    BY <2>1, <2>2, <2>3, <2>5, <2>6 DEF TypeInv, BaseInv, CoreOK, ReqTypes
  <2> QED
    BY <2>3, <2>7, <2>8 DEF TypeInv, BaseInv, ReqTypes
<1>19. CASE FlushWrite
  <2>1. L0' \subseteq [id : Nat, data : MemTables] /\ tables' \in Nat
    BY <1>19 DEF FlushWrite, TypeInv, BaseInv, CoreOK
  <2>2. flush' = [owner |-> flush.owner, at |-> "clear"]
    BY <1>19 DEF FlushWrite, TypeInv, BaseInv, CoreOK
  <2>3. ReqTypes'
    BY <1>19, SameReqTypes DEF FlushWrite
  <2> QED
    BY <1>19, <2>1, <2>2, <2>3, Zenon DEF FlushWrite, TypeInv, BaseInv, CoreOK, ReqTypes, FlushInv
<1>20. CASE FlushWriteFails
  <2>1. ReqTypes' /\ acked' \subseteq [key : Keys, op : Nat]
    <3>1. CASE flush.owner = Pool
      BY <1>20, <3>1, SameReqTypes DEF FlushWriteFails, FlushReturns, TypeInv, BaseInv, CoreOK
    <3>2. CASE flush.owner \in Clients
      <4>1. Ack(flush.owner) /\ Return(flush.owner) /\ pc[flush.owner] # "idle"
        BY <1>20, <3>2 DEF FlushWriteFails, FlushReturns, FlushCalled, Pool, TypeInv, FlushInv
      <4> QED
        BY <3>2, <4>1, AckTypes, ReturnTypes
    <3> QED
      BY <1>20, <3>1, <3>2 DEF FlushWriteFails, Flushers, TypeInv, FlushInv
  <2>2. immutableMT' \in MemTables
    BY <1>20 DEF FlushWriteFails, NoEntries, TypeInv, BaseInv, CoreOK, MemTables, MaybeEntry
  <2>3. flush' = [owner |-> None, at |-> "free"]
    BY <1>20 DEF FlushWriteFails, NoFlush
  <2> QED
    BY <1>20, <2>1, <2>2, <2>3 DEF FlushWriteFails, TypeInv, BaseInv, CoreOK, ReqTypes, FlushInv
<1>21. CASE FlushClear
  <2>1. ReqTypes' /\ acked' \subseteq [key : Keys, op : Nat]
    <3>1. CASE flush.owner = Pool
      BY <1>21, <3>1, SameReqTypes DEF FlushClear, FlushReturns, TypeInv, BaseInv, CoreOK
    <3>2. CASE flush.owner \in Clients
      <4>1. Ack(flush.owner) /\ Return(flush.owner) /\ pc[flush.owner] # "idle"
        BY <1>21, <3>2 DEF FlushClear, FlushReturns, FlushCalled, Pool, TypeInv, FlushInv
      <4> QED
        BY <3>2, <4>1, AckTypes, ReturnTypes
    <3> QED
      BY <1>21, <3>1, <3>2 DEF FlushClear, Flushers, TypeInv, FlushInv
  <2>2. immutableMT' \in MemTables
    BY <1>21 DEF FlushClear, NoEntries, TypeInv, BaseInv, CoreOK, MemTables, MaybeEntry
  <2>3. flush' = [owner |-> None, at |-> "free"]
    BY <1>21 DEF FlushClear, NoFlush
  <2> QED
    BY <1>21, <2>1, <2>2, <2>3 DEF FlushClear, TypeInv, BaseInv, CoreOK, ReqTypes, FlushInv
<1>22. CASE CheckCompaction
  <2>1. {t.id : t \in L0} \in SUBSET Nat
    BY DEF TypeInv, BaseInv, CoreOK
  <2> QED
    BY <1>22, <2>1, Zenon DEF CheckCompaction, TypeInv, BaseInv, CoreOK, ReqInv, FlushInv
<1>23. ASSUME NEW j \in compactJobs, CompactFails(j) PROVE BaseInv'
  BY <1>23 DEF CompactFails, TypeInv, BaseInv, CoreOK, ReqInv, FlushInv
<1>24. ASSUME NEW j \in compactJobs, RemoveTables(j) PROVE BaseInv'
  BY <1>24 DEF RemoveTables, TypeInv, BaseInv, CoreOK, ReqInv, FlushInv
<1>25. CASE Crash
  <2>1. memTable' \in MemTables
    BY <1>25, RecoveredTypes DEF Crash
  <2>2. ReqTypes'
    BY <1>25, NoReqType DEF Crash, ReqTypes, ReqInv, PCs
  <2>3. immutableMT' \in MemTables /\ cache' \in [Keys -> Nat \cup {None}]
    BY <1>25 DEF Crash, NoEntries, MemTables, MaybeEntry
  <2>4. flush' = [owner |-> None, at |-> "free"]
    BY <1>25 DEF Crash, NoFlush
  <2>5. /\ clock' \in Nat /\ ops' \in Nat /\ log' \in Seq(Line) /\ tears' \in Nat
        /\ acked' \subseteq [key : Keys, op : Nat]
    BY <1>25 DEF Crash, TypeInv, BaseInv, CoreOK
  <2>7. torn' \in BOOLEAN /\ crashes' \in Nat
    <3>1. torn' = FALSE
      BY <1>25 DEF Crash
    <3>2. crashes' \in Nat
      BY <1>25 DEF Crash, TypeInv, BaseInv, CoreOK
    <3> QED
      BY <3>1, <3>2, Zenon
  <2>6. /\ tables' \in Nat /\ L0' = {} /\ compactJobs' = {}
        /\ flushTasks' \in Nat
    BY <1>25 DEF Crash
  <2> QED
    BY <2>1, <2>2, <2>3, <2>4, <2>5, <2>6, <2>7 DEF TypeInv, BaseInv, CoreOK, ReqTypes, FlushInv
<1>26. CASE Tick
  <2>1. ReqTypes'
    BY <1>26, SameReqTypes DEF Tick
  <2>2. clock' \in Nat
    BY <1>26 DEF Tick, TypeInv, BaseInv, CoreOK
  <2> QED
    BY <1>26, <2>1, <2>2 DEF Tick, TypeInv, BaseInv, CoreOK, ReqTypes, FlushInv
<1>27. CASE UNCHANGED vars
  BY <1>27 DEF vars, TypeInv, BaseInv, CoreOK, ReqInv, FlushInv
<1>28. ASSUME NEW c \in Clients, LogAppendRefused(c) PROVE BaseInv'
  <2>1. ReqTypes' /\ pc[c] # "flushing" /\ \A d \in Clients \ {c} : pc'[d] = pc[d]
    BY <1>28, ReturnTypes, Zenon DEF LogAppendRefused
  <2> QED
    BY <1>28, <2>1 DEF LogAppendRefused, TypeInv, BaseInv, CoreOK, ReqTypes, FlushInv
<1>29. CASE Rotate
  <2>1. ReqTypes'
    BY <1>29, SameReqTypes, Zenon DEF Rotate
  <2>2. FlushInv'
    BY <1>29, Zenon DEF Rotate, TypeInv, FlushInv
  <2>3. CoreOK'
    BY <1>29, <2>1, Zenon DEF Rotate, TypeInv, BaseInv, CoreOK, ReqTypes
  <2> QED
    BY <2>1, <2>2, <2>3 DEF TypeInv, BaseInv, ReqTypes
<1> QED
  BY <1>1, <1>2, <1>3, <1>4, <1>5, <1>6, <1>7, <1>8, <1>9, <1>10, <1>11,
     <1>12, <1>13, <1>14, <1>15, <1>16, <1>17, <1>18, <1>19, <1>20, <1>21,
     <1>22, <1>23, <1>24, <1>25, <1>26, <1>27, <1>28, <1>29
  DEF Next, ClientStep, FlushStep, CompactionStep

\* An append adds the last line of its key, or an unreadable one; nothing else
\* changes the log.
LEMMA LastInvStep ==
  ASSUME TypeInv, [Next]_vars
  PROVE  LastInv'
<1>1. CASE UNCHANGED log
  BY <1>1 DEF TypeInv, LastInv, LinesOf
<1>2. ASSUME NEW c \in Clients, AppendLine(req[c]), NEW k \in Keys
      PROVE  LinesOf(k)' # {} => \E i \in LinesOf(k)' : \A j \in LinesOf(k)' : j <= i
  <2> DEFINE l == [key |-> req[c].key, op |-> req[c].op, ts |-> req[c].ts,
                   del |-> req[c].kind = "delete", ok |-> ~torn]
  <2>1. log' = Append(log, l) /\ log \in Seq(Line)
    BY <1>2 DEF AppendLine, TypeInv, CoreOK
  <2> HIDE DEF l
  <2>2. /\ Len(log) \in Nat /\ DOMAIN log = 1..Len(log) /\ DOMAIN log' = 1..(Len(log) + 1)
        /\ \A i \in 1..Len(log) : log'[i] = log[i]
        /\ log'[Len(log) + 1] = l
    BY <2>1
  <2>3. LinesOf(k)' = IF l.ok /\ l.key = k THEN LinesOf(k) \cup {Len(log) + 1} ELSE LinesOf(k)
    BY <2>2 DEF LinesOf
  <2>4. \A i \in LinesOf(k) : i <= Len(log) + 1
    BY <2>2 DEF LinesOf
  <2>5. CASE l.ok /\ l.key = k
    <3>1. Len(log) + 1 <= Len(log) + 1
      BY <2>2
    <3> QED
      BY <2>3, <2>4, <2>5, <3>1, Zenon
  <2>6. CASE ~(l.ok /\ l.key = k)
    BY <2>3, <2>6 DEF TypeInv, LastInv
  <2> QED
    BY <2>5, <2>6
<1>3. ASSUME NEW c \in Clients, LogAppend(c) \/ LogAppendSyncFails(c) PROVE LastInv'
  BY <1>2, <1>3 DEF LogAppend, LogAppendSyncFails, LastInv
<1>4. CASE \A c \in Clients : ~LogAppend(c) /\ ~LogAppendSyncFails(c)
  <2> USE DEF logVars
  <2>1. ASSUME NEW c \in Clients, ClientStep(c) PROVE UNCHANGED log
    BY <1>4, <2>1, Zenon DEF ClientStep, LogAppendRefused, LogAppendTorn, MemPut, WriteCache,
       RepairCache, DeleteCache, NoFlushNeeded, SubmitFlush, InlineFlush, ReadMem,
       ReadSSTables, ReadFill
  <2>2. ASSUME FlushStep PROVE UNCHANGED log
    BY <2>2 DEF FlushStep, FlushEmpty, FlushSwap, FlushWrite, FlushWriteFails, FlushClear
  <2>3. ASSUME CompactionStep PROVE UNCHANGED log
    BY <2>3, Zenon DEF CompactionStep, CheckCompaction, CompactFails, RemoveTables
  <2>4. ASSUME NEW c \in Clients, NEW k \in Keys,
               \/ \E kind \in Mutations : BeginMutation(c, k, kind)
               \/ ReadHit(c, k) \/ ReadCache(c, k)
        PROVE  UNCHANGED log
    BY <2>4, Zenon DEF BeginMutation, ReadHit, ReadCache, vars
  <2>5. ASSUME Tick \/ Rotate \/ Crash \/ UNCHANGED vars PROVE UNCHANGED log
    BY <2>5 DEF Tick, Rotate, Crash, vars
  <2> QED
    BY <1>1, <2>1, <2>2, <2>3, <2>4, <2>5 DEF Next
<1> QED
  BY <1>3, <1>4

\* The types and what requests in flight carry hold in every state.
LEMMA TypeInvCorrect == Spec => []TypeInv
<1>1. TypeInv /\ [Next]_vars => TypeInv'
  BY BaseInvStep, LastInvStep DEF BaseInv, TypeInv
<1> QED
  BY <1>1, TypeInvInit, PTL DEF Spec

------------------------------------------------------------------------------
\* A restart loses no acknowledged mutation whose line can be read, whatever
\* failed appends, failed flushes and compactions did before: Recover replays
\* the whole log, and the last line of a key wins.
THEOREM RecoveryCorrect == Spec => RecoveryKeepsAcked
<1> DEFINE Kept ==
      crashes' > crashes =>
        \A a \in acked : Logged(a.key, a.op) =>
          \E i, j \in LinesOf(a.key) :
            /\ log[i].op = a.op /\ i <= j
            /\ memTable'[a.key] = EntryOf(log[j])
<1>1. ASSUME TypeInv, Crash PROVE Kept
  <2> SUFFICES ASSUME NEW a \in acked, Logged(a.key, a.op)
               PROVE  \E i, j \in LinesOf(a.key) :
                        /\ log[i].op = a.op /\ i <= j
                        /\ memTable'[a.key] = EntryOf(log[j])
    OBVIOUS
  <2>1. PICK i \in LinesOf(a.key) : log[i].op = a.op
    BY DEF Logged
  <2>2. a.key \in Keys
    BY <1>1 DEF TypeInv, CoreOK
  <2> DEFINE j == LastOf(LinesOf(a.key))
  <2>3. j \in LinesOf(a.key) /\ i <= j
    BY <1>1, <2>1, <2>2, LastLine
  <2>4. memTable'[a.key] = EntryOf(log[j])
    BY <1>1, <2>1, <2>2, LastLine DEF Crash
  <2> QED
    BY <2>1, <2>3, <2>4
<1>2. ASSUME TypeInv, Next, ~Crash PROVE crashes' = crashes
  <2> USE DEF histVars
  <2>1. ASSUME NEW c \in Clients, ClientStep(c) PROVE crashes' = crashes
    BY <2>1, Zenon DEF ClientStep, LogAppend, LogAppendRefused, LogAppendTorn,
       LogAppendSyncFails, MemPut, WriteCache, RepairCache, DeleteCache, NoFlushNeeded, SubmitFlush,
       InlineFlush, ReadMem, ReadSSTables, ReadFill
  <2>2. CASE FlushStep
    BY <2>2 DEF FlushStep, FlushEmpty, FlushSwap, FlushWrite, FlushWriteFails,
       FlushClear
  <2>3. CASE CompactionStep
    BY <2>3, Zenon DEF CompactionStep, CheckCompaction, CompactFails, RemoveTables
  <2>4. ASSUME NEW c \in Clients, NEW k \in Keys,
               \/ \E kind \in Mutations : BeginMutation(c, k, kind)
               \/ ReadHit(c, k) \/ ReadCache(c, k)
        PROVE  crashes' = crashes
    BY <2>4, Zenon DEF BeginMutation, ReadHit, ReadCache, vars
  <2>5. CASE Tick \/ Rotate
    BY <2>5 DEF Tick, Rotate
  <2> QED
    BY <1>2, <2>1, <2>2, <2>3, <2>4, <2>5 DEF Next
<1>3. TypeInv /\ [Next]_vars => [Kept]_vars
  <2>1. ASSUME TypeInv, Next PROVE Kept
    <3>1. CASE Crash
      BY <1>1, <2>1, <3>1
    <3>2. CASE ~Crash
      <4>1. crashes' = crashes /\ crashes \in Nat
        BY <1>2, <2>1, <3>2 DEF TypeInv, CoreOK
      <4> QED
        BY <4>1
    <3> QED
      BY <3>1, <3>2
  <2> HIDE DEF Kept
  <2> QED
    BY <2>1
<1> QED
  BY <1>3, TypeInvCorrect, PTL DEF Spec, RecoveryKeepsAcked

------------------------------------------------------------------------------
\* Without the compaction service there are no compaction jobs.
LEMMA NoJobs ==
  ASSUME ~CompactionOn
  PROVE  Spec => [](compactJobs = {})
<1>1. Init => compactJobs = {}
  BY DEF Init
<1>2. compactJobs = {} /\ [Next]_vars => (compactJobs = {})'
  <2> SUFFICES ASSUME compactJobs = {}, [Next]_vars PROVE compactJobs' = {}
    OBVIOUS
  <2> USE DEF tableVars
  <2>1. ASSUME NEW c \in Clients, ClientStep(c) PROVE compactJobs' = {}
    BY <2>1, Zenon DEF ClientStep, LogAppend, LogAppendRefused, LogAppendTorn,
       LogAppendSyncFails, MemPut, WriteCache, RepairCache, DeleteCache, NoFlushNeeded, SubmitFlush,
       InlineFlush, ReadMem, ReadSSTables, ReadFill
  <2>2. CASE FlushStep
    BY <2>2 DEF FlushStep, FlushEmpty, FlushSwap, FlushWrite, FlushWriteFails,
       FlushClear
  <2>3. ~CompactionStep
    BY DEF CompactionStep, CheckCompaction
  <2>4. ASSUME NEW c \in Clients, NEW k \in Keys,
               \/ \E kind \in Mutations : BeginMutation(c, k, kind)
               \/ ReadHit(c, k) \/ ReadCache(c, k)
        PROVE  compactJobs' = {}
    BY <2>4, Zenon DEF BeginMutation, ReadHit, ReadCache, vars
  <2>5. CASE Tick \/ Rotate \/ Crash \/ UNCHANGED vars
    BY <2>5 DEF Tick, Rotate, Crash, vars
  <2> QED
    BY <2>1, <2>2, <2>3, <2>4, <2>5 DEF Next
<1> QED
  BY <1>1, <1>2, PTL DEF Spec

------------------------------------------------------------------------------
\* Where a client is whose append has succeeded, and where its mutation is in
\* flight.
Appended == {"mem", "cache", "check", "flushMu", "flushing"}
InFlight == {"append"} \cup Appended

\* The mutation a request or a line is about.
MutationOf(l) == [key |-> l.key, op |-> l.op]

\* How the requests of a step that neither begins nor appends a mutation move: a
\* mutation in flight was in flight and stays where it is or moves on after its
\* put, and what is answered is a mutation that was appended.
Moved ==
  /\ \A d \in Clients :
       pc'[d] \in InFlight =>
         /\ req'[d] = req[d]
         /\ pc'[d] # pc[d] => pc[d] \in Appended /\ pc'[d] \in Appended \ {"mem"}
  /\ \A a \in acked' :
       a \in acked \/ \E o \in Clients : pc[o] \in Appended /\ a = MutationOf(req[o])

\* A client that moves on within its handler.
LEMMA GotoMoved ==
  ASSUME TypeInv, NEW c \in Clients, NEW l, Goto(c, l), UNCHANGED acked,
         l \in InFlight => pc[c] \in Appended /\ l \in Appended \ {"mem"}
  PROVE  Moved
BY DEF Moved, Goto, TypeInv, CoreOK

\* A handler that returns, with or without an answer of success.
LEMMA ReturnMoved ==
  ASSUME TypeInv, NEW c \in Clients, Return(c),
         \/ UNCHANGED acked
         \/ Ack(c) /\ pc[c] \in Appended
  PROVE  Moved
<1>1. pc'[c] = "idle" /\ \A d \in Clients \ {c} : pc'[d] = pc[d] /\ req'[d] = req[d]
  BY DEF Return, TypeInv, CoreOK
<1>2. \A a \in acked' :
        a \in acked \/ \E o \in Clients : pc[o] \in Appended /\ a = MutationOf(req[o])
  BY DEF Ack, MutationOf
<1> QED
  BY <1>1, <1>2 DEF Moved, InFlight, Appended

\* A reader that found an entry.
LEMMA FoundMoved ==
  ASSUME TypeInv, NEW c \in Clients, NEW e, Found(c, e), UNCHANGED acked
  PROVE  Moved
<1>1. CASE e.del
  BY <1>1, ReturnMoved DEF Found
<1>2. CASE ~e.del
  <2>1. pc'[c] = "rfill" /\ \A d \in Clients \ {c} : pc'[d] = pc[d] /\ req'[d] = req[d]
    BY <1>2 DEF Found, TypeInv, CoreOK
  <2> QED
    BY <2>1 DEF Moved, InFlight, Appended
<1> QED
  BY <1>1, <1>2

\* A flush that returns to its caller.
LEMMA FlushReturnsMoved ==
  ASSUME TypeInv, NEW o \in Flushers, FlushReturns(o),
         o # Pool => pc[o] \in Appended
  PROVE  Moved
<1>1. CASE o = Pool
  BY <1>1 DEF FlushReturns, Moved
<1>2. CASE o # Pool
  BY <1>2, ReturnMoved DEF FlushReturns, Flushers
<1> QED
  BY <1>1, <1>2

\* Every other step leaves the log alone, and moves the requests so.
LEMMA OtherSteps ==
  ASSUME TypeInv, [Next]_vars,
         \A c \in Clients :
           /\ \A k \in Keys, kind \in Mutations : ~BeginMutation(c, k, kind)
           /\ ~LogAppend(c) /\ ~LogAppendTorn(c) /\ ~LogAppendSyncFails(c)
  PROVE  UNCHANGED <<log, tears>> /\ (torn' => torn) /\ Moved
<1> USE DEF logVars, histVars
<1>2. ASSUME NEW c \in Clients, NEW k \in Keys, ReadCache(c, k)
      PROVE  UNCHANGED <<log, tears, torn>> /\ Moved
  <2>1. /\ pc'[c] = "rmem" /\ UNCHANGED <<log, tears, torn, acked>>
        /\ \A d \in Clients \ {c} : pc'[d] = pc[d] /\ req'[d] = req[d]
    BY <1>2 DEF ReadCache, TypeInv, CoreOK
  <2> QED
    BY <2>1 DEF Moved, InFlight, Appended
<1>3. ASSUME NEW c \in Clients, ClientStep(c)
      PROVE  UNCHANGED <<log, tears, torn>> /\ Moved
  <2>1. CASE LogAppendRefused(c) \/ ReadFill(c)
    BY <2>1, ReturnMoved, Zenon DEF LogAppendRefused, ReadFill
  <2>2. CASE MemPut(c) \/ WriteCache(c) \/ InlineFlush(c)
    BY <2>2, GotoMoved, Zenon DEF MemPut, WriteCache, InlineFlush, InFlight, Appended
  <2>3. CASE RepairCache(c) \/ DeleteCache(c) \/ NoFlushNeeded(c) \/ SubmitFlush(c)
    BY <2>3, ReturnMoved, Zenon DEF RepairCache, DeleteCache, NoFlushNeeded, SubmitFlush, Appended
  <2>4. CASE ReadMem(c)
    <3>1. CASE Goto(c, "rsst")
      BY <2>4, <3>1, GotoMoved, Zenon DEF ReadMem, InFlight, Appended
    <3>2. CASE Found(c, MemGet(req[c].key))
      BY <2>4, <3>2, FoundMoved, Zenon DEF ReadMem
    <3> QED
      BY <2>4, <3>1, <3>2, Zenon DEF ReadMem
  <2>5. CASE ReadSSTables(c)
    <3>1. CASE Return(c)
      BY <2>5, <3>1, ReturnMoved, Zenon DEF ReadSSTables
    <3>2. ASSUME NEW t \in L0, Found(c, t.data[req[c].key]) PROVE Moved
      BY <2>5, <3>2, FoundMoved, Zenon DEF ReadSSTables
    <3> QED
      BY <2>5, <3>1, <3>2, Zenon DEF ReadSSTables
  <2> QED
    BY <1>3, <2>1, <2>2, <2>3, <2>4, <2>5 DEF ClientStep
<1>4. CASE FlushStep
  <2>1. ASSUME NEW o \in Flushers, FlushEmpty(o) PROVE UNCHANGED <<log, tears, torn>> /\ Moved
    BY <2>1, FlushReturnsMoved DEF FlushEmpty, FlushCalled, Appended
  <2>2. ASSUME NEW o \in Flushers, FlushSwap(o) PROVE UNCHANGED <<log, tears, torn>> /\ Moved
    <3>1. CASE o = Pool
      BY <2>2, <3>1 DEF FlushSwap, Moved
    <3>2. CASE o # Pool
      BY <2>2, <3>2, GotoMoved DEF FlushSwap, FlushCalled, Flushers, InFlight, Appended
    <3> QED
      BY <3>1, <3>2
  <2>3. CASE FlushWrite
    BY <2>3 DEF FlushWrite, Moved
  <2>4. CASE FlushWriteFails \/ FlushClear
    <3>1. /\ flush.owner \in Flushers /\ FlushReturns(flush.owner)
          /\ flush.owner # Pool => pc[flush.owner] \in Appended
      BY <2>4 DEF FlushWriteFails, FlushClear, TypeInv, FlushInv, Flushers, Appended
    <3>2. Moved
      BY <3>1, FlushReturnsMoved
    <3>3. UNCHANGED <<log, tears, torn>>
      BY <2>4 DEF FlushWriteFails, FlushClear
    <3> QED
      BY <3>2, <3>3
  <2> QED
    BY <1>4, <2>1, <2>2, <2>3, <2>4 DEF FlushStep
<1>5. CASE CompactionStep
  BY <1>5 DEF CompactionStep, CheckCompaction, CompactFails, RemoveTables, Moved
<1>6. CASE Rotate \/ Tick \/ UNCHANGED vars
  <2>1. UNCHANGED <<pc, req, acked, log, tears>> /\ (torn' => torn)
    BY <1>6 DEF Rotate, Tick, vars
  <2> QED
    BY <2>1, Zenon DEF Moved
<1>7. CASE Crash
  BY <1>7, Zenon DEF Crash, Moved, InFlight, Appended
<1>8. ASSUME NEW c \in Clients, NEW k \in Keys, ReadHit(c, k)
      PROVE  UNCHANGED <<log, tears>> /\ (torn' => torn) /\ Moved
  BY <1>6, <1>8 DEF ReadHit
<1> QED
  BY <1>2, <1>3, <1>4, <1>5, <1>6, <1>7, <1>8 DEF Next

------------------------------------------------------------------------------
\* What unfinished appends leave in the commit log.

\* A mutation has a line in the commit log, whether replay can read it or not.
Written(k, op) == \E i \in DOMAIN log : log[i].key = k /\ log[i].op = op

\* The mutations whose lines are glued to an unfinished one.
Glued == {MutationOf(log[i]) : i \in {j \in DOMAIN log : ~log[j].ok}}

\* A mutation is answered after its append, so that those in flight have their
\* line as well.
WrittenInv ==
  /\ \A a \in acked : Written(a.key, a.op)
  /\ \A c \in Clients : pc[c] \in Appended => Written(req[c].key, req[c].op)

\* An append puts the mutation of the client in the log, and its line is glued
\* to an unfinished one exactly if there is one.
LEMMA AppendWrites ==
  ASSUME TypeInv, NEW c \in Clients, pc[c] # "idle", AppendLine(req[c])
  PROVE  /\ \A k, op : Written(k, op) => Written(k, op)'
         /\ \A k, op : k = req[c].key /\ op = req[c].op => Written(k, op)'
         /\ Glued' = IF torn THEN Glued \cup {MutationOf(req[c])} ELSE Glued
<1> DEFINE l == [key |-> req[c].key, op |-> req[c].op, ts |-> req[c].ts,
                 del |-> req[c].kind = "delete", ok |-> ~torn]
<1>1. l.ok = ~torn /\ l.key = req[c].key /\ l.op = req[c].op
  BY Zenon
<1>2. log' = Append(log, l) /\ log \in Seq(Line) /\ l \in Line
  BY ReqFields, Zenon DEF AppendLine, TypeInv, CoreOK, Line
<1> HIDE DEF l
<1>3. /\ DOMAIN log' = 1..(Len(log) + 1) /\ DOMAIN log = 1..Len(log)
      /\ Len(log) \in Nat
      /\ log'[Len(log) + 1] = l
      /\ \A i \in 1..Len(log) : log'[i] = log[i]
  BY <1>2
<1>4. \A i : i \in DOMAIN log' <=> i \in DOMAIN log \/ i = Len(log) + 1
  BY <1>3
<1>5. /\ \A k, op : Written(k, op) => Written(k, op)'
      /\ \A k, op : k = req[c].key /\ op = req[c].op => Written(k, op)'
  BY <1>1, <1>3, <1>4, Zenon DEF Written
<1>6. \A m : m \in Glued' <=> m \in Glued \/ (torn /\ m = MutationOf(req[c]))
  <2>1. \A m : m \in Glued' <=> \E i \in DOMAIN log' : ~log'[i].ok /\ m = MutationOf(log'[i])
    BY DEF Glued, MutationOf
  <2>2. \A m : m \in Glued <=> \E i \in DOMAIN log : ~log[i].ok /\ m = MutationOf(log[i])
    BY DEF Glued
  <2>3. MutationOf(l) = MutationOf(req[c])
    BY <1>1 DEF MutationOf
  <2>4. ASSUME NEW m, m \in Glued' PROVE m \in Glued \/ (torn /\ m = MutationOf(req[c]))
    <3>1. PICK i \in DOMAIN log' : ~log'[i].ok /\ m = MutationOf(log'[i])
      BY <2>1, <2>4
    <3>2. CASE i \in DOMAIN log
      BY <1>3, <2>2, <3>1, <3>2
    <3>3. CASE i = Len(log) + 1
      BY <1>1, <1>3, <2>3, <3>1, <3>3, Zenon
    <3> QED
      BY <1>4, <3>2, <3>3
  <2>5. ASSUME NEW m, m \in Glued PROVE m \in Glued'
    <3>1. PICK i \in DOMAIN log : ~log[i].ok /\ m = MutationOf(log[i])
      BY <2>2, <2>5
    <3> QED
      BY <1>3, <1>4, <2>1, <3>1
  <2>6. torn => MutationOf(req[c]) \in Glued'
    BY <1>1, <1>3, <1>4, <2>1, <2>3, Zenon
  <2> QED
    BY <2>4, <2>5, <2>6
<1> QED
  BY <1>5, <1>6, Zenon

\* No step breaks the inductive invariant.  A step leaves the glued lines alone, and
\* the end of the log too; or it leaves an unfinished line; or it glues one to it.
LEMMA WrittenStep ==
  ASSUME TypeInv, WrittenInv, [Next]_vars
  PROVE  /\ WrittenInv'
         /\ \/ Glued' = Glued /\ tears' = tears /\ (torn' => torn)
            \/ Glued' = Glued /\ tears' = tears + 1
            \/ torn /\ ~torn' /\ tears' = tears /\ \E m : Glued' = Glued \cup {m}
<1>1. ASSUME NEW c \in Clients, LogAppend(c) \/ LogAppendSyncFails(c)
      PROVE  /\ WrittenInv' /\ tears' = tears /\ ~torn'
             /\ Glued' = IF torn THEN Glued \cup {MutationOf(req[c])} ELSE Glued
  <2>1. /\ pc[c] = "append" /\ AppendLine(req[c]) /\ UNCHANGED <<acked, tears>> /\ torn' = FALSE
        /\ \A d \in Clients \ {c} : pc'[d] = pc[d] /\ req'[d] = req[d]
        /\ pc'[c] = "idle" \/ req'[c] = req[c]
    BY <1>1 DEF LogAppend, LogAppendSyncFails, AppendLine, Goto, Return, histVars, TypeInv, CoreOK
  <2>2. /\ \A k, op : Written(k, op) => Written(k, op)'
        /\ \A k, op : k = req[c].key /\ op = req[c].op => Written(k, op)'
        /\ Glued' = IF torn THEN Glued \cup {MutationOf(req[c])} ELSE Glued
    BY <2>1, AppendWrites
  <2>3. \A a \in acked' : Written(a.key, a.op)'
    BY <2>1, <2>2, Zenon DEF WrittenInv
  <2>4. ASSUME NEW d \in Clients, pc'[d] \in Appended
        PROVE  Written(req[d].key, req[d].op)'
    <3>1. CASE d = c
      <4>1. req'[c] = req[c]
        BY <2>1, <2>4, <3>1 DEF Appended
      <4> QED
        BY <2>2, <3>1, <4>1 DEF Written
    <3>2. CASE d # c
      <4>1. pc'[d] = pc[d] /\ req'[d] = req[d]
        BY <2>1, <3>2
      <4>2. Written(req[d].key, req[d].op)
        BY <2>4, <4>1, Zenon DEF WrittenInv
      <4> QED
        BY <2>2, <4>1, <4>2 DEF Written
    <3> QED
      BY <3>1, <3>2
  <2> QED
    BY <2>1, <2>2, <2>3, <2>4, Zenon DEF WrittenInv
<1>2. ASSUME NEW c \in Clients, LogAppendTorn(c)
      PROVE  WrittenInv' /\ Glued' = Glued /\ tears' = tears + 1
  <2>1. tears' = tears + 1 /\ UNCHANGED <<log, acked>> /\ Return(c)
    BY <1>2 DEF LogAppendTorn, histVars
  <2>2. Moved
    BY <2>1, ReturnMoved
  <2>3. Glued' = Glued /\ \A k, op : Written(k, op)' <=> Written(k, op)
    BY <2>1, Zenon DEF Glued, Written, MutationOf
  <2>4. \A d \in Clients : pc'[d] \in Appended => Written(req[d].key, req[d].op)'
    BY <2>1, <2>2, <2>3 DEF WrittenInv, Moved, Written, InFlight
  <2> QED
    BY <2>1, <2>3, <2>4, Zenon DEF WrittenInv
<1>3. ASSUME NEW c \in Clients, NEW k \in Keys, NEW kind \in Mutations,
             BeginMutation(c, k, kind)
      PROVE  WrittenInv' /\ Glued' = Glued /\ tears' = tears /\ torn' = torn
  <2>1. /\ pc'[c] = "append" /\ \A d \in Clients \ {c} : pc'[d] = pc[d] /\ req'[d] = req[d]
        /\ UNCHANGED <<log, torn, tears, acked>>
    BY <1>3 DEF BeginMutation, logVars, histVars, TypeInv, CoreOK
  <2>2. Glued' = Glued /\ \A x, op : Written(x, op)' <=> Written(x, op)
    BY <2>1, Zenon DEF Glued, Written, MutationOf
  <2>3. ASSUME NEW d \in Clients, pc'[d] \in Appended
        PROVE  Written(req[d].key, req[d].op)'
    <3>1. pc'[d] = pc[d] /\ req'[d] = req[d]
      BY <2>1, <2>3 DEF Appended
    <3>2. Written(req[d].key, req[d].op)
      BY <2>3, <3>1, Zenon DEF WrittenInv
    <3> QED
      BY <2>2, <3>1, <3>2 DEF Written
  <2> QED
    BY <2>1, <2>2, <2>3, Zenon DEF WrittenInv
<1>4. CASE \A c \in Clients :
             /\ \A k \in Keys, kind \in Mutations : ~BeginMutation(c, k, kind)
             /\ ~LogAppend(c) /\ ~LogAppendTorn(c) /\ ~LogAppendSyncFails(c)
  <2>1. UNCHANGED <<log, tears>> /\ (torn' => torn) /\ Moved
    BY <1>4, OtherSteps
  <2>2. Glued' = Glued /\ \A k, op : Written(k, op)' <=> Written(k, op)
    BY <2>1, Zenon DEF Glued, Written, MutationOf
  <2>3. \A a \in acked' : Written(a.key, a.op)'
    BY <2>1, <2>2 DEF WrittenInv, Moved, MutationOf
  <2>4. \A d \in Clients : pc'[d] \in Appended => Written(req[d].key, req[d].op)'
    BY <2>1, <2>2 DEF WrittenInv, Moved, Written, InFlight
  <2> QED
    BY <2>1, <2>2, <2>3, <2>4, Zenon DEF WrittenInv
<1> QED
  BY <1>1, <1>2, <1>3, <1>4, Zenon

\* The initial state satisfies the inductive invariant.
LEMMA WrittenInit == Init => WrittenInv /\ Glued = {} /\ torn = FALSE /\ tears = 0
<1> SUFFICES ASSUME Init PROVE WrittenInv /\ Glued = {} /\ torn = FALSE /\ tears = 0
  OBVIOUS
<1>1. /\ log = <<>> /\ acked = {} /\ pc = [c \in Clients |-> "idle"]
      /\ torn = FALSE /\ tears = 0
  BY DEF Init
<1> QED
  BY <1>1 DEF WrittenInv, Glued, Appended

\* An acknowledged mutation that replay does not find is a glued one.
LEMMA LostIsGlued ==
  ASSUME TypeInv, WrittenInv, NEW a \in acked, ~Logged(a.key, a.op)
  PROVE  a \in Glued
<1>1. a = [key |-> a.key, op |-> a.op]
  BY DEF TypeInv, CoreOK
<1>2. PICK i \in DOMAIN log : log[i].key = a.key /\ log[i].op = a.op
  BY DEF WrittenInv, Written
<1>3. ~log[i].ok
  BY <1>2 DEF Logged, LinesOf
<1>4. MutationOf(log[i]) = a
  BY <1>1, <1>2 DEF MutationOf
<1> QED
  BY <1>3, <1>4 DEF Glued

------------------------------------------------------------------------------
\* Only a put, the swap of a flush and a restart change the memtable's size.
LEMMA SizeStep ==
  ASSUME [Next]_vars
  PROVE  memSize' \in {memSize, memSize + 1, 0, Cardinality({i \in DOMAIN log : log[i].ok})}
<1> USE DEF memVars
<1>1. ASSUME NEW c \in Clients, ClientStep(c) PROVE memSize' \in {memSize, memSize + 1}
  BY <1>1, Zenon DEF ClientStep, LogAppend, LogAppendRefused, LogAppendTorn,
     LogAppendSyncFails, MemPut, WriteCache, RepairCache, DeleteCache, NoFlushNeeded, SubmitFlush,
     InlineFlush, ReadMem, ReadSSTables, ReadFill
<1>2. ASSUME FlushStep PROVE memSize' \in {memSize, 0}
  BY <1>2, Zenon DEF FlushStep, FlushEmpty, FlushSwap, FlushWrite, FlushWriteFails, FlushClear
<1>3. ASSUME CompactionStep \/ Tick \/ Rotate \/ UNCHANGED vars PROVE memSize' = memSize
  BY <1>3, Zenon DEF CompactionStep, CheckCompaction, CompactFails, RemoveTables, Tick, Rotate,
     vars
<1>4. ASSUME NEW c \in Clients, NEW k \in Keys,
             \/ \E kind \in Mutations : BeginMutation(c, k, kind)
             \/ ReadHit(c, k) \/ ReadCache(c, k)
      PROVE  memSize' = memSize
  BY <1>4, Zenon DEF BeginMutation, ReadHit, ReadCache, vars
<1>5. CASE Crash
  BY <1>5, Zenon DEF Crash
<1> QED
  BY <1>1, <1>2, <1>3, <1>4, <1>5 DEF Next

------------------------------------------------------------------------------
\* WriteAhead is not inductive: a mutation that has passed Append, and an entry
\* a reader has looked up and is about to cache, are logged as well, and the
\* current segment ends in a complete line.
InFlightLogged ==
  \A c \in Clients :
    /\ pc[c] \in {"mem", "cache", "check", "flushMu", "flushing"} =>
         Logged(req[c].key, req[c].op)
    /\ pc[c] = "rfill" => Logged(req[c].key, req[c].found.op)
WriteAheadInv == WriteAhead /\ InFlightLogged /\ ~torn

\* No step makes a logged mutation unreadable.
LogKept == \A k \in Keys, op \in Nat : Logged(k, op) => Logged(k, op)'

\* A step that leaves the log alone keeps what is logged.
LEMMA SameLog == ASSUME UNCHANGED log PROVE LogKept
BY DEF LogKept, Logged, LinesOf

\* Append keeps the lines there were and, after a complete line, adds one that
\* replay reads.
LEMMA AppendLogs ==
  ASSUME TypeInv, NEW c \in Clients, pc[c] # "idle", AppendLine(req[c]), ~torn
  PROVE  /\ LogKept /\ ~torn'
         /\ \A k \in Keys, op \in Nat :
              k = req[c].key /\ op = req[c].op => Logged(k, op)'
<1> DEFINE l == [key |-> req[c].key, op |-> req[c].op, ts |-> req[c].ts,
                 del |-> req[c].kind = "delete", ok |-> ~torn]
<1>1. l.ok /\ l.key = req[c].key /\ l.op = req[c].op
  BY Zenon
<1>2. log' = Append(log, l) /\ log \in Seq(Line) /\ l \in Line
  BY ReqFields DEF AppendLine, TypeInv, CoreOK, Line
<1> HIDE DEF l
<1>3. /\ DOMAIN log' = 1..(Len(log) + 1) /\ DOMAIN log = 1..Len(log)
      /\ Len(log) \in Nat
      /\ log'[Len(log) + 1] = l
      /\ \A i \in 1..Len(log) : log'[i] = log[i]
  BY <1>2
<1>4. LogKept
  BY <1>3 DEF LogKept, Logged, LinesOf
<1>5. ~torn'
  BY DEF AppendLine
<1>6. ASSUME NEW k \in Keys, NEW op \in Nat, k = req[c].key, op = req[c].op
      PROVE  Logged(k, op)'
  BY <1>1, <1>3, <1>6 DEF Logged, LinesOf
<1> QED
  BY <1>4, <1>5, <1>6

------------------------------------------------------------------------------
\* WriteAhead, one place at a time.
StoreLogged ==
  \A k \in Keys :
    /\ memTable[k] # None => Logged(k, memTable[k].op)
    /\ immutableMT[k] # None => Logged(k, immutableMT[k].op)
    /\ \A t \in L0 : t.data[k] # None => Logged(k, t.data[k].op)
CacheLogged == \A k \in Keys : cache[k] # None => Logged(k, cache[k])
AckedLogged == \A a \in acked : Logged(a.key, a.op)

\* The three places together are WriteAhead.
LEMMA Places == WriteAhead <=> StoreLogged /\ CacheLogged /\ AckedLogged
BY DEF WriteAhead, StoreLogged, CacheLogged, AckedLogged

\* The operation numbers in the tables are numbers.
LEMMA EntryOps ==
  ASSUME TypeInv, NEW k \in Keys
  PROVE  /\ memTable[k] # None => memTable[k].op \in Nat
         /\ immutableMT[k] # None => immutableMT[k].op \in Nat
         /\ \A t \in L0 : t.data[k] # None => t.data[k].op \in Nat
         /\ cache[k] # None => cache[k] \in Nat
BY DEF TypeInv, CoreOK, MemTables, MaybeEntry, Entry

\* What a step leaves alone stays logged.
LEMMA SameStore ==
  ASSUME TypeInv, LogKept, StoreLogged, UNCHANGED <<memTable, immutableMT, L0>>
  PROVE  StoreLogged'
BY EntryOps DEF LogKept, StoreLogged

\* A step that leaves the cache alone.
LEMMA SameCache ==
  ASSUME TypeInv, LogKept, CacheLogged, UNCHANGED cache
  PROVE  CacheLogged'
BY EntryOps DEF LogKept, CacheLogged

\* A step that answers nobody.
LEMMA SameAcked ==
  ASSUME TypeInv, LogKept, AckedLogged, UNCHANGED acked
  PROVE  AckedLogged'
BY DEF TypeInv, CoreOK, LogKept, AckedLogged

\* Putting a logged mutation in the cache, whatever it evicts.
LEMMA CachePutLogged ==
  ASSUME TypeInv, LogKept, CacheLogged, NEW k \in Keys, NEW op \in Nat,
         Logged(k, op), CachePut(k, op)
  PROVE  CacheLogged'
BY EntryOps DEF LogKept, CacheLogged, CachePut

\* Answering success for a logged mutation.
LEMMA AckLogged ==
  ASSUME TypeInv, LogKept, AckedLogged, NEW c \in Clients, pc[c] # "idle",
         Logged(req[c].key, req[c].op), Ack(c)
  PROVE  AckedLogged'
<1>1. req[c].key \in Keys /\ req[c].op \in Nat
  BY ReqFields
<1> QED
  BY <1>1 DEF TypeInv, CoreOK, LogKept, AckedLogged, Ack

\* The requests in flight, under the ways a step moves a client.
LEMMA SameReqLogged ==
  ASSUME TypeInv, LogKept, InFlightLogged, UNCHANGED <<pc, req>>
  PROVE  InFlightLogged'
<1>1. \A d \in Clients : /\ req[d].op \in Nat
                         /\ pc[d] # "idle" => req[d].key \in Keys
                         /\ pc[d] = "rfill" => req[d].found.op \in Nat
  BY ReqFields DEF Entry
<1> QED
  BY <1>1 DEF LogKept, InFlightLogged

\* A mutation that moves on after its append.
LEMMA GotoLogged ==
  ASSUME TypeInv, LogKept, InFlightLogged, NEW c \in Clients, pc[c] # "idle",
         NEW l \in PCs \ {"rfill"}, Goto(c, l), Logged(req[c].key, req[c].op)'
  PROVE  InFlightLogged'
<1>1. \A d \in Clients : /\ req[d].op \in Nat
                         /\ pc[d] # "idle" => req[d].key \in Keys
                         /\ pc[d] = "rfill" => req[d].found.op \in Nat
  BY ReqFields DEF Entry
<1>2. req' = req /\ pc'[c] = l /\ \A d \in Clients \ {c} : pc'[d] = pc[d]
  BY DEF Goto, TypeInv, CoreOK
<1> QED
  BY <1>1, <1>2 DEF LogKept, InFlightLogged

\* A client that starts a request, or that goes on reading.
LEMMA OtherLogged ==
  ASSUME TypeInv, LogKept, InFlightLogged, NEW c \in Clients,
         pc'[c] \in {"idle", "append", "rmem", "rsst"},
         \A d \in Clients \ {c} : pc'[d] = pc[d] /\ req'[d] = req[d]
  PROVE  InFlightLogged'
<1>1. \A d \in Clients : /\ req[d].op \in Nat
                         /\ pc[d] # "idle" => req[d].key \in Keys
                         /\ pc[d] = "rfill" => req[d].found.op \in Nat
  BY ReqFields DEF Entry
<1> QED
  BY <1>1 DEF LogKept, InFlightLogged

\* A request that ends.
LEMMA ReturnLogged ==
  ASSUME TypeInv, LogKept, InFlightLogged, NEW c \in Clients, Return(c)
  PROVE  InFlightLogged'
<1>1. /\ pc'[c] = "idle"
      /\ \A d \in Clients \ {c} : pc'[d] = pc[d] /\ req'[d] = req[d]
  BY DEF Return, TypeInv, CoreOK
<1> QED
  BY <1>1, OtherLogged

\* A reader that found a logged entry.
LEMMA FoundLogged ==
  ASSUME TypeInv, UNCHANGED log, InFlightLogged, NEW c \in Clients,
         pc[c] # "idle", NEW e \in Entry, Logged(req[c].key, e.op), Found(c, e)
  PROVE  InFlightLogged'
<1>1. CASE e.del
  BY <1>1, ReturnLogged, SameLog DEF Found
<1>2. CASE ~e.del
  <2>1. /\ pc'[c] = "rfill" /\ req'[c].key = req[c].key /\ req'[c].found = e
        /\ \A d \in Clients \ {c} : pc'[d] = pc[d] /\ req'[d] = req[d]
    BY <1>2 DEF Found, TypeInv, CoreOK, Request
  <2>2. \A d \in Clients : /\ req[d].op \in Nat /\ e.op \in Nat
                           /\ pc[d] # "idle" => req[d].key \in Keys
                           /\ pc[d] = "rfill" => req[d].found.op \in Nat
    BY ReqFields DEF Entry
  <2> QED
    BY <2>1, <2>2, SameLog DEF LogKept, InFlightLogged
<1> QED
  BY <1>1, <1>2

\* A flush that returns to the writer that ran it inline answers success.
LEMMA FlushReturnsLogged ==
  ASSUME TypeInv, UNCHANGED log, InFlightLogged, AckedLogged,
         NEW o \in Flushers, o # Pool => pc[o] \in {"flushMu", "flushing"},
         FlushReturns(o)
  PROVE  InFlightLogged' /\ AckedLogged'
<1>1. CASE o = Pool
  BY <1>1, SameLog, SameReqLogged, SameAcked DEF FlushReturns
<1>2. CASE o # Pool
  <2>1. o \in Clients /\ Ack(o) /\ Return(o) /\ pc[o] # "idle"
    BY <1>2 DEF FlushReturns, Flushers
  <2>2. Logged(req[o].key, req[o].op)
    BY <1>2, <2>1 DEF InFlightLogged
  <2> QED
    BY <2>1, <2>2, SameLog, ReturnLogged, AckLogged
<1> QED
  BY <1>1, <1>2

\* No step breaks the inductive invariant, when no append stops half way.
LEMMA WriteAheadStep ==
  ASSUME "torn" \notin LogFaults, TypeInv, WriteAheadInv, [Next]_vars
  PROVE  WriteAheadInv'
<1> USE DEF logVars, memVars, tableVars, flushVars, histVars, timeVars
<1>a. /\ StoreLogged /\ CacheLogged /\ AckedLogged
      /\ InFlightLogged /\ ~torn
  BY Places DEF WriteAheadInv
<1>b. (StoreLogged /\ CacheLogged /\ AckedLogged)' <=> WriteAhead'
  BY Places DEF WriteAhead, StoreLogged, CacheLogged, AckedLogged
<1>c. ASSUME UNCHANGED <<log, torn, memTable, immutableMT, L0>>
      PROVE  LogKept /\ StoreLogged' /\ ~torn'
  BY <1>a, <1>c, SameLog, SameStore
<1>1. ASSUME NEW c \in Clients, NEW k \in Keys, NEW kind \in Mutations,
             BeginMutation(c, k, kind)
      PROVE  WriteAheadInv'
  <2>1. /\ pc'[c] = "append"
        /\ \A d \in Clients \ {c} : pc'[d] = pc[d] /\ req'[d] = req[d]
    BY <1>1 DEF BeginMutation, TypeInv, CoreOK
  <2>2. UNCHANGED <<log, torn, memTable, immutableMT, L0, cache, acked>>
    BY <1>1 DEF BeginMutation
  <2> QED
    BY <1>a, <1>b, <1>c, <2>1, <2>2, OtherLogged, SameCache, SameAcked
       DEF WriteAheadInv
<1>2. ASSUME NEW c \in Clients, NEW k \in Keys, ReadCache(c, k)
      PROVE  WriteAheadInv'
  <2>1. /\ pc'[c] = "rmem"
        /\ \A d \in Clients \ {c} : pc'[d] = pc[d] /\ req'[d] = req[d]
    BY <1>2 DEF ReadCache, TypeInv, CoreOK
  <2>2. UNCHANGED <<log, torn, memTable, immutableMT, L0, cache, acked>>
    BY <1>2 DEF ReadCache
  <2> QED
    BY <1>a, <1>b, <1>c, <2>1, <2>2, OtherLogged, SameCache, SameAcked
       DEF WriteAheadInv
<1>3. ASSUME NEW c \in Clients, LogAppend(c) \/ LogAppendSyncFails(c)
      PROVE  WriteAheadInv'
  <2>1. /\ pc[c] = "append" /\ AppendLine(req[c])
        /\ UNCHANGED <<memTable, immutableMT, L0, cache, acked>>
    BY <1>3 DEF LogAppend, LogAppendSyncFails
  <2>2. /\ LogKept /\ ~torn'
        /\ \A k \in Keys, op \in Nat :
             k = req[c].key /\ op = req[c].op => Logged(k, op)'
    BY <1>a, <2>1, AppendLogs
  <2>3. CASE LogAppend(c)
    <3>1. Goto(c, "mem") /\ "mem" \in PCs \ {"rfill"} /\ req' = req
      BY <2>3 DEF LogAppend, Goto, PCs
    <3>2. req[c].key \in Keys /\ req[c].op \in Nat
      BY <2>1, ReqFields
    <3>3. Logged(req[c].key, req[c].op)'
      BY <2>2, <3>1, <3>2 DEF Logged, LinesOf
    <3> QED
      BY <1>a, <1>b, <2>1, <2>2, <3>1, <3>3, GotoLogged, SameStore, SameCache,
         SameAcked DEF WriteAheadInv
  <2>4. CASE LogAppendSyncFails(c)
    <3>1. Return(c)
      BY <2>4 DEF LogAppendSyncFails
    <3> QED
      BY Zenon, <1>a, <1>b, <2>1, <2>2, <3>1, ReturnLogged, SameStore, SameCache,
         SameAcked DEF WriteAheadInv
  <2> QED
    BY <1>3, <2>3, <2>4
<1>4. ASSUME NEW c \in Clients PROVE ~LogAppendTorn(c)
  BY DEF LogAppendTorn
<1>4r. ASSUME NEW c \in Clients, LogAppendRefused(c)
       PROVE  WriteAheadInv'
  <2>1. /\ Return(c)
        /\ UNCHANGED <<log, torn, memTable, immutableMT, L0, cache, acked>>
    BY <1>4r DEF LogAppendRefused
  <2> QED
    BY <1>a, <1>b, <1>c, <2>1, ReturnLogged, SameCache, SameAcked
       DEF WriteAheadInv
<1>4t. ~Rotate
  BY <1>a DEF Rotate
<1>5. ASSUME NEW c \in Clients, MemPut(c)
      PROVE  WriteAheadInv'
  <2>1. /\ pc[c] = "mem" /\ Goto(c, "cache") /\ "cache" \in PCs \ {"rfill"}
        /\ UNCHANGED <<log, torn, immutableMT, L0, cache, acked>>
        /\ memTable' = [memTable EXCEPT ![req[c].key] = ReqEntry(req[c])]
    BY <1>5 DEF MemPut, PCs
  <2>2. /\ req[c].key \in Keys /\ req[c].op \in Nat
        /\ Logged(req[c].key, req[c].op) /\ LogKept
        /\ ReqEntry(req[c]).op = req[c].op
    BY <1>a, <2>1, ReqFields, SameLog DEF InFlightLogged, ReqEntry
  <2>3. /\ memTable'[req[c].key] = ReqEntry(req[c])
        /\ \A k \in Keys \ {req[c].key} : memTable'[k] = memTable[k]
    BY <2>1, <2>2 DEF TypeInv, CoreOK, MemTables
  <2>4. StoreLogged'
    BY <1>a, <2>1, <2>2, <2>3, EntryOps DEF StoreLogged, LogKept
  <2>5. Logged(req[c].key, req[c].op)'
    BY <2>1, <2>2 DEF Logged, LinesOf, Goto
  <2> QED
    BY <1>a, <1>b, <2>1, <2>2, <2>4, <2>5, GotoLogged, SameCache, SameAcked
       DEF WriteAheadInv
<1>6. ASSUME NEW c \in Clients,
             WriteCache(c) \/ RepairCache(c) \/ DeleteCache(c)
      PROVE  WriteAheadInv'
  <2>1. /\ pc[c] = "cache"
        /\ UNCHANGED <<log, torn, memTable, immutableMT, L0>>
    BY <1>6 DEF WriteCache, RepairCache, DeleteCache
  <2>2. /\ req[c].key \in Keys /\ req[c].op \in Nat
        /\ Logged(req[c].key, req[c].op) /\ LogKept
    BY <1>a, <2>1, ReqFields, SameLog, Zenon DEF InFlightLogged
  <2>3. CacheLogged'
    <3>1. CASE CachePut(req[c].key, req[c].op)
      BY <1>a, <2>2, <3>1, CachePutLogged
    <3>2. CASE cache' = [cache EXCEPT ![req[c].key] = None]
      BY <1>a, <2>2, <3>2, EntryOps, Zenon DEF CacheLogged, LogKept, TypeInv, CoreOK
    <3> QED
      BY <1>6, <3>1, <3>2, Zenon DEF WriteCache, RepairCache, DeleteCache
  <2>4. CASE WriteCache(c)
    <3>1. Goto(c, "check") /\ "check" \in PCs \ {"rfill"} /\ UNCHANGED acked
      BY <2>4, Zenon DEF WriteCache, PCs
    <3>2. Logged(req[c].key, req[c].op)'
      BY <2>1, <2>2, <3>1 DEF Logged, LinesOf, Goto
    <3> QED
      BY <1>a, <1>b, <1>c, <2>1, <2>3, <3>1, <3>2, GotoLogged, SameAcked, Zenon
         DEF WriteAheadInv
  <2>5. CASE RepairCache(c) \/ DeleteCache(c)
    <3>1. Ack(c) /\ Return(c)
      BY <2>5 DEF RepairCache, DeleteCache
    <3> QED
      BY <1>a, <1>b, <1>c, <2>1, <2>2, <2>3, <3>1, ReturnLogged, AckLogged
         DEF WriteAheadInv
  <2> QED
    BY <1>6, <2>4, <2>5
<1>7. ASSUME NEW c \in Clients, NoFlushNeeded(c) \/ SubmitFlush(c)
      PROVE  WriteAheadInv'
  <2>1. /\ pc[c] = "check" /\ Ack(c) /\ Return(c)
        /\ UNCHANGED <<log, torn, memTable, immutableMT, L0, cache>>
    BY <1>7 DEF NoFlushNeeded, SubmitFlush
  <2>2. Logged(req[c].key, req[c].op)
    BY <1>a, <2>1 DEF InFlightLogged
  <2> QED
    BY <1>a, <1>b, <1>c, <2>1, <2>2, ReturnLogged, AckLogged, SameCache
       DEF WriteAheadInv
<1>8. ASSUME NEW c \in Clients, InlineFlush(c)
      PROVE  WriteAheadInv'
  <2>1. /\ pc[c] = "check" /\ Goto(c, "flushMu") /\ "flushMu" \in PCs \ {"rfill"}
        /\ UNCHANGED <<log, torn, memTable, immutableMT, L0, cache, acked>>
    BY <1>8 DEF InlineFlush, PCs
  <2>2. Logged(req[c].key, req[c].op)'
    BY <1>a, <2>1, Zenon DEF InFlightLogged, Logged, LinesOf, Goto
  <2> QED
    BY <1>a, <1>b, <1>c, <2>1, <2>2, GotoLogged, SameCache, SameAcked
       DEF WriteAheadInv
<1>9. ASSUME NEW c \in Clients, ReadMem(c)
      PROVE  WriteAheadInv'
  <2>1. /\ pc[c] = "rmem"
        /\ UNCHANGED <<log, torn, memTable, immutableMT, L0, cache, acked>>
        /\ IF MemGet(req[c].key) = None THEN Goto(c, "rsst")
           ELSE Found(c, MemGet(req[c].key))
    BY <1>9, Zenon DEF ReadMem
  <2>2. InFlightLogged'
    <3>1. CASE Goto(c, "rsst")
      <4>1. /\ pc'[c] = "rsst"
            /\ \A d \in Clients \ {c} : pc'[d] = pc[d] /\ req'[d] = req[d]
        BY <3>1 DEF Goto, TypeInv, CoreOK
      <4> QED
        BY <1>a, <1>c, <2>1, <4>1, OtherLogged, Zenon
    <3>2. CASE /\ MemGet(req[c].key) # None
               /\ Found(c, MemGet(req[c].key))
      <4>1. req[c].key \in Keys
        BY <2>1, ReqFields, Zenon
      <4>2. MemGet(req[c].key) \in Entry
        BY <3>2, <4>1 DEF MemGet, TypeInv, CoreOK, MemTables, MaybeEntry
      <4>3. Logged(req[c].key, MemGet(req[c].key).op)
        BY <1>a, <3>2, <4>1 DEF MemGet, StoreLogged
      <4> QED
        BY <1>a, <2>1, <3>2, <4>2, <4>3, FoundLogged, Zenon
    <3> QED
      BY <2>1, <3>1, <3>2, Zenon
  <2> QED
    BY <1>a, <1>b, <1>c, <2>1, <2>2, SameCache, SameAcked, Zenon DEF WriteAheadInv
<1>10. ASSUME NEW c \in Clients, ReadSSTables(c)
       PROVE  WriteAheadInv'
  <2>1. /\ pc[c] = "rsst"
        /\ UNCHANGED <<log, torn, memTable, immutableMT, L0, cache, acked>>
        /\ \/ Return(c)
           \/ \E t \in L0 : /\ IsLatest(t, req[c].key)
                            /\ Found(c, t.data[req[c].key])
    BY <1>10, Zenon DEF ReadSSTables
  <2>2. InFlightLogged'
    <3>1. CASE Return(c)
      BY <1>a, <1>c, <2>1, <3>1, ReturnLogged
    <3>2. ASSUME NEW t \in L0, IsLatest(t, req[c].key),
                 Found(c, t.data[req[c].key])
          PROVE  InFlightLogged'
      <4>1. req[c].key \in Keys /\ t.data[req[c].key] # None
        BY <2>1, <3>2, ReqFields DEF IsLatest
      <4>2. t.data[req[c].key] \in Entry
        BY <4>1 DEF TypeInv, CoreOK, MemTables, MaybeEntry
      <4>3. Logged(req[c].key, t.data[req[c].key].op)
        BY <1>a, <4>1 DEF StoreLogged
      <4> QED
        BY <1>a, <2>1, <3>2, <4>2, <4>3, FoundLogged
    <3> QED
      BY <2>1, <3>1, <3>2
  <2> QED
    BY <1>a, <1>b, <1>c, <2>1, <2>2, SameCache, SameAcked DEF WriteAheadInv
<1>11. ASSUME NEW c \in Clients, ReadFill(c)
       PROVE  WriteAheadInv'
  <2>1. /\ pc[c] = "rfill" /\ Return(c)
        /\ CachePut(req[c].key, req[c].found.op)
        /\ UNCHANGED <<log, torn, memTable, immutableMT, L0, acked>>
    BY <1>11, Zenon DEF ReadFill
  <2>2. /\ req[c].key \in Keys /\ req[c].found.op \in Nat
        /\ Logged(req[c].key, req[c].found.op) /\ LogKept
    BY <1>a, <2>1, ReqFields, SameLog, Zenon DEF InFlightLogged, Entry
  <2>3. CacheLogged'
    BY <1>a, <2>1, <2>2, CachePutLogged
  <2> QED
    BY <1>a, <1>b, <1>c, <2>1, <2>2, <2>3, ReturnLogged, SameAcked
       DEF WriteAheadInv
<1>12. ASSUME NEW o \in Flushers, FlushEmpty(o)
       PROVE  WriteAheadInv'
  <2>1. /\ FlushReturns(o)
        /\ o # Pool => pc[o] \in {"flushMu", "flushing"}
        /\ UNCHANGED <<log, torn, memTable, immutableMT, L0, cache>>
    BY <1>12 DEF FlushEmpty, FlushCalled
  <2>2. InFlightLogged' /\ AckedLogged'
    BY <1>a, <2>1, FlushReturnsLogged
  <2> QED
    BY <1>a, <1>b, <1>c, <2>1, <2>2, SameCache DEF WriteAheadInv
<1>13. ASSUME NEW o \in Flushers, FlushSwap(o)
       PROVE  WriteAheadInv'
  <2>1. /\ o # Pool => pc[o] = "flushMu" /\ Goto(o, "flushing")
        /\ o = Pool => UNCHANGED <<pc, req>>
        /\ immutableMT' = memTable /\ memTable' = NoEntries
        /\ UNCHANGED <<log, torn, L0, cache, acked>>
    BY <1>13 DEF FlushSwap, FlushCalled
  <2>2. LogKept
    BY <2>1, SameLog
  <2>3. StoreLogged'
    BY <1>a, <2>1, <2>2, EntryOps DEF StoreLogged, LogKept, NoEntries
  <2>4. InFlightLogged'
    <3>1. CASE o = Pool
      BY <1>a, <2>1, <2>2, <3>1, SameReqLogged
    <3>2. CASE o # Pool
      <4>1. o \in Clients /\ "flushing" \in PCs \ {"rfill"}
        BY <3>2 DEF Flushers, PCs
      <4>2. Logged(req[o].key, req[o].op)'
        <5>1. Logged(req[o].key, req[o].op)
          BY <1>a, <2>1, <3>2, <4>1 DEF InFlightLogged
        <5>2. req' = req /\ log' = log
          BY <2>1, <3>2 DEF Goto
        <5> QED
          BY <5>1, <5>2 DEF Logged, LinesOf
      <4> QED
        BY <1>a, <2>1, <2>2, <3>2, <4>1, <4>2, GotoLogged, Zenon
    <3> QED
      BY <3>1, <3>2
  <2> QED
    BY <1>a, <1>b, <2>1, <2>2, <2>3, <2>4, SameCache, SameAcked
       DEF WriteAheadInv
<1>14. CASE FlushWrite
  <2>1. /\ L0' = L0 \cup {[id |-> tables + 1, data |-> immutableMT]}
        /\ UNCHANGED <<log, torn, memTable, immutableMT, cache, pc, req, acked>>
    BY <1>14 DEF FlushWrite
  <2>2. LogKept
    BY <2>1, SameLog
  <2>3. StoreLogged'
    <3>1. \A t \in L0' : t \in L0 \/ t.data = immutableMT
      BY <2>1
    <3> QED
      BY <1>a, <2>1, <2>2, <3>1, EntryOps DEF StoreLogged, LogKept
  <2> QED
    BY <1>a, <1>b, <2>1, <2>2, <2>3, SameReqLogged, SameCache, SameAcked
       DEF WriteAheadInv
<1>15. CASE FlushWriteFails \/ FlushClear
  <2>1. /\ flush.at # "free" /\ FlushReturns(flush.owner)
        /\ UNCHANGED <<log, torn, memTable, L0, cache>>
        /\ immutableMT' \in {immutableMT, NoEntries}
    BY <1>15 DEF FlushWriteFails, FlushClear
  <2>2. /\ flush.owner \in Flushers
        /\ flush.owner # Pool => pc[flush.owner] \in {"flushMu", "flushing"}
    BY <2>1 DEF TypeInv, FlushInv, Flushers
  <2>3. LogKept
    BY <2>1, SameLog
  <2>4. InFlightLogged' /\ AckedLogged'
    BY <1>a, <2>1, <2>2, FlushReturnsLogged
  <2>5. StoreLogged'
    BY <1>a, <2>1, <2>3, EntryOps DEF StoreLogged, LogKept, NoEntries
  <2> QED
    BY <1>a, <1>b, <2>1, <2>3, <2>4, <2>5, SameCache DEF WriteAheadInv
<1>16. CASE CompactionStep
  <2>1. /\ L0' \subseteq L0
        /\ UNCHANGED <<log, torn, memTable, immutableMT, cache, pc, req, acked>>
    BY <1>16 DEF CompactionStep, CheckCompaction, CompactFails, RemoveTables
  <2>2. LogKept
    BY <2>1, SameLog
  <2>3. StoreLogged'
    BY <1>a, <2>1, <2>2, EntryOps, Zenon DEF StoreLogged, LogKept
  <2> QED
    BY <1>a, <1>b, <2>1, <2>2, <2>3, SameReqLogged, SameCache, SameAcked
       DEF WriteAheadInv
<1>17. CASE Crash
  <2>1. /\ memTable' = Recovered /\ immutableMT' = NoEntries /\ L0' = {}
        /\ cache' = NoEntries /\ torn' = FALSE
        /\ pc' = [c \in Clients |-> "idle"]
        /\ UNCHANGED <<log, acked>>
    BY <1>17 DEF Crash
  <2>2. LogKept
    BY <2>1, SameLog
  <2>3. ASSUME NEW k \in Keys, Recovered[k] # None
        PROVE  Recovered[k].op \in Nat /\ Logged(k, Recovered[k].op)
    <3>1. LinesOf(k) # {}
      BY <2>3 DEF Recovered
    <3>3. /\ LastOf(LinesOf(k)) \in LinesOf(k) /\ log[LastOf(LinesOf(k))] \in Line
          /\ Recovered[k] = EntryOf(log[LastOf(LinesOf(k))])
      BY <3>1, LastLine
    <3>4. Recovered[k].op = log[LastOf(LinesOf(k))].op
      BY <3>3 DEF EntryOf
    <3> QED
      BY <3>3, <3>4 DEF Logged, Line
  <2>4. StoreLogged'
    BY <2>1, <2>2, <2>3 DEF StoreLogged, LogKept, NoEntries
  <2>5. CacheLogged' /\ InFlightLogged'
    BY <2>1 DEF CacheLogged, InFlightLogged, NoEntries
  <2> QED
    BY <1>a, <1>b, <2>1, <2>2, <2>4, <2>5, SameAcked DEF WriteAheadInv
<1>18. CASE Tick \/ UNCHANGED vars
  <2>1. UNCHANGED <<log, torn, memTable, immutableMT, L0, cache, pc, req, acked>>
    BY <1>18 DEF Tick, vars
  <2> QED
    BY <1>a, <1>b, <1>c, <2>1, SameReqLogged, SameCache, SameAcked
       DEF WriteAheadInv
<1>19. ASSUME NEW c \in Clients, NEW k \in Keys, ReadHit(c, k)
       PROVE  WriteAheadInv'
  BY <1>18, <1>19 DEF ReadHit
<1>20. ASSUME NEW c \in Clients, ClientStep(c) PROVE WriteAheadInv'
  BY <1>3, <1>4, <1>4r, <1>5, <1>6, <1>7, <1>8, <1>9, <1>10, <1>11, <1>20
     DEF ClientStep
<1>21. CASE FlushStep
  BY <1>12, <1>13, <1>14, <1>15, <1>21 DEF FlushStep
<1> QED
  BY <1>1, <1>2, <1>4t, <1>16, <1>17, <1>18, <1>19, <1>20, <1>21 DEF Next

\* The initial state satisfies the inductive invariant.
LEMMA WriteAheadInit == Init => WriteAheadInv
BY DEF Init, WriteAheadInv, WriteAhead, InFlightLogged, NoEntries

\* The inductive invariant holds in every reachable state.
LEMMA WriteAheadInvCorrect ==
  ASSUME "torn" \notin LogFaults
  PROVE  Spec => []WriteAheadInv
BY WriteAheadInit, WriteAheadStep, TypeInvCorrect, PTL DEF Spec

\* As long as no append stops half way, everything a read can be served from
\* and every acknowledged mutation is a readable line of the commit log,
\* whatever syncs and flushes fail, tables are compacted away and restarts
\* happen: Write, Delete and Repair append before they touch the memtable.
THEOREM WriteAheadCorrect ==
  ASSUME "torn" \notin LogFaults
  PROVE  Spec => []WriteAhead
BY WriteAheadInvCorrect, PTL DEF WriteAheadInv

------------------------------------------------------------------------------
\* No acknowledged key is ever out of a reader's sight.

Reachable(k) == MemGet(k) # None \/ InLevels(k)

\* The invariants are not inductive: a mutation is reachable as soon as it is in
\* the memtable, before it is acknowledged; a read that must find its key has
\* not missed it yet; and immutableMT is in use only during a flush, which drops
\* it when its table is in the level.
NeedsKey(c) ==
  \/ pc[c] \in {"cache", "check", "flushMu", "flushing"}
  \/ pc[c] = "rmem" /\ req[c].must
AppliedReachable == \A c \in Clients : NeedsKey(c) => Reachable(req[c].key)
ImmutableInFlush ==
  /\ flush.at = "free" => immutableMT = NoEntries
  /\ flush.at = "clear" =>
       \A k \in Keys : immutableMT[k] # None => InLevels(k)
ReachInv ==
  NothingForgotten /\ NoFalseMiss /\ AppliedReachable /\ ImmutableInFlush

\* Every step but a restart keeps the reachable keys reachable, and the keys of
\* the level in the level.
ReachKept ==
  \A k \in Keys : /\ Reachable(k) => Reachable(k)'
                  /\ InLevels(k) => InLevels(k)'

\* A step that leaves the tables alone.
LEMMA SameReach ==
  ASSUME ImmutableInFlush, UNCHANGED <<memTable, immutableMT, L0, flush>>
  PROVE  ReachKept /\ ImmutableInFlush'
BY DEF ReachKept, ImmutableInFlush, Reachable, MemGet, InLevels

\* What was acknowledged before a step stays reachable.
LEMMA SameAckedReach ==
  ASSUME TypeInv, ReachKept, NothingForgotten, UNCHANGED acked
  PROVE  NothingForgotten'
<1> SUFFICES ASSUME NEW a \in acked PROVE Reachable(a.key)'
  BY DEF NothingForgotten, Reachable
<1>1. a.key \in Keys /\ Reachable(a.key)
  BY DEF TypeInv, CoreOK, NothingForgotten, Reachable
<1> QED
  BY <1>1 DEF ReachKept

\* Acknowledging a mutation that has been applied.
LEMMA AckReach ==
  ASSUME TypeInv, ReachKept, NothingForgotten, NEW c \in Clients, Ack(c),
         pc[c] # "idle", Reachable(req[c].key)
  PROVE  NothingForgotten'
<1> SUFFICES ASSUME NEW a \in acked' PROVE Reachable(a.key)'
  BY DEF NothingForgotten, Reachable
<1>1. a.key \in Keys /\ Reachable(a.key)
  BY ReqFields DEF TypeInv, CoreOK, NothingForgotten, Reachable, Ack
<1> QED
  BY <1>1 DEF ReachKept

InFlightReach == AppliedReachable /\ NoFalseMiss

\* The clients a step does not move keep what they rely on.
LEMMA OthersReach ==
  ASSUME TypeInv, ReachKept, InFlightReach, NEW c \in Clients,
         \A d \in Clients \ {c} : pc'[d] = pc[d] /\ req'[d] = req[d],
         NeedsKey(c)' => Reachable(req[c].key)',
         pc'[c] = "rsst" /\ req'[c].must => InLevels(req[c].key)'
  PROVE  InFlightReach'
<1>1. ASSUME NEW d \in Clients \ {c}, NeedsKey(d)'
      PROVE  Reachable(req[d].key)'
  <2>1. Reachable(req[d].key) /\ req[d].key \in Keys /\ req'[d].key = req[d].key
    BY <1>1, ReqFields, Zenon DEF InFlightReach, AppliedReachable, NeedsKey
  <2>2. PICK k \in Keys : k = req[d].key
    BY <2>1
  <2> QED
    BY <2>1, <2>2, Zenon DEF ReachKept, Reachable, MemGet, InLevels
<1>2. ASSUME NEW d \in Clients \ {c}, pc'[d] = "rsst" /\ req'[d].must
      PROVE  InLevels(req[d].key)'
  <2>1. InLevels(req[d].key) /\ req[d].key \in Keys /\ req'[d].key = req[d].key
    BY <1>2, ReqFields, Zenon DEF InFlightReach, NoFalseMiss
  <2>2. PICK k \in Keys : k = req[d].key
    BY <2>1
  <2> QED
    BY <2>1, <2>2, Zenon DEF ReachKept, InLevels
<1>3. AppliedReachable'
  BY <1>1 DEF AppliedReachable
<1>4. NoFalseMiss'
  BY <1>2 DEF NoFalseMiss
<1> QED
  BY <1>3, <1>4 DEF InFlightReach

\* A step of a background goroutine moves no client.
LEMMA SameReqReach ==
  ASSUME TypeInv, ReachKept, InFlightReach, UNCHANGED <<pc, req>>
  PROVE  InFlightReach'
<1>1. ASSUME NEW c \in Clients PROVE InFlightReach'
  <2>1. pc[c] # "idle" => req[c].key \in Keys
    BY ReqFields
  <2>2. /\ NeedsKey(c)' => Reachable(req[c].key)'
        /\ pc'[c] = "rsst" /\ req'[c].must => InLevels(req[c].key)'
    BY <2>1 DEF InFlightReach, AppliedReachable, NeedsKey, NoFalseMiss,
       ReachKept, Reachable, MemGet, InLevels
  <2> QED
    BY <2>2, OthersReach
<1>2. CASE Clients = {}
  BY <1>2, Zenon DEF InFlightReach, AppliedReachable, NoFalseMiss
<1> QED
  BY <1>1, <1>2

\* A request that ends relies on nothing.
LEMMA ReturnReach ==
  ASSUME TypeInv, ReachKept, InFlightReach, NEW c \in Clients, Return(c)
  PROVE  InFlightReach'
<1>1. /\ pc'[c] = "idle"
      /\ \A d \in Clients \ {c} : pc'[d] = pc[d] /\ req'[d] = req[d]
  BY DEF Return, TypeInv, CoreOK
<1> QED
  BY <1>1, OthersReach, Zenon DEF NeedsKey

\* A flush that returns to the writer that ran it inline acknowledges a
\* mutation that has been applied.
LEMMA FlushReturnsReach ==
  ASSUME TypeInv, ReachKept, InFlightReach, NothingForgotten,
         NEW o \in Flushers, o # Pool => pc[o] \in {"flushMu", "flushing"},
         FlushReturns(o)
  PROVE  InFlightReach' /\ NothingForgotten'
<1>1. CASE o = Pool
  BY <1>1, SameReqReach, SameAckedReach DEF FlushReturns
<1>2. CASE o # Pool
  <2>1. o \in Clients /\ Ack(o) /\ Return(o) /\ pc[o] # "idle"
    BY <1>2 DEF FlushReturns, Flushers
  <2>2. Reachable(req[o].key)
    BY <1>2, <2>1, Zenon DEF InFlightReach, AppliedReachable, NeedsKey
  <2> QED
    BY <2>1, <2>2, ReturnReach, AckReach
<1> QED
  BY <1>1, <1>2

\* No step breaks the inductive invariant.
LEMMA ReachStep ==
  ASSUME ~FlushMayFail, ~CompactionOn, compactJobs = {},
         TypeInv, WriteAheadInv, ReachInv, [Next]_vars
  PROVE  ReachInv'
<1> USE DEF logVars, memVars, tableVars, flushVars, histVars, timeVars
<1>a. NothingForgotten /\ InFlightReach /\ ImmutableInFlush
  BY DEF ReachInv, InFlightReach
<1>b. (NothingForgotten /\ InFlightReach /\ ImmutableInFlush)' => ReachInv'
  BY DEF ReachInv, InFlightReach
<1>c. ASSUME UNCHANGED <<memTable, immutableMT, L0, flush>>
      PROVE  ReachKept /\ ImmutableInFlush'
  BY <1>a, <1>c, SameReach
<1>1. ASSUME NEW c \in Clients, NEW k \in Keys, NEW kind \in Mutations,
             BeginMutation(c, k, kind)
      PROVE  ReachInv'
  <2>1. /\ pc'[c] = "append"
        /\ \A d \in Clients \ {c} : pc'[d] = pc[d] /\ req'[d] = req[d]
    BY <1>1 DEF BeginMutation, TypeInv, CoreOK
  <2>2. UNCHANGED <<memTable, immutableMT, L0, flush, acked>>
    BY <1>1 DEF BeginMutation
  <2>3. InFlightReach'
    BY <1>a, <1>c, <2>1, <2>2, OthersReach, Zenon DEF NeedsKey
  <2> QED
    BY <1>a, <1>b, <1>c, <2>2, <2>3, SameAckedReach
<1>2. ASSUME NEW c \in Clients, NEW k \in Keys, ReadCache(c, k)
      PROVE  ReachInv'
  <2> DEFINE m == \E a \in acked : a.key = k
  <2>1. /\ pc'[c] = "rmem" /\ req'[c] = NewReq("read", k, 0, 0, m)
        /\ \A d \in Clients \ {c} : pc'[d] = pc[d] /\ req'[d] = req[d]
        /\ UNCHANGED <<memTable, immutableMT, L0, flush, acked>>
    BY <1>2 DEF ReadCache, TypeInv, CoreOK
  <2>2. m => Reachable(k)
    BY <1>a DEF NothingForgotten, Reachable
  <2>3. req'[c].key = k /\ (req'[c].must => m)
    <3>1. req'[c] = NewReq("read", k, 0, 0, m)
      BY <2>1, Zenon
    <3> HIDE DEF m
    <3> QED
      BY <3>1, NewReqFields
  <2>4. NeedsKey(c)' => Reachable(req[c].key)'
    <3>1. NeedsKey(c)' => m
      BY <2>1, <2>3, Zenon DEF NeedsKey
    <3> HIDE DEF m
    <3> QED
      BY <1>c, <2>1, <2>2, <2>3, <3>1, Zenon DEF ReachKept, Reachable, MemGet, InLevels
  <2>5. InFlightReach'
    BY <1>a, <1>c, <2>1, <2>4, OthersReach, Zenon
  <2> QED
    BY <1>a, <1>b, <1>c, <2>1, <2>5, SameAckedReach
<1>3. ASSUME NEW c \in Clients,
             \/ LogAppend(c) \/ LogAppendRefused(c)
             \/ LogAppendTorn(c) \/ LogAppendSyncFails(c)
             \/ ReadSSTables(c) \/ ReadFill(c)
      PROVE  ReachInv'
  <2>1. UNCHANGED <<memTable, immutableMT, L0, flush, acked>>
    BY <1>3, Zenon DEF LogAppend, LogAppendRefused, LogAppendTorn, LogAppendSyncFails,
       ReadSSTables, ReadFill
  <2>2. pc'[c] \in {"idle", "mem", "rfill"}
    BY <1>3 DEF LogAppend, LogAppendRefused, LogAppendTorn, LogAppendSyncFails,
       ReadSSTables, ReadFill, Found, Goto, Return, TypeInv, CoreOK
  <2>3. \A d \in Clients \ {c} : pc'[d] = pc[d] /\ req'[d] = req[d]
    BY <1>3 DEF LogAppend, LogAppendRefused, LogAppendTorn, LogAppendSyncFails,
       ReadSSTables, ReadFill, Found, Goto, Return, TypeInv, CoreOK
  <2>4. InFlightReach'
    BY <1>a, <1>c, <2>1, <2>2, <2>3, OthersReach, Zenon DEF NeedsKey
  <2> QED
    BY <1>a, <1>b, <1>c, <2>1, <2>4, SameAckedReach
<1>4. ASSUME NEW c \in Clients, MemPut(c)
      PROVE  ReachInv'
  <2>1. /\ pc[c] = "mem" /\ Goto(c, "cache")
        /\ UNCHANGED <<immutableMT, L0, flush, acked>>
        /\ memTable' = [memTable EXCEPT ![req[c].key] = ReqEntry(req[c])]
    BY <1>4 DEF MemPut
  <2>2. req[c].key \in Keys /\ ReqEntry(req[c]) # None
    <3>1. ReqEntry(req[c]) \in Entry
      BY ReqFields DEF ReqEntry, Entry
    <3> QED
      BY <2>1, <3>1, ReqFields, EngineAssumption
  <2>3. /\ memTable'[req[c].key] # None
        /\ \A k \in Keys : memTable[k] # None => memTable'[k] # None
    BY <2>1, <2>2 DEF TypeInv, CoreOK, MemTables
  <2>4. ReachKept /\ ImmutableInFlush'
    BY <1>a, <2>1, <2>3 DEF ReachKept, Reachable, MemGet, InLevels,
       ImmutableInFlush
  <2>5. /\ req' = req /\ pc'[c] = "cache"
        /\ \A d \in Clients \ {c} : pc'[d] = pc[d] /\ req'[d] = req[d]
    BY <2>1 DEF Goto, TypeInv, CoreOK
  <2>6. Reachable(req[c].key)'
    BY <2>3, <2>5 DEF Reachable, MemGet
  <2>7. InFlightReach'
    BY <1>a, <2>4, <2>5, <2>6, OthersReach
  <2> QED
    BY <1>a, <1>b, <2>1, <2>4, <2>7, SameAckedReach, Zenon
<1>5. ASSUME NEW c \in Clients, WriteCache(c) \/ InlineFlush(c)
      PROVE  ReachInv'
  <2>1. /\ pc[c] \in {"cache", "check"} /\ req' = req
        /\ pc'[c] \in {"check", "flushMu"}
        /\ \A d \in Clients \ {c} : pc'[d] = pc[d] /\ req'[d] = req[d]
        /\ UNCHANGED <<memTable, immutableMT, L0, flush, acked>>
    BY <1>5 DEF WriteCache, InlineFlush, Goto, TypeInv, CoreOK
  <2>2. Reachable(req[c].key)'
    BY <1>a, <2>1, Zenon DEF InFlightReach, AppliedReachable, NeedsKey, Reachable,
       MemGet, InLevels
  <2>3. InFlightReach'
    BY <1>a, <1>c, <2>1, <2>2, OthersReach, Zenon
  <2> QED
    BY <1>a, <1>b, <1>c, <2>1, <2>3, SameAckedReach
<1>6. ASSUME NEW c \in Clients,
             \/ RepairCache(c) \/ DeleteCache(c)
             \/ NoFlushNeeded(c) \/ SubmitFlush(c)
      PROVE  ReachInv'
  <2>1. /\ pc[c] \in {"cache", "check"} /\ Ack(c) /\ Return(c)
        /\ UNCHANGED <<memTable, immutableMT, L0, flush>>
    BY <1>6 DEF RepairCache, DeleteCache, NoFlushNeeded, SubmitFlush
  <2>2. Reachable(req[c].key)
    BY <1>a, <2>1 DEF InFlightReach, AppliedReachable, NeedsKey
  <2> QED
    BY <1>a, <1>b, <1>c, <2>1, <2>2, ReturnReach, AckReach, Zenon
<1>7. ASSUME NEW c \in Clients, ReadMem(c)
      PROVE  ReachInv'
  <2>1. /\ pc[c] = "rmem"
        /\ UNCHANGED <<memTable, immutableMT, L0, flush, acked>>
        /\ IF MemGet(req[c].key) = None THEN Goto(c, "rsst")
           ELSE Found(c, MemGet(req[c].key))
    BY <1>7, Zenon DEF ReadMem
  <2>2. CASE MemGet(req[c].key) = None
    <3>1. /\ pc'[c] = "rsst" /\ req' = req
          /\ \A d \in Clients \ {c} : pc'[d] = pc[d] /\ req'[d] = req[d]
      BY <2>1, <2>2 DEF Goto, TypeInv, CoreOK
    <3>2. req[c].must => InLevels(req[c].key)
      BY <1>a, <2>1, <2>2, Zenon DEF InFlightReach, AppliedReachable, NeedsKey,
         Reachable
    <3>3. pc'[c] = "rsst" /\ req'[c].must => InLevels(req[c].key)'
      BY <2>1, <3>1, <3>2, Zenon DEF InLevels
    <3>4. InFlightReach'
      BY <1>a, <1>c, <2>1, <3>1, <3>3, OthersReach, Zenon DEF NeedsKey
    <3> QED
      BY <1>a, <1>b, <1>c, <2>1, <3>4, SameAckedReach, Zenon
  <2>3. CASE MemGet(req[c].key) # None
    <3>1. /\ pc'[c] \in {"idle", "rfill"}
          /\ \A d \in Clients \ {c} : pc'[d] = pc[d] /\ req'[d] = req[d]
      BY <2>1, <2>3 DEF Found, Return, TypeInv, CoreOK
    <3>2. InFlightReach'
      BY <1>a, <1>c, <2>1, <3>1, OthersReach, Zenon DEF NeedsKey
    <3> QED
      BY <1>a, <1>b, <1>c, <2>1, <3>2, SameAckedReach, Zenon
  <2> QED
    BY <2>2, <2>3
<1>8. ASSUME NEW o \in Flushers, FlushEmpty(o)
      PROVE  ReachInv'
  <2>1. /\ FlushReturns(o)
        /\ o # Pool => pc[o] \in {"flushMu", "flushing"}
        /\ UNCHANGED <<memTable, immutableMT, L0, flush>>
    BY <1>8 DEF FlushEmpty, FlushCalled
  <2>2. InFlightReach' /\ NothingForgotten'
    BY <1>a, <1>c, <2>1, FlushReturnsReach
  <2> QED
    BY <1>b, <1>c, <2>1, <2>2
<1>9. ASSUME NEW o \in Flushers, FlushSwap(o)
      PROVE  ReachInv'
  <2>1. /\ flush = NoFlush /\ flush' = [owner |-> o, at |-> "write"]
        /\ o # Pool => pc[o] = "flushMu" /\ Goto(o, "flushing")
        /\ o = Pool => UNCHANGED <<pc, req>>
        /\ immutableMT' = memTable /\ memTable' = NoEntries
        /\ UNCHANGED <<L0, acked>>
    BY <1>9 DEF FlushSwap, FlushCalled
  <2>2. immutableMT = NoEntries
    BY <1>a, <2>1 DEF ImmutableInFlush, NoFlush
  <2>3. ReachKept
    BY <2>1, <2>2 DEF ReachKept, Reachable, MemGet, InLevels, NoEntries
  <2>4. ImmutableInFlush'
    BY <2>1 DEF ImmutableInFlush
  <2>5. InFlightReach'
    <3>1. CASE o = Pool
      BY <1>a, <2>1, <2>3, <3>1, SameReqReach
    <3>2. CASE o # Pool
      <4>1. /\ o \in Clients /\ pc[o] = "flushMu" /\ req' = req
            /\ pc'[o] = "flushing"
            /\ \A d \in Clients \ {o} : pc'[d] = pc[d] /\ req'[d] = req[d]
        BY <2>1, <3>2 DEF Flushers, Goto, TypeInv, CoreOK
      <4>2. Reachable(req[o].key) /\ req[o].key \in Keys
        BY <1>a, <4>1, ReqFields DEF InFlightReach, AppliedReachable, NeedsKey
      <4>3. Reachable(req[o].key)'
        BY <2>3, <4>1, <4>2 DEF ReachKept, Reachable, MemGet, InLevels
      <4> QED
        BY <1>a, <2>3, <4>1, <4>3, OthersReach
    <3> QED
      BY <3>1, <3>2
  <2> QED
    BY <1>a, <1>b, <2>1, <2>3, <2>4, <2>5, SameAckedReach
<1>10. CASE FlushWrite
  <2> DEFINE new == [id |-> tables + 1, data |-> immutableMT]
  <2>1. /\ L0' = L0 \cup {new} /\ flush' = [flush EXCEPT !.at = "clear"]
        /\ UNCHANGED <<memTable, immutableMT, pc, req, acked>>
    BY <1>10 DEF FlushWrite
  <2>2. new \in L0' /\ new.data = immutableMT /\ L0 \subseteq L0'
    BY <2>1
  <2> HIDE DEF new
  <2>3. ReachKept
    BY <2>1, <2>2 DEF ReachKept, Reachable, MemGet, InLevels
  <2>4. ImmutableInFlush'
    <3>1. flush'.at = "clear"
      BY <2>1 DEF TypeInv, CoreOK
    <3>2. \A k \in Keys : immutableMT'[k] # None => InLevels(k)'
      BY <2>1, <2>2 DEF InLevels
    <3> QED
      BY <3>1, <3>2 DEF ImmutableInFlush
  <2> QED
    BY <1>a, <1>b, <2>1, <2>3, <2>4, SameReqReach, SameAckedReach
<1>11. ~FlushWriteFails
  BY DEF FlushWriteFails
<1>12. CASE FlushClear
  <2>1. /\ flush.at = "clear" /\ flush' = NoFlush
        /\ FlushReturns(flush.owner)
        /\ immutableMT' = NoEntries
        /\ UNCHANGED <<memTable, L0>>
    BY <1>12 DEF FlushClear
  <2>2. /\ flush.owner \in Flushers
        /\ flush.owner # Pool => pc[flush.owner] \in {"flushMu", "flushing"}
    BY <2>1 DEF TypeInv, FlushInv, Flushers
  <2>3. ReachKept
    BY <1>a, <2>1 DEF ReachKept, Reachable, MemGet, InLevels, ImmutableInFlush
  <2>4. ImmutableInFlush'
    BY <2>1 DEF ImmutableInFlush, NoFlush
  <2>5. InFlightReach' /\ NothingForgotten'
    BY <1>a, <2>1, <2>2, <2>3, FlushReturnsReach
  <2> QED
    BY <1>b, <2>4, <2>5
<1>13. ~CompactionStep
  BY DEF CompactionStep, CheckCompaction
<1>14. CASE Crash
  <2>1. /\ memTable' = Recovered /\ immutableMT' = NoEntries
        /\ pc' = [c \in Clients |-> "idle"] /\ flush' = NoFlush
        /\ UNCHANGED acked
    BY <1>14 DEF Crash
  <2>2. ASSUME NEW a \in acked PROVE Recovered[a.key] # None
    <3>1. a.key \in Keys /\ Logged(a.key, a.op)
      BY DEF TypeInv, CoreOK, WriteAheadInv, WriteAhead
    <3>2. LinesOf(a.key) # {}
      BY <3>1 DEF Logged
    <3> QED
      BY <3>1, <3>2, LastLine, EngineAssumption
  <2>3. NothingForgotten'
    BY <2>1, <2>2 DEF NothingForgotten, MemGet
  <2>4. InFlightReach' /\ ImmutableInFlush'
    BY <2>1 DEF InFlightReach, AppliedReachable, NeedsKey, NoFalseMiss,
       ImmutableInFlush, NoFlush
  <2> QED
    BY <1>b, <2>3, <2>4
<1>15. CASE Tick \/ Rotate \/ UNCHANGED vars
  <2>1. UNCHANGED <<memTable, immutableMT, L0, flush, pc, req, acked>>
    BY <1>15 DEF Tick, Rotate, vars
  <2> QED
    BY <1>a, <1>b, <1>c, <2>1, SameReqReach, SameAckedReach
<1>16. ASSUME NEW c \in Clients, NEW k \in Keys, ReadHit(c, k)
       PROVE  ReachInv'
  BY <1>15, <1>16 DEF ReadHit
<1>17. ASSUME NEW c \in Clients, ClientStep(c) PROVE ReachInv'
  BY <1>3, <1>4, <1>5, <1>6, <1>7, <1>17 DEF ClientStep
<1>18. CASE FlushStep
  BY <1>8, <1>9, <1>10, <1>11, <1>12, <1>18 DEF FlushStep
<1> QED
  BY <1>1, <1>2, <1>13, <1>14, <1>15, <1>16, <1>17, <1>18 DEF Next

\* The initial state satisfies the inductive invariant.
LEMMA ReachInit == Init => ReachInv
<1> SUFFICES ASSUME Init PROVE ReachInv
  OBVIOUS
<1>1. /\ acked = {} /\ immutableMT = NoEntries /\ flush = NoFlush
      /\ pc = [c \in Clients |-> "idle"]
  BY DEF Init
<1>2. NothingForgotten
  BY <1>1 DEF NothingForgotten
<1>3. NoFalseMiss /\ AppliedReachable
  BY <1>1 DEF NoFalseMiss, AppliedReachable, NeedsKey
<1>4. ImmutableInFlush
  BY <1>1 DEF ImmutableInFlush, NoFlush
<1> QED
  BY <1>2, <1>3, <1>4 DEF ReachInv

\* The inductive invariant holds in every reachable state.
LEMMA ReachInvCorrect ==
  ASSUME "torn" \notin LogFaults, ~FlushMayFail, ~CompactionOn
  PROVE  Spec => []ReachInv
BY ReachInit, ReachStep, NoJobs, WriteAheadInvCorrect, TypeInvCorrect, PTL
   DEF Spec

\* Without the faults named above, a key with an acknowledged mutation is in a
\* memtable or in level 0 at every moment: the swap of the memtables, the
\* publication of the table and a restart never leave it in neither.
THEOREM NothingForgottenCorrect ==
  ASSUME "torn" \notin LogFaults, ~FlushMayFail, ~CompactionOn
  PROVE  Spec => []NothingForgotten
BY ReachInvCorrect, PTL DEF ReachInv

\* Under the same assumptions a read of a key with an acknowledged mutation
\* that misses the memtables finds the key in the SSTables, however its steps
\* interleave with those of a flush: Read looks in the order entries move.
THEOREM NoFalseMissCorrect ==
  ASSUME "torn" \notin LogFaults, ~FlushMayFail, ~CompactionOn
  PROVE  Spec => []NoFalseMiss
BY ReachInvCorrect, PTL DEF ReachInv
==============================================================================
