-------------------------- MODULE RefinementProofs --------------------------
(***************************************************************************)
(* Below its cache the storage engine implements KeyValueStore, and a      *)
(* lookup finds what a restart would recover, for every value of the       *)
(* constants under which no two mutations start in the same second, each   *)
(* key has one writer, appends fail before they write or not at all, no    *)
(* SSTable write fails and the compaction service does not run.  Where one *)
(* of these is dropped TLC has a counterexample: see the violation runs.   *)
(*                                                                         *)
(* At the end of the module are the theorems about StorageEngine that      *)
(* count: the damage of appends that stop half way, and the types with the *)
(* memtable's size.  They are the only ones that need FiniteSetTheorems,   *)
(* which the obligations of the others would carry along in vain.          *)
(***************************************************************************)
EXTENDS StorageEngineProofs

OneWriter ==
  \A c, d \in Clients, k \in Keys, m, n \in Mutations :
    <<c, k, m>> \in Workload /\ <<d, k, n>> \in Workload => c = d
Undisturbed ==
  /\ TickPerOp /\ OneWriter /\ LogFaults \subseteq {"refused"}
  /\ ~FlushMayFail /\ ~CompactionOn

\* A mutation in flight is one of the workload, and has a number and a time of
\* its own.
MutationsInv ==
  /\ ops <= MaxOps
  /\ \A c \in Clients : pc[c] \in InFlight =>
       /\ req[c].kind \in Mutations /\ <<c, req[c].key, req[c].kind>> \in Workload
       /\ req[c].op \in 1..ops /\ req[c].ts < clock
  /\ \A c, d \in Clients :
       pc[c] \in InFlight /\ pc[d] \in InFlight /\ req[c].op = req[d].op => c = d

\* Every line of the log can be read and stands for a mutation of its own, which
\* is not one that is still to be appended.
LinesInv ==
  /\ ~torn
  /\ \A i \in DOMAIN log : log[i].ok /\ log[i].op \in 1..ops /\ log[i].ts < clock
  /\ \A i, j \in DOMAIN log : log[i].op = log[j].op => i = j
  /\ \A c \in Clients, i \in DOMAIN log : pc[c] = "append" => log[i].op # req[c].op

\* Two mutations in flight on one key are the same.
LEMMA OneInFlight ==
  ASSUME OneWriter, MutationsInv, TypeInv, NEW c \in Clients, NEW d \in Clients,
         pc[c] \in InFlight, pc[d] \in InFlight, req[c].key = req[d].key
  PROVE  c = d
<1>1. req[c].key \in Keys /\ req[d].key \in Keys
  BY ReqFields DEF InFlight, Appended
<1> QED
  BY <1>1, Zenon DEF OneWriter, MutationsInv

\* The steps that change the log or begin a mutation; under Undisturbed no append
\* stops half way or is not synced.
Starts(c) == \E k \in Keys, kind \in Mutations : BeginMutation(c, k, kind)

\* Every other step leaves the counters and the log alone.
LEMMA OtherTimes ==
  ASSUME Undisturbed, [Next]_vars, \A c \in Clients : ~Starts(c)
  PROVE  UNCHANGED <<clock, ops>>
<1> USE DEF timeVars
<1>1. ASSUME NEW c \in Clients, ClientStep(c) PROVE UNCHANGED <<clock, ops>>
  BY <1>1, Zenon DEF ClientStep, LogAppend, LogAppendRefused, LogAppendTorn,
     LogAppendSyncFails, MemPut, WriteCache, RepairCache, DeleteCache, NoFlushNeeded, SubmitFlush,
     InlineFlush, ReadMem, ReadSSTables, ReadFill
<1>2. CASE FlushStep
  BY <1>2 DEF FlushStep, FlushEmpty, FlushSwap, FlushWrite, FlushWriteFails, FlushClear
<1>3. CASE CompactionStep
  BY <1>3 DEF CompactionStep, CheckCompaction, CompactFails, RemoveTables
<1>4. ASSUME NEW c \in Clients, NEW k \in Keys, ReadHit(c, k) \/ ReadCache(c, k)
      PROVE  UNCHANGED <<clock, ops>>
  BY <1>4, Zenon DEF ReadHit, ReadCache, vars
<1>5. CASE Rotate \/ Crash \/ UNCHANGED vars
  BY <1>5 DEF Rotate, Crash, vars
<1>6. ~Tick
  BY DEF Tick, Undisturbed
<1> QED
  BY <1>1, <1>2, <1>3, <1>4, <1>5, <1>6 DEF Next, Starts

\* The line an append adds, and that it keeps the others.
NewLine(r) == [key |-> r.key, op |-> r.op, ts |-> r.ts, del |-> r.kind = "delete", ok |-> TRUE]
AppendsLine(c) ==
  /\ Len(log) \in Nat /\ DOMAIN log = 1..Len(log) /\ DOMAIN log' = 1..(Len(log) + 1)
  /\ \A i \in 1..Len(log) : log'[i] = log[i]
  /\ log'[Len(log) + 1] = NewLine(req[c])
LEMMA AppendStep ==
  ASSUME TypeInv, ~torn, NEW c \in Clients, LogAppend(c)
  PROVE  /\ AppendsLine(c) /\ pc[c] = "append" /\ pc'[c] = "mem" /\ req' = req
         /\ ~torn' /\ log \in Seq(Line) /\ NewLine(req[c]) \in Line
         /\ log' = Append(log, NewLine(req[c]))
         /\ \A d \in Clients \ {c} : pc'[d] = pc[d]
         /\ UNCHANGED <<clock, ops, memTable, immutableMT, L0, tables, flush, acked>>
<1>1. pc[c] = "append" /\ AppendLine(req[c]) /\ Goto(c, "mem")
  BY DEF LogAppend
<1>2. ~torn = TRUE
  OBVIOUS
<1>3. log' = Append(log, NewLine(req[c])) /\ ~torn'
  BY <1>1, <1>2, Zenon DEF AppendLine, NewLine
<1>4. NewLine(req[c]) \in Line
  BY <1>1, ReqFields DEF NewLine, Line
<1>5. log \in Seq(Line)
  BY DEF TypeInv, CoreOK
<1>6. AppendsLine(c)
  BY <1>3, <1>4, <1>5 DEF AppendsLine
<1>7. /\ pc'[c] = "mem" /\ req' = req
      /\ \A d \in Clients \ {c} : pc'[d] = pc[d]
  BY <1>1 DEF Goto, TypeInv, CoreOK
<1> QED
  BY <1>1, <1>3, <1>4, <1>5, <1>6, <1>7
     DEF LogAppend, memVars, tableVars, flushVars, histVars, timeVars

\* A mutation that begins.
LEMMA BeginStep ==
  ASSUME TypeInv, Undisturbed, NEW c \in Clients, NEW k \in Keys, NEW kind \in Mutations,
         BeginMutation(c, k, kind)
  PROVE  /\ pc[c] = "idle" /\ pc'[c] = "append" /\ ops < MaxOps
         /\ ops' = ops + 1 /\ clock' = clock + 1 /\ <<c, k, kind>> \in Workload
         /\ req'[c].key = k /\ req'[c].kind = kind /\ req'[c].op = ops + 1 /\ req'[c].ts = clock
         /\ \A d \in Clients \ {c} : pc'[d] = pc[d] /\ req'[d] = req[d]
         /\ UNCHANGED <<log, torn, memTable, immutableMT, L0, tables, flush, acked>>
<1>1. req'[c] = NewReq(kind, k, ops + 1, clock, FALSE)
  BY DEF BeginMutation, TypeInv, CoreOK
<1>2. /\ req'[c].key = k /\ req'[c].kind = kind /\ req'[c].op = ops + 1 /\ req'[c].ts = clock
  BY <1>1 DEF NewReq
<1> QED
  BY <1>2, Zenon DEF BeginMutation, Undisturbed, TypeInv, CoreOK, logVars, memVars, tableVars,
     flushVars, histVars

\* The steps under Undisturbed: a mutation begins, a line is appended, or the
\* log and the counters stay as they are.
LEMMA StepKinds ==
  ASSUME Undisturbed, TypeInv, [Next]_vars, \A c \in Clients : ~Starts(c) /\ ~LogAppend(c)
  PROVE  UNCHANGED <<log, clock, ops>> /\ (torn' => torn) /\ Moved
<1>1. \A c \in Clients : ~LogAppendTorn(c) /\ ~LogAppendSyncFails(c)
  BY DEF Undisturbed, LogAppendTorn, LogAppendSyncFails
<1> QED
  BY <1>1, OtherSteps, OtherTimes DEF Starts

\* Every step keeps the mutations in flight apart.
LEMMA MutationsStep ==
  ASSUME Undisturbed, TypeInv, MutationsInv, ~torn, [Next]_vars
  PROVE  MutationsInv'
<1>0. ops \in Nat /\ clock \in Nat /\ MaxOps \in Nat
      /\ \A c \in Clients : req[c].op \in Nat /\ req[c].ts \in Nat
  BY ReqFields, EngineAssumption DEF TypeInv, CoreOK
<1>1. ASSUME NEW c \in Clients, NEW k \in Keys, NEW kind \in Mutations,
             BeginMutation(c, k, kind)
      PROVE  MutationsInv'
  <2>1. /\ pc'[c] = "append" /\ ops < MaxOps
        /\ ops' = ops + 1 /\ clock' = clock + 1 /\ <<c, k, kind>> \in Workload
        /\ req'[c].key = k /\ req'[c].kind = kind /\ req'[c].op = ops + 1 /\ req'[c].ts = clock
        /\ \A d \in Clients \ {c} : pc'[d] = pc[d] /\ req'[d] = req[d]
    BY <1>1, BeginStep
  <2>2. \A d \in Clients : pc'[d] \in InFlight =>
          /\ req'[d].kind \in Mutations /\ <<d, req'[d].key, req'[d].kind>> \in Workload
          /\ req'[d].op \in 1..ops' /\ req'[d].ts < clock'
    BY <1>0, <2>1 DEF MutationsInv
  <2>3. ASSUME NEW d \in Clients, pc[d] \in InFlight PROVE req[d].op # ops + 1
    <3>1. req[d].op \in 1..ops
      BY <2>3, Zenon DEF MutationsInv
    <3> QED
      BY <1>0, <3>1
  <2>4. \A d, e \in Clients :
          pc'[d] \in InFlight /\ pc'[e] \in InFlight /\ req'[d].op = req'[e].op => d = e
    BY <2>1, <2>3 DEF MutationsInv
  <2> QED
    BY <1>0, <2>1, <2>2, <2>4 DEF MutationsInv
<1>2. ASSUME NEW c \in Clients, LogAppend(c)
      PROVE  MutationsInv'
  BY <1>2, AppendStep DEF MutationsInv, InFlight, Appended
<1>3. CASE \A c \in Clients : ~Starts(c) /\ ~LogAppend(c)
  BY <1>3, StepKinds DEF MutationsInv, Moved, InFlight
<1> QED
  BY <1>1, <1>2, <1>3 DEF Starts

\* Every step keeps the lines apart.
LEMMA LinesStep ==
  ASSUME Undisturbed, TypeInv, MutationsInv, LinesInv, [Next]_vars
  PROVE  LinesInv'
<1>0. /\ ops \in Nat /\ clock \in Nat /\ ~torn
      /\ \A c \in Clients : req[c].op \in Nat /\ req[c].ts \in Nat
      /\ \A i \in DOMAIN log : log[i] \in Line
  BY ReqFields DEF TypeInv, CoreOK, LinesInv
<1>1. ASSUME NEW c \in Clients, NEW k \in Keys, NEW kind \in Mutations,
             BeginMutation(c, k, kind)
      PROVE  LinesInv'
  <2>1. /\ pc'[c] = "append" /\ ops' = ops + 1 /\ clock' = clock + 1
        /\ req'[c].op = ops + 1 /\ UNCHANGED <<log, torn>>
        /\ \A d \in Clients \ {c} : pc'[d] = pc[d] /\ req'[d] = req[d]
    BY <1>1, BeginStep, Zenon
  <2>2. \A i \in DOMAIN log : log[i].ok /\ log[i].op \in 1..(ops + 1) /\ log[i].ts < clock + 1
    BY <1>0 DEF LinesInv, Line
  <2>3. \A i \in DOMAIN log : log[i].op # ops + 1
    BY <1>0 DEF LinesInv
  <2>4. \A d \in Clients, i \in DOMAIN log : pc'[d] = "append" => log[i].op # req'[d].op
    BY <2>1, <2>3 DEF LinesInv
  <2> QED
    BY <2>1, <2>2, <2>4 DEF LinesInv
<1>2. ASSUME NEW c \in Clients, LogAppend(c)
      PROVE  LinesInv'
  <2>1. /\ AppendsLine(c) /\ pc[c] = "append" /\ pc'[c] = "mem" /\ req' = req /\ ~torn'
        /\ UNCHANGED <<clock, ops>>
        /\ \A d \in Clients \ {c} : pc'[d] = pc[d]
    BY <1>0, <1>2, AppendStep
  <2>2. NewLine(req[c]).ok /\ NewLine(req[c]).op = req[c].op /\ NewLine(req[c]).ts = req[c].ts
    BY DEF NewLine
  <2>3. req[c].op \in 1..ops /\ req[c].ts < clock
    BY <2>1, Zenon DEF MutationsInv, InFlight
  <2>4. \A i \in DOMAIN log' : log'[i].ok /\ log'[i].op \in 1..ops /\ log'[i].ts < clock
    BY <2>1, <2>2, <2>3 DEF LinesInv, AppendsLine
  <2>5. \A i, j \in DOMAIN log' : log'[i].op = log'[j].op => i = j
    BY <2>1, <2>2 DEF LinesInv, AppendsLine
  <2>6. \A d \in Clients, i \in DOMAIN log' : pc'[d] = "append" => log'[i].op # req[d].op
    BY <2>1, <2>2 DEF LinesInv, MutationsInv, AppendsLine, InFlight
  <2> QED
    BY <2>1, <2>4, <2>5, <2>6 DEF LinesInv
<1>3. CASE \A c \in Clients : ~Starts(c) /\ ~LogAppend(c)
  <2>1. UNCHANGED <<log, clock, ops>> /\ (torn' => torn) /\ Moved
    BY <1>3, StepKinds
  <2>2. \A c \in Clients : pc'[c] = "append" => pc[c] = "append" /\ req'[c] = req[c]
    BY <2>1 DEF Moved, InFlight, Appended
  <2> QED
    BY <2>1, <2>2 DEF LinesInv
<1> QED
  BY <1>1, <1>2, <1>3 DEF Starts

------------------------------------------------------------------------------
\* A time is after those of all the stored versions of a key.
After(ts, k) ==
  /\ memTable[k] # None => memTable[k].ts < ts
  /\ immutableMT[k] # None => immutableMT[k].ts < ts
  /\ \A t \in L0 : t.data[k] # None => t.data[k].ts < ts

\* Versions are stored in the order of their times: those of a later table are
\* later, immutableMT is later than the tables but the one it was written to,
\* the memtable is later still, and a mutation to be put later than all.
TablesOrdered ==
  /\ \A t \in L0 : t.id <= tables
  /\ \A t, u \in L0 : t.id = u.id => t = u
  /\ \A t, u \in L0, k \in Keys :
       t.id < u.id /\ t.data[k] # None /\ u.data[k] # None => t.data[k].ts < u.data[k].ts
  /\ \A t \in L0, k \in Keys : t.data[k] # None =>
       \E u \in L0 : u.data[k] # None /\ \A v \in L0 : v.data[k] # None => v.id <= u.id
FlushOrdered ==
  /\ flush.at = "free" => immutableMT = NoEntries
  /\ flush.at = "clear" => [id |-> tables, data |-> immutableMT] \in L0
  /\ flush.at # "clear" =>
       \A t \in L0, k \in Keys :
         t.data[k] # None /\ immutableMT[k] # None => t.data[k].ts < immutableMT[k].ts
MemOrdered ==
  \A k \in Keys : memTable[k] # None =>
    /\ immutableMT[k] # None => immutableMT[k].ts < memTable[k].ts
    /\ \A t \in L0 : t.data[k] # None => t.data[k].ts < memTable[k].ts
PutsOrdered ==
  /\ \A k \in Keys : After(clock, k)
  /\ \A c \in Clients : pc[c] \in {"append", "mem"} => After(req[c].ts, req[c].key)
Ordered == TablesOrdered /\ FlushOrdered /\ MemOrdered /\ PutsOrdered

\* The steps that change the stored versions, under Undisturbed.
LEMMA StoreSteps ==
  ASSUME Undisturbed, compactJobs = {}, [Next]_vars,
         \A c \in Clients : ~MemPut(c), \A o \in Flushers : ~FlushSwap(o),
         ~FlushWrite, ~FlushClear, ~Crash
  PROVE  UNCHANGED <<memTable, immutableMT, L0, tables, flush>>
<1> USE DEF memVars, tableVars, flushVars
<1>1. ASSUME NEW c \in Clients, ClientStep(c)
      PROVE  UNCHANGED <<memTable, immutableMT, L0, tables, flush>>
  BY <1>1, Zenon DEF ClientStep, LogAppend, LogAppendRefused, LogAppendTorn,
     LogAppendSyncFails, WriteCache, RepairCache, DeleteCache, NoFlushNeeded, SubmitFlush,
     InlineFlush, ReadMem, ReadSSTables, ReadFill
<1>2. CASE FlushStep
  BY <1>2 DEF FlushStep, FlushEmpty, FlushWriteFails, Undisturbed
<1>3. ~CompactionStep
  BY DEF CompactionStep, CheckCompaction, Undisturbed
<1>4. ASSUME NEW c \in Clients, NEW k \in Keys,
             \/ \E kind \in Mutations : BeginMutation(c, k, kind)
             \/ ReadHit(c, k) \/ ReadCache(c, k)
      PROVE  UNCHANGED <<memTable, immutableMT, L0, tables, flush>>
  BY <1>4, Zenon DEF BeginMutation, ReadHit, ReadCache, vars
<1>5. CASE Rotate \/ Tick \/ UNCHANGED vars
  BY <1>5 DEF Rotate, Tick, vars
<1> QED
  BY <1>1, <1>2, <1>3, <1>4, <1>5 DEF Next

\* The times of the stored versions are numbers.
LEMMA EntryTimes ==
  ASSUME TypeInv
  PROVE  /\ clock \in Nat /\ tables \in Nat
         /\ \A c \in Clients : req[c].ts \in Nat
         /\ \A t \in L0 : t.id \in Nat
         /\ \A k \in Keys : /\ memTable[k] # None => memTable[k].ts \in Nat
                            /\ immutableMT[k] # None => immutableMT[k].ts \in Nat
                            /\ \A t \in L0 : t.data[k] # None => t.data[k].ts \in Nat
<1>1. /\ clock \in Nat /\ tables \in Nat
      /\ \A t \in L0 : t.id \in Nat /\ t.data \in MemTables
      /\ memTable \in MemTables /\ immutableMT \in MemTables
  BY DEF TypeInv, CoreOK
<1>2. \A m \in MemTables, k \in Keys : m[k] # None => m[k].ts \in Nat
  BY DEF MemTables, MaybeEntry, Entry
<1> QED
  BY <1>1, <1>2, ReqFields

\* A time after all versions stays so when the versions stay, or become fewer.
LEMMA LaterAfter ==
  ASSUME TypeInv, NEW k \in Keys, NEW ts \in Nat, NEW later \in Nat, ts <= later, After(ts, k)
  PROVE  After(later, k)
BY EntryTimes DEF After

\* A step that changes no stored version.
LEMMA SameOrdered ==
  ASSUME Undisturbed, TypeInv, MutationsInv, LinesInv, Ordered, [Next]_vars,
         UNCHANGED <<memTable, immutableMT, L0, tables, flush>>
  PROVE  Ordered'
<1>1. TablesOrdered' /\ FlushOrdered' /\ MemOrdered'
  BY DEF Ordered, TablesOrdered, FlushOrdered, MemOrdered
<1>2. \A k \in Keys : \A ts : After(ts, k)' <=> After(ts, k)
  BY DEF After
<1>3. clock \in Nat
  BY EntryTimes
<1>4. ASSUME NEW c \in Clients, NEW k \in Keys, NEW kind \in Mutations,
             BeginMutation(c, k, kind)
      PROVE  PutsOrdered'
  <2>1. /\ pc'[c] = "append" /\ clock' = clock + 1 /\ req'[c].key = k /\ req'[c].ts = clock
        /\ \A d \in Clients \ {c} : pc'[d] = pc[d] /\ req'[d] = req[d]
    BY <1>4, BeginStep, Zenon
  <2>2. \A x \in Keys : After(clock, x) /\ After(clock + 1, x)
    BY <1>3, LaterAfter DEF Ordered, PutsOrdered
  <2>3. \A d \in Clients : pc'[d] \in {"append", "mem"} => After(req'[d].ts, req'[d].key)
    BY <2>1, <2>2 DEF Ordered, PutsOrdered
  <2>4. \A d \in Clients : pc'[d] \in {"append", "mem"} => req'[d].key \in Keys
    BY <2>1, ReqFields
  <2> QED
    BY <2>1, <2>2, <2>3, <2>4 DEF PutsOrdered, After
<1>5. CASE \A c \in Clients : ~Starts(c)
  <2>1. /\ clock' = clock
        /\ \A c \in Clients : pc'[c] \in {"append", "mem"} =>
             pc[c] \in {"append", "mem"} /\ req'[c] = req[c]
    <3>1. ASSUME NEW c \in Clients, LogAppend(c)
          PROVE  /\ clock' = clock
                 /\ \A d \in Clients : pc'[d] \in {"append", "mem"} =>
                      pc[d] \in {"append", "mem"} /\ req'[d] = req[d]
      BY <3>1, AppendStep DEF LinesInv
    <3>2. CASE \A c \in Clients : ~LogAppend(c)
      BY <1>5, <3>2, StepKinds DEF Moved, InFlight, Appended
    <3> QED
      BY <3>1, <3>2
  <2>2. \A k \in Keys : After(clock, k)'
    BY <2>1 DEF Ordered, PutsOrdered, After
  <2>3. ASSUME NEW c \in Clients, pc'[c] \in {"append", "mem"}
        PROVE  After(req[c].ts, req[c].key)'
    <3>1. After(req[c].ts, req[c].key) /\ req'[c] = req[c]
      BY <2>1, <2>3 DEF Ordered, PutsOrdered
    <3> QED
      BY <3>1 DEF After
  <2> QED
    BY <1>1, <2>2, <2>3 DEF Ordered, PutsOrdered
<1> QED
  BY <1>1, <1>4, <1>5 DEF Ordered, Starts

\* A put: the mutation is later than every stored version of its key, and it is
\* the only one in flight on it.
LEMMA PutOrdered ==
  ASSUME Undisturbed, TypeInv, MutationsInv, Ordered, NEW c \in Clients, MemPut(c)
  PROVE  Ordered'
<1>1. /\ pc[c] = "mem" /\ req' = req /\ pc'[c] = "cache"
      /\ \A d \in Clients \ {c} : pc'[d] = pc[d]
      /\ memTable' = [memTable EXCEPT ![req[c].key] = ReqEntry(req[c])]
      /\ UNCHANGED <<immutableMT, L0, tables, flush, clock>>
  BY DEF MemPut, Goto, TypeInv, CoreOK, tableVars, flushVars, timeVars
<1>2. req[c].key \in Keys /\ req[c].ts < clock /\ After(req[c].ts, req[c].key)
  BY <1>1, ReqFields, Zenon DEF MutationsInv, Ordered, PutsOrdered, InFlight, Appended
<1>3. /\ memTable'[req[c].key].ts = req[c].ts
      /\ \A k \in Keys \ {req[c].key} : memTable'[k] = memTable[k]
  BY <1>1, <1>2 DEF TypeInv, CoreOK, MemTables, ReqEntry
<1>4. TablesOrdered' /\ FlushOrdered'
  BY <1>1 DEF Ordered, TablesOrdered, FlushOrdered
<1>5. MemOrdered'
  BY <1>1, <1>2, <1>3 DEF Ordered, MemOrdered, After
<1>6. \A k \in Keys : After(clock, k)'
  BY <1>1, <1>2, <1>3 DEF Ordered, PutsOrdered, After
<1>7. ASSUME NEW d \in Clients, pc'[d] \in {"append", "mem"}
      PROVE  After(req[d].ts, req[d].key)'
  <2>1. d # c /\ pc[d] \in {"append", "mem"}
    BY <1>1, <1>7
  <2>2. req[d].key \in Keys \ {req[c].key}
    BY <1>1, <2>1, OneInFlight, ReqFields DEF Undisturbed, InFlight, Appended
  <2>3. After(req[d].ts, req[d].key)
    BY <2>1 DEF Ordered, PutsOrdered
  <2> QED
    BY <1>1, <1>3, <2>2, <2>3 DEF After
<1> QED
  BY <1>4, <1>5, <1>6, <1>7 DEF Ordered, PutsOrdered

\* The swap that starts a flush: immutableMT was empty.
LEMMA SwapOrdered ==
  ASSUME Undisturbed, TypeInv, Ordered, NEW o \in Flushers, FlushSwap(o), Moved
  PROVE  Ordered' /\ immutableMT = NoEntries
<1>1. /\ flush.at = "free" /\ flush'.at = "write"
      /\ immutableMT' = memTable /\ memTable' = NoEntries
      /\ UNCHANGED <<L0, tables, clock>>
  BY DEF FlushSwap, NoFlush, tableVars, timeVars
<1>2. immutableMT = NoEntries /\ \A k \in Keys : memTable'[k] = None
  BY <1>1 DEF Ordered, FlushOrdered, NoEntries
<1>3. TablesOrdered' /\ FlushOrdered' /\ MemOrdered'
  BY <1>1, <1>2 DEF Ordered, TablesOrdered, FlushOrdered, MemOrdered
<1>4. \A k \in Keys : \A ts : After(ts, k) => After(ts, k)'
  BY <1>1, <1>2 DEF After
<1>5. \A c \in Clients : pc'[c] \in {"append", "mem"} =>
        pc[c] \in {"append", "mem"} /\ req'[c] = req[c] /\ req[c].key \in Keys
  BY ReqFields DEF Moved, InFlight, Appended
<1>6. PutsOrdered'
  <2>1. \A k \in Keys : After(clock, k)'
    BY <1>1, <1>4 DEF Ordered, PutsOrdered, After
  <2>2. ASSUME NEW c \in Clients, pc'[c] \in {"append", "mem"}
        PROVE  After(req[c].ts, req[c].key)'
    <3>1. After(req[c].ts, req[c].key) /\ req'[c] = req[c] /\ req[c].key \in Keys
      BY <1>5, <2>2 DEF Ordered, PutsOrdered
    <3> QED
      BY <1>1, <1>2, <3>1 DEF After
  <2> QED
    BY <2>1, <2>2 DEF PutsOrdered
<1> QED
  BY <1>2, <1>3, <1>6 DEF Ordered

\* A step of a flush that moves versions or drops copies of them.
LEMMA PutsKept ==
  ASSUME TypeInv, Moved, UNCHANGED clock, PutsOrdered,
         \A k \in Keys : /\ memTable'[k] \in {memTable[k], None}
                         /\ immutableMT'[k] \in {memTable[k], immutableMT[k], None}
                         /\ \A t \in L0' : t \in L0 \/ t.data[k] = immutableMT[k]
  PROVE  PutsOrdered'
<1>1. \A k \in Keys : After(clock, k)'
  BY DEF PutsOrdered, After
<1>2. ASSUME NEW c \in Clients, pc'[c] \in {"append", "mem"}
      PROVE  After(req[c].ts, req[c].key)'
  <2>1. After(req[c].ts, req[c].key) /\ req'[c] = req[c] /\ req[c].key \in Keys
    BY <1>2, ReqFields DEF PutsOrdered, Moved, InFlight, Appended
  <2> QED
    BY <2>1 DEF After
<1> QED
  BY <1>1, <1>2 DEF PutsOrdered

\* WriteFromMemTable publishes immutableMT as the newest table.
LEMMA WriteOrdered ==
  ASSUME Undisturbed, TypeInv, Ordered, FlushWrite, Moved
  PROVE  Ordered'
<1>1. /\ flush.at = "write" /\ flush'.at = "clear" /\ tables' = tables + 1
      /\ L0' = L0 \cup {[id |-> tables + 1, data |-> immutableMT]}
      /\ UNCHANGED <<memTable, immutableMT, clock>>
  BY DEF FlushWrite, memVars, timeVars, TypeInv, CoreOK
<1>2. tables \in Nat /\ \A t \in L0 : t.id \in Nat /\ t.id <= tables
  BY EntryTimes DEF Ordered, TablesOrdered
<1>3. ASSUME NEW t \in L0', NEW u \in L0'
      PROVE  /\ t.id <= tables'
             /\ t.id = u.id => t = u
             /\ \A k \in Keys : t.id < u.id /\ t.data[k] # None /\ u.data[k] # None =>
                  t.data[k].ts < u.data[k].ts
  BY <1>1, <1>2 DEF Ordered, TablesOrdered, FlushOrdered
<1>4. ASSUME NEW t \in L0', NEW k \in Keys, t.data[k] # None
      PROVE  \E u \in L0' : u.data[k] # None /\ \A v \in L0' : v.data[k] # None => v.id <= u.id
  <2> DEFINE new == [id |-> tables + 1, data |-> immutableMT]
  <2>1. CASE immutableMT[k] # None
    <3>1. new \in L0' /\ new.data[k] # None /\ \A v \in L0' : v.id <= new.id
      BY <1>1, <1>2, <2>1
    <3> QED
      BY <3>1
  <2>2. CASE immutableMT[k] = None
    <3>1. \A v \in L0' : v.data[k] # None => v \in L0
      BY <1>1, <2>2
    <3>2. PICK u \in L0 : u.data[k] # None /\ \A v \in L0 : v.data[k] # None => v.id <= u.id
      BY <1>4, <3>1 DEF Ordered, TablesOrdered
    <3> QED
      BY <1>1, <3>1, <3>2
  <2> QED
    BY <2>1, <2>2
<1>7. TablesOrdered'
  BY <1>3, <1>4 DEF TablesOrdered
<1>5. FlushOrdered' /\ MemOrdered'
  BY <1>1 DEF Ordered, FlushOrdered, MemOrdered
<1>6. PutsOrdered'
  BY <1>1, PutsKept DEF Ordered
<1> QED
  BY <1>5, <1>6, <1>7 DEF Ordered

\* The flush ends: immutableMT is dropped.
LEMMA ClearOrdered ==
  ASSUME Undisturbed, TypeInv, Ordered, FlushClear, Moved
  PROVE  Ordered'
<1>1. /\ flush'.at = "free" /\ immutableMT' = NoEntries
      /\ \A k \in Keys : immutableMT'[k] = None
      /\ UNCHANGED <<memTable, L0, tables, clock>>
  BY DEF FlushClear, NoFlush, NoEntries, tableVars, timeVars
<1>2. TablesOrdered' /\ FlushOrdered' /\ MemOrdered'
  BY <1>1 DEF Ordered, TablesOrdered, FlushOrdered, MemOrdered
<1>3. PutsOrdered'
  BY <1>1, PutsKept DEF Ordered
<1> QED
  BY <1>2, <1>3 DEF Ordered

\* What Recover puts in the memtable: the last readable line of each key.
RecoverRules ==
  \A k \in Keys :
    /\ LinesOf(k) = {} => Recovered[k] = None
    /\ \A i \in LinesOf(k) :
         (\A j \in LinesOf(k) : j <= i) => Recovered[k] = EntryOf(log[i])
    /\ LinesOf(k) # {} =>
         \E i \in LinesOf(k) : (\A j \in LinesOf(k) : j <= i)
LEMMA Replays ==
  TypeInv => RecoverRules
<1> SUFFICES ASSUME TypeInv, NEW k \in Keys
             PROVE  /\ LinesOf(k) = {} => Recovered[k] = None
                    /\ \A i \in LinesOf(k) :
                         (\A j \in LinesOf(k) : j <= i) => Recovered[k] = EntryOf(log[i])
                    /\ LinesOf(k) # {} =>
                         \E i \in LinesOf(k) : (\A j \in LinesOf(k) : j <= i)
  BY Zenon DEF RecoverRules
<1>1. LinesOf(k) # {} => /\ LastOf(LinesOf(k)) \in LinesOf(k)
                        /\ \A j \in LinesOf(k) : j <= LastOf(LinesOf(k))
                        /\ Recovered[k] = EntryOf(log[LastOf(LinesOf(k))])
  BY LastLine
<1>2. ASSUME NEW i \in LinesOf(k), \A j \in LinesOf(k) : j <= i
      PROVE  i = LastOf(LinesOf(k))
  <2>1. i \in Nat /\ LastOf(LinesOf(k)) \in Nat
    BY <1>1 DEF TypeInv, CoreOK, LinesOf
  <2> QED
    BY <1>1, <1>2, <2>1
<1>3. LinesOf(k) = {} => Recovered[k] = None
  BY Zenon DEF Recovered
<1> QED
  BY <1>1, <1>2, <1>3, Zenon

\* Recover restores versions of the log, which are earlier than the clock.
LEMMA RecoveredTimes ==
  ASSUME TypeInv, LinesInv, NEW k \in Keys, Recovered[k] # None
  PROVE  Recovered[k].ts < clock /\ \E i \in LinesOf(k) : EntryOf(log[i]) = Recovered[k]
<1>1. PICK i \in LinesOf(k) : Recovered[k] = EntryOf(log[i])
  BY Replays DEF RecoverRules
<1> QED
  BY <1>1 DEF LinesInv, LinesOf, EntryOf

\* A restart: the versions are those of the log.
LEMMA CrashOrdered ==
  ASSUME Undisturbed, TypeInv, LinesInv, Crash
  PROVE  Ordered'
<1>1. /\ L0' = {} /\ immutableMT' = NoEntries /\ memTable' = Recovered /\ flush'.at = "free"
      /\ clock' = clock /\ \A k \in Keys : immutableMT'[k] = None
      /\ \A c \in Clients : pc'[c] = "idle"
  BY DEF Crash, NoFlush, NoEntries, timeVars
<1>2. \A k \in Keys : memTable'[k] # None => memTable'[k].ts < clock
  BY <1>1, RecoveredTimes
<1>3. PutsOrdered'
  BY <1>1, <1>2 DEF PutsOrdered, After
<1> QED
  BY <1>1, <1>3 DEF Ordered, TablesOrdered, FlushOrdered, MemOrdered

\* Every step keeps the order.
LEMMA OrderedStep ==
  ASSUME Undisturbed, TypeInv, MutationsInv, LinesInv, compactJobs = {}, Ordered, [Next]_vars
  PROVE  Ordered'
<1>1. ASSUME NEW c \in Clients, MemPut(c) PROVE Ordered'
  BY <1>1, PutOrdered
<1>2. CASE Crash
  BY <1>2, CrashOrdered
<1>3. ASSUME \/ \E o \in Flushers : FlushSwap(o)
             \/ FlushWrite \/ FlushClear
      PROVE  Ordered'
  <2>1. \A c \in Clients : ~Starts(c) /\ ~LogAppend(c)
    <3>1. flush' # flush
      BY <1>3 DEF FlushSwap, FlushWrite, FlushClear, NoFlush, TypeInv, CoreOK
    <3> QED
      BY <3>1, Zenon DEF Starts, BeginMutation, LogAppend, flushVars
  <2>2. Moved
    BY <2>1, StepKinds
  <2> QED
    BY <1>3, <2>2, SwapOrdered, WriteOrdered, ClearOrdered
<1>4. CASE /\ \A c \in Clients : ~MemPut(c)
           /\ \A o \in Flushers : ~FlushSwap(o)
           /\ ~FlushWrite /\ ~FlushClear /\ ~Crash
  BY <1>4, StoreSteps, SameOrdered
<1> QED
  BY <1>1, <1>2, <1>3, <1>4

------------------------------------------------------------------------------
\* What a lookup below the cache finds, without the search of the tables.
Newest(t, k) == t.data[k] # None /\ \A u \in L0 : u.data[k] # None => u.id <= t.id
GetRules ==
  \A k \in Keys :
    /\ memTable[k] # None => StoreGet(k) = memTable[k]
    /\ memTable[k] = None /\ immutableMT[k] # None => StoreGet(k) = immutableMT[k]
    /\ memTable[k] = None /\ immutableMT[k] = None /\ ~InLevels(k) => StoreGet(k) = None
    /\ \A t \in L0 : memTable[k] = None /\ immutableMT[k] = None /\ Newest(t, k) =>
                     StoreGet(k) = t.data[k]
    /\ InLevels(k) => \E t \in L0 : Newest(t, k)

\* Of two tables with the key, the later written is found.
LEMMA NewestIsLatest ==
  ASSUME TypeInv, Ordered, NEW k \in Keys, NEW t \in L0, Newest(t, k)
  PROVE  SSTableGet(k) = t.data[k]
<1>1. \A u \in L0 : u.id \in Nat /\ (u.data[k] # None => u.data[k].ts \in Nat)
  BY EntryTimes
<1>2. \A u \in L0 : u.data[k] # None /\ u # t => u.data[k].ts < t.data[k].ts
  BY <1>1 DEF Newest, Ordered, TablesOrdered
<1>3. IsLatest(t, k) /\ InLevels(k)
  BY <1>1, <1>2 DEF Newest, IsLatest, Better, InLevels
<1>4. \A u \in L0 : IsLatest(u, k) => u = t
  BY <1>1, <1>2 DEF Newest, IsLatest, Better
<1>5. (CHOOSE u \in L0 : IsLatest(u, k)) = t
  BY <1>3, <1>4, Zenon
<1> QED
  BY <1>3, <1>5, Zenon DEF SSTableGet

LEMMA NewestExists ==
  ASSUME Ordered, NEW k \in Keys, InLevels(k)
  PROVE  \E t \in L0 : Newest(t, k)
BY DEF Ordered, TablesOrdered, InLevels, Newest

LEMMA Gets ==
  TypeInv /\ Ordered => GetRules
<1> SUFFICES ASSUME TypeInv, Ordered, NEW k \in Keys
             PROVE  /\ memTable[k] # None => StoreGet(k) = memTable[k]
                    /\ memTable[k] = None /\ immutableMT[k] # None =>
                         StoreGet(k) = immutableMT[k]
                    /\ memTable[k] = None /\ immutableMT[k] = None /\ ~InLevels(k) =>
                         StoreGet(k) = None
                    /\ \A t \in L0 :
                         memTable[k] = None /\ immutableMT[k] = None /\ Newest(t, k) =>
                           StoreGet(k) = t.data[k]
                    /\ InLevels(k) => \E t \in L0 : Newest(t, k)
  BY Zenon DEF GetRules
<1>1. \A t \in L0 : Newest(t, k) => SSTableGet(k) = t.data[k]
  BY NewestIsLatest
<1>2. InLevels(k) => \E t \in L0 : Newest(t, k)
  BY NewestExists
<1>3. ~InLevels(k) => SSTableGet(k) = None
  BY Zenon DEF SSTableGet
<1> QED
  BY <1>1, <1>2, <1>3, Zenon DEF StoreGet, MemGet

\* A flush moves versions and a lookup keeps finding them.
LEMMA StoreKept ==
  ASSUME TypeInv, Ordered, GetRules, GetRules', NEW k \in Keys,
         \/ UNCHANGED <<memTable, immutableMT, L0>>
         \/ \E o \in Flushers : FlushSwap(o) /\ immutableMT = NoEntries
         \/ FlushWrite
         \/ FlushClear
  PROVE  StoreGet(k)' = StoreGet(k)
<1> USE DEF GetRules
<1>0. tables \in Nat /\ \A t \in L0 : t.id \in Nat /\ t.id <= tables
  BY EntryTimes, SMTT(30) DEF Ordered, TablesOrdered
<1>1. CASE UNCHANGED <<memTable, immutableMT, L0>>
  <2>1. (InLevels(k)' <=> InLevels(k)) /\ \A t : Newest(t, k)' <=> Newest(t, k)
    BY <1>1, SMTT(30) DEF InLevels, Newest
  <2> QED
    BY <1>1, <2>1, SMTT(30)
<1>2. ASSUME NEW o \in Flushers, FlushSwap(o), immutableMT = NoEntries
      PROVE  StoreGet(k)' = StoreGet(k)
  <2>1. /\ immutableMT'[k] = memTable[k] /\ memTable'[k] = None /\ immutableMT[k] = None
        /\ L0' = L0
    BY <1>2, SMTT(30) DEF FlushSwap, NoEntries, tableVars
  <2>2. (InLevels(k)' <=> InLevels(k)) /\ \A t : Newest(t, k)' <=> Newest(t, k)
    BY <2>1, SMTT(30) DEF InLevels, Newest
  <2> QED
    BY <2>1, <2>2
<1>3. CASE FlushWrite
  <2>1. /\ memTable'[k] = memTable[k] /\ immutableMT'[k] = immutableMT[k]
        /\ L0' = L0 \cup {[id |-> tables + 1, data |-> immutableMT]}
    BY <1>3 DEF FlushWrite, memVars
  <2>2. CASE immutableMT[k] # None
    BY <2>1, <2>2, SMTT(30)
  <2>3. CASE immutableMT[k] = None
    <3>1. \A t : t \in L0' /\ t.data[k] # None <=> t \in L0 /\ t.data[k] # None
      BY <2>1, <2>3, SMTT(30)
    <3>2. (InLevels(k)' <=> InLevels(k)) /\ \A t \in L0 : Newest(t, k)' <=> Newest(t, k)
      BY <3>1 DEF InLevels, Newest
    <3> QED
      BY <2>1, <2>3, <3>2, SMTT(30)
  <2> QED
    BY <2>2, <2>3
<1>4. CASE FlushClear
  <2>1. /\ memTable'[k] = memTable[k] /\ immutableMT'[k] = None /\ L0' = L0
        /\ [id |-> tables, data |-> immutableMT] \in L0
    BY <1>4, SMTT(30) DEF FlushClear, NoEntries, tableVars, Ordered, FlushOrdered
  <2>2. (InLevels(k)' <=> InLevels(k)) /\ \A t : Newest(t, k)' <=> Newest(t, k)
    BY <2>1, SMTT(30) DEF InLevels, Newest
  <2>3. immutableMT[k] # None => Newest([id |-> tables, data |-> immutableMT], k)
    BY <1>0 DEF Newest
  <2> QED
    BY <2>1, <2>2, <2>3, SMTT(30)
<1> QED
  BY <1>1, <1>2, <1>3, <1>4

\* A lookup finds what a restart would recover, unless a mutation of the key has
\* been appended and is not put yet; a mutation that has been appended is the
\* last of its key; and a lookup finds versions of the log only.
Pending(k) == \E c \in Clients : pc[c] = "mem" /\ req[c].key = k
Fresh ==
  /\ \A k \in Keys : ~Pending(k) => StoreGet(k) = Recovered[k]
  /\ \A c \in Clients : pc[c] \in Appended => Recovered[req[c].key] = ReqEntry(req[c])
  /\ \A k \in Keys : StoreGet(k) # None =>
       \E i \in LinesOf(k) : EntryOf(log[i]) = StoreGet(k)

\* What an append changes of what a restart would recover.
LEMMA AppendRecovered ==
  ASSUME TypeInv, TypeInv', LinesInv, NEW c \in Clients, LogAppend(c)
  PROVE  /\ Recovered[req[c].key]' = ReqEntry(req[c])
         /\ \A k \in Keys \ {req[c].key} : Recovered[k]' = Recovered[k]
         /\ \A k \in Keys : \A i \in LinesOf(k) : i \in LinesOf(k)' /\ log'[i] = log[i]
<1>1. AppendsLine(c) /\ req[c].key \in Keys
  BY AppendStep, ReqFields DEF LinesInv
<1>2. RecoverRules /\ RecoverRules'
  <2>1. (TypeInv => RecoverRules)'
    BY Replays, PTL
  <2> QED
    BY <2>1, Replays
<1>3. \A k \in Keys : \A i \in LinesOf(k) : i \in LinesOf(k)' /\ log'[i] = log[i]
  BY <1>1 DEF AppendsLine, LinesOf
<1>4. \A k \in Keys \ {req[c].key} : LinesOf(k)' = LinesOf(k)
  BY <1>1 DEF AppendsLine, LinesOf, NewLine
<1>5. ASSUME NEW k \in Keys, k = req[c].key PROVE Recovered'[k] = ReqEntry(req[c])
  <2>1. /\ Len(log) + 1 \in LinesOf(k)'
        /\ \A j \in LinesOf(k)' : j <= Len(log) + 1
    BY <1>1, <1>5 DEF AppendsLine, LinesOf, NewLine
  <2>2. EntryOf(log'[Len(log) + 1]) = ReqEntry(req[c])
    BY <1>1 DEF AppendsLine, NewLine, EntryOf, ReqEntry
  <2>3. Recovered'[k] = EntryOf(log'[Len(log) + 1])
    BY <1>2, <2>1 DEF RecoverRules
  <2> QED
    BY <2>2, <2>3
<1>6. Recovered[req[c].key]' = ReqEntry(req[c])
  <2>1. (req[c].key)' = req[c].key
    BY AppendStep DEF LinesInv
  <2> QED
    BY <1>1, <1>5, <2>1
<1>7. ASSUME NEW k \in Keys \ {req[c].key} PROVE Recovered[k]' = Recovered[k]
  BY <1>2, <1>3, <1>4 DEF RecoverRules
<1> QED
  BY <1>3, <1>6, <1>7, SMTT(30)

\* A mutation that is to be put stays so until it is put, or the node crashes.
LEMMA MemStays ==
  ASSUME TypeInv, [Next]_vars, ~Crash, NEW d \in Clients, pc[d] = "mem", ~MemPut(d)
  PROVE  pc'[d] = "mem" /\ req'[d] = req[d]
<1> USE DEF TypeInv, CoreOK
<1>1. ASSUME NEW c \in Clients, pc[c] # "mem", Return(c) PROVE pc'[d] = "mem" /\ req'[d] = req[d]
  BY <1>1 DEF Return
<1>2. ASSUME NEW c \in Clients, pc[c] # "mem", NEW l, Goto(c, l)
      PROVE  pc'[d] = "mem" /\ req'[d] = req[d]
  BY <1>2 DEF Goto
<1>3. ASSUME NEW c \in Clients, pc[c] # "mem", NEW e, Found(c, e)
      PROVE  pc'[d] = "mem" /\ req'[d] = req[d]
  BY <1>1, <1>3 DEF Found
<1>4. ASSUME NEW c \in Clients, ClientStep(c) PROVE pc'[d] = "mem" /\ req'[d] = req[d]
  <2>1. CASE MemPut(c)
    BY <2>1, Zenon DEF MemPut, Goto
  <2>2. CASE LogAppend(c) \/ WriteCache(c) \/ InlineFlush(c)
    BY <1>2, <2>2 DEF LogAppend, WriteCache, InlineFlush
  <2>3. CASE \/ LogAppendRefused(c) \/ LogAppendTorn(c) \/ LogAppendSyncFails(c)
             \/ RepairCache(c) \/ DeleteCache(c) \/ NoFlushNeeded(c) \/ SubmitFlush(c)
             \/ ReadFill(c)
    <3>1. pc[c] # "mem" /\ Return(c)
      BY <2>3, Zenon DEF LogAppendRefused, LogAppendTorn, LogAppendSyncFails, RepairCache,
         DeleteCache, NoFlushNeeded, SubmitFlush, ReadFill
    <3> QED
      BY <1>1, <1>4, <3>1, Zenon
  <2>4. CASE ReadMem(c) \/ ReadSSTables(c)
    BY <1>1, <1>2, <1>3, <2>4, Zenon DEF ReadMem, ReadSSTables
  <2> QED
    BY <1>4, <2>1, <2>2, <2>3, <2>4, Zenon DEF ClientStep
<1>5. CASE FlushStep
  <2>1. ASSUME NEW o \in Flushers, o # Pool => pc[o] # "mem", FlushReturns(o)
        PROVE  pc'[d] = "mem" /\ req'[d] = req[d]
    BY <1>1, <2>1 DEF FlushReturns, Flushers
  <2>2. ASSUME NEW o \in Flushers, FlushEmpty(o)
        PROVE  pc'[d] = "mem" /\ req'[d] = req[d]
    BY <2>1, <2>2 DEF FlushEmpty, FlushCalled
  <2>3. ASSUME NEW o \in Flushers, FlushSwap(o)
        PROVE  pc'[d] = "mem" /\ req'[d] = req[d]
    <3>1. CASE o = Pool
      BY <2>3, <3>1 DEF FlushSwap
    <3>2. CASE o # Pool
      BY <1>2, <2>3, <3>2 DEF FlushSwap, FlushCalled, Flushers
    <3> QED
      BY <3>1, <3>2
  <2>4. CASE FlushWrite
    BY <2>4 DEF FlushWrite
  <2>5. CASE FlushWriteFails \/ FlushClear
    <3>1. FlushReturns(flush.owner) /\ flush.at # "free"
      BY <2>5 DEF FlushWriteFails, FlushClear
    <3>2. flush.owner \in Flushers /\ (flush.owner # Pool => pc[flush.owner] = "flushing")
      BY <3>1 DEF FlushInv, Flushers
    <3> QED
      BY <2>1, <3>1, <3>2
  <2> QED
    BY <1>5, <2>2, <2>3, <2>4, <2>5, Zenon DEF FlushStep
<1>6. ASSUME NEW c \in Clients, NEW k \in Keys,
             (\E kind \in Mutations : BeginMutation(c, k, kind)) \/ ReadCache(c, k)
      PROVE  pc'[d] = "mem" /\ req'[d] = req[d]
  BY <1>6, Zenon DEF BeginMutation, ReadCache
<1>7. CASE CompactionStep \/ Rotate \/ Tick
  BY <1>7, Zenon DEF CompactionStep, CheckCompaction, CompactFails, RemoveTables, Rotate, Tick
<1>8. CASE UNCHANGED vars
  BY <1>8 DEF vars
<1> QED
  BY <1>4, <1>5, <1>6, <1>7, <1>8, Zenon DEF Next, ReadHit

\* A step that leaves the log and what lookups find alone.
LEMMA FreshKept ==
  ASSUME Fresh, UNCHANGED log, \A k \in Keys : StoreGet(k)' = StoreGet(k),
         \A c \in Clients : pc[c] = "mem" => pc'[c] = "mem" /\ req'[c] = req[c],
         \A c \in Clients : pc'[c] \in Appended => pc[c] \in Appended /\ req'[c] = req[c]
  PROVE  Fresh'
<1>1. (\A k \in Keys : LinesOf(k)' = LinesOf(k)) /\ Recovered' = Recovered
  BY Zenon DEF LinesOf, Recovered
<1>2. \A k \in Keys : Pending(k) => Pending(k)'
  BY SMTT(30) DEF Pending
<1>3. \A k \in Keys : ~Pending(k)' => StoreGet(k)' = Recovered'[k]
  BY <1>1, <1>2, Zenon DEF Fresh
<1>4. \A c \in Clients : pc'[c] \in Appended => Recovered'[req'[c].key] = ReqEntry(req'[c])
  BY <1>1 DEF Fresh
<1>5. \A k \in Keys : StoreGet(k)' # None =>
        \E i \in LinesOf(k)' : EntryOf(log'[i]) = StoreGet(k)'
  BY <1>1 DEF Fresh
<1> QED
  BY <1>3, <1>4, <1>5, Zenon DEF Fresh

\* An append makes a mutation pending, and the last of its key.
LEMMA AppendFresh ==
  ASSUME Undisturbed, TypeInv, TypeInv', MutationsInv, LinesInv, Ordered, GetRules, GetRules',
         Fresh, NEW c \in Clients, LogAppend(c)
  PROVE  Fresh' /\ \A k \in Keys : StoreGet(k)' = StoreGet(k)
<1>1. /\ pc[c] = "append" /\ pc'[c] = "mem" /\ req' = req /\ req[c].key \in Keys
      /\ \A d \in Clients \ {c} : pc'[d] = pc[d]
      /\ UNCHANGED <<memTable, immutableMT, L0>>
  BY AppendStep, ReqFields DEF LinesInv
<1>2. \A k \in Keys : StoreGet(k)' = StoreGet(k)
  BY <1>1, StoreKept
<1>3. /\ Recovered'[req[c].key] = ReqEntry(req[c])
      /\ \A k \in Keys \ {req[c].key} : Recovered'[k] = Recovered[k]
      /\ \A k \in Keys : \A i \in LinesOf(k) : i \in LinesOf(k)' /\ log'[i] = log[i]
  BY <1>1, AppendRecovered
<1>4. \A k \in Keys : ~Pending(k)' => ~Pending(k) /\ k # req[c].key
  BY <1>1 DEF Pending
<1>5. \A k \in Keys : ~Pending(k)' => StoreGet(k)' = Recovered'[k]
  BY <1>2, <1>3, <1>4 DEF Fresh
<1>6. ASSUME NEW d \in Clients, pc'[d] \in Appended
      PROVE  Recovered'[req'[d].key] = ReqEntry(req'[d])
  <2>1. CASE d = c
    BY <1>1, <1>3, <2>1
  <2>2. CASE d # c
    <3>1. pc[d] \in Appended /\ req[d].key \in Keys \ {req[c].key}
      BY <1>1, <1>6, <2>2, OneInFlight, ReqFields DEF Undisturbed, InFlight, Appended
    <3> QED
      BY <1>1, <1>3, <3>1 DEF Fresh
  <2> QED
    BY <2>1, <2>2
<1>7. \A k \in Keys : StoreGet(k)' # None =>
        \E i \in LinesOf(k)' : EntryOf(log'[i]) = StoreGet(k)'
  BY <1>2, <1>3, SMTT(30) DEF Fresh
<1> QED
  BY <1>2, <1>5, <1>6, <1>7, Zenon DEF Fresh

\* A put makes the last mutation of its key the one a lookup finds.
LEMMA PutFresh ==
  ASSUME Undisturbed, TypeInv, TypeInv', MutationsInv, LinesInv, GetRules, GetRules',
         Fresh, NEW c \in Clients, MemPut(c)
  PROVE  /\ Fresh'
         /\ \A k \in Keys :
              StoreGet(k)' = IF k = req[c].key THEN ReqEntry(req[c]) ELSE StoreGet(k)
<1>1. /\ pc[c] = "mem" /\ pc'[c] = "cache" /\ req' = req /\ req[c].key \in Keys
      /\ \A d \in Clients \ {c} : pc'[d] = pc[d]
      /\ memTable' = [memTable EXCEPT ![req[c].key] = ReqEntry(req[c])]
      /\ UNCHANGED <<log, immutableMT, L0>>
  BY ReqFields, SMTT(30) DEF MemPut, Goto, TypeInv, CoreOK, tableVars, logVars
<1>2. /\ memTable'[req[c].key] = ReqEntry(req[c]) /\ ReqEntry(req[c]) # None
      /\ \A k \in Keys \ {req[c].key} : memTable'[k] = memTable[k]
  <2>1. ReqEntry(req[c]) \in Entry
    BY ReqFields, SMTT(30) DEF ReqEntry, Entry
  <2> QED
    BY <1>1, <2>1, EngineAssumption, SMTT(30) DEF TypeInv, CoreOK, MemTables
<1>3. (\A k \in Keys : LinesOf(k)' = LinesOf(k)) /\ Recovered' = Recovered
  BY <1>1, Zenon DEF LinesOf, Recovered
<1>4. ASSUME NEW k \in Keys
      PROVE  StoreGet(k)' = IF k = req[c].key THEN ReqEntry(req[c]) ELSE StoreGet(k)
  <2>1. (InLevels(k)' <=> InLevels(k)) /\ \A t : Newest(t, k)' <=> Newest(t, k)
    BY <1>1, Zenon DEF InLevels, Newest
  <2> QED
    BY <1>1, <1>2, <2>1, SMTT(30) DEF GetRules
<1>5. Recovered[req[c].key] = ReqEntry(req[c])
  BY <1>1 DEF Fresh, Appended
<1>6. \A k \in Keys \ {req[c].key} : Pending(k) => Pending(k)'
  BY <1>1 DEF Pending
<1>7. \A k \in Keys : ~Pending(k)' => StoreGet(k)' = Recovered'[k]
  BY <1>3, <1>4, <1>5, <1>6, SMTT(30) DEF Fresh
<1>8. \A d \in Clients : pc'[d] \in Appended => Recovered'[req'[d].key] = ReqEntry(req'[d])
  BY <1>1, <1>3, SMTT(30) DEF Fresh, Appended
<1>9. \A k \in Keys : StoreGet(k)' # None =>
        \E i \in LinesOf(k)' : EntryOf(log'[i]) = StoreGet(k)'
  BY <1>1, <1>2, <1>3, <1>4, <1>5, RecoveredTimes, SMTT(30) DEF Fresh
<1> QED
  BY <1>4, <1>7, <1>8, <1>9, Zenon DEF Fresh

\* A restart shows the last mutations.
LEMMA CrashFresh ==
  ASSUME TypeInv, LinesInv, GetRules', Crash
  PROVE  Fresh' /\ \A k \in Keys : StoreGet(k)' = Recovered[k]
<1>1. /\ memTable' = Recovered /\ immutableMT' = NoEntries /\ L0' = {} /\ UNCHANGED log
      /\ \A k \in Keys : immutableMT'[k] = None /\ ~InLevels(k)'
      /\ \A c \in Clients : pc'[c] = "idle"
  BY DEF Crash, NoEntries, InLevels
<1>2. \A k \in Keys : StoreGet(k)' = Recovered[k]
  BY <1>1 DEF GetRules
<1>3. (\A k \in Keys : LinesOf(k)' = LinesOf(k)) /\ Recovered' = Recovered
  BY <1>1, Zenon DEF LinesOf, Recovered
<1>4. \A k \in Keys : StoreGet(k)' # None =>
        \E i \in LinesOf(k)' : EntryOf(log'[i]) = StoreGet(k)'
  BY <1>1, <1>2, <1>3, RecoveredTimes
<1>5. \A c \in Clients : pc'[c] \notin Appended
  BY <1>1 DEF Appended
<1> QED
  BY <1>2, <1>3, <1>4, <1>5, Zenon DEF Fresh

\* The inductive invariant.
StoreInv == TypeInv /\ MutationsInv /\ LinesInv /\ compactJobs = {} /\ Ordered /\ Fresh

\* Every other step: nothing becomes durable or visible.
LEMMA OtherFresh ==
  ASSUME Undisturbed, StoreInv, TypeInv', GetRules', [Next]_vars, ~Crash,
         \A c \in Clients : ~LogAppend(c) /\ ~MemPut(c)
  PROVE  Fresh' /\ UNCHANGED log /\ \A k \in Keys : StoreGet(k)' = StoreGet(k)
<1> USE DEF StoreInv
<1>0. GetRules
  BY Gets
<1>1. \A k \in Keys : StoreGet(k)' = StoreGet(k)
  <2>1. ASSUME NEW o \in Flushers, FlushSwap(o) PROVE immutableMT = NoEntries
    BY <2>1 DEF Ordered, FlushOrdered, FlushSwap, NoFlush
  <2>2. CASE /\ \A o \in Flushers : ~FlushSwap(o)
             /\ ~FlushWrite /\ ~FlushClear
    BY <1>0, <2>2, StoreSteps, StoreKept
  <2>3. CASE \/ \E o \in Flushers : FlushSwap(o)
             \/ FlushWrite \/ FlushClear
    BY <1>0, <2>1, <2>3, StoreKept
  <2> QED
    BY <2>2, <2>3
<1>2. \A c \in Clients : pc[c] = "mem" => pc'[c] = "mem" /\ req'[c] = req[c]
  BY MemStays
<1>3. /\ UNCHANGED log
      /\ \A c \in Clients : pc'[c] \in Appended => pc[c] \in Appended /\ req'[c] = req[c]
  <2>1. ASSUME NEW c \in Clients, NEW k \in Keys, NEW kind \in Mutations,
               BeginMutation(c, k, kind)
        PROVE  /\ UNCHANGED log
               /\ \A d \in Clients : pc'[d] \in Appended => pc[d] \in Appended /\ req'[d] = req[d]
    BY <2>1, BeginStep, Zenon DEF Appended
  <2>2. CASE \A c \in Clients : ~Starts(c)
    BY <2>2, StepKinds DEF Moved, InFlight, Appended
  <2> QED
    BY <2>1, <2>2 DEF Starts
<1> QED
  BY <1>1, <1>2, <1>3, FreshKept

LEMMA StoreInvStep ==
  ASSUME Undisturbed, StoreInv, TypeInv', (compactJobs = {})', [Next]_vars
  PROVE  StoreInv' /\ GetRules /\ GetRules'
<1> USE DEF StoreInv
<1>1. MutationsInv' /\ LinesInv'
  BY MutationsStep, LinesStep DEF LinesInv
<1>2. Ordered'
  BY OrderedStep
<1>3. GetRules /\ GetRules'
  <2>1. (TypeInv /\ Ordered => GetRules)'
    BY Gets, PTL
  <2> QED
    BY <1>2, <2>1, Gets
<1>4. Fresh'
  <2>1. ASSUME NEW c \in Clients, LogAppend(c) PROVE Fresh'
    BY <1>3, <2>1, AppendFresh
  <2>2. ASSUME NEW c \in Clients, MemPut(c) PROVE Fresh'
    BY <1>3, <2>2, PutFresh
  <2>3. CASE Crash
    BY <1>3, <2>3, CrashFresh
  <2> QED
    BY <1>3, <2>1, <2>2, <2>3, OtherFresh
<1> QED
  BY <1>1, <1>2, <1>3, <1>4

LEMMA StoreInvInit ==
  ASSUME Init, TypeInv
  PROVE  StoreInv
<1> USE DEF Init
<1>1. MutationsInv /\ LinesInv
  BY EngineAssumption DEF MutationsInv, LinesInv, InFlight, Appended
<1>2. Ordered
  BY SMTT(30) DEF Ordered, TablesOrdered, FlushOrdered, MemOrdered, PutsOrdered, After, NoEntries, NoFlush
<1>3. \A k \in Keys : StoreGet(k) = None /\ Recovered[k] = None
  BY DEF StoreGet, MemGet, SSTableGet, InLevels, NoEntries, Recovered, LinesOf
<1>4. Fresh
  BY <1>3, SMTT(30) DEF Fresh, Appended
<1> QED
  BY <1>1, <1>2, <1>4 DEF StoreInv

LEMMA StoreInvCorrect ==
  ASSUME Undisturbed
  PROVE  Spec => []StoreInv
<1>1. Init /\ TypeInv => StoreInv
  BY StoreInvInit
<1>2. StoreInv /\ TypeInv' /\ (compactJobs = {})' /\ [Next]_vars => StoreInv'
  BY StoreInvStep
<1>3. Spec => [](compactJobs = {})
  BY NoJobs DEF Undisturbed
<1> QED
  BY <1>1, <1>2, <1>3, TypeInvCorrect, PTL DEF Spec

\* While no mutation of a key is in flight, a lookup below the cache finds what a
\* restart would recover, wherever flushes have put the versions of the key.
THEOREM StoreFreshCorrect ==
  ASSUME Undisturbed
  PROVE  Spec => []StoreFresh
<1>1. StoreInv => StoreFresh
  <2> SUFFICES ASSUME StoreInv, NEW k \in Keys, Quiet(k)
               PROVE  StoreGet(k) = Recovered[k]
    BY DEF StoreFresh
  <2>1. ~Pending(k)
    BY Zenon DEF Pending, Quiet, StoreInv, MutationsInv, InFlight, Appended
  <2> QED
    BY <2>1, Zenon DEF StoreInv, Fresh
<1> QED
  BY <1>1, StoreInvCorrect, PTL

------------------------------------------------------------------------------
\* What a step answers: one mutation that has been put, or none.
Answers(o) == pc[o] \in Appended \ {"mem"} /\ acked' = acked \cup {MutationOf(req[o])}
LEMMA AnswerSteps ==
  ASSUME TypeInv, [Next]_vars
  PROVE  UNCHANGED acked \/ \E o \in Clients : Answers(o)
<1> USE DEF histVars
<1>1. ASSUME NEW c \in Clients, ClientStep(c)
      PROVE  UNCHANGED acked \/ Answers(c)
  <2>1. CASE RepairCache(c) \/ DeleteCache(c) \/ NoFlushNeeded(c) \/ SubmitFlush(c)
    BY <2>1, SMTT(30) DEF RepairCache, DeleteCache, NoFlushNeeded, SubmitFlush, Ack, Answers,
       MutationOf, Appended
  <2>2. CASE ~(RepairCache(c) \/ DeleteCache(c) \/ NoFlushNeeded(c) \/ SubmitFlush(c))
    BY <1>1, <2>2, Zenon DEF ClientStep, LogAppend, LogAppendRefused, LogAppendTorn,
       LogAppendSyncFails, MemPut, WriteCache, InlineFlush, ReadMem, ReadSSTables, ReadFill
  <2> QED
    BY <2>1, <2>2
<1>2. CASE FlushStep
  <2>1. ASSUME NEW o \in Flushers, FlushReturns(o), o # Pool => pc[o] \in {"flushMu", "flushing"}
        PROVE  UNCHANGED acked \/ \E c \in Clients : Answers(c)
    BY <2>1 DEF FlushReturns, Flushers, Ack, Answers, MutationOf, Appended
  <2>2. ASSUME NEW o \in Flushers, FlushEmpty(o)
        PROVE  UNCHANGED acked \/ \E c \in Clients : Answers(c)
    BY <2>1, <2>2 DEF FlushEmpty, FlushCalled
  <2>3. ASSUME FlushWrite \/ \E o \in Flushers : FlushSwap(o)
        PROVE  UNCHANGED acked
    BY <2>3 DEF FlushWrite, FlushSwap
  <2>4. CASE FlushWriteFails \/ FlushClear
    <3>1. FlushReturns(flush.owner) /\ flush.at # "free"
      BY <2>4 DEF FlushWriteFails, FlushClear
    <3>2. flush.owner \in Flushers /\ (flush.owner # Pool => pc[flush.owner] = "flushing")
      BY <3>1 DEF TypeInv, FlushInv, Flushers
    <3> QED
      BY <2>1, <3>1, <3>2
  <2> QED
    BY <1>2, <2>2, <2>3, <2>4 DEF FlushStep
<1>3. CASE CompactionStep \/ Rotate \/ Tick \/ Crash
  BY <1>3, SMTT(30) DEF CompactionStep, CheckCompaction, CompactFails, RemoveTables, Rotate, Tick, Crash
<1>4. CASE UNCHANGED vars
  BY <1>4 DEF vars
<1>5. ASSUME NEW c \in Clients, NEW k \in Keys,
             \/ \E kind \in Mutations : BeginMutation(c, k, kind)
             \/ ReadHit(c, k) \/ ReadCache(c, k)
      PROVE  UNCHANGED acked
  BY <1>5, Zenon DEF BeginMutation, ReadHit, ReadCache, vars
<1> QED
  BY <1>1, <1>2, <1>3, <1>4, <1>5, Zenon DEF Next

\* The abstract state.
View == [k \in Keys |-> ViewOf(k)]
Shown(l) == [key |-> l.key, op |-> l.op, del |-> l.del]
ShownEntry(k, e) == IF e = None THEN None ELSE [key |-> k, op |-> e.op, del |-> e.del]

\* The history has the lines of the log, and a lookup shows lines of the log.
LEMMA HistoryLines ==
  ASSUME TypeInv
  PROVE  /\ Len(log) \in Nat /\ DOMAIN log = 1..Len(log) /\ DOMAIN HistoryOf = 1..Len(log)
         /\ HistoryOf \in Seq([key : Keys, op : Nat, del : BOOLEAN]) /\ Len(HistoryOf) = Len(log)
         /\ \A i \in DOMAIN log : /\ log[i] \in Line /\ HistoryOf[i] = Shown(log[i])
                                 /\ HistoryOf[i] \in [key : Keys, op : Nat, del : BOOLEAN]
<1>1. log \in Seq(Line) /\ Len(log) \in Nat /\ DOMAIN log = 1..Len(log)
  BY DEF TypeInv, CoreOK
<1>2. \A i \in DOMAIN log : log[i] \in Line
  BY <1>1
<1>3. HistoryOf = [i \in 1..Len(log) |-> Shown(log[i])]
  BY <1>1 DEF HistoryOf, Shown
<1>4. \A i \in 1..Len(log) : Shown(log[i]) \in [key : Keys, op : Nat, del : BOOLEAN]
  BY <1>1, <1>2, SMTT(30) DEF Shown, Line
<1>5. HistoryOf \in Seq([key : Keys, op : Nat, del : BOOLEAN]) /\ Len(HistoryOf) = Len(log)
  BY <1>1, <1>3, <1>4
<1> QED
  BY <1>1, <1>2, <1>3, <1>4, <1>5

LEMMA ViewShows ==
  ASSUME NEW k \in Keys
  PROVE  View[k] = ShownEntry(k, StoreGet(k))
BY Zenon DEF View, ViewOf, ShownEntry

LEMMA ShownLine ==
  ASSUME TypeInv, NEW k \in Keys, NEW i \in LinesOf(k)
  PROVE  ShownEntry(k, EntryOf(log[i])) = HistoryOf[i] /\ i \in DOMAIN HistoryOf
         /\ HistoryOf[i].key = k
<1>1. i \in DOMAIN log /\ log[i].key = k /\ log[i] \in Line
      /\ i \in DOMAIN HistoryOf /\ HistoryOf[i] = Shown(log[i])
  BY HistoryLines DEF LinesOf
<1>2. EntryOf(log[i]) # None
  <2>1. EntryOf(log[i]) \in Entry
    BY <1>1 DEF EntryOf, Entry, Line
  <2> QED
    BY <2>1, EngineAssumption
<1> QED
  BY <1>1, <1>2, SMTT(30) DEF ShownEntry, EntryOf, Shown

\* The initial states map to the initial state.
LEMMA RefinesInit ==
  ASSUME Init
  PROVE  Store!Init
<1>1. \A k \in Keys : StoreGet(k) = None
  BY DEF Init, StoreGet, MemGet, SSTableGet, InLevels, NoEntries
<1>2. [k \in Keys |-> ViewOf(k)] = [k \in Keys |-> None]
  BY <1>1 DEF ViewOf
<1>3. HistoryOf = <<>>
  <2>1. HistoryOf = [i \in 1..0 |-> Shown(log[i])]
    BY DEF Init, HistoryOf, Shown
  <2> QED
    BY <2>1
<1> QED
  BY <1>2, <1>3 DEF Init, Store!Init

\* A sequence that continues another by one element.
LEMMA AppendIs ==
  ASSUME NEW S, NEW s \in Seq(S), NEW t \in Seq(S), NEW m \in S, Len(t) = Len(s) + 1,
         \A i \in 1..Len(s) : t[i] = s[i], t[Len(s) + 1] = m
  PROVE  t = Append(s, m)
<1>1. /\ Append(s, m) \in Seq(S) /\ Len(Append(s, m)) = Len(s) + 1 /\ Len(s) \in Nat
      /\ \A i \in 1..Len(s) : Append(s, m)[i] = s[i]
      /\ Append(s, m)[Len(s) + 1] = m
  OBVIOUS
<1>2. \A i \in 1..Len(t) : t[i] = Append(s, m)[i]
  BY <1>1
<1> QED
  BY <1>1, <1>2

\* An append makes its mutation durable.
LEMMA AppendCommits ==
  ASSUME Undisturbed, StoreInv, TypeInv', NEW c \in Clients, LogAppend(c),
         \A k \in Keys : StoreGet(k)' = StoreGet(k)
  PROVE  Store!Next
<1> USE DEF StoreInv
<1> DEFINE m == Shown(NewLine(req[c]))
<1>1. /\ AppendsLine(c) /\ pc[c] = "append" /\ NewLine(req[c]) \in Line
      /\ log' = Append(log, NewLine(req[c])) /\ acked' = acked
  BY AppendStep, Zenon DEF LinesInv
<1>2. m.op = req[c].op /\ m \in [key : Keys, op : Nat, del : BOOLEAN]
  BY <1>1, Zenon DEF Shown, NewLine, Line
<1>3. m.op \in 1..MaxOps
  <2>1. req[c].op \in 1..ops /\ ops <= MaxOps /\ ops \in Nat /\ MaxOps \in Nat
    BY <1>1, EngineAssumption, Zenon DEF MutationsInv, InFlight, TypeInv, CoreOK
  <2> QED
    BY <1>2, <2>1, SMTT(30)
<1>4. m \in Store!Mutation
  BY <1>2, <1>3, SMTT(30) DEF Store!Mutation
<1>5. \A i \in DOMAIN HistoryOf : HistoryOf[i].op # m.op
  <2>1. \A i \in DOMAIN log : log[i].op # req[c].op
    BY <1>1, Zenon DEF LinesInv
  <2>2. \A i \in DOMAIN HistoryOf : i \in DOMAIN log /\ HistoryOf[i] = Shown(log[i])
    BY HistoryLines, Zenon
  <2>3. \A i \in DOMAIN log : Shown(log[i]).op = log[i].op
    BY DEF Shown
  <2> QED
    BY <1>2, <2>1, <2>2, <2>3, Zenon
<1>6. HistoryOf' = Append(HistoryOf, m)
  <2>1. /\ Len(log) \in Nat /\ DOMAIN log = 1..Len(log) /\ Len(HistoryOf) = Len(log)
        /\ HistoryOf \in Seq([key : Keys, op : Nat, del : BOOLEAN])
        /\ \A i \in 1..Len(log) : HistoryOf[i] = Shown(log[i])
    BY HistoryLines
  <2>2. HistoryOf' = [i \in 1..(Len(log) + 1) |-> Shown(log'[i])]
    BY <1>1, SMTT(30) DEF HistoryOf, Shown, AppendsLine
  <2>3. \A i \in 1..(Len(log) + 1) :
          Shown(log'[i]) = IF i <= Len(log) THEN HistoryOf[i] ELSE m
    BY <1>1, <2>1 DEF AppendsLine
  <2> HIDE DEF m
  <2>4. \A i \in 1..(Len(log) + 1) :
          Shown(log'[i]) \in [key : Keys, op : Nat, del : BOOLEAN]
    <3>1. \A i \in 1..Len(log) : HistoryOf[i] \in [key : Keys, op : Nat, del : BOOLEAN]
      BY <2>1, HistoryLines, SMTT(30)
    <3>2. ASSUME NEW i \in 1..(Len(log) + 1)
          PROVE  IF i <= Len(log) THEN i \in 1..Len(log) ELSE TRUE
      BY <2>1
    <3> QED
      BY <1>2, <2>3, <3>1, <3>2, Zenon
  <2>5. HistoryOf' \in Seq([key : Keys, op : Nat, del : BOOLEAN])
        /\ Len(HistoryOf') = Len(log) + 1
    BY <2>1, <2>2, <2>4
  <2>6. /\ HistoryOf'[Len(log) + 1] = m
        /\ \A i \in 1..Len(log) : HistoryOf'[i] = HistoryOf[i]
    BY <2>1, <2>2, <2>3
  <2>7. /\ Len(HistoryOf') = Len(HistoryOf) + 1 /\ HistoryOf'[Len(HistoryOf) + 1] = m
        /\ \A i \in 1..Len(HistoryOf) : HistoryOf'[i] = HistoryOf[i]
    BY <2>1, <2>5, <2>6, Zenon
  <2>8. ASSUME NEW s \in Seq([key : Keys, op : Nat, del : BOOLEAN]),
               NEW t \in Seq([key : Keys, op : Nat, del : BOOLEAN]),
               Len(t) = Len(s) + 1, t[Len(s) + 1] = m, \A i \in 1..Len(s) : t[i] = s[i]
        PROVE  t = Append(s, m)
    BY <1>2, <2>8, AppendIs, SMTT(30)
  <2> QED
    BY <2>1, <2>5, <2>7, <2>8, Zenon
<1>7. [k \in Keys |-> ViewOf(k)]' = [k \in Keys |-> ViewOf(k)]
  BY DEF ViewOf
<1>8. Store!Commit(m)
  BY <1>1, <1>5, <1>6, <1>7 DEF Store!Commit
<1> QED
  BY <1>4, <1>8 DEF Store!Next

\* The last line of a key, which a restart shows.
LEMMA LastShown ==
  ASSUME StoreInv, NEW k \in Keys, Recovered[k] # None
  PROVE  \E i \in LinesOf(k) : /\ \A j \in LinesOf(k) : j <= i
                               /\ EntryOf(log[i]) = Recovered[k]
BY Replays DEF RecoverRules, StoreInv

\* A put makes the last mutation of its key visible.
LEMMA PutApplies ==
  ASSUME Undisturbed, StoreInv, NEW c \in Clients, MemPut(c),
         \A k \in Keys :
           StoreGet(k)' = IF k = req[c].key THEN ReqEntry(req[c]) ELSE StoreGet(k)
  PROVE  Store!Next
<1> USE DEF StoreInv
<1>1. pc[c] = "mem" /\ UNCHANGED <<log, acked>>
  BY SMTT(30) DEF MemPut, logVars, histVars
<1>2. PICK k \in Keys : k = req[c].key
  BY <1>1, ReqFields
<1>3. Recovered[k] = ReqEntry(req[c]) /\ Recovered[k] # None
  <2>1. ReqEntry(req[c]) \in Entry
    BY ReqFields, Zenon DEF ReqEntry, Entry
  <2> QED
    BY <1>1, <1>2, <2>1, EngineAssumption, SMTT(30) DEF Fresh, Appended
<1>4. PICK i \in LinesOf(k) : /\ \A j \in LinesOf(k) : j <= i
                              /\ EntryOf(log[i]) = ReqEntry(req[c])
  BY <1>3, LastShown, SMTT(30)
<1>5. ShownEntry(k, ReqEntry(req[c])) = HistoryOf[i] /\ i \in DOMAIN HistoryOf
      /\ HistoryOf[i].key = k
  BY <1>4, ShownLine, SMTT(30)
<1>6. View' = [View EXCEPT ![k] = HistoryOf[i]]
  <2>1. \A x \in Keys : ViewOf(x)' = ShownEntry(x, StoreGet(x)')
    BY Zenon DEF ViewOf, ShownEntry
  <2>2. \A x \in Keys : ViewOf(x) = ShownEntry(x, StoreGet(x))
    BY Zenon DEF ViewOf, ShownEntry
  <2>3. \A x \in Keys : ViewOf(x)' = IF x = k THEN HistoryOf[i] ELSE ViewOf(x)
    BY <1>2, <1>5, <2>1, <2>2, SMTT(30)
  <2> QED
    BY <2>3, Zenon DEF View
<1>7. ASSUME View[k] # None PROVE \E j \in 1..i : HistoryOf[j] = View[k]
  <2>1. View[k] = ShownEntry(k, StoreGet(k)) /\ StoreGet(k) # None
    BY <1>7, ViewShows, SMTT(30) DEF ShownEntry
  <2>2. PICK j \in LinesOf(k) : EntryOf(log[j]) = StoreGet(k)
    BY <2>1, Zenon DEF Fresh
  <2>3. HistoryOf[j] = View[k] /\ j \in DOMAIN HistoryOf
    BY <2>1, <2>2, ShownLine, SMTT(30)
  <2>4. j \in 1..i
    BY <1>4, <1>5, <2>2, <2>3, HistoryLines, SMTT(30)
  <2> QED
    BY <2>3, <2>4, SMTT(30)
<1>8. UNCHANGED <<HistoryOf, acked>>
  BY <1>1, SMTT(30) DEF HistoryOf
<1>9. Store!Apply(i)
  BY <1>5, <1>6, <1>7, <1>8, SMTT(30) DEF Store!Apply, View
<1> QED
  BY <1>5, <1>9, SMTT(30) DEF Store!Next

\* Success is answered for the mutation a lookup finds.
LEMMA AnswerAnswers ==
  ASSUME Undisturbed, StoreInv, NEW o \in Clients, Answers(o), UNCHANGED log,
         \A k \in Keys : StoreGet(k)' = StoreGet(k)
  PROVE  Store!Next
<1> USE DEF StoreInv
<1>1. pc[o] \in Appended \ {"mem"} /\ acked' = acked \cup {MutationOf(req[o])}
  BY SMTT(30) DEF Answers
<1>2. PICK k \in Keys : k = req[o].key
  BY <1>1, ReqFields, Zenon DEF Appended
<1>3. ~Pending(k)
  BY <1>1, <1>2, OneInFlight, Zenon DEF Pending, InFlight, Appended, Undisturbed
<1>4. StoreGet(k) = ReqEntry(req[o]) /\ Recovered[k] = ReqEntry(req[o])
  BY <1>1, <1>2, <1>3, Zenon DEF Fresh
<1>5. Recovered[k] # None
  <2>1. ReqEntry(req[o]) \in Entry
    BY ReqFields, SMTT(30) DEF ReqEntry, Entry
  <2> QED
    BY <1>4, <2>1, EngineAssumption
<1>6. PICK i \in LinesOf(k) : EntryOf(log[i]) = Recovered[k]
  BY <1>5, LastShown
<1>7. HistoryOf[i] = View[k] /\ i \in DOMAIN HistoryOf /\ HistoryOf[i].key = k
  BY <1>4, <1>6, ShownLine, ViewShows, SMTT(30)
<1>8. MutationOf(req[o]) = [key |-> HistoryOf[i].key, op |-> HistoryOf[i].op]
  <2>1. HistoryOf[i].op = req[o].op
    BY <1>4, <1>6, <1>7, HistoryLines, SMTT(30) DEF Shown, EntryOf, ReqEntry
  <2> QED
    BY <1>2, <1>7, <2>1, SMTT(30) DEF MutationOf
<1>9. i \in i..Len(HistoryOf)
  BY <1>7, HistoryLines, SMTT(30)
<1>10. UNCHANGED <<HistoryOf, View>>
  BY DEF HistoryOf, View, ViewOf
<1>11. Store!Answer(i)
  BY <1>1, <1>7, <1>8, <1>9, <1>10, Zenon DEF Store!Answer, View
<1> QED
  BY <1>7, <1>11, SMTT(30) DEF Store!Next

\* A crash and the recovery after it.
LEMMA CrashRestarts ==
  ASSUME StoreInv, Crash, \A k \in Keys : StoreGet(k)' = Recovered[k]
  PROVE  Store!Next
<1> USE DEF StoreInv
<1>1. UNCHANGED <<log, acked>>
  BY DEF Crash
<1>2. ASSUME NEW k \in Keys
      PROVE  ViewOf(k)' = IF Store!PositionsOf(k) = {} THEN None
                          ELSE HistoryOf[Store!LastPosition(k)]
  <2>1. Store!PositionsOf(k) = LinesOf(k)
    <3>1. \A i \in DOMAIN log : log[i].ok /\ HistoryOf[i].key = log[i].key
      BY HistoryLines DEF LinesInv, Shown
    <3>2. DOMAIN HistoryOf = DOMAIN log
      BY HistoryLines
    <3> QED
      BY <3>1, <3>2 DEF Store!PositionsOf, LinesOf
  <2>2. Store!LastPosition(k) = LastOf(LinesOf(k))
    BY <2>1, Zenon DEF Store!LastPosition, LastOf
  <2>3. ViewOf(k)' = ShownEntry(k, Recovered[k])
    BY Zenon DEF ViewOf, ShownEntry
  <2>4. CASE LinesOf(k) = {}
    BY <2>1, <2>3, <2>4, Replays, SMTT(30) DEF RecoverRules, ShownEntry
  <2>5. CASE LinesOf(k) # {}
    <3>1. LastOf(LinesOf(k)) \in LinesOf(k)
          /\ Recovered[k] = EntryOf(log[LastOf(LinesOf(k))])
      BY <2>5, LastLine
    <3> QED
      BY <2>1, <2>2, <2>3, <2>5, <3>1, ShownLine, SMTT(30)
  <2> QED
    BY <2>4, <2>5
<1>3. UNCHANGED HistoryOf
  BY <1>1 DEF HistoryOf
<1>4. Store!Restart
  BY <1>1, <1>2, <1>3 DEF Store!Restart
<1> QED
  BY <1>4 DEF Store!Next

\* Every step of the engine is a step of the store, or changes nothing of it.
LEMMA RefinesStep ==
  ASSUME Undisturbed, StoreInv, TypeInv', (compactJobs = {})', [Next]_vars
  PROVE  [Store!Next]_<<HistoryOf, [k \in Keys |-> ViewOf(k)], acked>>
<1>0. /\ GetRules /\ GetRules' /\ TypeInv /\ MutationsInv /\ LinesInv /\ Ordered /\ Fresh
  BY StoreInvStep DEF StoreInv
<1>1. ASSUME NEW c \in Clients, LogAppend(c) PROVE Store!Next
  BY <1>0, <1>1, AppendFresh, AppendCommits
<1>2. ASSUME NEW c \in Clients, MemPut(c) PROVE Store!Next
  BY <1>0, <1>2, PutFresh, PutApplies
<1>3. CASE Crash
  BY <1>0, <1>3, CrashFresh, CrashRestarts
<1>4. CASE ~Crash /\ \A c \in Clients : ~LogAppend(c) /\ ~MemPut(c)
  <2>1. UNCHANGED log /\ \A k \in Keys : StoreGet(k)' = StoreGet(k)
    BY <1>0, <1>4, OtherFresh
  <2>2. ASSUME NEW o \in Clients, Answers(o) PROVE Store!Next
    BY <2>1, <2>2, AnswerAnswers
  <2>3. UNCHANGED <<HistoryOf, [k \in Keys |-> ViewOf(k)]>>
    BY <2>1 DEF HistoryOf, ViewOf
  <2> QED
    BY <1>0, <2>2, <2>3, AnswerSteps
<1> QED
  BY <1>1, <1>2, <1>3, <1>4

\* The engine implements the key-value store: an append makes a mutation durable,
\* the put makes it visible, success is answered for a visible one, a restart
\* shows the last ones, and flushes and reads change nothing.
THEOREM EngineImplementsStore ==
  ASSUME Undisturbed
  PROVE  Spec => ImplementsStore
<1>1. Init => Store!Init
  BY RefinesInit
<1>2. StoreInv /\ TypeInv' /\ (compactJobs = {})' /\ [Next]_vars
        => [Store!Next]_<<HistoryOf, [k \in Keys |-> ViewOf(k)], acked>>
  BY RefinesStep
<1>3. Spec => [](compactJobs = {})
  BY NoJobs DEF Undisturbed
<1> QED
  BY <1>1, <1>2, <1>3, StoreInvCorrect, TypeInvCorrect, PTL
     DEF Spec, ImplementsStore, Store!Spec

------------------------------------------------------------------------------
\* What is counted: the damage of unfinished appends, and the memtable's size.

\* The Cardinality of StorageEngine, by another name for its use below.
Count(S) == Cardinality(S)

\* Count written out.
LEMMA CountIs ==
  ASSUME NEW S
  PROVE  Count(S) = LET CS[T \in SUBSET S] == IF T = {} THEN 0
                                              ELSE 1 + CS[T \ {CHOOSE x : x \in T}]
                    IN  CS[S]
BY DEF Count, Cardinality

LOCAL INSTANCE FiniteSetTheorems

\* The Cardinality of the instance is the same.
LEMMA CountsAgree == ASSUME NEW S PROVE Count(S) = Cardinality(S)
<1>1. Cardinality(S) = LET CS[T \in SUBSET S] == IF T = {} THEN 0
                                                 ELSE 1 + CS[T \ {CHOOSE x : x \in T}]
                       IN  CS[S]
  BY DEF Cardinality
<1> QED
  BY <1>1, CountIs, Zenon

\* TornDamageBounded is not inductive: an unfinished line that nothing is glued to
\* yet counts as well.
TornInv ==
  /\ WrittenInv
  /\ IsFiniteSet(Glued)
  /\ Cardinality(Glued) + (IF torn THEN 1 ELSE 0) <= tears

\* No step breaks the inductive invariant.
LEMMA TornStep ==
  ASSUME TypeInv, TornInv, [Next]_vars
  PROVE  TornInv'
<1>1. IsFiniteSet(Glued) /\ Cardinality(Glued) + (IF torn THEN 1 ELSE 0) <= tears
  BY Zenon DEF TornInv
<1>2. torn \in BOOLEAN /\ tears \in Nat
  BY Zenon DEF TypeInv, CoreOK
<1>3. Cardinality(Glued) \in Nat
  BY <1>1, FS_CardinalityType, Zenon
<1>4. /\ WrittenInv'
      /\ \/ Glued' = Glued /\ tears' = tears /\ (torn' => torn)
         \/ Glued' = Glued /\ tears' = tears + 1
         \/ torn /\ ~torn' /\ tears' = tears /\ \E m : Glued' = Glued \cup {m}
  BY WrittenStep, Zenon DEF TornInv
<1>5. CASE Glued' = Glued /\ tears' = tears /\ (torn' => torn)
  <2>1. (Cardinality(Glued) + (IF torn THEN 1 ELSE 0) <= tears)'
    BY <1>1, <1>2, <1>3, <1>5
  <2> QED
    BY <1>1, <1>4, <1>5, <2>1, Zenon DEF TornInv
<1>6. CASE Glued' = Glued /\ tears' = tears + 1
  <2>1. (Cardinality(Glued) + (IF torn THEN 1 ELSE 0) <= tears)'
    BY <1>1, <1>2, <1>3, <1>6
  <2> QED
    BY <1>1, <1>4, <1>6, <2>1, Zenon DEF TornInv
<1>7. ASSUME torn, ~torn', tears' = tears, NEW m, Glued' = Glued \cup {m}
      PROVE  TornInv'
  <2>1. /\ IsFiniteSet(Glued')
        /\ Cardinality(Glued') \in {Cardinality(Glued), Cardinality(Glued) + 1}
    BY <1>1, <1>7, FS_AddElement, Zenon
  <2>2. (Cardinality(Glued) + (IF torn THEN 1 ELSE 0) <= tears)'
    BY <1>1, <1>2, <1>3, <1>7, <2>1
  <2> QED
    BY <1>4, <2>1, <2>2, Zenon DEF TornInv
<1> QED
  BY <1>4, <1>5, <1>6, <1>7, Zenon

\* The inductive invariant holds in every reachable state.
LEMMA TornInvCorrect == Spec => []TornInv
<1>1. Init => TornInv
  <2> SUFFICES ASSUME Init PROVE TornInv
    OBVIOUS
  <2>1. WrittenInv /\ Glued = {} /\ torn = FALSE /\ tears = 0
    BY WrittenInit
  <2>2. IsFiniteSet(Glued) /\ Cardinality(Glued) = 0
    BY <2>1, FS_EmptySet
  <2> QED
    BY <2>1, <2>2 DEF TornInv
<1> QED
  BY <1>1, TornStep, TypeInvCorrect, PTL DEF Spec

\* However appends fail, flushes fail, tables are compacted away and restarts
\* happen, each append that stopped half way costs at most one acknowledged
\* mutation: the one that the next append glues to the unfinished line.
THEOREM TornDamageCorrect == Spec => []TornDamageBounded
<1>1. TypeInv /\ TornInv => TornDamageBounded
  <2> SUFFICES ASSUME TypeInv, TornInv PROVE TornDamageBounded
    OBVIOUS
  <2> DEFINE Lost == {a \in acked : ~Logged(a.key, a.op)}
  <2>1. Lost \subseteq Glued /\ IsFiniteSet(Glued)
    BY LostIsGlued, Zenon DEF TornInv
  <2> HIDE DEF Lost
  <2>2. Cardinality(Lost) <= Cardinality(Glued) /\ IsFiniteSet(Lost)
    BY <2>1, FS_Subset, Zenon
  <2>3. Cardinality(Lost) \in Nat /\ Cardinality(Glued) \in Nat
    BY <2>1, <2>2, FS_CardinalityType, Zenon
  <2>4. Cardinality(Glued) + (IF torn THEN 1 ELSE 0) <= tears /\ torn \in BOOLEAN /\ tears \in Nat
    BY Zenon DEF TornInv, TypeInv, CoreOK
  <2>5. Cardinality(Lost) <= tears
    BY <2>2, <2>3, <2>4
  <2> QED
    BY <2>5, CountsAgree DEF TornDamageBounded, Lost, Count
<1> QED
  BY <1>1, TornInvCorrect, TypeInvCorrect, PTL

\* The lines replayed can be counted.
LEMMA ReplayCounts ==
  ASSUME TypeInv
  PROVE  Count({i \in DOMAIN log : log[i].ok}) \in Nat
<1> DEFINE S == {i \in DOMAIN log : log[i].ok}
<1>1. DOMAIN log = 1..Len(log) /\ Len(log) \in Nat
  BY DEF TypeInv, CoreOK
<1>2. IsFiniteSet(DOMAIN log)
  BY <1>1, FS_Interval
<1>3. IsFiniteSet(S)
  BY <1>2, FS_Subset
<1> QED
  BY <1>3, FS_CardinalityType, CountsAgree

\* Every reachable state is well typed: no handler, flush, compaction or
\* restart leaves a Go structure in a shape the others do not expect.
THEOREM TypeCorrect == Spec => []TypeOK
<1>1. Init => memSize \in Nat
  BY DEF Init
<1>2. TypeInv /\ memSize \in Nat /\ [Next]_vars => (memSize \in Nat)'
  <2> DEFINE n == Count({i \in DOMAIN log : log[i].ok})
  <2>1. ASSUME [Next]_vars PROVE memSize' \in {memSize, memSize + 1, 0, n}
    BY <2>1, SizeStep, Zenon DEF Count
  <2>2. TypeInv => n \in Nat
    BY ReplayCounts, Zenon
  <2> HIDE DEF n
  <2> QED
    BY <2>1, <2>2
<1>3. TypeInv /\ memSize \in Nat => TypeOK
  BY DEF TypeInv, CoreOK, TypeOK
<1> QED
  BY <1>1, <1>2, <1>3, TypeInvCorrect, PTL DEF Spec
============================================================================
