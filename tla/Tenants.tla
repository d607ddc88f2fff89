------------------------------- MODULE Tenants -------------------------------
(***************************************************************************)
(* The configuration of one tenant (coordinator/internal/service/          *)
(* tenant_service.go, handler/tenant_handler.go) in the database and in    *)
(* the in-memory cache of each coordinator (store/memory_cache.go).        *)
(*                                                                         *)
(* The cache holds a pointer, and GetTenant hands it to every caller, so   *)
(* model.Tenant values live in a heap and an update changes them in place. *)
(* Its accesses are not synchronised: Version++ is a read and a write.     *)
(* A statement of the database is one step, and may fail before or after   *)
(* it took effect.  A cached item that expired or was evicted is one that  *)
(* is gone.  DeleteTenant has no caller and is left out.                   *)
(***************************************************************************)
EXTENDS Naturals, Sequences, FiniteSets

CONSTANTS
  Coords,     \* coordinators
  Procs,      \* goroutines serving requests
  Home,       \* the coordinator of each
  Factors,    \* replication factors that requests ask for
  None,
  DbMayFail,  \* a statement of the database may fail
  MaxReqs     \* bound on the requests

\* The service accepts 1 .. 10; the CHECK of the table accepts 1 .. 5.
MaxFactor == 10
MaxStoredFactor == 5
DefaultFactor == 3

Row == [rf : 1..MaxStoredFactor, ver : Nat]

TenantAssumption ==
  /\ Home \in [Procs -> Coords]
  /\ Factors \subseteq Nat /\ MaxReqs \in Nat /\ DbMayFail \in BOOLEAN
  /\ None \notin Nat \cup Row

VARIABLES
  db,      \* the row of the table tenants: its factor and version, or None
  heap,    \* the model.Tenant values allocated; base: the row it was read from
  cache,   \* the pointer each coordinator caches, or None
  proc,    \* each goroutine: its step, pointer, requested factor, local copy
  stored,  \* history: the request that stored each version of the row
  reqs     \* requests started

vars == <<db, heap, cache, proc, stored, reqs>>

NoProc ==
  [at |-> "idle", id |-> 0, obj |-> None, want |-> None, ver |-> None, row |-> None]

Init ==
  /\ db = None /\ heap = <<>> /\ stored = <<>> /\ reqs = 0
  /\ cache = [c \in Coords |-> None]
  /\ proc = [p \in Procs |-> NoProc]

Goto(p, l) == proc' = [proc EXCEPT ![p].at = l]
Reply(p, a) == proc' = [proc EXCEPT ![p].at = a]
New(rf, ver) == Append(heap, [rf |-> rf, ver |-> ver, base |-> ver])

\* The answers: the update or creation is stored; nothing had to be changed;
\* an error.  A request that was answered makes room for the next.
Answers == {"stored", "unchanged", "error"}
Free(p) == proc[p].at \in {"idle"} \cup Answers
Start(p, l, rf) ==
  /\ Free(p) /\ reqs < MaxReqs /\ reqs' = reqs + 1
  /\ proc' = [proc EXCEPT ![p] = [NoProc EXCEPT !.at = l, !.id = reqs + 1, !.want = rf]]

------------------------------------------------------------------------------
\* CreateTenant: validation, the INSERT, the cache.

BeginCreate(p, rf) ==
  /\ rf \in 0..MaxFactor
  /\ Start(p, "insert", IF rf = 0 THEN DefaultFactor ELSE rf)
  /\ UNCHANGED <<db, heap, cache, stored>>

\* The statement may take effect and its answer be lost.
Insert(p) ==
  /\ proc[p].at = "insert" /\ db = None /\ proc[p].want <= MaxStoredFactor
  /\ db' = [rf |-> proc[p].want, ver |-> 1]
  /\ heap' = New(proc[p].want, 1)
  /\ stored' = Append(stored, proc[p].id)
  /\ \/ proc' = [proc EXCEPT ![p].at = "fillNew", ![p].obj = Len(heap) + 1]
     \/ DbMayFail /\ Reply(p, "error")
  /\ UNCHANGED <<cache, reqs>>

\* The primary key, the CHECK, or the database itself refuses.
InsertFails(p) ==
  /\ proc[p].at = "insert"
  /\ DbMayFail \/ db # None \/ proc[p].want > MaxStoredFactor
  /\ Reply(p, "error")
  /\ UNCHANGED <<db, heap, cache, stored, reqs>>

------------------------------------------------------------------------------
\* GetTenant, for a read, a key-value request or an update.

BeginGet(p) ==
  /\ Start(p, "get", None)
  /\ UNCHANGED <<db, heap, cache, stored>>

BeginUpdate(p, rf) ==
  /\ rf \in 1..MaxFactor
  /\ Start(p, "get", rf)
  /\ UNCHANGED <<db, heap, cache, stored>>

CacheGet(p) ==
  /\ proc[p].at = "get"
  /\ LET o == cache[Home[p]]
     IN  proc' = [proc EXCEPT ![p].at = IF o = None THEN "fetch" ELSE "got",
                              ![p].obj = o]
  /\ UNCHANGED <<db, heap, cache, stored, reqs>>

Fetch(p) ==
  /\ proc[p].at = "fetch" /\ db # None
  /\ heap' = New(db.rf, db.ver)
  /\ proc' = [proc EXCEPT ![p].at = "fill", ![p].obj = Len(heap) + 1]
  /\ UNCHANGED <<db, cache, stored, reqs>>

FetchFails(p) ==
  /\ proc[p].at = "fetch" /\ (DbMayFail \/ db = None)
  /\ Reply(p, "error")
  /\ UNCHANGED <<db, heap, cache, stored, reqs>>

\* The cache is set with the row read some steps ago.
CacheSet(p) ==
  /\ proc[p].at \in {"fill", "fillNew"}
  /\ cache' = [cache EXCEPT ![Home[p]] = proc[p].obj]
  /\ Goto(p, IF proc[p].at = "fill" THEN "got" ELSE "stored")
  /\ UNCHANGED <<db, heap, stored, reqs>>

------------------------------------------------------------------------------
\* UpdateReplicationFactor, once it has the tenant.

Got(p) ==
  /\ proc[p].at = "got"
  /\ IF proc[p].want = None \/ heap[proc[p].obj].rf = proc[p].want
       THEN Reply(p, "unchanged") /\ UNCHANGED heap
       ELSE /\ heap' = [heap EXCEPT ![proc[p].obj].rf = proc[p].want]
            /\ proc' = [proc EXCEPT ![p].at = "version",
                                    ![p].ver = heap[proc[p].obj].ver]
  /\ UNCHANGED <<db, cache, stored, reqs>>

\* tenant.Version++, and the arguments of the statement are read.
Increment(p) ==
  /\ proc[p].at = "version"
  /\ heap' = [heap EXCEPT ![proc[p].obj].ver = proc[p].ver + 1]
  /\ Goto(p, "args")
  /\ UNCHANGED <<db, cache, stored, reqs>>

Arguments(p) ==
  /\ proc[p].at = "args"
  /\ proc' = [proc EXCEPT ![p].at = "save",
                 ![p].row = [rf |-> heap[proc[p].obj].rf, ver |-> heap[proc[p].obj].ver]]
  /\ UNCHANGED <<db, heap, cache, stored, reqs>>

\* Mutant: the UPDATE does not compare the version.
SaveBlindly(p) ==
  /\ proc[p].at = "save" /\ db # None
  /\ proc[p].row.rf <= MaxStoredFactor
  /\ db' = proc[p].row /\ stored' = Append(stored, proc[p].id)
  /\ Goto(p, "invalidate")
  /\ UNCHANGED <<heap, cache, reqs>>

\* UPDATE ... WHERE version = Version - 1
Save(p) ==
  /\ proc[p].at = "save" /\ db # None
  /\ proc[p].row.rf <= MaxStoredFactor /\ db.ver = proc[p].row.ver - 1
  /\ db' = proc[p].row /\ stored' = Append(stored, proc[p].id)
  /\ Goto(p, "invalidate") \/ (DbMayFail /\ Reply(p, "error"))
  /\ UNCHANGED <<heap, cache, reqs>>

\* The statement changes no row or fails: the changed value stays cached.
SaveFails(p) ==
  /\ proc[p].at = "save"
  /\ \/ DbMayFail \/ db = None
     \/ proc[p].row.rf > MaxStoredFactor \/ db.ver # proc[p].row.ver - 1
  /\ Reply(p, "error")
  /\ UNCHANGED <<db, heap, cache, stored, reqs>>

CacheDelete(p) ==
  /\ proc[p].at = "invalidate"
  /\ cache' = [cache EXCEPT ![Home[p]] = None]
  /\ Goto(p, "stored")
  /\ UNCHANGED <<db, heap, stored, reqs>>

\* Mutant: items never expire.
ExpireNever(c) ==
  /\ cache[c] # None /\ FALSE
  /\ UNCHANGED <<db, heap, cache, proc, stored, reqs>>

\* The item expires, is cleaned up, or makes room for another tenant.
Expire(c) ==
  /\ cache[c] # None
  /\ cache' = [cache EXCEPT ![c] = None]
  /\ UNCHANGED <<db, heap, proc, stored, reqs>>

Step(p) ==
  \/ Insert(p) \/ InsertFails(p)
  \/ CacheGet(p) \/ Fetch(p) \/ FetchFails(p) \/ CacheSet(p)
  \/ Got(p) \/ Increment(p) \/ Arguments(p) \/ Save(p) \/ SaveFails(p)
  \/ CacheDelete(p)

Next ==
  \/ \E p \in Procs :
       \/ \E rf \in Factors : BeginCreate(p, rf) \/ BeginUpdate(p, rf)
       \/ BeginGet(p) \/ Step(p)
  \/ \E c \in Coords : Expire(c)

Spec == Init /\ [][Next]_vars

\* Goroutines run, and the TTL of an item passes.
FairSpec ==
  /\ Spec
  /\ \A p \in Procs : WF_vars(Step(p))
  /\ \A c \in Coords : WF_vars(Expire(c))

------------------------------------------------------------------------------
\* Properties.

\* Types.
TypeOK ==
  /\ db \in Row \cup {None}
  /\ heap \in Seq([rf : 1..MaxFactor, ver : Nat, base : Nat])
  /\ cache \in [Coords -> (1..Len(heap)) \cup {None}]
  /\ \A p \in Procs :
       proc[p].obj \in (1..Len(heap)) \cup {None} /\ proc[p].want \in 1..MaxFactor \cup {None}
  /\ stored \in Seq(1..MaxReqs) /\ reqs \in 0..MaxReqs

\* The versions of the row are 1, 2, 3, ... and each was stored by one
\* request, however updates race on one coordinator or on several: two
\* updates that started from one version never both succeed.
OneWinnerPerVersion ==
  /\ (db = None) <=> (stored = <<>>)
  /\ db # None => db.ver = Len(stored)

\* A request that reports its change as stored has stored a version itself:
\* neither a version mismatch nor another request's save passes for success.
SuccessHasVersion ==
  \A p \in Procs :
    proc[p].at \in {"fillNew", "invalidate", "stored"} => \E i \in DOMAIN stored : stored[i] = proc[p].id

\* Once the requests are over, staleness ends with the TTL: what a
\* coordinator caches is the row.
CacheConverges ==
  <>[](\A c \in Coords :
         cache[c] # None => [rf |-> heap[cache[c]].rf, ver |-> heap[cache[c]].ver] = db)

------------------------------------------------------------------------------
\* What the documentation or a comment says, and this code does not do: TLC finds
\* a counterexample to each of these.

\* "Used for optimistic locking" (001_initial_schema.sql:75): an update is
\* stored only over the version its tenant was read from.
OptimisticLocking ==
  [][\A p \in Procs :
       proc[p].at = "save" /\ proc'[p].at = "invalidate"
         => heap[proc[p].obj].base = db.ver]_vars

\* UpdateReplicationFactor "updates the replication factor for a tenant"
\* (tenant_service.go:102): when it answers without an error, and only one
\* request is being served, the row has the factor that was asked for.
SuccessIsStored ==
  \A p \in Procs :
    /\ proc[p].at \in {"stored", "unchanged"} /\ proc[p].want # None
    /\ \A q \in Procs \ {p} : proc[q].at = "idle"
    => db # None /\ db.rf = proc[p].want
==============================================================================
