---------------------------- MODULE HealthCheck -----------------------------
(***************************************************************************)
(* HealthChecker of a storage node: the goroutine that runs the checks,    *)
(* the HTTP handlers of the probes, and main, which sets the readiness     *)
(* once the listener is open.  All of them use one sync.RWMutex; the       *)
(* handlers, of the liveness and of the readiness probe alike, take it for *)
(* reading twice.                                                          *)
(***************************************************************************)
EXTENDS RWMutex, Integers, FiniteSets

CONSTANTS
  Probers,     \* handlers of probes
  Usages,      \* percentages of disk usage
  MaxChecks,   \* bound: runs of the checks
  MaxProbes    \* bound: different answers given

Checker == "checker"
Main == "main"

HealthAssumption ==
  /\ Procs = Probers \cup {Checker, Main}
  /\ {Checker, Main} \cap Probers = {}
  /\ MaxChecks \in Nat /\ MaxProbes \in Nat

VARIABLES
  mu,         \* the lock
  pc,         \* where each goroutine is
  status,     \* the overall status
  ready,      \* readinessOK
  checks,     \* runs of the checks so far
  listening,  \* main has opened the listener
  saw,        \* what each handler has read so far
  answers     \* the answers given

vars == <<mu, pc, status, ready, checks, listening, saw, answers>>

\* What a run of the checks finds: -1 is a file system without statistics.
Machines == [usage : Usages \cup {-1}, dir : BOOLEAN, fds : BOOLEAN]

\* checkDiskSpace.
CheckDiskSpace(m) == CASE m.usage = -1 \/ m.usage > 95 -> "critical" [] m.usage > 90 -> "warning" [] OTHER -> "healthy"

\* checkDataDirAccessible: statistics, a directory, a file can be created.
CheckDataDirAccessible(m) == IF m.dir THEN "healthy" ELSE "critical"

\* checkFileDescriptors: no limit, or more than 90% of it in use.
CheckFileDescriptors(m) == IF m.fds THEN "healthy" ELSE "warning"

\* checkMemoryPressure.
CheckMemoryPressure(m) == "healthy"

Results(m) == {CheckDiskSpace(m), CheckDataDirAccessible(m), CheckFileDescriptors(m), CheckMemoryPressure(m)}

Init ==
  /\ mu = Unlocked /\ pc = [p \in Procs |-> "idle"]
  /\ status = "healthy" /\ ready = TRUE
  /\ checks = 0 /\ listening = FALSE
  /\ saw = [p \in Probers |-> TRUE] /\ answers = {}

At(p, from, to) == pc[p] = from /\ pc' = [pc EXCEPT ![p] = to]

\* runHealthChecks asks for the lock,
Lock(p) ==
  /\ CanAnnounce(mu) /\ At(p, "idle", "lock")
  /\ p = Checker => checks < MaxChecks
  /\ p = Main => ~listening
  /\ mu' = Announced(mu, p)
  /\ UNCHANGED <<status, ready, checks, listening, saw, answers>>

Enter(p) ==
  /\ CanEnter(mu, p) /\ At(p, "lock", "in")
  /\ mu' = Entered(mu)
  /\ UNCHANGED <<status, ready, checks, listening, saw, answers>>

\* and sets the status from the checks.
RunHealthChecks(m) ==
  /\ At(Checker, "in", "idle")
  /\ status' = IF Results(m) = {"healthy"} THEN "healthy"
               ELSE IF "critical" \in Results(m) THEN "unhealthy" ELSE "degraded"
  /\ ready' = ("critical" \notin Results(m))
  /\ checks' = checks + 1
  /\ mu' = WUnlocked(mu)
  /\ UNCHANGED <<listening, saw, answers>>

\* main calls SetReadiness(true) when it has opened the listener.
SetReadiness ==
  /\ At(Main, "in", "done")
  /\ ready' = TRUE /\ listening' = TRUE
  /\ mu' = WUnlocked(mu)
  /\ UNCHANGED <<status, checks, saw, answers>>

\* ReadinessHandler takes the lock and reads the readiness,
ReadReadiness(p) ==
  /\ CanRLock(mu) /\ At(p, "idle", "read")
  /\ Cardinality(answers) < MaxProbes
  /\ mu' = RLocked(mu, p)
  /\ saw' = [saw EXCEPT ![p] = ready]
  /\ UNCHANGED <<status, ready, checks, listening, answers>>

\* Mutant: the lock is released before GetStatus takes it.
GetStatusUnlocked(p) ==
  \/ /\ At(p, "read", "between") /\ mu' = RUnlocked(mu, p)
     /\ UNCHANGED <<status, ready, checks, listening, saw, answers>>
  \/ /\ CanRLock(mu) /\ At(p, "between", "idle")
     /\ answers' = answers \cup {[ready |-> saw[p], status |-> status, up |-> listening]}
     /\ UNCHANGED <<mu, status, ready, checks, listening, saw>>

\* GetStatus takes it again,
GetStatus(p) ==
  /\ CanRLock(mu) /\ At(p, "read", "status")
  /\ mu' = RLocked(mu, p)
  /\ answers' = answers \cup {[ready |-> saw[p], status |-> status, up |-> listening]}
  /\ UNCHANGED <<status, ready, checks, listening, saw>>

\* and both are released before the answer is written.
Answer(p) ==
  /\ At(p, "status", "release")
  /\ mu' = RUnlocked(mu, p)
  /\ UNCHANGED <<status, ready, checks, listening, saw, answers>>

Release(p) ==
  /\ At(p, "release", "idle")
  /\ mu' = RUnlocked(mu, p)
  /\ UNCHANGED <<status, ready, checks, listening, saw, answers>>

Probe(p) == ReadReadiness(p) \/ GetStatus(p) \/ Answer(p) \/ Release(p)

Check == Lock(Checker) \/ Enter(Checker) \/ \E m \in Machines : RunHealthChecks(m)

Startup == Lock(Main) \/ Enter(Main) \/ SetReadiness

Next == Check \/ Startup \/ \E p \in Probers : Probe(p)

\* Every goroutine that can go on does; a probe need not arrive.
Spec ==
  /\ Init /\ [][Next]_vars
  /\ WF_vars(Check) /\ WF_vars(Startup)
  /\ \A p \in Probers : WF_vars(GetStatus(p) \/ Answer(p) \/ Release(p))

------------------------------------------------------------------------------
\* Properties.

\* The readiness and the status of an answer are of the same run of the checks: only
\* the call of main after the start makes a node ready whose status is unhealthy, and
\* none is unready with another status.
AnswersAreOfOneCheck ==
  \A a \in answers : /\ ~a.ready => a.status = "unhealthy"
                     /\ a.ready /\ a.status = "unhealthy" => a.up

------------------------------------------------------------------------------
\* What the documentation or a comment says, and this code does not do: TLC finds
\* a counterexample to each of these.

\* A probe that has taken the lock is answered.
ProbesAreAnswered == \A p \in Probers : (pc[p] = "read") ~> (pc[p] = "idle")

\* A node answers that it is ready only after main has marked it so.
ReadyAfterStart == \A a \in answers : a.ready => a.up

\* A node that answers that it is ready has no critical check.
ReadyMeansServing == \A a \in answers : a.ready => a.status # "unhealthy"
==============================================================================
