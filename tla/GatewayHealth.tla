--------------------------- MODULE GatewayHealth ----------------------------
(***************************************************************************)
(* The gateway's readiness: a flag that the background check and the       *)
(* handlers of /ready set from checks of the coordinator.  A check and the *)
(* assignment of its result are separate steps of concurrent goroutines.   *)
(***************************************************************************)
EXTENDS Naturals

CONSTANTS
  Probes,       \* concurrent requests for /ready
  MaxChanges    \* bound: times the coordinator goes down or comes back

GatewayHealthAssumption == MaxChanges \in Nat

VARIABLES
  up,       \* the coordinator answers
  changes,  \* how often that changed
  ready,    \* HealthCheck.ready
  healthy,  \* Client.isHealthy
  check,    \* the background check: "idle", or the result it has
  probe     \* a request: "idle", "check", "ok", or its answer 200 or 503

vars == <<up, changes, ready, healthy, check, probe>>

Result == IF up THEN "ok" ELSE "err"

\* NewHealthCheck checks once before it starts the goroutine.
Init ==
  /\ up \in BOOLEAN /\ changes = 0
  /\ ready = up /\ healthy = up
  /\ check = "idle" /\ probe = [p \in Probes |-> "idle"]

\* The coordinator, or the way to it, goes down or comes back.
Change ==
  /\ changes < MaxChanges /\ changes' = changes + 1 /\ up' = ~up
  /\ UNCHANGED <<ready, healthy, check, probe>>

\* backgroundCheck calls the coordinator
Check ==
  /\ check = "idle" /\ check' = Result /\ healthy' = up
  /\ UNCHANGED <<up, changes, ready, probe>>

\* Mutant: a failed check is only logged.
SetReadyOnly ==
  /\ check # "idle" /\ check' = "idle"
  /\ ready' = (ready \/ check = "ok")
  /\ UNCHANGED <<up, changes, healthy, probe>>

\* and assigns the result.
SetReady ==
  /\ check # "idle" /\ check' = "idle"
  /\ ready' = (check = "ok")
  /\ UNCHANGED <<up, changes, healthy, probe>>

\* ReadinessHandler reads the flag,
Probe(p) ==
  /\ probe[p] = "idle"
  /\ probe' = [probe EXCEPT ![p] = IF ready THEN "200" ELSE "check"]
  /\ UNCHANGED <<up, changes, ready, healthy, check>>

\* calls the coordinator when it is not set,
ProbeChecks(p) ==
  /\ probe[p] = "check" /\ healthy' = up
  /\ probe' = [probe EXCEPT ![p] = IF up THEN "ok" ELSE "503"]
  /\ UNCHANGED <<up, changes, ready, check>>

\* sets it when that succeeds,
ProbeSetsReady(p) ==
  /\ probe[p] = "ok" /\ ready' = TRUE
  /\ probe' = [probe EXCEPT ![p] = "200"]
  /\ UNCHANGED <<up, changes, healthy, check>>

\* and is done.
Answer(p) ==
  /\ probe[p] \in {"200", "503"} /\ probe' = [probe EXCEPT ![p] = "idle"]
  /\ UNCHANGED <<up, changes, ready, healthy, check>>

Next ==
  \/ Change \/ Check \/ SetReady
  \/ \E p \in Probes : Probe(p) \/ ProbeChecks(p) \/ ProbeSetsReady(p) \/ Answer(p)

\* The ticker goes on, and goroutines that have begun go on (a check has a timeout
\* of five seconds).
Spec ==
  /\ Init /\ [][Next]_vars
  /\ WF_vars(Check) /\ WF_vars(SetReady)
  /\ \A p \in Probes : WF_vars(ProbeChecks(p)) /\ WF_vars(ProbeSetsReady(p))

------------------------------------------------------------------------------
\* Properties.

\* When the coordinator stays up, or stays down, the flag comes to say so and then
\* keeps saying so, whatever results of older checks are still to be assigned.
ReadyFollows ==
  /\ <>[]up => <>[]ready
  /\ <>[]~up => <>[]~ready

------------------------------------------------------------------------------
\* What the documentation or a comment says, and this code does not do: TLC finds
\* a counterexample to each of these.

\* A request is not answered 200 from the flag when the last call of the coordinator
\* has failed and the background check has nothing left to assign.
ReadyIsCurrent ==
  [][ \A p \in Probes : probe[p] = "idle" /\ probe'[p] = "200" => healthy \/ check # "idle" ]_vars
==============================================================================
