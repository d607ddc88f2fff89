------------------------------ MODULE Gateway -------------------------------
(***************************************************************************)
(* A request's way through the API gateway: conversion, the call with      *)
(* retries, and the HTTP status it ends with.  The coordinator is its      *)
(* handlers' error codes around an outcome; connections break before or    *)
(* after the coordinator has run the request.                              *)
(*                                                                         *)
(* A response with Success = FALSE always comes with an error in the       *)
(* coordinator, so the branches of the handlers for it are never taken.    *)
(* A write has no Idempotency-Key header; Coordinator has those with one.  *)
(***************************************************************************)
EXTENDS Naturals, FiniteSets

CONSTANTS
  Requests,     \* HTTP requests
  Ops,          \* what they ask for
  MaxRetries    \* cfg.MaxRetries

GatewayAssumption ==
  /\ Ops \subseteq {"write", "read", "createTenant", "getTenant"}
  /\ MaxRetries \in Nat

VARIABLES
  req,      \* where a request is
  tenant    \* the tenant of the createTenant requests exists

vars == <<req, tenant>>

NoRequest == [op |-> "none", pc |-> "idle", attempt |-> 0, expired |-> FALSE,
              runs |-> 0, outcome |-> "none", err |-> "none", status |-> 0]

At(r, label) == req[r].pc = label

Init ==
  /\ req = [r \in Requests |-> NoRequest]
  /\ tenant = FALSE

\* GRPCToHTTPStatus; "context" is an error that is not a gRPC status.
GRPCToHTTPStatus(code) ==
  CASE code \in {"InvalidArgument", "OutOfRange"} -> 400
    [] code = "Unauthenticated"                  -> 401
    [] code = "PermissionDenied"                 -> 403
    [] code = "NotFound"                         -> 404
    [] code \in {"AlreadyExists", "Aborted"}     -> 409
    [] code = "FailedPrecondition"               -> 412
    [] code = "ResourceExhausted"                -> 429
    [] code = "Unimplemented"                    -> 501
    [] code = "Unavailable"                      -> 503
    [] code = "DeadlineExceeded"                 -> 504
    [] OTHER                                     -> 500

IsRetryable(code) == code \in {"Unavailable", "DeadlineExceeded", "Aborted", "ResourceExhausted"}

StatusOfSuccess(op) == IF op = "createTenant" THEN 201 ELSE 200

\* The response of a handler.
Respond(r, status) == req' = [req EXCEPT ![r].pc = "done", ![r].status = status]

------------------------------------------------------------------------------
\* The coordinator.

\* What the service may make of a request.
Outcomes(op) ==
  CASE op = "write"        -> {"done", "noQuorum"}
    [] op = "read"         -> {"done", "noQuorum", "missing"}
    [] op = "createTenant" -> IF tenant THEN {"exists"} ELSE {"done"}
    [] op = "getTenant"    -> {"done", "missing"}

\* Mutant: a tenant that exists is told apart.
CodeWithConflict(op, outcome) ==
  CASE outcome = "done"                           -> "OK"
    [] outcome = "exists"                         -> "AlreadyExists"
    [] OTHER                                      -> "Internal"

\* The code its handlers answer with.
HandlerCode(op, outcome) ==
  CASE outcome = "done"                           -> "OK"
    [] op = "getTenant" /\ outcome = "missing"    -> "NotFound"
    [] OTHER                                      -> "Internal"

------------------------------------------------------------------------------
\* The gateway.

\* A handler converts the request and makes its context,
Receive(r, op) ==
  /\ At(r, "idle")
  /\ req' = [req EXCEPT ![r] = [NoRequest EXCEPT !.op = op, !.pc = "call"]]
  /\ UNCHANGED tenant

\* or the rate limiter or the converter refuses it.
Refuse(r, status) ==
  /\ At(r, "idle") /\ Respond(r, status)
  /\ UNCHANGED tenant

\* The coordinator runs the request.
Run(r) ==
  /\ At(r, "call") /\ ~req[r].expired
  /\ \E o \in Outcomes(req[r].op) :
       req' = [req EXCEPT ![r].pc = "reply", ![r].outcome = o,
                          ![r].runs = IF o = "done" THEN @ + 1 ELSE @]
  /\ tenant' = (tenant \/ req[r].op = "createTenant")

\* What withRetry does with an error: another attempt, or the error.
Failed(r, code) ==
  IF IsRetryable(code) /\ req[r].attempt < MaxRetries
  THEN req' = [req EXCEPT ![r].pc = "backoff", ![r].attempt = @ + 1, ![r].err = code]
  ELSE Respond(r, GRPCToHTTPStatus(code))

\* The connection is refused or breaks, before or after the coordinator ran it.
Break(r) ==
  /\ req[r].pc \in {"call", "reply"} /\ ~req[r].expired
  /\ Failed(r, "Unavailable")
  /\ UNCHANGED tenant

\* The reply arrives.
Reply(r) ==
  /\ At(r, "reply") /\ ~req[r].expired
  /\ LET code == HandlerCode(req[r].op, req[r].outcome)
     IN  IF code = "OK" THEN Respond(r, StatusOfSuccess(req[r].op)) ELSE Failed(r, code)
  /\ UNCHANGED tenant

\* The deadline of the context passes,
Expire(r) ==
  /\ req[r].pc \in {"call", "reply", "backoff"} /\ ~req[r].expired
  /\ req' = [req EXCEPT ![r].expired = TRUE]
  /\ UNCHANGED tenant

\* and ends a call,
CallExpires(r) ==
  /\ req[r].pc \in {"call", "reply"} /\ req[r].expired
  /\ Failed(r, "DeadlineExceeded")
  /\ UNCHANGED tenant

\* or a backoff: withRetry returns ctx.Err().
BackoffExpires(r) ==
  /\ At(r, "backoff") /\ req[r].expired
  /\ Respond(r, GRPCToHTTPStatus("context"))
  /\ UNCHANGED tenant

\* The backoff is over (and may be found so when the context has ended as well).
Retry(r) ==
  /\ At(r, "backoff")
  /\ req' = [req EXCEPT ![r].pc = "call"]
  /\ UNCHANGED tenant

Next ==
  \E r \in Requests :
    \/ \E op \in Ops : Receive(r, op)
    \/ \E status \in {400, 429} : Refuse(r, status)
    \/ Run(r) \/ Break(r) \/ Reply(r) \/ Expire(r)
    \/ CallExpires(r) \/ BackoffExpires(r) \/ Retry(r)

\* The context has a deadline, and the gateway's goroutine goes on; nothing is
\* assumed of the coordinator.
Fairness ==
  \A r \in Requests : /\ WF_vars(Expire(r))
                      /\ WF_vars(CallExpires(r) \/ BackoffExpires(r) \/ Retry(r))

Spec == Init /\ [][Next]_vars /\ Fairness

------------------------------------------------------------------------------
\* Properties.

\* Every request is answered, whatever breaks and also when the coordinator hangs.
Answered == \A r \in Requests : ~At(r, "idle") ~> At(r, "done")

\* Of the requests that change something, a success is answered only to one the
\* coordinator has run, and a status in the 400s only to one it has not, whichever
\* attempts were lost on the way.
StatusIsTrue ==
  \A r \in Requests : At(r, "done") /\ req[r].op \in {"write", "createTenant"} =>
    /\ req[r].status \in 200..299 => req[r].runs > 0
    /\ req[r].status \in 400..499 => req[r].runs = 0

------------------------------------------------------------------------------
\* What the documentation or a comment says, and this code does not do: TLC finds
\* a counterexample to each of these.

\* A request that ran out of time is answered with 504.
TimeoutIs504 ==
  \A r \in Requests : At(r, "done") /\ req[r].expired => req[r].status = 504

\* The status tells the outcome of the last run apart.
DocumentedStatus ==
  \A r \in Requests : At(r, "done") /\ ~req[r].expired /\ req[r].err = "none" =>
    /\ req[r].outcome = "noQuorum" => req[r].status = 503
    /\ req[r].outcome = "missing"  => req[r].status = 404
    /\ req[r].outcome = "exists"   => req[r].status = 409

\* One request is one write.
WrittenOnce == \A r \in Requests : req[r].op = "write" => req[r].runs <= 1
==============================================================================
