------------------------- MODULE ClusterPartsProofs --------------------------
(***************************************************************************)
(* Theorems about the changes of the topology and the streams they start,  *)
(* about the tenants and about the gateway, for any number of nodes,       *)
(* coordinators, streams, requests and retries.  Each part has an          *)
(* inductive invariant of its own.                                         *)
(***************************************************************************)
EXTENDS ClusterParts, TLAPS

------------------------------------------------------------------------------
\* The status codes of the API gateway.

RequestType ==
  [op : GatewayOps \cup {"none"}, pc : {"idle", "call", "reply", "backoff", "done"}, attempt : Nat,
   expired : BOOLEAN, runs : Nat, outcome : {"none", "done", "noQuorum", "missing", "exists"},
   err : {"none", "Unavailable", "DeadlineExceeded", "Internal", "NotFound"}, status : Nat]

\* What changes something ends with its success, if it was run, or with a server error.
SaysTrue(o, runs, s) ==
  o \in {"write", "createTenant"} => (s \in {200, 201} /\ runs > 0) \/ s \in {500, 503, 504}

\* A reply that says done is of a run that was counted, and only a request that was never
\* converted is refused.
TrueRequest(q) ==
  /\ q \in RequestType
  /\ q.pc = "idle" => q = Gate!NoRequest
  /\ q.pc \in {"call", "reply", "backoff"} => q.op \in GatewayOps
  /\ q.pc = "reply" /\ q.outcome = "done" => q.runs > 0
  /\ q.pc = "done" => SaysTrue(q.op, q.runs, q.status)
GatewayInv == DOMAIN req = Requests /\ req = [r \in Requests |-> req[r]] /\ \A r \in Requests : TrueRequest(req[r])

\* A step that changes one request only has to keep that one.
LEMMA OneRequest ==
  ASSUME GatewayInv, NEW r \in Requests, NEW q, TrueRequest(q), req' = [req EXCEPT ![r] = q]
  PROVE  GatewayInv'
BY DEF GatewayInv

\* An answer changes where a request is and its status.
LEMMA AnsweredFields ==
  ASSUME NEW x \in RequestType, NEW s \in Nat
  PROVE  /\ [x EXCEPT !.pc = "done", !.status = s] \in RequestType
         /\ [x EXCEPT !.pc = "done", !.status = s].pc = "done"
         /\ [x EXCEPT !.pc = "done", !.status = s].status = s
         /\ [x EXCEPT !.pc = "done", !.status = s].op = x.op
         /\ [x EXCEPT !.pc = "done", !.status = s].runs = x.runs
BY Zenon DEF RequestType

\* The answer to a request that was converted.
LEMMA RespondStep ==
  ASSUME GatewayInv, NEW r \in Requests, NEW s \in Nat, Gate!Respond(r, s),
         SaysTrue(req[r].op, req[r].runs, s)
  PROVE  GatewayInv'
<1>0. req[r] \in RequestType
  BY DEF GatewayInv, TrueRequest
<1>1. PICK x \in RequestType : x = req[r]
  BY <1>0, Zenon
<1> DEFINE q == [x EXCEPT !.pc = "done", !.status = s]
<1>2. q \in RequestType /\ q.pc = "done" /\ q.status = s /\ q.op = x.op /\ q.runs = x.runs
  BY AnsweredFields, Zenon
<1>3. req' = [req EXCEPT ![r] = q]
  BY <1>1, Zenon DEF Gate!Respond, GatewayInv
<1> HIDE DEF q
<1>4. TrueRequest(q)
  BY <1>1, <1>2 DEF TrueRequest
<1> QED
  BY <1>3, <1>4, OneRequest, Zenon

\* What withRetry makes of the errors there are.
LEMMA FailedStep ==
  ASSUME GatewayInv, NEW r \in Requests, req[r].pc \in {"call", "reply"},
         NEW code \in {"Unavailable", "DeadlineExceeded", "Internal", "NotFound"}, Gate!Failed(r, code),
         code = "NotFound" => req[r].op = "getTenant"
  PROVE  GatewayInv'
<1>1. req[r] \in RequestType /\ req = [p \in Requests |-> req[p]]
  BY DEF GatewayInv, TrueRequest
<1>2. CASE Gate!IsRetryable(code) /\ req[r].attempt < MaxRetries
  <2> DEFINE n == req[r].attempt + 1
             q == [req[r] EXCEPT !.pc = "backoff", !.attempt = n, !.err = code]
  <2>1. req' = [req EXCEPT ![r] = q]
    BY <1>1, <1>2 DEF Gate!Failed
  <2>2. n \in Nat
    BY <1>1 DEF RequestType
  <2> HIDE DEF n
  <2>3. q \in RequestType /\ q.pc = "backoff" /\ q.op = req[r].op
    BY <1>1, <2>2, Zenon DEF RequestType
  <2> HIDE DEF q
  <2>4. TrueRequest(q)
    BY <2>3 DEF TrueRequest, GatewayInv
  <2> QED
    BY <2>1, <2>4, OneRequest, Zenon
<1>3. CASE ~(Gate!IsRetryable(code) /\ req[r].attempt < MaxRetries)
  <2>1. Gate!Respond(r, Gate!GRPCToHTTPStatus(code))
    BY <1>3 DEF Gate!Failed
  <2>2. /\ Gate!GRPCToHTTPStatus("Unavailable") = 503 /\ Gate!GRPCToHTTPStatus("DeadlineExceeded") = 504
        /\ Gate!GRPCToHTTPStatus("Internal") = 500 /\ Gate!GRPCToHTTPStatus("NotFound") = 404
    BY DEF Gate!GRPCToHTTPStatus
  <2>3. Gate!GRPCToHTTPStatus(code) \in Nat /\ SaysTrue(req[r].op, req[r].runs, Gate!GRPCToHTTPStatus(code))
    BY <2>2 DEF SaysTrue
  <2> QED
    BY <2>1, <2>3, RespondStep
<1> QED
  BY <1>2, <1>3

\* No request has been received.
LEMMA GatewayInit == Gate!Init => GatewayInv
BY DEF Gate!Init, GatewayInv, TrueRequest, RequestType, Gate!NoRequest

\* Every step of a request keeps what its status will say.
LEMMA GatewayStep ==
  ASSUME Gate!GatewayAssumption, GatewayInv, [Gate!Next]_(Gate!vars)
  PROVE  GatewayInv'
<1>0. /\ \A r \in Requests : req[r] \in RequestType /\ TrueRequest(req[r])
      /\ req = [p \in Requests |-> req[p]]
  BY DEF GatewayInv, TrueRequest
<1>1. ASSUME NEW r \in Requests, NEW o \in GatewayOps, Gate!Receive(r, o) PROVE GatewayInv'
  <2>1. req' = [req EXCEPT ![r] = [Gate!NoRequest EXCEPT !.op = o, !.pc = "call"]]
    BY <1>1 DEF Gate!Receive
  <2>2. TrueRequest([Gate!NoRequest EXCEPT !.op = o, !.pc = "call"])
    BY Zenon DEF TrueRequest, RequestType, Gate!NoRequest
  <2> QED
    BY <2>1, <2>2, OneRequest, Zenon
<1>2. ASSUME NEW r \in Requests, NEW s \in {400, 429}, Gate!Refuse(r, s) PROVE GatewayInv'
  <2>1. req[r].op = "none" /\ Gate!Respond(r, s)
    BY <1>0, <1>2 DEF Gate!Refuse, Gate!At, TrueRequest, Gate!NoRequest
  <2>2. s \in Nat /\ SaysTrue(req[r].op, req[r].runs, s)
    BY <1>2, <2>1 DEF SaysTrue
  <2> QED
    BY <2>1, <2>2, RespondStep
<1>3. ASSUME NEW r \in Requests, Gate!Run(r) PROVE GatewayInv'
  <2>1. PICK o \in Gate!Outcomes(req[r].op) :
          req' = [req EXCEPT ![r].pc = "reply", ![r].outcome = o, ![r].runs = IF o = "done" THEN @ + 1 ELSE @]
    BY <1>3, Zenon DEF Gate!Run
  <2> DEFINE n == IF o = "done" THEN req[r].runs + 1 ELSE req[r].runs
             q == [req[r] EXCEPT !.pc = "reply", !.outcome = o, !.runs = n]
  <2>2. o \in {"done", "noQuorum", "missing", "exists"}
    <3>1. req[r].op \in {"write", "read", "createTenant", "getTenant"}
      BY <1>0, <1>3 DEF Gate!Run, Gate!At, Gate!GatewayAssumption, TrueRequest
    <3> QED
      BY <2>1, <3>1 DEF Gate!Outcomes
  <2>3. req' = [req EXCEPT ![r] = q]
    BY <1>0, <2>1, Zenon
  <2>4. n \in Nat /\ (o = "done" => n > 0)
    BY <1>0 DEF RequestType
  <2> HIDE DEF n
  <2>5. q \in RequestType /\ q.pc = "reply" /\ q.outcome = o /\ q.op = req[r].op /\ q.runs = n
    BY <1>0, <2>2, <2>4, Zenon DEF RequestType
  <2> HIDE DEF q
  <2>6. req[r].op \in GatewayOps
    BY <1>0, <1>3 DEF Gate!Run, Gate!At, TrueRequest
  <2>7. TrueRequest(q)
    BY <2>5, <2>6, <2>4 DEF TrueRequest
  <2> QED
    BY <2>3, <2>7, OneRequest, Zenon
<1>4. ASSUME NEW r \in Requests, Gate!Break(r) \/ Gate!CallExpires(r) PROVE GatewayInv'
  BY <1>4, FailedStep DEF Gate!Break, Gate!CallExpires
<1>5. ASSUME NEW r \in Requests, Gate!Reply(r) PROVE GatewayInv'
  <2> DEFINE code == Gate!HandlerCode(req[r].op, req[r].outcome)
  <2>1. /\ req[r].pc = "reply"
        /\ code = "OK" => Gate!Respond(r, Gate!StatusOfSuccess(req[r].op))
        /\ code # "OK" => Gate!Failed(r, code)
    BY <1>5 DEF Gate!Reply, Gate!At
  <2>2. /\ code \in {"OK", "NotFound", "Internal"}
        /\ code = "OK" => req[r].outcome = "done"
        /\ code = "NotFound" => req[r].op = "getTenant"
    BY DEF Gate!HandlerCode
  <2>3. Gate!StatusOfSuccess(req[r].op) \in {200, 201}
    BY DEF Gate!StatusOfSuccess
  <2> HIDE DEF code
  <2>4. CASE code = "OK"
    <3>1. req[r].runs > 0
      BY <1>0, <2>1, <2>2, <2>4 DEF TrueRequest
    <3>2. /\ Gate!StatusOfSuccess(req[r].op) \in Nat
          /\ SaysTrue(req[r].op, req[r].runs, Gate!StatusOfSuccess(req[r].op))
      BY <2>3, <3>1 DEF SaysTrue
    <3> QED
      BY <2>1, <2>4, <3>2, RespondStep
  <2>5. CASE code # "OK"
    BY <2>1, <2>2, <2>5, FailedStep
  <2> QED
    BY <2>4, <2>5
<1>6. ASSUME NEW r \in Requests, Gate!Expire(r) PROVE GatewayInv'
  <2> DEFINE q == [req[r] EXCEPT !.expired = TRUE]
  <2>1. req' = [req EXCEPT ![r] = q] /\ req[r].pc \in {"call", "reply", "backoff"}
    BY <1>0, <1>6 DEF Gate!Expire
  <2>2. /\ q \in RequestType /\ q.pc = req[r].pc /\ q.op = req[r].op
        /\ q.outcome = req[r].outcome /\ q.runs = req[r].runs
    BY <1>0, Zenon DEF RequestType
  <2> HIDE DEF q
  <2>3. TrueRequest(q)
    BY <1>0, <2>1, <2>2 DEF TrueRequest
  <2> QED
    BY <2>1, <2>3, OneRequest, Zenon
<1>7. ASSUME NEW r \in Requests, Gate!BackoffExpires(r) PROVE GatewayInv'
  <2>1. Gate!Respond(r, 500)
    BY <1>7 DEF Gate!BackoffExpires, Gate!GRPCToHTTPStatus
  <2>2. SaysTrue(req[r].op, req[r].runs, 500)
    BY DEF SaysTrue
  <2> QED
    BY <2>1, <2>2, RespondStep
<1>8. ASSUME NEW r \in Requests, Gate!Retry(r) PROVE GatewayInv'
  <2> DEFINE q == [req[r] EXCEPT !.pc = "call"]
  <2>1. req' = [req EXCEPT ![r] = q] /\ req[r].op \in GatewayOps
    BY <1>0, <1>8 DEF Gate!Retry, Gate!At, TrueRequest
  <2>2. q \in RequestType /\ q.pc = "call" /\ q.op = req[r].op
    BY <1>0 DEF RequestType
  <2> HIDE DEF q
  <2>3. TrueRequest(q)
    BY <2>1, <2>2 DEF TrueRequest
  <2> QED
    BY <2>1, <2>3, OneRequest, Zenon
<1>9. CASE UNCHANGED Gate!vars
  BY <1>9 DEF Gate!vars, GatewayInv
<1> QED
  BY <1>1, <1>2, <1>3, <1>4, <1>5, <1>6, <1>7, <1>8, <1>9 DEF Gate!Next

\* StatusIsTrue for any number of requests and retries, wherever connections break and
\* deadlines pass.
THEOREM StatusesAreTrue ==
  Gate!Spec => []StatusIsTrue
<1>1. Gate!Init => GatewayInv
  BY GatewayInit
<1>2. GatewayInv /\ [Gate!Next]_(Gate!vars) => GatewayInv'
  BY ClusterAssumption, GatewayStep
<1>3. GatewayInv => StatusIsTrue
  BY DEF GatewayInv, StatusIsTrue, TrueRequest, SaysTrue, RequestType, Gate!StatusIsTrue, Gate!At
<1> QED
  BY <1>1, <1>2, <1>3, PTL DEF Gate!Spec

------------------------------------------------------------------------------
\* Streams to other nodes.

States == {"copying", "streaming", "syncing", "completed"}
Context == [target : Targets, ranges : Ranges, state : States, streamed : Nat,
            had : SUBSET Streams!Keys]

\* A context and a goroutine for every stream that was started.
StreamTypes ==
  /\ ctx \in Seq(Context) /\ run \in Seq({"copy", "stream", "sync", "verify", "end"})
  /\ Len(run) = Len(ctx)
  /\ active \in [Targets -> 0..Len(ctx)]
  /\ stored \subseteq Streams!Keys /\ fresh \subseteq Streams!Keys
  /\ live \subseteq (1..Len(ctx)) \X Streams!Keys

\* A context is completed when its goroutine has ended.
CompletedOK == \A i \in 1..Len(ctx) : ctx[i].state = "completed" => run[i] = "end"

StreamInv == StreamTypes /\ CompletedOK

\* There are no streams at first.
LEMMA StreamInit ==
  ASSUME Streams!Init PROVE StreamInv
<1>1. ctx = <<>> /\ run = <<>> /\ ctx \in Seq(Context) /\ Len(ctx) = 0 /\ Len(run) = 0
      /\ run \in Seq({"copy", "stream", "sync", "verify", "end"})
  BY DEF Streams!Init
<1> QED
  BY <1>1 DEF Streams!Init, StreamInv, StreamTypes, CompletedOK

\* A step that changes the state or the count of one context and moves its goroutine.
LEMMA ContextStep ==
  ASSUME StreamInv, NEW i \in 1..Len(ctx), NEW c \in Context, c.target = ctx[i].target,
         ctx' = [ctx EXCEPT ![i] = c], NEW to \in {"copy", "stream", "sync", "verify", "end"},
         run' = [run EXCEPT ![i] = to], c.state = "completed" => to = "end",
         UNCHANGED <<active, stored, fresh>>, live' \subseteq live
  PROVE  /\ StreamInv'
         /\ Len(ctx') = Len(ctx)
         /\ \A j \in 1..Len(ctx) : /\ ctx'[j].target = ctx[j].target
                                   /\ j # i => ctx'[j] = ctx[j] /\ run'[j] = run[j]
         /\ ctx'[i] = c /\ run'[i] = to
<1>1. StreamTypes
  BY DEF StreamInv
<1>2. /\ ctx' \in Seq(Context) /\ Len(ctx') = Len(ctx) /\ ctx'[i] = c
      /\ \A j \in 1..Len(ctx) : j # i => ctx'[j] = ctx[j]
  BY <1>1 DEF StreamTypes
<1>3. /\ run' \in Seq({"copy", "stream", "sync", "verify", "end"}) /\ Len(run') = Len(run)
      /\ run'[i] = to /\ \A j \in 1..Len(run) : j # i => run'[j] = run[j]
  BY <1>1 DEF StreamTypes
<1>4. \A j \in 1..Len(ctx) : ctx'[j].target = ctx[j].target
  BY <1>2
<1>5. StreamTypes'
  BY <1>1, <1>2, <1>3 DEF StreamTypes, Streams!Keys
<1>6. CompletedOK'
  BY <1>1, <1>2, <1>3 DEF StreamInv, CompletedOK, StreamTypes
<1> QED
  BY <1>1, <1>2, <1>3, <1>4, <1>5, <1>6 DEF StreamInv, StreamTypes

\* What a step of the goroutine of a stream does.
LEMMA ExecuteStep ==
  ASSUME StreamInv, NEW i \in DOMAIN run, Streams!Execute(i)
  PROVE  /\ StreamInv'
         /\ Len(ctx') = Len(ctx) /\ active' = active /\ acks' = acks /\ run[i] # "end"
         /\ \A j \in 1..Len(ctx) : /\ ctx'[j].target = ctx[j].target
                                   /\ j # i => ctx'[j] = ctx[j] /\ run'[j] = run[j]
<1>1. i \in 1..Len(ctx) /\ ctx[i] \in Context /\ StreamTypes
  BY DEF StreamInv, StreamTypes
<1>2. PICK s \in States, to \in {"stream", "sync", "verify", "end"} :
        /\ ctx' = [ctx EXCEPT ![i].state = s] /\ run' = [run EXCEPT ![i] = to]
        /\ s = "completed" => to = "end"
        /\ run[i] # "end"
        /\ UNCHANGED <<active, stored, fresh, live, acks>>
  BY DEF Streams!Execute, Streams!BulkCopy, Streams!LiveStreaming, Streams!Syncing, Streams!Verify,
         Streams!SetState, States
<1> DEFINE c == [ctx[i] EXCEPT !.state = s]
<1>3. c \in Context /\ c.target = ctx[i].target /\ c.state = s
  BY <1>1 DEF Context
<1>4. ctx' = [ctx EXCEPT ![i] = c]
  BY <1>2
<1> HIDE DEF c
<1> QED
  BY <1>1, <1>2, <1>3, <1>4, ContextStep, Zenon

\* What a live write that is sent does.
LEMMA SendLiveStep ==
  ASSUME StreamInv, NEW w \in live, Streams!SendLive(w)
  PROVE  /\ StreamInv'
         /\ Len(ctx') = Len(ctx) /\ UNCHANGED <<active, acks, run>>
         /\ \A j \in 1..Len(ctx) : ctx'[j].target = ctx[j].target /\ ctx'[j].state = ctx[j].state
<1>1. StreamTypes /\ w[1] \in 1..Len(ctx)
  BY DEF StreamInv, StreamTypes
<1>2. PICK i \in 1..Len(ctx) : i = w[1]
  BY <1>1
<1>3. ctx[i] \in Context /\ run[i] \in {"copy", "stream", "sync", "verify", "end"}
  BY <1>1 DEF StreamTypes
<1> DEFINE n == ctx[i].streamed + 1
<1>4. n \in Nat
  BY <1>3 DEF Context
<1>5. /\ ctx' = [ctx EXCEPT ![i] = [ctx[i] EXCEPT !.streamed = n]]
      /\ UNCHANGED <<active, stored, fresh, acks, run>> /\ live' \subseteq live
  BY <1>2 DEF Streams!SendLive
<1> HIDE DEF n
<1>6. PICK c \in Context : /\ c.target = ctx[i].target /\ c.state = ctx[i].state
                          /\ ctx' = [ctx EXCEPT ![i] = c]
  <2> DEFINE c == [ctx[i] EXCEPT !.streamed = n]
  <2>1. c \in Context /\ c.target = ctx[i].target /\ c.state = ctx[i].state
    BY <1>3, <1>4 DEF Context
  <2> QED
    BY <1>5, <2>1, Zenon
<1>7. PICK to \in {"copy", "stream", "sync", "verify", "end"} : run[i] = to
  BY <1>3
<1>8. run' = [run EXCEPT ![i] = to] /\ (c.state = "completed" => to = "end")
  BY <1>1, <1>5, <1>6, <1>7 DEF StreamInv, StreamTypes, CompletedOK
<1>9. /\ StreamInv' /\ Len(ctx') = Len(ctx)
      /\ \A j \in 1..Len(ctx) : ctx'[j].target = ctx[j].target /\ (j # i => ctx'[j] = ctx[j])
      /\ ctx'[i] = c
  <2>1. UNCHANGED <<active, stored, fresh>> /\ live' \subseteq live
    BY <1>5
  <2>2. c.target = ctx[i].target /\ ctx' = [ctx EXCEPT ![i] = c]
    BY <1>6
  <2> QED
    BY <1>8, <2>1, <2>2, ContextStep, Zenon
<1> QED
  BY <1>5, <1>6, <1>9

\* What StartStreaming does.
LEMMA StartStep ==
  ASSUME StreamInv, NEW t \in Targets, NEW rs \in Ranges, Streams!StartStreaming(t, rs)
  PROVE  /\ StreamInv'
         /\ Len(ctx') = Len(ctx) + 1 /\ ctx'[Len(ctx) + 1].target = t /\ active[t] = 0
         /\ \A j \in 1..Len(ctx) : ctx'[j] = ctx[j] /\ run'[j] = run[j]
         /\ active' = [active EXCEPT ![t] = Len(ctx) + 1] /\ acks' = acks
         /\ ctx'[Len(ctx) + 1].state = "copying"
<1> DEFINE c == [target |-> t, ranges |-> rs, state |-> "copying", streamed |-> 0,
                 had |-> {k \in stored : Streams!KeyInRanges(k, rs)}]
<1>1. StreamTypes
  BY DEF StreamInv
<1>2. c \in Context /\ c.target = t /\ c.state = "copying"
  BY <1>1 DEF Context, States, StreamTypes
<1>3. /\ ctx' = Append(ctx, c) /\ run' = Append(run, "copy") /\ active[t] = 0
      /\ active' = [active EXCEPT ![t] = Len(ctx) + 1] /\ UNCHANGED <<stored, fresh, live, acks>>
  BY DEF Streams!StartStreaming
<1> HIDE DEF c
<1>4. /\ ctx' \in Seq(Context) /\ Len(ctx') = Len(ctx) + 1 /\ ctx'[Len(ctx) + 1] = c
      /\ \A j \in 1..Len(ctx) : ctx'[j] = ctx[j]
  BY <1>1, <1>2, <1>3 DEF StreamTypes
<1>5. /\ run' \in Seq({"copy", "stream", "sync", "verify", "end"}) /\ Len(run') = Len(ctx')
      /\ \A j \in 1..Len(ctx) : run'[j] = run[j]
  BY <1>1, <1>3, <1>4 DEF StreamTypes
<1>6. active' \in [Targets -> 0..Len(ctx')]
  BY <1>1, <1>3, <1>4 DEF StreamTypes
<1>7. live' \subseteq (1..Len(ctx')) \X Streams!Keys
  <2>1. \A x \in live : x \in (1..Len(ctx')) \X Streams!Keys
    BY <1>1, <1>4 DEF StreamTypes
  <2> QED
    BY <1>3, <2>1
<1>8. StreamTypes'
  BY <1>1, <1>3, <1>4, <1>5, <1>6, <1>7, Zenon DEF StreamTypes, Streams!Keys
<1>9. CompletedOK'
  BY <1>1, <1>2, <1>4, <1>5 DEF StreamInv, CompletedOK, StreamTypes
<1> QED
  BY <1>2, <1>3, <1>4, <1>5, <1>8, <1>9 DEF StreamInv

\* A step that leaves contexts and goroutines alone.
LEMMA AsideStep ==
  ASSUME StreamInv, UNCHANGED <<ctx, run>>, active' \in [Targets -> 0..Len(ctx)],
         stored' \subseteq Streams!Keys, fresh' \subseteq Streams!Keys,
         live' \subseteq (1..Len(ctx)) \X Streams!Keys
  PROVE  StreamInv'
BY DEF StreamInv, StreamTypes, CompletedOK, Streams!Keys

\* Removing a context, whoever asks for it.
LEMMA DetachStep ==
  ASSUME StreamInv, NEW t \in Targets, Streams!StopStreaming(t) \/ Streams!RemoveAcknowledged(t)
  PROVE  StreamInv' /\ UNCHANGED <<ctx, run>> /\ active' = [active EXCEPT ![t] = 0]
<1>1. /\ UNCHANGED <<ctx, run, stored, fresh, live>> /\ active' = [active EXCEPT ![t] = 0]
  BY DEF Streams!StopStreaming, Streams!RemoveAcknowledged
<1>2. active' \in [Targets -> 0..Len(ctx)]
  BY <1>1 DEF StreamInv, StreamTypes
<1> QED
  BY <1>1, <1>2, AsideStep DEF StreamInv, StreamTypes

\* What clients and acknowledgements do.
LEMMA ClientStep ==
  ASSUME StreamInv,
         \/ \E k \in Streams!Keys : Streams!Write(k)
         \/ \E k \in fresh : Streams!InterceptWrite(k)
         \/ \E t \in Targets : Streams!NotifyStreamingComplete(t)
         \/ UNCHANGED Streams!vars
  PROVE  StreamInv' /\ UNCHANGED <<ctx, run, active>>
<1>1. StreamTypes
  BY DEF StreamInv
<1>2. CASE \E k \in Streams!Keys : Streams!Write(k)
  BY <1>1, <1>2, AsideStep DEF Streams!Write, StreamTypes
<1>3. ASSUME NEW k \in fresh, Streams!InterceptWrite(k)
      PROVE  StreamInv' /\ UNCHANGED <<ctx, run, active>>
  <2>1. /\ UNCHANGED <<ctx, run, active, stored>> /\ fresh' \subseteq Streams!Keys
        /\ \A x \in live' : x \in live \/ \E t \in Targets : active[t] # 0 /\ x = <<active[t], k>>
    BY <1>1, <1>3 DEF Streams!InterceptWrite, StreamTypes
  <2>2. \A t \in Targets : active[t] # 0 => <<active[t], k>> \in (1..Len(ctx)) \X Streams!Keys
    BY <1>1 DEF StreamTypes
  <2>3. live' \subseteq (1..Len(ctx)) \X Streams!Keys
    BY <1>1, <2>1, <2>2 DEF StreamTypes
  <2> QED
    BY <1>1, <2>1, <2>3, AsideStep DEF StreamTypes
<1>4. CASE \E t \in Targets : Streams!NotifyStreamingComplete(t)
  BY <1>1, <1>4, AsideStep DEF Streams!NotifyStreamingComplete, StreamTypes
<1>5. CASE UNCHANGED Streams!vars
  BY <1>1, <1>5, AsideStep DEF Streams!vars, StreamTypes
<1> QED
  BY <1>2, <1>3, <1>4, <1>5

\* Every step keeps the invariant.
LEMMA StreamStep ==
  ASSUME StreamInv, [Streams!Next]_(Streams!vars) PROVE StreamInv'
BY ExecuteStep, SendLiveStep, StartStep, DetachStep, ClientStep DEF Streams!Next, Streams!Serve

\* While nothing was stopped: a goroutine that has not ended has the context its target
\* has, and only completed streams are acknowledged.
OneRunOK ==
  /\ \A i \in 1..Len(ctx) : run[i] # "end" => active[ctx[i].target] = i
  /\ acks \subseteq Targets
  /\ \A t \in acks : active[t] # 0 /\ ctx[active[t]].state = "completed"

\* Steps that leave the contexts and the goroutines alone, but for an acknowledgement.
LEMMA ServeStep ==
  ASSUME StreamInv, OneRunOK, Streams!Serve \/ UNCHANGED Streams!vars PROVE StreamInv' /\ OneRunOK'
<1>1. /\ StreamTypes /\ CompletedOK /\ \A i \in 1..Len(ctx) : ctx[i].target \in Targets
      /\ DOMAIN run = 1..Len(ctx) /\ Len(ctx) \in Nat
  <2>1. \A i \in 1..Len(ctx) : ctx[i] \in Context
    BY DEF StreamInv, StreamTypes
  <2> QED
    BY <2>1 DEF StreamInv, StreamTypes, Context
<1>2. ASSUME NEW t \in Targets, NEW rs \in Ranges, Streams!StartStreaming(t, rs) PROVE StreamInv' /\ OneRunOK'
  <2>1. \A j \in 1..Len(ctx) : ctx[j].target = t => run[j] = "end"
    BY <1>1, <1>2, StartStep DEF OneRunOK
  <2>2. /\ Len(ctx') = Len(ctx) + 1 /\ ctx'[Len(ctx) + 1].target = t /\ active[t] = 0 /\ acks' = acks
        /\ \A j \in 1..Len(ctx) : ctx'[j] = ctx[j] /\ run'[j] = run[j]
        /\ active'[t] = Len(ctx) + 1 /\ \A u \in Targets \ {t} : active'[u] = active[u]
    BY <1>1, <1>2, StartStep DEF StreamTypes
  <2>3. \A u \in acks : u # t /\ active[u] \in 1..Len(ctx) /\ active'[u] = active[u]
    BY <1>1, <2>2 DEF OneRunOK, StreamTypes
  <2>4. \A i \in 1..Len(ctx) : run'[i] # "end" => active'[ctx'[i].target] = i
    BY <1>1, <2>1, <2>2 DEF OneRunOK
  <2>5. \A i \in 1..Len(ctx') : run'[i] # "end" => active'[ctx'[i].target] = i
    BY <1>1, <2>2, <2>4
  <2>6. OneRunOK'
    BY <2>2, <2>3, <2>5 DEF OneRunOK
  <2> QED
    BY <1>2, <2>6, StartStep
<1>3. ASSUME NEW i \in DOMAIN run, Streams!Execute(i) PROVE StreamInv' /\ OneRunOK'
  <2>1. \A t \in acks : active[t] # i
    BY <1>1, <1>3, ExecuteStep DEF OneRunOK, CompletedOK
  <2>2. \A t \in acks : active[t] \in 1..Len(ctx)
    BY <1>1 DEF OneRunOK, StreamTypes
  <2> QED
    BY <1>1, <1>3, <2>1, <2>2, ExecuteStep DEF OneRunOK
<1>4. ASSUME NEW w \in live, Streams!SendLive(w) PROVE StreamInv' /\ OneRunOK'
  <2>1. \A t \in acks : active[t] \in 1..Len(ctx)
    BY <1>1 DEF OneRunOK, StreamTypes
  <2> QED
    BY <1>1, <1>4, <2>1, SendLiveStep DEF OneRunOK
<1>5. ASSUME NEW t \in Targets, Streams!RemoveAcknowledged(t) PROVE StreamInv' /\ OneRunOK'
  <2>1. t \in acks /\ acks' = acks \ {t}
    BY <1>5 DEF Streams!RemoveAcknowledged
  <2>2. \A i \in 1..Len(ctx) : ctx[i].target = t => run[i] = "end"
    BY <1>1, <2>1 DEF OneRunOK, CompletedOK
  <2> QED
    BY <1>1, <1>5, <2>1, <2>2, DetachStep DEF OneRunOK, StreamTypes
<1>6. ASSUME NEW t \in Targets, Streams!NotifyStreamingComplete(t) PROVE StreamInv' /\ OneRunOK'
  BY <1>1, <1>6, ClientStep DEF OneRunOK, Streams!NotifyStreamingComplete
<1>7. CASE \/ \E k \in Streams!Keys : Streams!Write(k)
           \/ \E k \in fresh : Streams!InterceptWrite(k)
           \/ UNCHANGED Streams!vars
  <2>1. acks' = acks
    BY <1>7 DEF Streams!Write, Streams!InterceptWrite, Streams!vars
  <2> QED
    BY <1>7, <2>1, ClientStep DEF OneRunOK
<1> QED
  BY <1>2, <1>3, <1>4, <1>5, <1>6, <1>7 DEF Streams!Serve

\* StreamsAreOwn for any number of targets and streams: a context is completed by its
\* own goroutine, and without a stop a new stream is refused until the last one was
\* acknowledged, which takes its end.
THEOREM StreamsAlwaysOwn == Streams!Spec => []StreamsAreOwn
<1> DEFINE Inv == StreamInv /\ (~halted => OneRunOK)
<1>1. Streams!Init => Inv
  <2> SUFFICES ASSUME Streams!Init PROVE OneRunOK
    BY StreamInit
  <2>1. ctx = <<>> /\ acks = {}
    BY DEF Streams!Init
  <2>2. 1..Len(ctx) = {}
    BY <2>1
  <2> QED
    BY <2>1, <2>2, Zenon DEF OneRunOK
<1>2. ASSUME Inv, [Streams!Next]_(Streams!vars) PROVE Inv'
  <2>1. CASE Streams!Serve \/ UNCHANGED Streams!vars
    <3>1. halted' = halted
      BY <2>1, Zenon DEF Streams!Serve, Streams!StartStreaming, Streams!Execute, Streams!BulkCopy,
        Streams!LiveStreaming, Streams!Syncing, Streams!Verify, Streams!Write, Streams!InterceptWrite,
        Streams!SendLive, Streams!NotifyStreamingComplete, Streams!RemoveAcknowledged, Streams!vars
    <3> QED
      BY <1>2, <2>1, <3>1, StreamStep, ServeStep
  <2>2. ASSUME NEW t \in Targets, Streams!StopStreaming(t) PROVE halted'
    BY <2>2 DEF Streams!StopStreaming
  <2> QED
    BY <1>2, <2>1, <2>2, StreamStep DEF Streams!Next
<1>3. Inv => StreamsAreOwn
  BY DEF StreamInv, StreamTypes, CompletedOK, OneRunOK, StreamsAreOwn, Streams!CompletedIsOwn,
     Streams!OneRunPerTarget
<1> HIDE DEF Inv
<1> QED
  BY <1>1, <1>2, <1>3, PTL DEF Streams!Spec

------------------------------------------------------------------------------
\* Adding and removing storage nodes.

Row == [status : {"none", "active", "draining", "inactive"},
        state : {"none", "NORMAL", "BOOTSTRAPPING", "LEAVING", "DOWN"},
        pending : SUBSET Hosts, leaving : SUBSET Hosts]
Rows == [Hosts -> Row]
Pairs == Hosts \X Hosts
Request == [kind : {"none", "add", "remove"}, node : Hosts, coord : Coords,
            pc : {"free", "calc", "record", "start", "drain", "leave", "poll", "hints", "join",
                  "normal", "active", "unring", "delete", "rollback", "done", "reverted", "error", "lost"},
            peers : SUBSET Hosts, seen : SUBSET Hosts, tries : Nat]

\* What a monitor has seen completed was streamed, and it has seen all before it goes on.
Monitored(o, S) ==
  /\ o.kind = "add" => \A m \in o.seen : <<m, o.node>> \in S
  /\ o.kind = "remove" => \A m \in o.seen : <<o.node, m>> \in S
  /\ o.pc \in {"hints", "join", "normal", "active"} => o.kind = "add" /\ o.seen = o.peers
  /\ o.pc \in {"unring", "delete"} => o.kind = "remove" /\ o.seen = o.peers
  /\ o.kind = "remove" => "remove" \in Kinds \/ "force" \in Kinds

TopoTypes ==
  /\ row \in Rows /\ ring \in [Coords -> SUBSET Hosts]
  /\ stream \in [Pairs -> {"none", "running", "completed", "failed"}]
  /\ op \in [Topo!Ops -> Request]

TopoInv ==
  /\ TopoTypes
  /\ \A p \in Pairs : stream[p] = "completed" => p \in streamed
  /\ \A i \in Topo!Ops : Monitored(op[i], streamed)

\* A write of ranges leaves the status and the state of all nodes alone.
LEMMA RangesWritten ==
  ASSUME NEW t \in Rows, NEW n \in Hosts, NEW p \in SUBSET Hosts, NEW l \in SUBSET Hosts
  PROVE  /\ Topo!WithRanges(t, n, p, l) \in Rows
         /\ \A m \in Hosts : /\ Topo!WithRanges(t, n, p, l)[m].status = t[m].status
                             /\ Topo!WithRanges(t, n, p, l)[m].state = t[m].state
<1> DEFINE r == [t[n] EXCEPT !.pending = p, !.leaving = l]
           u == [t EXCEPT ![n] = r]
<1>1. t[n] \in Row
  BY DEF Rows
<1>2. r \in Row /\ r.status = t[n].status /\ r.state = t[n].state
  BY <1>1, Zenon DEF Row
<1>3. Topo!WithRanges(t, n, p, l) = t \/ Topo!WithRanges(t, n, p, l) = u
  BY Zenon DEF Topo!WithRanges
<1> HIDE DEF r
<1>4. u \in Rows /\ \A m \in Hosts : u[m] = IF m = n THEN r ELSE t[m]
  BY <1>2 DEF Rows
<1>5. \A m \in Hosts : u[m].status = t[m].status /\ u[m].state = t[m].state
  BY <1>2, <1>4
<1> HIDE DEF u
<1> QED
  BY <1>3, <1>4, <1>5

\* So does clearing the ranges of several nodes.
LEMMA RangesAreCleared ==
  ASSUME NEW t \in Rows, NEW S \in SUBSET Hosts
  PROVE  /\ Topo!RangesCleared(t, S) \in Rows
         /\ \A m \in Hosts : /\ Topo!RangesCleared(t, S)[m].status = t[m].status
                             /\ Topo!RangesCleared(t, S)[m].state = t[m].state
<1> DEFINE u == Topo!RangesCleared(t, S)
<1>1. u = [n \in Hosts |-> IF n \in S THEN Topo!WithRanges(t, n, {}, {})[n] ELSE t[n]]
  BY DEF Topo!RangesCleared
<1>2. \A n \in Hosts : /\ Topo!WithRanges(t, n, {}, {})[n] \in Row /\ t[n] \in Row
                       /\ Topo!WithRanges(t, n, {}, {})[n].status = t[n].status
                       /\ Topo!WithRanges(t, n, {}, {})[n].state = t[n].state
  <2> TAKE n \in Hosts
  <2>1. {} \in SUBSET Hosts
    OBVIOUS
  <2>2. /\ Topo!WithRanges(t, n, {}, {}) \in Rows
        /\ \A m \in Hosts : /\ Topo!WithRanges(t, n, {}, {})[m].status = t[m].status
                            /\ Topo!WithRanges(t, n, {}, {})[m].state = t[m].state
    BY <2>1, RangesWritten, Zenon
  <2>3. \A v \in Rows : v[n] \in Row
    BY DEF Rows
  <2> QED
    BY <2>2, <2>3, Zenon
<1>3. \A n \in Hosts : u[n] = Topo!WithRanges(t, n, {}, {})[n] \/ u[n] = t[n]
  BY <1>1
<1>4. u \in Rows
  BY <1>1, <1>2 DEF Rows
<1> QED
  BY <1>2, <1>3, <1>4

\* A write of the state changes that of one node, and no status.
LEMMA StateWritten ==
  ASSUME NEW t \in Rows, NEW n \in Hosts, NEW s \in {"NORMAL", "BOOTSTRAPPING", "LEAVING", "DOWN"}
  PROVE  /\ Topo!WithState(t, n, s) \in Rows
         /\ \A m \in Hosts : /\ Topo!WithState(t, n, s)[m].status = t[m].status
                             /\ \/ Topo!WithState(t, n, s)[m].state = t[m].state
                                \/ m = n /\ Topo!WithState(t, n, s)[m].state = s
<1> DEFINE r == [t[n] EXCEPT !.state = s]
           u == [t EXCEPT ![n] = r]
<1>1. t[n] \in Row
  BY DEF Rows
<1>2. r \in Row /\ r.status = t[n].status /\ r.state = s
  BY <1>1 DEF Row
<1>3. Topo!WithState(t, n, s) = t \/ Topo!WithState(t, n, s) = u
  BY DEF Topo!WithState
<1> HIDE DEF r
<1>4. u \in Rows /\ \A m \in Hosts : u[m] = IF m = n THEN r ELSE t[m]
  BY <1>2 DEF Rows
<1>5. \A m \in Hosts : u[m].status = t[m].status /\ (u[m].state = t[m].state \/ (m = n /\ u[m].state = s))
  BY <1>2, <1>4
<1> HIDE DEF u
<1> QED
  BY <1>3, <1>4, <1>5

\* A write of the status, which the table may refuse, leaves states alone and deletes no row.
LEMMA StatusWritten ==
  ASSUME NEW t \in Rows, NEW n \in Hosts, NEW s
  PROVE  /\ Topo!WithStatus(t, n, s) \in Rows
         /\ \A m \in Hosts : /\ Topo!WithStatus(t, n, s)[m].state = t[m].state
                             /\ t[m].status # "none" => Topo!WithStatus(t, n, s)[m].status # "none"
<1>1. CASE s \notin {"active", "draining", "inactive"}
  BY <1>1 DEF Topo!WithStatus
<1>2. CASE s \in {"active", "draining", "inactive"}
  <2> DEFINE r == [t[n] EXCEPT !.status = s]
             u == [t EXCEPT ![n] = r]
  <2>1. t[n] \in Row
    BY DEF Rows
  <2>2. r \in Row /\ r.status = s /\ r.state = t[n].state
    BY <1>2, <2>1 DEF Row
  <2>3. Topo!WithStatus(t, n, s) = t \/ Topo!WithStatus(t, n, s) = u
    BY DEF Topo!WithStatus
  <2> HIDE DEF r
  <2>4. u \in Rows /\ \A m \in Hosts : u[m] = IF m = n THEN r ELSE t[m]
    BY <2>2 DEF Rows
  <2>5. \A m \in Hosts : u[m].state = t[m].state /\ (t[m].status # "none" => u[m].status # "none")
    BY <1>2, <2>2, <2>4
  <2> HIDE DEF u
  <2> QED
    BY <2>3, <2>4, <2>5
<1> QED
  BY <1>1, <1>2

\* A write that fails leaves the table as it is.
LEMMA WriteTried ==
  ASSUME NEW t, NEW u, NEW x \in Topo!Tried(t, u) PROVE x = t \/ x = u
BY DEF Topo!Tried

\* No row is deleted, and no node that bootstraps becomes NORMAL.
Calm(t, u) == \A n \in Hosts : /\ t[n].status # "none" => u[n].status # "none"
                               /\ t[n].state = "BOOTSTRAPPING" => u[n].state # "NORMAL"

\* A step that moves one request and starts, stops or completes streams.
LEMMA RequestStep ==
  ASSUME TopoInv, NEW i \in Topo!Ops, NEW o \in Request, op' = [op EXCEPT ![i] = o],
         row' \in Rows, ring' \in [Coords -> SUBSET Hosts], streamed' = streamed,
         stream' \in [Pairs -> {"none", "running", "completed", "failed"}],
         \A p \in Pairs : stream'[p] = "completed" => stream[p] = "completed",
         Monitored(o, streamed)
  PROVE  TopoInv'
<1>1. TopoTypes'
  BY DEF TopoInv, TopoTypes, Topo!Ops, Rows, Pairs, Row, Request
<1>2. \A p \in Pairs : stream'[p] = "completed" => p \in streamed'
  BY DEF TopoInv
<1>3. \A j \in Topo!Ops : op'[j] = o \/ op'[j] = op[j]
  BY DEF TopoInv, TopoTypes
<1>4. \A j \in Topo!Ops : Monitored(op'[j], streamed')
  BY <1>3 DEF TopoInv
<1> QED
  BY <1>1, <1>2, <1>4 DEF TopoInv, Pairs, Topo!Ops

\* A request that goes on without having to have seen anything.
LEMMA GotoStep ==
  ASSUME TopoInv, NEW i \in Topo!Ops,
         NEW pc \in {"free", "calc", "record", "start", "drain", "leave", "poll", "rollback",
                     "done", "reverted", "error", "lost"},
         Topo!Goto(i, pc),
         row' \in Rows, ring' \in [Coords -> SUBSET Hosts], streamed' = streamed,
         stream' \in [Pairs -> {"none", "running", "completed", "failed"}],
         \A p \in Pairs : stream'[p] = "completed" => stream[p] = "completed"
  PROVE  TopoInv'
<1> DEFINE o == [op[i] EXCEPT !.pc = pc]
<1>1. op' = [op EXCEPT ![i] = o]
  BY DEF Topo!Goto
<1>2. op[i] \in Request /\ Monitored(op[i], streamed)
  BY DEF TopoInv, TopoTypes
<1>3. o \in Request /\ o.pc = pc /\ o.kind = op[i].kind /\ o.node = op[i].node /\ o.seen = op[i].seen
  BY <1>2 DEF Request
<1> HIDE DEF o
<1>4. Monitored(o, streamed)
  BY <1>2, <1>3 DEF Monitored
<1> QED
  BY <1>1, <1>3, <1>4, RequestStep, Zenon

\* A monitor that has seen everything goes on to its next step.
LEMMA OnwardStep ==
  ASSUME TopoInv, NEW i \in Topo!Ops, NEW pc, Topo!Goto(i, pc),
         \/ op[i].pc \in {"hints", "join", "normal", "active"} /\ pc \in {"join", "normal", "active"}
         \/ op[i].pc \in {"unring", "delete"} /\ pc = "delete",
         row' \in Rows, ring' \in [Coords -> SUBSET Hosts], streamed' = streamed, stream' = stream
  PROVE  TopoInv'
<1> DEFINE o == [op[i] EXCEPT !.pc = pc]
<1>1. op' = [op EXCEPT ![i] = o]
  BY DEF Topo!Goto
<1>2. op[i] \in Request /\ Monitored(op[i], streamed)
  BY DEF TopoInv, TopoTypes
<1>3. /\ o \in Request /\ o.pc = pc /\ o.kind = op[i].kind /\ o.node = op[i].node /\ o.seen = op[i].seen
      /\ o.peers = op[i].peers
  BY <1>2 DEF Request
<1> HIDE DEF o
<1>4. Monitored(o, streamed)
  BY <1>2, <1>3 DEF Monitored
<1>5. stream' \in [Pairs -> {"none", "running", "completed", "failed"}]
  BY DEF TopoInv, TopoTypes
<1> QED
  BY <1>1, <1>3, <1>4, <1>5, RequestStep, Zenon

\* There are no requests at first.
LEMMA TopoInit ==
  ASSUME Topo!TopologyAssumption, Topo!Init PROVE TopoInv
<1>1. (CHOOSE n \in Hosts : TRUE) \in Hosts /\ (CHOOSE c \in Coords : TRUE) \in Coords
  BY DEF Topo!TopologyAssumption
<1>2. Topo!FreeOp \in Request /\ Topo!FreeOp.kind = "none" /\ Topo!FreeOp.pc = "free"
  BY <1>1 DEF Topo!FreeOp, Request
<1>3. Topo!NoRow \in Row /\ Topo!NormalRow \in Row
  BY Zenon DEF Topo!NoRow, Topo!NormalRow, Row
<1>4. row \in Rows
  BY <1>3 DEF Topo!Init, Rows
<1>5. op \in [Topo!Ops -> Request] /\ \A i \in Topo!Ops : Monitored(op[i], streamed)
  BY <1>2 DEF Topo!Init, Monitored
<1>6. ring \in [Coords -> SUBSET Hosts] /\ stream \in [Pairs -> {"none", "running", "completed", "failed"}]
      /\ \A p \in Pairs : stream[p] # "completed"
  BY DEF Topo!Init, Topo!TopologyAssumption, Pairs
<1> QED
  BY <1>4, <1>5, <1>6 DEF TopoInv, TopoTypes

\* A request that begins.
LEMMA BeginStep ==
  ASSUME Topo!TopologyAssumption, TopoInv, NEW i \in Topo!Ops, NEW c \in Coords, NEW n \in Candidates,
         Topo!AddStorageNode(i, c, n) \/ \E force \in BOOLEAN : Topo!RemoveStorageNode(i, c, n, force)
  PROVE  TopoInv' /\ Calm(row, row')
<1>1. PICK kind \in {"add", "remove"}, pc \in {"calc", "drain"} :
        /\ op' = [op EXCEPT ![i] = [Topo!FreeOp EXCEPT !.kind = kind, !.node = n, !.coord = c, !.pc = pc]]
        /\ UNCHANGED <<ring, stream, streamed>>
        /\ \/ row' = row
           \/ /\ row' = [row EXCEPT ![n] = [Topo!NormalRow EXCEPT !.state = "BOOTSTRAPPING"]]
              /\ row[n].status = "none"
        /\ kind = "remove" => "remove" \in Kinds \/ "force" \in Kinds
  BY DEF Topo!AddStorageNode, Topo!RemoveStorageNode, Topo!Begin, Topo!Exists
<1> DEFINE o == [Topo!FreeOp EXCEPT !.kind = kind, !.node = n, !.coord = c, !.pc = pc]
           r == [Topo!NormalRow EXCEPT !.state = "BOOTSTRAPPING"]
<1>2. n \in Hosts
  BY DEF Topo!TopologyAssumption
<1>3. o \in Request /\ o.kind = kind /\ o.pc = pc /\ o.seen = {}
  BY <1>2, Zenon DEF Topo!FreeOp, Request
<1>4. r \in Row /\ r.status = "active" /\ r.state = "BOOTSTRAPPING"
  BY Zenon DEF Topo!NormalRow, Topo!NoRow, Row
<1>5. op' = [op EXCEPT ![i] = o] /\ (row' = row \/ row' = [row EXCEPT ![n] = r])
  BY <1>1
<1> HIDE DEF o, r
<1>6. Monitored(o, streamed)
  BY <1>1, <1>3 DEF Monitored
<1>7. row \in Rows /\ ring \in [Coords -> SUBSET Hosts]
      /\ stream \in [Pairs -> {"none", "running", "completed", "failed"}]
  BY DEF TopoInv, TopoTypes
<1>8. row' \in Rows /\ Calm(row, row')
  BY <1>2, <1>4, <1>5, <1>7 DEF Rows, Calm
<1>9. TopoInv'
  BY <1>1, <1>3, <1>5, <1>6, <1>7, <1>8, RequestStep, Zenon
<1> QED
  BY <1>8, <1>9

\* The peers are calculated from the ring.
LEMMA CalculateStep ==
  ASSUME TopoInv, NEW i \in Topo!Ops, Topo!CalculateForNewNode(i) \/ Topo!CalculateForRemovedNode(i)
  PROVE  TopoInv' /\ Calm(row, row')
<1>1. op[i] \in Request /\ Monitored(op[i], streamed) /\ ring[op[i].coord] \in SUBSET Hosts
  BY DEF TopoInv, TopoTypes, Request
<1>2. PICK S \in SUBSET Hosts : /\ op' = [op EXCEPT ![i].pc = "record", ![i].peers = S]
                                /\ UNCHANGED <<row, ring, stream, streamed>>
  <2>1. CASE Topo!CalculateForNewNode(i)
    <3> DEFINE S == IF op[i].node \in ring[op[i].coord] THEN {} ELSE ring[op[i].coord]
    <3>1. S \in SUBSET Hosts
      BY <1>1
    <3> QED
      BY <2>1, <3>1, Zenon DEF Topo!CalculateForNewNode
  <2>2. CASE Topo!CalculateForRemovedNode(i)
    <3> DEFINE S == IF op[i].node \in ring[op[i].coord] THEN ring[op[i].coord] \ {op[i].node} ELSE {}
    <3>1. S \in SUBSET Hosts
      BY <1>1
    <3> QED
      BY <2>2, <3>1, Zenon DEF Topo!CalculateForRemovedNode
  <2> QED
    BY <2>1, <2>2
<1> DEFINE o == [op[i] EXCEPT !.pc = "record", !.peers = S]
<1>3. op' = [op EXCEPT ![i] = o]
  BY <1>2, Zenon
<1>4. o \in Request /\ o.pc = "record" /\ o.kind = op[i].kind /\ o.node = op[i].node /\ o.seen = op[i].seen
  BY <1>1, Zenon DEF Request
<1> HIDE DEF o
<1>5. Monitored(o, streamed)
  BY <1>1, <1>4 DEF Monitored
<1>6. row \in Rows /\ ring \in [Coords -> SUBSET Hosts]
      /\ stream \in [Pairs -> {"none", "running", "completed", "failed"}]
  BY DEF TopoInv, TopoTypes
<1>7. TopoInv'
  BY <1>2, <1>3, <1>4, <1>5, <1>6, RequestStep, Zenon
<1> QED
  BY <1>2, <1>7 DEF Calm

\* The handlers write the table and start streams.
LEMMA HandlerStep ==
  ASSUME TopoInv, NEW i \in Topo!Ops,
         \/ Topo!Drain(i) \/ Topo!Leave(i) \/ Topo!RecordAddition(i) \/ Topo!RecordRemoval(i)
         \/ Topo!StartToNewNode(i) \/ Topo!StartFromLeaving(i) \/ Topo!Refused(i)
  PROVE  TopoInv' /\ Calm(row, row')
<1>1. /\ row \in Rows /\ ring \in [Coords -> SUBSET Hosts]
      /\ stream \in [Pairs -> {"none", "running", "completed", "failed"}] /\ op[i] \in Request
  BY DEF TopoInv, TopoTypes
<1>2. PICK n \in Hosts, P \in SUBSET Hosts : n = op[i].node /\ P = op[i].peers
  BY <1>1 DEF Request
<1>3. \E pc \in {"leave", "calc", "start", "poll", "error"} : Topo!Goto(i, pc)
  BY DEF Topo!Drain, Topo!Leave, Topo!RecordAddition, Topo!RecordRemoval, Topo!StartToNewNode,
         Topo!StartFromLeaving, Topo!StartEach, Topo!Refused, Topo!AddPendingChange
<1>4. UNCHANGED <<ring, streamed>>
  BY DEF Topo!Drain, Topo!Leave, Topo!RecordAddition, Topo!RecordRemoval, Topo!StartToNewNode,
         Topo!StartFromLeaving, Topo!StartEach, Topo!Refused
<1>5. /\ stream' \in [Pairs -> {"none", "running", "completed", "failed"}]
      /\ \A p \in Pairs : stream'[p] = "completed" => stream[p] = "completed"
  <2>1. ASSUME NEW Q, stream' = Topo!Started(Q)
        PROVE  /\ stream' \in [Pairs -> {"none", "running", "completed", "failed"}]
               /\ \A p \in Pairs : stream'[p] = "completed" => stream[p] = "completed"
    BY <1>1, <2>1 DEF Topo!Started, Pairs
  <2>2. stream' = stream \/ \E Q : stream' = Topo!Started(Q)
    BY DEF Topo!Drain, Topo!Leave, Topo!RecordAddition, Topo!RecordRemoval, Topo!StartToNewNode,
           Topo!StartFromLeaving, Topo!StartEach, Topo!Refused
  <2> QED
    BY <1>1, <2>1, <2>2
<1>6. row' \in Rows /\ Calm(row, row')
  <2>1. CASE Topo!Drain(i)
    BY <1>1, <1>2, <2>1, StatusWritten, Zenon DEF Topo!Drain, Calm
  <2>2. CASE Topo!Leave(i)
    <3>1. row' = Topo!WithState(row, n, "LEAVING")
      BY <1>2, <2>2, Zenon DEF Topo!Leave
    <3>2. /\ Topo!WithState(row, n, "LEAVING") \in Rows
          /\ \A m \in Hosts : /\ Topo!WithState(row, n, "LEAVING")[m].status = row[m].status
                              /\ \/ Topo!WithState(row, n, "LEAVING")[m].state = row[m].state
                                 \/ m = n /\ Topo!WithState(row, n, "LEAVING")[m].state = "LEAVING"
      <4>1. row \in Rows /\ "LEAVING" \in {"NORMAL", "BOOTSTRAPPING", "LEAVING", "DOWN"}
        BY <1>1, Zenon
      <4> QED
        BY <4>1, StateWritten
    <3> QED
      BY <3>1, <3>2, Zenon DEF Calm
  <2>3. CASE Topo!RecordAddition(i)
    <3>1. row' = row \/ row' = Topo!WithRanges(row, n, P, {})
      BY <1>2, <2>3, Zenon DEF Topo!RecordAddition
    <3>2. /\ Topo!WithRanges(row, n, P, {}) \in Rows
          /\ \A m \in Hosts : /\ Topo!WithRanges(row, n, P, {})[m].status = row[m].status
                              /\ Topo!WithRanges(row, n, P, {})[m].state = row[m].state
      <4>1. row \in Rows /\ {} \in SUBSET Hosts
        BY <1>1
      <4> QED
        BY <4>1, RangesWritten, Zenon
    <3> QED
      BY <1>1, <3>1, <3>2, Zenon DEF Calm
  <2>4. CASE Topo!RecordRemoval(i)
    <3> DEFINE u == [m \in Hosts |-> IF m = n THEN Topo!WithRanges(row, n, {}, P)[n]
                                     ELSE IF m \in P THEN Topo!WithRanges(row, m, {n}, {})[m]
                                     ELSE row[m]]
    <3>1. row' = row \/ row' = u
      BY <1>2, <2>4, Zenon DEF Topo!RecordRemoval
    <3>2. \A m \in Hosts : (m = n /\ u[m] = Topo!WithRanges(row, n, {}, P)[n])
                           \/ u[m] = Topo!WithRanges(row, m, {n}, {})[m] \/ u[m] = row[m]
      OBVIOUS
    <3>3. \A m \in Hosts : /\ Topo!WithRanges(row, m, {n}, {})[m] \in Row /\ row[m] \in Row
                           /\ Topo!WithRanges(row, m, {n}, {})[m].status = row[m].status
                           /\ Topo!WithRanges(row, m, {n}, {})[m].state = row[m].state
      BY <1>1, RangesWritten DEF Rows
    <3>4. /\ Topo!WithRanges(row, n, {}, P)[n] \in Row
          /\ Topo!WithRanges(row, n, {}, P)[n].status = row[n].status
          /\ Topo!WithRanges(row, n, {}, P)[n].state = row[n].state
      BY <1>1, RangesWritten DEF Rows
    <3>5. \A m \in Hosts : u[m] \in Row /\ u[m].status = row[m].status /\ u[m].state = row[m].state
      BY <3>2, <3>3, <3>4
    <3>6. u \in Rows
      <4>1. u = [m \in Hosts |-> u[m]]
        OBVIOUS
      <4> HIDE DEF u
      <4> QED
        BY <3>5, <4>1 DEF Rows
    <3> HIDE DEF u
    <3> QED
      BY <1>1, <3>1, <3>5, <3>6, Zenon DEF Calm
  <2>5. CASE row' = row
    BY <1>1, <2>5, Zenon DEF Calm
  <2> QED
    BY <2>1, <2>2, <2>3, <2>4, <2>5, Zenon DEF Topo!StartToNewNode, Topo!StartFromLeaving, Topo!StartEach, Topo!Refused
<1>7. TopoInv'
  BY <1>1, <1>3, <1>4, <1>5, <1>6, GotoStep
<1> QED
  BY <1>6, <1>7

\* A poll adds the streams that are completed to what the monitor has seen.
LEMMA TickStep ==
  ASSUME TopoInv, NEW i \in Topo!Ops, NEW S \in SUBSET Hosts, NEW running, NEW after,
         Topo!Tick(i, S, running, after),
         \/ op[i].kind = "add" /\ after = "hints"
         \/ op[i].kind = "remove" /\ after = "unring",
         op[i].kind = "add" => \A m \in S : <<m, op[i].node>> \in streamed,
         op[i].kind = "remove" => \A m \in S : <<op[i].node, m>> \in streamed
  PROVE  TopoInv' /\ row' = row
<1>1. op[i] \in Request
  BY DEF TopoInv, TopoTypes
<1>2. PICK k \in Nat : k = op[i].tries + 1
  BY <1>1 DEF Request
<1>3. PICK pc \in {"poll", "rollback", "hints", "unring"} :
        /\ op' = [op EXCEPT ![i].seen = S, ![i].tries = k, ![i].pc = pc]
        /\ pc \in {"hints", "unring"} => S = op[i].peers /\ pc = after
        /\ UNCHANGED <<row, ring, stream, streamed>>
  <2> DEFINE pc == IF S = op[i].peers THEN after ELSE IF k = MaxAttempts THEN "rollback" ELSE "poll"
  <2>1. /\ pc \in {"poll", "rollback", "hints", "unring"}
        /\ pc \in {"hints", "unring"} => S = op[i].peers /\ pc = after
    OBVIOUS
  <2>2. /\ op' = [op EXCEPT ![i].seen = S, ![i].tries = k, ![i].pc = pc]
        /\ UNCHANGED <<row, ring, stream, streamed>>
    BY <1>2 DEF Topo!Tick
  <2> QED
    BY <2>1, <2>2, Zenon
<1> DEFINE o == [op[i] EXCEPT !.seen = S, !.tries = k, !.pc = pc]
<1>4. op' = [op EXCEPT ![i] = o]
  BY <1>3, Zenon
<1>5. /\ o \in Request /\ o.pc = pc /\ o.kind = op[i].kind /\ o.node = op[i].node /\ o.seen = S
      /\ o.peers = op[i].peers
  BY <1>1, Zenon DEF Request
<1> HIDE DEF o
<1>6. Monitored(o, streamed)
  <2>1. Monitored(op[i], streamed)
    BY DEF TopoInv
  <2> QED
    BY <1>3, <1>5, <2>1 DEF Monitored
<1>7. row \in Rows /\ ring \in [Coords -> SUBSET Hosts]
      /\ stream \in [Pairs -> {"none", "running", "completed", "failed"}]
  BY DEF TopoInv, TopoTypes
<1>8. TopoInv'
  BY <1>3, <1>4, <1>5, <1>6, <1>7, RequestStep, Zenon
<1> QED
  BY <1>3, <1>8

\* The polls.
LEMMA PollStep ==
  ASSUME TopoInv, NEW i \in Topo!Ops, Topo!PollAddition(i) \/ Topo!PollRemoval(i)
  PROVE  TopoInv' /\ Calm(row, row')
<1>1. op[i] \in Request /\ Monitored(op[i], streamed)
  BY DEF TopoInv, TopoTypes
<1>2. PICK n \in Hosts, P \in SUBSET Hosts, S \in SUBSET Hosts :
        n = op[i].node /\ P = op[i].peers /\ S = op[i].seen
  BY <1>1 DEF Request
<1>3. CASE Topo!PollAddition(i)
  <2> DEFINE T == S \cup {p[1] : p \in Topo!Completed(Topo!Sources(i))}
  <2>1. ASSUME NEW p \in Topo!Completed(Topo!Sources(i))
        PROVE  p[1] \in Hosts /\ <<p[1], n>> \in streamed
    <3>1. PICK m \in P : p = <<m, n>> /\ stream[p] = "completed"
      BY <1>2, <2>1 DEF Topo!Completed, Topo!Sources
    <3>2. p \in Pairs /\ p[1] = m
      BY <3>1 DEF Pairs
    <3> QED
      BY <3>1, <3>2 DEF TopoInv
  <2>2. T \in SUBSET Hosts /\ \A m \in T : <<m, n>> \in streamed
    <3>1. \A m \in S : <<m, n>> \in streamed
      BY <1>1, <1>2, <1>3 DEF Monitored, Topo!PollAddition
    <3> QED
      BY <2>1, <3>1, Zenon
  <2>3. /\ op[i].kind = "add"
        /\ Topo!Tick(i, T, {p[1] : p \in {q \in Topo!Sources(i) : stream[q] = "running"}}, "hints")
    BY <1>2, <1>3 DEF Topo!PollAddition
  <2> HIDE DEF T
  <2> QED
    BY <1>2, <2>2, <2>3, TickStep DEF Calm
<1>4. CASE Topo!PollRemoval(i)
  <2> DEFINE T == S \cup {p[2] : p \in Topo!Completed(Topo!Targeted(i))}
  <2>1. ASSUME NEW p \in Topo!Completed(Topo!Targeted(i))
        PROVE  p[2] \in Hosts /\ <<n, p[2]>> \in streamed
    <3>1. PICK m \in P : p = <<n, m>> /\ stream[p] = "completed"
      BY <1>2, <2>1 DEF Topo!Completed, Topo!Targeted
    <3>2. p \in Pairs /\ p[2] = m
      BY <3>1 DEF Pairs
    <3> QED
      BY <3>1, <3>2 DEF TopoInv
  <2>2. T \in SUBSET Hosts /\ \A m \in T : <<n, m>> \in streamed
    <3>1. \A m \in S : <<n, m>> \in streamed
      BY <1>1, <1>2, <1>4 DEF Monitored, Topo!PollRemoval
    <3> QED
      BY <2>1, <3>1, Zenon
  <2>3. /\ op[i].kind = "remove"
        /\ Topo!Tick(i, T, {p[2] : p \in {q \in Topo!Targeted(i) : stream[q] = "running"}}, "unring")
    BY <1>2, <1>4 DEF Topo!PollRemoval
  <2> HIDE DEF T
  <2> QED
    BY <1>2, <2>2, <2>3, TickStep DEF Calm
<1> QED
  BY <1>3, <1>4

\* A monitor that has seen everything replays the hints and changes its ring.
LEMMA RingStep ==
  ASSUME TopoInv, NEW i \in Topo!Ops, Topo!ReplayHints(i) \/ Topo!JoinRing(i) \/ Topo!LeaveRing(i)
  PROVE  TopoInv' /\ Calm(row, row')
<1>1. /\ row \in Rows /\ ring \in [Coords -> SUBSET Hosts] /\ op[i] \in Request
      /\ stream \in [Pairs -> {"none", "running", "completed", "failed"}]
  BY DEF TopoInv, TopoTypes
<1>2. op[i].coord \in Coords /\ op[i].node \in Hosts
  BY <1>1 DEF Request
<1>3. UNCHANGED <<row, stream, streamed>>
  BY DEF Topo!ReplayHints, Topo!JoinRing, Topo!LeaveRing
<1>4. ring' \in [Coords -> SUBSET Hosts]
  BY <1>1, <1>2 DEF Topo!ReplayHints, Topo!JoinRing, Topo!LeaveRing
<1>5. \/ Topo!Goto(i, "rollback")
      \/ op[i].pc = "hints" /\ Topo!Goto(i, "join")
      \/ op[i].pc = "join" /\ Topo!Goto(i, "normal")
      \/ op[i].pc = "unring" /\ Topo!Goto(i, "delete")
  BY DEF Topo!ReplayHints, Topo!JoinRing, Topo!LeaveRing
<1>6. TopoInv'
  <2>1. CASE Topo!Goto(i, "rollback")
    BY <1>1, <1>3, <1>4, <2>1, GotoStep
  <2>2. ASSUME NEW pc, Topo!Goto(i, pc),
               \/ op[i].pc \in {"hints", "join", "normal", "active"} /\ pc \in {"join", "normal", "active"}
               \/ op[i].pc \in {"unring", "delete"} /\ pc = "delete"
        PROVE  TopoInv'
    BY <1>1, <1>3, <1>4, <2>2, OnwardStep
  <2> QED
    BY <1>5, <2>1, <2>2
<1> QED
  BY <1>3, <1>6 DEF Calm

\* Streams that are stopped are not completed.
LEMMA StreamsStopped ==
  ASSUME TopoInv, NEW P, stream' = Topo!Stopped(P)
  PROVE  /\ stream' \in [Pairs -> {"none", "running", "completed", "failed"}]
         /\ \A p \in Pairs : stream'[p] = "completed" => stream[p] = "completed"
<1>1. stream \in [Pairs -> {"none", "running", "completed", "failed"}]
  BY DEF TopoInv, TopoTypes
<1> QED
  BY <1>1 DEF Topo!Stopped, Pairs

\* An addition that is completed or rolled back.
LEMMA AdditionEnds ==
  ASSUME TopoInv, NEW i \in Topo!Ops, Topo!CompleteAddition(i) \/ Topo!RollbackAddition(i)
  PROVE  TopoInv' /\ Calm(row, row')
<1>1. row \in Rows /\ ring \in [Coords -> SUBSET Hosts] /\ op[i] \in Request
  BY DEF TopoInv, TopoTypes
<1>2. PICK n \in Hosts : n = op[i].node
  BY <1>1 DEF Request
<1>3. \E P : stream' = Topo!Stopped(P)
  BY DEF Topo!CompleteAddition, Topo!RollbackAddition
<1>4. /\ stream' \in [Pairs -> {"none", "running", "completed", "failed"}]
      /\ \A p \in Pairs : stream'[p] = "completed" => stream[p] = "completed"
  BY <1>3, StreamsStopped
<1>5. ring' = ring /\ streamed' = streamed /\ (Topo!Goto(i, "done") \/ Topo!Goto(i, "reverted"))
  BY Zenon DEF Topo!CompleteAddition, Topo!RollbackAddition
<1>6. ASSUME NEW t \in Rows, Calm(row, t), NEW u \in Topo!Tried(t, Topo!RangesCleared(t, {n}))
      PROVE  u \in Rows /\ Calm(row, u)
  <2>1. /\ Topo!RangesCleared(t, {n}) \in Rows
        /\ \A m \in Hosts : /\ Topo!RangesCleared(t, {n})[m].status = t[m].status
                            /\ Topo!RangesCleared(t, {n})[m].state = t[m].state
    BY RangesAreCleared
  <2>2. u = t \/ u = Topo!RangesCleared(t, {n})
    BY <1>6, WriteTried
  <2> QED
    BY <1>6, <2>1, <2>2, Zenon DEF Calm
<1>7. row' \in Rows /\ Calm(row, row')
  <2>1. CASE Topo!CompleteAddition(i)
    <3>1. PICK t \in Topo!Tried(row, Topo!WithStatus(row, n, "active")) :
            row' \in Topo!Tried(t, Topo!RangesCleared(t, {n}))
      BY <1>2, <2>1 DEF Topo!CompleteAddition
    <3>2. t = row \/ t = Topo!WithStatus(row, n, "active")
      BY <3>1, WriteTried
    <3>3. /\ Topo!WithStatus(row, n, "active") \in Rows
          /\ \A m \in Hosts : /\ Topo!WithStatus(row, n, "active")[m].state = row[m].state
                              /\ row[m].status # "none" => Topo!WithStatus(row, n, "active")[m].status # "none"
      BY <1>1, StatusWritten
    <3>4. t \in Rows /\ Calm(row, t)
      BY <1>1, <3>2, <3>3 DEF Calm
    <3> QED
      BY <1>6, <3>1, <3>4
  <2>2. CASE Topo!RollbackAddition(i)
    <3> DEFINE s == Topo!WithStatus(row, n, "failed")
               d == Topo!WithState(s, n, "DOWN")
    <3>1. PICK t \in Topo!Tried(row, d) : row' \in Topo!Tried(t, Topo!RangesCleared(t, {n}))
      BY <1>2, <2>2, Zenon DEF Topo!RollbackAddition
    <3>2. t = row \/ t = d
      BY <3>1, WriteTried
    <3>3. /\ s \in Rows
          /\ \A m \in Hosts : /\ s[m].state = row[m].state
                              /\ row[m].status # "none" => s[m].status # "none"
      BY <1>1, StatusWritten, Zenon
    <3> HIDE DEF s
    <3>4. /\ d \in Rows
          /\ \A m \in Hosts : /\ d[m].status = s[m].status
                              /\ d[m].state = s[m].state \/ (m = n /\ d[m].state = "DOWN")
      BY <3>3, StateWritten
    <3> HIDE DEF d
    <3>5. t \in Rows /\ Calm(row, t)
      BY <1>1, <3>2, <3>3, <3>4 DEF Calm
    <3> QED
      BY <1>6, <3>1, <3>5
  <2> QED
    BY <2>1, <2>2
<1>8. TopoInv'
  BY <1>1, <1>4, <1>5, <1>7, GotoStep
<1> QED
  BY <1>7, <1>8

\* What a step may do to the table.
Justified == Topo!DeletesWhenStreamed /\ Topo!ServesOrReverts

\* A calm step has nothing to justify.
LEMMA CalmIsJustified == ASSUME Calm(row, row') PROVE Justified
BY DEF Calm, Justified, Topo!ServesOrReverts, Topo!DeletesWhenStreamed

\* The node of an addition becomes NORMAL.
LEMMA NormalStep ==
  ASSUME TopoInv, NEW i \in Topo!Ops, Topo!BecomeNormal(i) PROVE TopoInv' /\ Justified
<1>1. /\ row \in Rows /\ ring \in [Coords -> SUBSET Hosts] /\ op[i] \in Request
      /\ stream \in [Pairs -> {"none", "running", "completed", "failed"}] /\ Monitored(op[i], streamed)
  BY DEF TopoInv, TopoTypes
<1>2. PICK n \in Hosts : n = op[i].node
  BY <1>1 DEF Request
<1>3. row' = row \/ row' = Topo!WithState(row, n, "NORMAL")
  BY <1>2 DEF Topo!BecomeNormal
<1>4. /\ Topo!WithState(row, n, "NORMAL") \in Rows
      /\ \A m \in Hosts : /\ Topo!WithState(row, n, "NORMAL")[m].status = row[m].status
                          /\ \/ Topo!WithState(row, n, "NORMAL")[m].state = row[m].state
                             \/ m = n /\ Topo!WithState(row, n, "NORMAL")[m].state = "NORMAL"
  BY <1>1, StateWritten
<1>5. /\ row' \in Rows
      /\ \A m \in Hosts : row'[m].status = row[m].status /\ (row'[m].state = row[m].state \/ m = n)
  BY <1>1, <1>3, <1>4
<1>6. op[i].pc = "normal" /\ UNCHANGED <<ring, stream, streamed>>
      /\ (Topo!Goto(i, "active") \/ Topo!Goto(i, "error"))
  BY DEF Topo!BecomeNormal
<1>7. TopoInv'
  <2>1. CASE Topo!Goto(i, "active")
    BY <1>1, <1>5, <1>6, <2>1, OnwardStep
  <2>2. CASE Topo!Goto(i, "error")
    BY <1>1, <1>5, <1>6, <2>2, GotoStep
  <2> QED
    BY <1>6, <2>1, <2>2
<1>8. \A m \in op[i].peers : <<m, n>> \in streamed
  BY <1>1, <1>2, <1>6 DEF Monitored
<1>9. Justified
  <2>1. Topo!DeletesWhenStreamed
    BY <1>5 DEF Topo!DeletesWhenStreamed
  <2> QED
    BY <1>2, <1>5, <1>6, <1>8, <2>1 DEF Justified, Topo!ServesOrReverts
<1> QED
  BY <1>7, <1>9

\* The row of a node that has left is deleted.
LEMMA DeleteStep ==
  ASSUME TopoInv, NEW i \in Topo!Ops, Topo!DeleteNode(i) PROVE TopoInv' /\ Justified
<1>1. /\ row \in Rows /\ ring \in [Coords -> SUBSET Hosts] /\ op[i] \in Request
      /\ stream \in [Pairs -> {"none", "running", "completed", "failed"}] /\ Monitored(op[i], streamed)
  BY DEF TopoInv, TopoTypes
<1>2. PICK n \in Hosts, P \in SUBSET Hosts : n = op[i].node /\ P = op[i].peers
  BY <1>1 DEF Request
<1> DEFINE u == Topo!RangesCleared(row, P)
<1>3. /\ u \in Rows
      /\ \A m \in Hosts : u[m].status = row[m].status /\ u[m].state = row[m].state
  BY <1>1, RangesAreCleared
<1>4. row' = u \/ row' = [u EXCEPT ![n] = Topo!NoRow]
  BY <1>2, Zenon DEF Topo!DeleteNode
<1> HIDE DEF u
<1>5. Topo!NoRow \in Row /\ Topo!NoRow.state = "none"
  BY Zenon DEF Topo!NoRow, Row
<1>6. /\ row' \in Rows
      /\ \A m \in Hosts : m # n => row'[m].status = row[m].status
      /\ \A m \in Hosts : row'[m].state = row[m].state \/ row'[m].state = "none"
  BY <1>3, <1>4, <1>5, Zenon DEF Rows
<1>7. op[i].pc = "delete" /\ ring' = ring /\ streamed' = streamed
      /\ (Topo!Goto(i, "done") \/ Topo!Goto(i, "error"))
  BY DEF Topo!DeleteNode
<1>8. stream' = stream \/ \E Q : stream' = Topo!Stopped(Q)
  BY DEF Topo!DeleteNode
<1>9. /\ stream' \in [Pairs -> {"none", "running", "completed", "failed"}]
      /\ \A p \in Pairs : stream'[p] = "completed" => stream[p] = "completed"
  BY <1>1, <1>8, StreamsStopped
<1>10. TopoInv'
  BY <1>1, <1>6, <1>7, <1>9, GotoStep, Zenon
<1>11. \A m \in op[i].peers : <<n, m>> \in streamed
  BY <1>1, <1>2, <1>7, Zenon DEF Monitored
<1>12. Topo!DeletesWhenStreamed
  BY <1>2, <1>6, <1>7, <1>11, Zenon DEF Topo!DeletesWhenStreamed
<1> QED
  BY <1>6, <1>10, <1>12 DEF Justified, Topo!ServesOrReverts

\* A removal is rolled back.
LEMMA RollbackStep ==
  ASSUME TopoInv, NEW i \in Topo!Ops, Topo!RollbackRemoval(i) PROVE TopoInv' /\ Justified
<1>1. row \in Rows /\ ring \in [Coords -> SUBSET Hosts] /\ op[i] \in Request
  BY DEF TopoInv, TopoTypes
<1>2. PICK n \in Hosts, P \in SUBSET Hosts : n = op[i].node /\ P = op[i].peers
  BY <1>1 DEF Request
<1>3. PICK t \in Topo!Tried(row, Topo!RangesCleared(row, P \cup {n})) :
        \E u \in Topo!Tried(t, Topo!WithState(t, n, "NORMAL")) :
          row' \in Topo!Tried(u, Topo!WithStatus(u, n, "active"))
  BY <1>2 DEF Topo!RollbackRemoval
<1>4. PICK u \in Topo!Tried(t, Topo!WithState(t, n, "NORMAL")) :
        row' \in Topo!Tried(u, Topo!WithStatus(u, n, "active"))
  BY <1>3
<1>5. /\ Topo!RangesCleared(row, P \cup {n}) \in Rows
      /\ \A m \in Hosts : /\ Topo!RangesCleared(row, P \cup {n})[m].status = row[m].status
                          /\ Topo!RangesCleared(row, P \cup {n})[m].state = row[m].state
  <2>1. P \cup {n} \in SUBSET Hosts
    OBVIOUS
  <2> QED
    BY <1>1, <2>1, RangesAreCleared
<1>6. t = row \/ t = Topo!RangesCleared(row, P \cup {n})
  BY WriteTried
<1>7. t \in Rows /\ \A m \in Hosts : t[m].status = row[m].status /\ t[m].state = row[m].state
  BY <1>1, <1>5, <1>6, Zenon
<1>8. /\ Topo!WithState(t, n, "NORMAL") \in Rows
      /\ \A m \in Hosts : /\ Topo!WithState(t, n, "NORMAL")[m].status = t[m].status
                          /\ \/ Topo!WithState(t, n, "NORMAL")[m].state = t[m].state
                             \/ m = n /\ Topo!WithState(t, n, "NORMAL")[m].state = "NORMAL"
  BY <1>7, StateWritten
<1>9. u = t \/ u = Topo!WithState(t, n, "NORMAL")
  BY WriteTried
<1>10. /\ u \in Rows
       /\ \A m \in Hosts : u[m].status = row[m].status /\ (u[m].state = row[m].state \/ m = n)
  BY <1>7, <1>8, <1>9
<1>11. /\ Topo!WithStatus(u, n, "active") \in Rows
       /\ \A m \in Hosts : /\ Topo!WithStatus(u, n, "active")[m].state = u[m].state
                           /\ u[m].status # "none" => Topo!WithStatus(u, n, "active")[m].status # "none"
  BY <1>10, StatusWritten
<1>12. row' = u \/ row' = Topo!WithStatus(u, n, "active")
  BY <1>4, WriteTried
<1>13. /\ row' \in Rows
       /\ \A m \in Hosts : /\ row[m].status # "none" => row'[m].status # "none"
                           /\ row'[m].state = row[m].state \/ m = n
  BY <1>10, <1>11, <1>12
<1>14. /\ op[i].kind = "remove" /\ op[i].pc = "rollback" /\ ring' = ring /\ streamed' = streamed
       /\ Topo!Goto(i, "reverted") /\ \E Q : stream' = Topo!Stopped(Q)
  BY DEF Topo!RollbackRemoval
<1>15. /\ stream' \in [Pairs -> {"none", "running", "completed", "failed"}]
       /\ \A p \in Pairs : stream'[p] = "completed" => stream[p] = "completed"
  BY <1>14, StreamsStopped, Zenon
<1>16. TopoInv'
  BY <1>1, <1>13, <1>14, <1>15, GotoStep, Zenon
<1>17. Topo!DeletesWhenStreamed
  BY <1>13, Zenon DEF Topo!DeletesWhenStreamed
<1> QED
  BY <1>2, <1>13, <1>14, <1>16, <1>17, Zenon DEF Justified, Topo!ServesOrReverts

\* A coordinator refreshes its ring, or crashes and loads it.
LEMMA CoordinatorStep ==
  ASSUME TopoInv, NEW c \in Coords, Topo!Refresh(c) \/ Topo!Crash(c) PROVE TopoInv' /\ Calm(row, row')
<1>1. /\ row \in Rows /\ ring \in [Coords -> SUBSET Hosts] /\ op \in [Topo!Ops -> Request]
      /\ stream \in [Pairs -> {"none", "running", "completed", "failed"}]
      /\ \A p \in Pairs : stream[p] = "completed" => p \in streamed
      /\ \A i \in Topo!Ops : Monitored(op[i], streamed)
  BY DEF TopoInv, TopoTypes
<1>2. UNCHANGED <<row, stream, streamed>> /\ ring' = [ring EXCEPT ![c] = Topo!Active]
  BY DEF Topo!Refresh, Topo!Crash
<1>3. ring' \in [Coords -> SUBSET Hosts]
  BY <1>1, <1>2 DEF Topo!Active
<1>4. ASSUME NEW o \in Request, Monitored(o, streamed)
      PROVE  [o EXCEPT !.pc = "lost"] \in Request /\ Monitored([o EXCEPT !.pc = "lost"], streamed)
  <2> DEFINE l == [o EXCEPT !.pc = "lost"]
  <2>1. l \in Request /\ l.pc = "lost" /\ l.kind = o.kind /\ l.node = o.node /\ l.seen = o.seen
    BY DEF Request
  <2> HIDE DEF l
  <2>2. Monitored(l, streamed)
    BY <1>4, <2>1 DEF Monitored
  <2> QED
    BY <2>1, <2>2 DEF l
<1>5. op' \in [Topo!Ops -> Request] /\ \A i \in Topo!Ops : Monitored(op'[i], streamed)
  <2>1. CASE op' = op
    BY <1>1, <2>1
  <2>2. CASE Topo!Crash(c)
    <3>1. op' = [i \in Topo!Ops |-> IF op[i].coord = c /\ op[i].pc \notin Topo!Ended
                                    THEN [op[i] EXCEPT !.pc = "lost"] ELSE op[i]]
      BY <2>2 DEF Topo!Crash
    <3>2. \A i \in Topo!Ops : /\ op'[i] = [op[i] EXCEPT !.pc = "lost"] \/ op'[i] = op[i]
                              /\ op[i] \in Request /\ Monitored(op[i], streamed)
      BY <1>1, <3>1
    <3>3. \A i \in Topo!Ops : op'[i] \in Request /\ Monitored(op'[i], streamed)
      BY <1>4, <3>2, Zenon
    <3>4. op' = [i \in Topo!Ops |-> op'[i]]
      BY <3>1
    <3> QED
      BY <3>3, <3>4
  <2> QED
    BY <2>1, <2>2 DEF Topo!Refresh
<1>6. TopoInv'
  BY <1>1, <1>2, <1>3, <1>5 DEF TopoInv, TopoTypes, Rows, Row, Request, Pairs, Topo!Ops
<1> QED
  BY <1>2, <1>6 DEF Calm

\* A stream ends, or a storage node forgets its streams.
LEMMA NodeStep ==
  ASSUME TopoInv, (\E p \in Pairs : Topo!StreamEnds(p)) \/ \E n \in Hosts : Topo!NodeRestarts(n)
  PROVE  TopoInv' /\ Calm(row, row')
<1>1. /\ row \in Rows /\ ring \in [Coords -> SUBSET Hosts] /\ op \in [Topo!Ops -> Request]
      /\ stream \in [Pairs -> {"none", "running", "completed", "failed"}]
      /\ \A p \in Pairs : stream[p] = "completed" => p \in streamed
      /\ \A i \in Topo!Ops : Monitored(op[i], streamed)
  BY DEF TopoInv, TopoTypes
<1>2. UNCHANGED <<row, ring, op>> /\ streamed \subseteq streamed'
  BY DEF Topo!StreamEnds, Topo!NodeRestarts
<1>3. \A i \in Topo!Ops : Monitored(op[i], streamed')
  BY <1>1, <1>2, Zenon DEF Monitored
<1>4. /\ stream' \in [Pairs -> {"none", "running", "completed", "failed"}]
      /\ \A p \in Pairs : stream'[p] = "completed" => p \in streamed'
  <2>1. CASE \E p \in Pairs : Topo!StreamEnds(p)
    BY <1>1, <2>1 DEF Topo!StreamEnds
  <2>2. CASE \E n \in Hosts : Topo!NodeRestarts(n)
    BY <1>1, <2>2 DEF Topo!NodeRestarts, Pairs
  <2> QED
    BY <2>1, <2>2
<1>5. TopoInv'
  BY <1>1, <1>2, <1>3, <1>4 DEF TopoInv, TopoTypes, Rows, Row, Request, Pairs, Topo!Ops
<1> QED
  BY <1>2, <1>5 DEF Calm

\* Every step keeps the invariant and is justified.
LEMMA TopoStep ==
  ASSUME Topo!TopologyAssumption, TopoInv, [Topo!Next]_(Topo!vars)
  PROVE  TopoInv' /\ (Justified \/ UNCHANGED Topo!vars)
<1>1. ASSUME NEW i \in Topo!Ops, NEW c \in Coords, NEW n \in Candidates,
             Topo!AddStorageNode(i, c, n) \/ \E force \in BOOLEAN : Topo!RemoveStorageNode(i, c, n, force)
      PROVE  TopoInv' /\ Justified
  BY <1>1, BeginStep, CalmIsJustified
<1>2. ASSUME NEW i \in Topo!Ops, Topo!Step(i) \/ Topo!Refused(i) PROVE TopoInv' /\ Justified
  <2>1. CASE Topo!CalculateForNewNode(i) \/ Topo!CalculateForRemovedNode(i)
    BY <2>1, CalculateStep, CalmIsJustified
  <2>2. CASE \/ Topo!Drain(i) \/ Topo!Leave(i) \/ Topo!RecordAddition(i) \/ Topo!RecordRemoval(i)
             \/ Topo!StartToNewNode(i) \/ Topo!StartFromLeaving(i) \/ Topo!Refused(i)
    BY <2>2, HandlerStep, CalmIsJustified
  <2>3. CASE Topo!PollAddition(i) \/ Topo!PollRemoval(i)
    BY <2>3, PollStep, CalmIsJustified
  <2>4. CASE Topo!ReplayHints(i) \/ Topo!JoinRing(i) \/ Topo!LeaveRing(i)
    BY <2>4, RingStep, CalmIsJustified
  <2>5. CASE Topo!CompleteAddition(i) \/ Topo!RollbackAddition(i)
    BY <2>5, AdditionEnds, CalmIsJustified
  <2> QED
    BY <1>2, <2>1, <2>2, <2>3, <2>4, <2>5, NormalStep, DeleteStep, RollbackStep DEF Topo!Step
<1>3. ASSUME NEW c \in Coords, Topo!Refresh(c) \/ Topo!Crash(c) PROVE TopoInv' /\ Justified
  BY <1>3, CoordinatorStep, CalmIsJustified
<1>4. CASE (\E p \in Pairs : Topo!StreamEnds(p)) \/ \E n \in Hosts : Topo!NodeRestarts(n)
  BY <1>4, NodeStep, CalmIsJustified
<1>5. CASE UNCHANGED Topo!vars
  <2>1. TopoInv'
    BY <1>5 DEF Topo!vars, TopoInv, TopoTypes, Rows, Row, Request, Pairs, Topo!Ops, Monitored
  <2> QED
    BY <1>5, <2>1
<1> QED
  BY <1>1, <1>2, <1>3, <1>4, <1>5 DEF Topo!Next, Pairs

\* Every reachable state satisfies the invariant, and every step is justified.
LEMMA TopoCorrect == Topo!Spec => []TopoInv /\ [][Justified]_(Topo!vars)
<1>1. Topo!Init => TopoInv
  BY ClusterAssumption, TopoInit
<1>2. TopoInv /\ [Topo!Next]_(Topo!vars) => TopoInv' /\ [Justified]_(Topo!vars)
  BY ClusterAssumption, TopoStep
<1> QED
  BY <1>1, <1>2, PTL DEF Topo!Spec

\* StreamedFirst for any number of nodes, coordinators and requests, whatever requests
\* overlap, writes fail and coordinators or nodes crash: monitorStreamingProgress and
\* monitorRemovalProgress go on only with what they have seen completed.
THEOREM ChangesStreamFirst == Topo!Spec => StreamedFirst
<1>1. Justified => Topo!ServesOrReverts /\ Topo!DeletesWhenStreamed
  BY DEF Justified
<1> QED
  BY <1>1, TopoCorrect, PTL DEF StreamedFirst

\* Where nodes are only added, a bootstrapping node becomes NORMAL only when every
\* node its monitor knows of has sent it its ranges (monitorStreamingProgress).
THEOREM JoinsAreStreamed ==
  ASSUME Kinds \subseteq {"add"}
  PROVE  Topo!Spec => [][Topo!ServesWhenStreamed]_(Topo!vars)
<1>1. TopoInv /\ Justified => Topo!ServesWhenStreamed
  <2>1. SUFFICES ASSUME TopoInv, Justified, NEW n \in Hosts,
                        row[n].state = "BOOTSTRAPPING", row'[n].state = "NORMAL"
                 PROVE  \E i \in Topo!Ops : /\ op[i].pc = "normal" /\ op[i].node = n
                                            /\ \A m \in op[i].peers : <<m, n>> \in streamed
    BY DEF Topo!ServesWhenStreamed
  <2>2. PICK i \in Topo!Ops :
          /\ op[i].node = n
          /\ \/ op[i].pc = "normal" /\ \A m \in op[i].peers : <<m, n>> \in streamed
             \/ op[i].kind = "remove" /\ op[i].pc = "rollback"
    BY <2>1 DEF Justified, Topo!ServesOrReverts
  <2>3. op[i].kind # "remove"
    BY <2>1 DEF TopoInv, Monitored
  <2> QED
    BY <2>2, <2>3
<1> QED
  BY <1>1, TopoCorrect, PTL

------------------------------------------------------------------------------
\* Tenants.

Labels ==
  {"idle", "insert", "get", "fetch", "fill", "fillNew", "got", "version", "args",
   "save", "invalidate"} \cup Tenant!Answers

\* model.Tenant, as it is in the heap.
TenantType == [rf : 1..Tenant!MaxFactor, ver : Nat, base : Nat]

\* What an update may ask the table to store.
TenantRequest == [rf : 1..Tenant!MaxFactor, ver : Nat]

ProcType ==
  [at : Labels, id : Nat, obj : Nat \cup {None}, want : Nat \cup {None},
   ver : Nat \cup {None}, row : TenantRequest \cup {None}]

\* What a goroutine holds at each step: the pointer is into the heap, and the version
\* read for Version++ and the arguments of the UPDATE are there when they are used.
TenantHolds(q, size) ==
  /\ q.at = "insert" => q.want \in 1..Tenant!MaxFactor
  /\ q.at \in {"get", "fetch", "fill", "got"} => q.want \in (1..Tenant!MaxFactor) \cup {None}
  /\ q.at \in {"fill", "fillNew", "got", "version", "args"} => q.obj \in 1..size
  /\ q.at = "version" => q.ver \in Nat
  /\ q.at = "save" => q.row \in TenantRequest

\* A request that is about to answer "stored" is in the history.
HasStored(q) ==
  q.at \in {"fillNew", "invalidate", "stored"} => \E i \in DOMAIN storedBy : storedBy[i] = q.id

\* The inductive invariant.
Versions ==
  /\ tenantRow \in Tenant!Row \cup {None}
  /\ objects \in Seq(TenantType)
  /\ tenantCache \in [TenantCoords -> (1..Len(objects)) \cup {None}]
  /\ tenantProc \in [Procs -> ProcType]
  /\ \A p \in Procs : TenantHolds(tenantProc[p], Len(objects)) /\ HasStored(tenantProc[p])
  /\ storedBy \in Seq(Nat) /\ reqs \in Nat
  /\ Tenant!OneWinnerPerVersion

------------------------------------------------------------------------------

\* There is no row at first.
LEMMA VersionsInit == Tenant!Init => Versions
<1> SUFFICES ASSUME Tenant!Init PROVE Versions
  OBVIOUS
<1>1. Tenant!NoProc \in ProcType /\ Tenant!NoProc.at = "idle"
  BY DEF Tenant!NoProc, ProcType, Labels
<1>2. \A p \in Procs : tenantProc[p] = Tenant!NoProc
  BY DEF Tenant!Init
<1>3. \A p \in Procs : TenantHolds(tenantProc[p], Len(objects)) /\ HasStored(tenantProc[p])
  BY <1>1, <1>2 DEF TenantHolds, HasStored
<1>4. tenantProc \in [Procs -> ProcType]
  BY <1>1 DEF Tenant!Init
<1>. QED
  BY <1>3, <1>4 DEF Tenant!Init, Versions, Tenant!OneWinnerPerVersion

\* A step of goroutine p that keeps what was stored, and leaves p with what it
\* needs, preserves the invariant.
LEMMA ProcStep ==
  ASSUME Versions,
         NEW p \in Procs, NEW q \in ProcType,
         tenantProc' = [tenantProc EXCEPT ![p] = q],
         tenantRow' \in Tenant!Row \cup {None}, Tenant!OneWinnerPerVersion',
         objects' \in Seq(TenantType),
         Len(objects) <= Len(objects'),
         tenantCache' \in [TenantCoords -> (1..Len(objects')) \cup {None}],
         storedBy' \in Seq(Nat), reqs' \in Nat,
         \A i \in DOMAIN storedBy : i \in DOMAIN storedBy' /\ storedBy'[i] = storedBy[i],
         TenantHolds(q, Len(objects')),
         q.at \in {"fillNew", "invalidate", "stored"}
           => \E i \in DOMAIN storedBy' : storedBy'[i] = q.id
  PROVE  Versions'
<1>1. tenantProc' \in [Procs -> ProcType]
  BY DEF Versions
<1>2. ASSUME NEW r \in Procs PROVE TenantHolds(tenantProc'[r], Len(objects'))
  <2>1. CASE r = p
    BY <2>1 DEF Versions
  <2>2. CASE r # p
    <3>1. tenantProc'[r] = tenantProc[r] /\ TenantHolds(tenantProc[r], Len(objects))
      BY <2>2, Zenon DEF Versions
    <3>2. Len(objects) \in Nat /\ Len(objects') \in Nat
      BY DEF Versions
    <3>3. 1..Len(objects) \subseteq 1..Len(objects')
      BY <3>2
    <3>. QED
      BY <3>1, <3>3 DEF TenantHolds
  <2>. QED
    BY <2>1, <2>2
<1>3. ASSUME NEW r \in Procs PROVE HasStored(tenantProc[r])'
  <2>1. CASE r = p
    BY <2>1 DEF Versions, HasStored
  <2>2. CASE r # p
    <3>1. tenantProc'[r] = tenantProc[r] /\ HasStored(tenantProc[r])
      BY <2>2 DEF Versions
    <3>. QED
      BY <3>1 DEF HasStored
  <2>. QED
    BY <2>1, <2>2
<1>. QED
  BY <1>1, <1>2, <1>3 DEF Versions

\* Moving p to another label keeps the fields of its record.
LEMMA Moved ==
  ASSUME Versions, NEW p \in Procs, NEW l \in Labels
  PROVE  /\ [tenantProc[p] EXCEPT !.at = l] \in ProcType
         /\ [tenantProc[p] EXCEPT !.at = l].at = l
         /\ [tenantProc[p] EXCEPT !.at = l].id = tenantProc[p].id
         /\ [tenantProc[p] EXCEPT !.at = l].want = tenantProc[p].want
         /\ [tenantProc[p] EXCEPT !.at = l].obj = tenantProc[p].obj
         /\ [tenantProc[p] EXCEPT !.at = l].ver = tenantProc[p].ver
         /\ [tenantProc[p] EXCEPT !.at = l].row = tenantProc[p].row
<1>1. tenantProc[p] \in ProcType
  BY DEF Versions
<1>. QED
  BY <1>1 DEF ProcType

\* An answer that claims nothing, with all but the goroutine unchanged.
LEMMA Answered ==
  ASSUME Versions, NEW p \in Procs, NEW a \in {"unchanged", "error"}, Tenant!Reply(p, a),
         UNCHANGED <<tenantRow, objects, tenantCache, storedBy, reqs>>
  PROVE  Versions'
<1> DEFINE q == [tenantProc[p] EXCEPT !.at = a]
<1>1. a \in Labels
  BY DEF Labels, Tenant!Answers
<1>2. q \in ProcType /\ q.at = a
  BY <1>1, Moved
<1>3. tenantProc' = [tenantProc EXCEPT ![p] = q]
  BY DEF Tenant!Reply
<1>4. TenantHolds(q, Len(objects'))
  BY <1>2 DEF TenantHolds
<1> HIDE DEF q
<1>5. Tenant!OneWinnerPerVersion' /\ Len(objects) <= Len(objects')
  BY DEF Versions, Tenant!OneWinnerPerVersion
<1>6. tenantCache' \in [TenantCoords -> (1..Len(objects')) \cup {None}]
  BY DEF Versions
<1>7. q.at \notin {"fillNew", "invalidate", "stored"}
  BY <1>2
<1>. QED
  BY <1>2, <1>3, <1>4, <1>5, <1>6, <1>7, ProcStep, Zenon DEF Versions

\* A request starts.
LEMMA Started ==
  ASSUME Versions, NEW p \in Procs, NEW l \in {"insert", "get"},
         NEW rf \in (1..Tenant!MaxFactor) \cup {None}, l = "insert" => rf # None,
         Tenant!Start(p, l, rf), UNCHANGED <<tenantRow, objects, tenantCache, storedBy>>
  PROVE  Versions'
<1> DEFINE q == [Tenant!NoProc EXCEPT !.at = l, !.id = reqs + 1, !.want = rf]
<1>1. rf \in Nat \cup {None} /\ reqs + 1 \in Nat /\ l \in Labels
  BY DEF Labels, Versions, Tenant!MaxFactor
<1>2. Tenant!NoProc \in ProcType
  BY DEF Tenant!NoProc, ProcType, Labels
<1>3. q \in ProcType /\ q.at = l /\ q.want = rf
  BY <1>1, <1>2, Zenon DEF ProcType
<1>4. tenantProc' = [tenantProc EXCEPT ![p] = q] /\ reqs' = reqs + 1
  BY DEF Tenant!Start
<1>5. TenantHolds(q, Len(objects'))
  BY <1>3 DEF TenantHolds
<1> HIDE DEF q
<1>6. Tenant!OneWinnerPerVersion' /\ Len(objects) <= Len(objects') /\ reqs' \in Nat
  BY <1>4 DEF Versions, Tenant!OneWinnerPerVersion
<1>7. q.at \notin {"fillNew", "invalidate", "stored"}
  BY <1>3
<1>8. tenantCache' \in [TenantCoords -> (1..Len(objects')) \cup {None}]
  BY DEF Versions
<1>. QED
  BY <1>3, <1>4, <1>5, <1>6, <1>7, <1>8, ProcStep, Zenon DEF Versions

\* A goroutine goes on without touching the row or claiming to have.
LEMMA Continued ==
  ASSUME Versions, NEW p \in Procs, NEW q \in ProcType,
         tenantProc' = [tenantProc EXCEPT ![p] = q],
         objects' \in Seq(TenantType),
         Len(objects) <= Len(objects'),
         tenantCache' \in [TenantCoords -> (1..Len(objects')) \cup {None}],
         UNCHANGED <<tenantRow, storedBy, reqs>>,
         TenantHolds(q, Len(objects')),
         q.at \notin {"fillNew", "invalidate", "stored"}
  PROVE  Versions'
<1>1. Tenant!OneWinnerPerVersion'
  BY DEF Versions, Tenant!OneWinnerPerVersion
<1>. QED
  BY <1>1, ProcStep, Zenon DEF Versions

\* A lookup in the cache.
LEMMA CacheGetKeeps ==
  ASSUME Tenant!TenantAssumption, Versions, NEW p \in Procs, Tenant!CacheGet(p) PROVE Versions'
<1> DEFINE o == tenantCache[Home[p]]
           l == IF o = None THEN "fetch" ELSE "got"
           q == [tenantProc[p] EXCEPT !.at = l, !.obj = o]
<1>1. tenantProc[p] \in ProcType /\ TenantHolds(tenantProc[p], Len(objects)) /\ tenantProc[p].at = "get"
  BY DEF Versions, Tenant!CacheGet
<1>2. o \in (1..Len(objects)) \cup {None} /\ Len(objects) \in Nat
  BY Tenant!TenantAssumption DEF Versions, Tenant!TenantAssumption
<1>3. o \in Nat \cup {None} /\ l \in Labels
  BY <1>2 DEF Labels
<1>4. tenantProc' = [tenantProc EXCEPT ![p] = q]
  BY Zenon DEF Tenant!CacheGet
<1>5. l \in {"fetch", "got"} /\ (l = "got" => o \in 1..Len(objects))
  BY <1>2
<1> HIDE DEF o, l
<1>6. q \in ProcType /\ q.at = l /\ q.obj = o /\ q.want = tenantProc[p].want
  BY <1>1, <1>3, Zenon DEF ProcType
<1> HIDE DEF q
<1>7. UNCHANGED <<tenantRow, objects, tenantCache, storedBy, reqs>>
  BY DEF Tenant!CacheGet
<1>8. TenantHolds(q, Len(objects'))
  BY <1>1, <1>5, <1>6, <1>7 DEF TenantHolds
<1>9. /\ objects' \in Seq(TenantType)
      /\ Len(objects) <= Len(objects')
      /\ tenantCache' \in [TenantCoords -> (1..Len(objects')) \cup {None}]
  BY <1>2, <1>7 DEF Versions
<1>10. q.at \notin {"fillNew", "invalidate", "stored"}
  BY <1>5, <1>6
<1>. QED
  BY <1>4, <1>6, <1>7, <1>8, <1>9, <1>10, Continued, Zenon

\* An allocation: the new value is the last of the heap.
LEMMA Allocated ==
  ASSUME Versions, NEW rf \in 1..Tenant!MaxFactor, NEW v \in Nat, objects' = Tenant!New(rf, v)
  PROVE  /\ objects' \in Seq(TenantType)
         /\ Len(objects') = Len(objects) + 1 /\ Len(objects) \in Nat
         /\ tenantCache \in [TenantCoords -> (1..Len(objects')) \cup {None}]
<1>1. objects \in Seq(TenantType) /\ Len(objects) \in Nat
  BY DEF Versions
<1>2. [rf |-> rf, ver |-> v, base |-> v] \in TenantType
  BY DEF TenantType
<1>3. Len(objects') = Len(objects) + 1
  BY <1>1, <1>2 DEF Tenant!New
<1>4. objects' \in Seq(TenantType)
  BY <1>1, <1>2 DEF Tenant!New
<1>5. 1..Len(objects) \subseteq 1..Len(objects')
  BY <1>1, <1>3
<1>. QED
  BY <1>1, <1>3, <1>4, <1>5 DEF Versions

\* A row is read, or the read fails.
LEMMA FetchKeeps ==
  ASSUME Versions, NEW p \in Procs, Tenant!Fetch(p) PROVE Versions'
<1> DEFINE q == [tenantProc[p] EXCEPT !.at = "fill", !.obj = Len(objects) + 1]
<1>1. tenantProc[p] \in ProcType /\ TenantHolds(tenantProc[p], Len(objects)) /\ tenantProc[p].at = "fetch"
  BY DEF Versions, Tenant!Fetch
<1>2. tenantRow.rf \in 1..Tenant!MaxFactor /\ tenantRow.ver \in Nat
  BY DEF Versions, Tenant!Fetch, Tenant!Row, Tenant!MaxFactor, Tenant!MaxStoredFactor
<1>3. objects' = Tenant!New(tenantRow.rf, tenantRow.ver) /\ UNCHANGED <<tenantRow, tenantCache, storedBy, reqs>>
  BY DEF Tenant!Fetch
<1>4. /\ objects' \in Seq(TenantType)
      /\ Len(objects') = Len(objects) + 1 /\ Len(objects) \in Nat
      /\ tenantCache \in [TenantCoords -> (1..Len(objects')) \cup {None}]
  BY <1>2, <1>3, Allocated
<1>5. q \in ProcType /\ q.at = "fill" /\ q.obj = Len(objects') /\ q.want = tenantProc[p].want
  <2>1. "fill" \in Labels /\ Len(objects) + 1 \in Nat \cup {None}
    BY <1>4 DEF Labels
  <2>. QED
    BY <1>1, <1>4, <2>1, Zenon DEF ProcType
<1>6. tenantProc' = [tenantProc EXCEPT ![p] = q]
  BY Zenon DEF Tenant!Fetch
<1> HIDE DEF q
<1>7. TenantHolds(q, Len(objects'))
  BY <1>1, <1>4, <1>5 DEF TenantHolds
<1>8. Len(objects) <= Len(objects') /\ q.at \notin {"fillNew", "invalidate", "stored"}
  BY <1>4, <1>5
<1>. QED
  BY <1>3, <1>4, <1>5, <1>6, <1>7, <1>8, Continued, Zenon

\* What was read is cached.
LEMMA CacheSetKeeps ==
  ASSUME Versions, NEW p \in Procs, Tenant!CacheSet(p) PROVE Versions'
<1> DEFINE l == IF tenantProc[p].at = "fill" THEN "got" ELSE "stored"
           q == [tenantProc[p] EXCEPT !.at = l]
<1>1. /\ tenantProc[p] \in ProcType /\ TenantHolds(tenantProc[p], Len(objects)) /\ HasStored(tenantProc[p])
      /\ tenantProc[p].at \in {"fill", "fillNew"}
  BY DEF Versions, Tenant!CacheSet
<1>2. l \in Labels /\ l \in {"got", "stored"}
  BY DEF Labels, Tenant!Answers
<1>3. tenantProc' = [tenantProc EXCEPT ![p] = q]
  BY DEF Tenant!CacheSet, Tenant!Goto
<1>4. l = "got" => tenantProc[p].at = "fill"
  OBVIOUS
<1>5. l = "stored" => tenantProc[p].at = "fillNew"
  BY <1>1
<1> HIDE DEF l
<1>6. /\ q \in ProcType /\ q.at = l /\ q.obj = tenantProc[p].obj
      /\ q.want = tenantProc[p].want /\ q.id = tenantProc[p].id
  BY <1>2, Moved
<1> HIDE DEF q
<1>7. UNCHANGED <<tenantRow, objects, storedBy, reqs>>
  BY DEF Tenant!CacheSet
<1>8. tenantProc[p].obj \in 1..Len(objects)
  BY <1>1 DEF TenantHolds
<1>9. TenantHolds(q, Len(objects'))
  BY <1>1, <1>2, <1>4, <1>6, <1>7 DEF TenantHolds
<1>10. tenantCache' \in [TenantCoords -> (1..Len(objects')) \cup {None}]
  BY <1>7, <1>8, Zenon DEF Versions, Tenant!CacheSet
<1>11. q.at \in {"fillNew", "invalidate", "stored"}
         => \E i \in DOMAIN storedBy' : storedBy'[i] = q.id
  BY <1>1, <1>2, <1>5, <1>6, <1>7 DEF HasStored
<1>12. Tenant!OneWinnerPerVersion' /\ Len(objects) <= Len(objects')
  BY <1>7 DEF Versions, Tenant!OneWinnerPerVersion
<1>. QED
  BY <1>3, <1>6, <1>7, <1>9, <1>10, <1>11, <1>12, ProcStep, Zenon DEF Versions

\* A request goes on with the tenant it got.
LEMMA GotKeeps ==
  ASSUME Versions, NEW p \in Procs, Tenant!Got(p) PROVE Versions'
<1>1. /\ tenantProc[p] \in ProcType /\ TenantHolds(tenantProc[p], Len(objects)) /\ tenantProc[p].at = "got"
      /\ UNCHANGED <<tenantRow, tenantCache, storedBy, reqs>>
  BY DEF Versions, Tenant!Got
<1>2. CASE tenantProc[p].want = None \/ objects[tenantProc[p].obj].rf = tenantProc[p].want
  BY <1>1, <1>2, Answered DEF Tenant!Got
<1>3. CASE ~(tenantProc[p].want = None \/ objects[tenantProc[p].obj].rf = tenantProc[p].want)
  <2> DEFINE o == objects[tenantProc[p].obj]
             q == [tenantProc[p] EXCEPT !.at = "version", !.ver = o.ver]
  <2>1. tenantProc[p].want \in 1..Tenant!MaxFactor /\ tenantProc[p].obj \in 1..Len(objects)
    BY <1>1, <1>3 DEF TenantHolds
  <2>2. o \in TenantType
    BY <2>1 DEF Versions
  <2>3. objects' = [objects EXCEPT ![tenantProc[p].obj].rf = tenantProc[p].want]
    BY <1>3 DEF Tenant!Got
  <2>4. tenantProc' = [tenantProc EXCEPT ![p] = q]
    BY <1>3, Zenon DEF Tenant!Got
  <2>5. [o EXCEPT !.rf = tenantProc[p].want] \in TenantType
    BY <2>1, <2>2 DEF TenantType
  <2>6. /\ objects' \in Seq(TenantType)
        /\ Len(objects') = Len(objects) /\ Len(objects) \in Nat
    BY <2>1, <2>3, <2>5 DEF Versions
  <2>7. o.ver \in Nat /\ "version" \in Labels
    BY <2>2 DEF Labels, TenantType
  <2> HIDE DEF o
  <2>8. q \in ProcType /\ q.at = "version" /\ q.ver = o.ver /\ q.obj = tenantProc[p].obj
    BY <1>1, <2>7, Zenon DEF ProcType
  <2> HIDE DEF q
  <2>9. TenantHolds(q, Len(objects'))
    BY <2>1, <2>6, <2>7, <2>8 DEF TenantHolds
  <2>10. /\ tenantCache' \in [TenantCoords -> (1..Len(objects')) \cup {None}] /\ Len(objects) <= Len(objects')
         /\ q.at \notin {"fillNew", "invalidate", "stored"}
    BY <1>1, <2>6, <2>8 DEF Versions
  <2>. QED
    BY <1>1, <2>4, <2>6, <2>8, <2>9, <2>10, Continued, Zenon
<1>. QED
  BY <1>2, <1>3

\* The version of the object is incremented.
LEMMA IncrementKeeps ==
  ASSUME Versions, NEW p \in Procs, Tenant!Increment(p) PROVE Versions'
<1> DEFINE o == objects[tenantProc[p].obj]
           q == [tenantProc[p] EXCEPT !.at = "args"]
<1>1. /\ TenantHolds(tenantProc[p], Len(objects)) /\ tenantProc[p].at = "version"
      /\ UNCHANGED <<tenantRow, tenantCache, storedBy, reqs>>
  BY DEF Versions, Tenant!Increment
<1>2. tenantProc[p].ver + 1 \in Nat /\ tenantProc[p].obj \in 1..Len(objects)
  BY <1>1 DEF TenantHolds
<1>3. o \in TenantType
  BY <1>2 DEF Versions
<1>4. [o EXCEPT !.ver = tenantProc[p].ver + 1] \in TenantType
  BY <1>2, <1>3 DEF TenantType
<1>5. /\ objects' \in Seq(TenantType)
      /\ Len(objects') = Len(objects) /\ Len(objects) \in Nat
  <2>1. objects' = [objects EXCEPT ![tenantProc[p].obj] = [o EXCEPT !.ver = tenantProc[p].ver + 1]]
    BY DEF Tenant!Increment
  <2>. QED
    BY <1>2, <1>4, <2>1 DEF Versions
<1>6. "args" \in Labels
  BY DEF Labels
<1>7. q \in ProcType /\ q.at = "args" /\ q.obj = tenantProc[p].obj
  BY <1>6, Moved
<1>8. tenantProc' = [tenantProc EXCEPT ![p] = q]
  BY DEF Tenant!Increment, Tenant!Goto
<1> HIDE DEF q, o
<1>9. TenantHolds(q, Len(objects'))
  BY <1>2, <1>5, <1>7 DEF TenantHolds
<1>10. /\ tenantCache' \in [TenantCoords -> (1..Len(objects')) \cup {None}] /\ Len(objects) <= Len(objects')
       /\ q.at \notin {"fillNew", "invalidate", "stored"}
  BY <1>1, <1>5, <1>7 DEF Versions
<1>. QED
  BY <1>1, <1>5, <1>7, <1>8, <1>9, <1>10, Continued, Zenon

\* The arguments of the UPDATE are taken from the object.
LEMMA ArgumentsKeeps ==
  ASSUME Versions, NEW p \in Procs, Tenant!Arguments(p) PROVE Versions'
<1> DEFINE r == [rf |-> objects[tenantProc[p].obj].rf, ver |-> objects[tenantProc[p].obj].ver]
           q == [tenantProc[p] EXCEPT !.at = "save", !.row = r]
<1>1. /\ tenantProc[p] \in ProcType /\ TenantHolds(tenantProc[p], Len(objects)) /\ tenantProc[p].at = "args"
      /\ UNCHANGED <<tenantRow, objects, tenantCache, storedBy, reqs>>
  BY DEF Versions, Tenant!Arguments
<1>2. objects[tenantProc[p].obj] \in TenantType
  BY <1>1 DEF Versions, TenantHolds
<1>3. r \in TenantRequest /\ "save" \in Labels
  BY <1>2 DEF TenantType, TenantRequest, Labels
<1>4. tenantProc' = [tenantProc EXCEPT ![p] = q]
  BY Zenon DEF Tenant!Arguments
<1> HIDE DEF r
<1>5. q \in ProcType /\ q.at = "save" /\ q.row = r
  BY <1>1, <1>3, Zenon DEF ProcType
<1> HIDE DEF q
<1>6. TenantHolds(q, Len(objects'))
  BY <1>3, <1>5 DEF TenantHolds
<1>7. /\ tenantCache' \in [TenantCoords -> (1..Len(objects')) \cup {None}] /\ Len(objects) <= Len(objects')
      /\ q.at \notin {"fillNew", "invalidate", "stored"} /\ objects' \in Seq(TenantType)
  BY <1>1, <1>5 DEF Versions
<1>. QED
  BY <1>1, <1>4, <1>5, <1>6, <1>7, Continued, Zenon

\* A version is stored: the next one, and the last of the history.
LEMMA VersionStored ==
  ASSUME Tenant!TenantAssumption, Versions, NEW id \in Nat, tenantRow' \in Tenant!Row,
         storedBy' = Append(storedBy, id),
         tenantRow = None => tenantRow'.ver = 1, tenantRow # None => tenantRow'.ver = tenantRow.ver + 1
  PROVE  /\ storedBy' \in Seq(Nat) /\ Tenant!OneWinnerPerVersion'
         /\ \A i \in DOMAIN storedBy : i \in DOMAIN storedBy' /\ storedBy'[i] = storedBy[i]
         /\ \E i \in DOMAIN storedBy' : storedBy'[i] = id
<1>1. storedBy \in Seq(Nat) /\ Tenant!OneWinnerPerVersion
  BY DEF Versions
<1>2. storedBy' \in Seq(Nat) /\ Len(storedBy') = Len(storedBy) + 1 /\ storedBy'[Len(storedBy) + 1] = id
  BY <1>1
<1>3. \A i \in DOMAIN storedBy : i \in DOMAIN storedBy' /\ storedBy'[i] = storedBy[i]
  BY <1>1
<1>4. Len(storedBy) + 1 \in DOMAIN storedBy' /\ storedBy' # <<>>
  BY <1>1, <1>2
<1>5. tenantRow' # None
  BY Tenant!TenantAssumption DEF Tenant!TenantAssumption
<1>6. tenantRow = None => Len(storedBy) = 0
  BY <1>1 DEF Tenant!OneWinnerPerVersion
<1>7. tenantRow'.ver = Len(storedBy')
  BY <1>1, <1>2, <1>6 DEF Tenant!OneWinnerPerVersion
<1>. QED
  BY <1>2, <1>3, <1>4, <1>5, <1>7 DEF Tenant!OneWinnerPerVersion

\* The row is inserted, or the INSERT fails.
LEMMA InsertKeeps ==
  ASSUME Tenant!TenantAssumption, Versions, NEW p \in Procs, Tenant!Insert(p) PROVE Versions'
<1>1. /\ tenantProc[p] \in ProcType /\ TenantHolds(tenantProc[p], Len(objects)) /\ tenantProc[p].at = "insert"
      /\ tenantRow = None /\ tenantProc[p].want <= Tenant!MaxStoredFactor
      /\ tenantRow' = [rf |-> tenantProc[p].want, ver |-> 1] /\ objects' = Tenant!New(tenantProc[p].want, 1)
      /\ storedBy' = Append(storedBy, tenantProc[p].id) /\ UNCHANGED <<tenantCache, reqs>>
  BY DEF Versions, Tenant!Insert
<1>2. tenantProc[p].want \in 1..Tenant!MaxFactor /\ tenantProc[p].want \in 1..Tenant!MaxStoredFactor
  BY <1>1 DEF TenantHolds, Tenant!MaxStoredFactor, Tenant!MaxFactor
<1>3. tenantRow' \in Tenant!Row /\ tenantRow'.ver = 1 /\ tenantProc[p].id \in Nat
  BY <1>1, <1>2 DEF Tenant!Row, ProcType
<1>4. /\ storedBy' \in Seq(Nat) /\ Tenant!OneWinnerPerVersion'
      /\ \A i \in DOMAIN storedBy : i \in DOMAIN storedBy' /\ storedBy'[i] = storedBy[i]
      /\ \E i \in DOMAIN storedBy' : storedBy'[i] = tenantProc[p].id
  BY <1>1, <1>3, VersionStored, Zenon
<1>5. /\ objects' \in Seq(TenantType)
      /\ Len(objects') = Len(objects) + 1 /\ Len(objects) \in Nat
      /\ tenantCache' \in [TenantCoords -> (1..Len(objects')) \cup {None}]
  BY <1>1, <1>2, Allocated
<1>6. ASSUME NEW q \in ProcType, tenantProc' = [tenantProc EXCEPT ![p] = q],
             q.id = tenantProc[p].id, TenantHolds(q, Len(objects'))
      PROVE  Versions'
  <2>1. Len(objects) <= Len(objects')
    BY <1>5
  <2>2. reqs' \in Nat /\ tenantRow' \in Tenant!Row \cup {None}
    BY <1>1, <1>3, Zenon DEF Versions
  <2>. QED
    BY <1>4, <1>5, <1>6, <2>1, <2>2, ProcStep, Zenon
<1>7. CASE tenantProc' = [tenantProc EXCEPT ![p].at = "fillNew", ![p].obj = Len(objects) + 1]
  <2> DEFINE q == [tenantProc[p] EXCEPT !.at = "fillNew", !.obj = Len(objects) + 1]
  <2>1. "fillNew" \in Labels /\ Len(objects) + 1 \in Nat \cup {None}
    BY <1>5 DEF Labels
  <2>2. /\ q \in ProcType /\ q.at = "fillNew" /\ q.obj = Len(objects')
        /\ q.id = tenantProc[p].id
    BY <1>1, <1>5, <2>1, Zenon DEF ProcType
  <2>3. tenantProc' = [tenantProc EXCEPT ![p] = q]
    BY <1>1, <1>7, Zenon DEF Versions, ProcType
  <2> HIDE DEF q
  <2>4. TenantHolds(q, Len(objects'))
    BY <1>5, <2>2 DEF TenantHolds
  <2>. QED
    BY <1>6, <2>2, <2>3, <2>4, Zenon
<1>8. CASE Tenant!Reply(p, "error")
  <2> DEFINE q == [tenantProc[p] EXCEPT !.at = "error"]
  <2>1. "error" \in Labels
    BY DEF Labels, Tenant!Answers
  <2>2. q \in ProcType /\ q.at = "error" /\ q.id = tenantProc[p].id
    BY <2>1, Moved
  <2>3. tenantProc' = [tenantProc EXCEPT ![p] = q]
    BY <1>8 DEF Tenant!Reply
  <2> HIDE DEF q
  <2>4. TenantHolds(q, Len(objects'))
    BY <2>2 DEF TenantHolds
  <2>. QED
    BY <1>6, <2>2, <2>3, <2>4, Zenon
<1>. QED
  BY <1>7, <1>8 DEF Tenant!Insert

\* The UPDATE matches the row of its version, or none.
LEMMA SaveKeeps ==
  ASSUME Tenant!TenantAssumption, Versions, NEW p \in Procs, Tenant!Save(p) PROVE Versions'
<1>1. /\ tenantProc[p] \in ProcType /\ TenantHolds(tenantProc[p], Len(objects)) /\ tenantProc[p].at = "save"
      /\ tenantRow # None /\ tenantProc[p].row.rf <= Tenant!MaxStoredFactor /\ tenantRow.ver = tenantProc[p].row.ver - 1
      /\ tenantRow' = tenantProc[p].row /\ storedBy' = Append(storedBy, tenantProc[p].id)
      /\ UNCHANGED <<objects, tenantCache, reqs>>
  BY Zenon DEF Versions, Tenant!Save
<1>2. tenantProc[p].row \in TenantRequest /\ tenantProc[p].id \in Nat
  BY <1>1 DEF TenantHolds, ProcType
<1>3. tenantRow' \in Tenant!Row
  BY <1>1, <1>2 DEF TenantRequest, Tenant!Row, Tenant!MaxFactor, Tenant!MaxStoredFactor
<1>4. tenantRow'.ver = tenantRow.ver + 1
  <2>1. tenantRow.ver \in Nat /\ tenantProc[p].row.ver \in Nat
    BY <1>1, <1>2 DEF Versions, Tenant!Row, TenantRequest
  <2>. QED
    BY <1>1, <2>1
<1>5. /\ storedBy' \in Seq(Nat) /\ Tenant!OneWinnerPerVersion'
      /\ \A i \in DOMAIN storedBy : i \in DOMAIN storedBy' /\ storedBy'[i] = storedBy[i]
      /\ \E i \in DOMAIN storedBy' : storedBy'[i] = tenantProc[p].id
  BY <1>1, <1>2, <1>3, <1>4, VersionStored
<1>6. ASSUME NEW l \in {"invalidate", "error"}, tenantProc' = [tenantProc EXCEPT ![p].at = l]
      PROVE  Versions'
  <2> DEFINE q == [tenantProc[p] EXCEPT !.at = l]
  <2>1. l \in Labels
    BY DEF Labels, Tenant!Answers
  <2>2. q \in ProcType /\ q.at = l /\ q.id = tenantProc[p].id
    BY <2>1, Moved
  <2>3. tenantProc' = [tenantProc EXCEPT ![p] = q]
    BY <1>6
  <2> HIDE DEF q
  <2>4. TenantHolds(q, Len(objects'))
    BY <2>2 DEF TenantHolds
  <2>5. objects' = objects /\ tenantCache' = tenantCache /\ reqs' = reqs
    BY <1>1
  <2>6. objects \in Seq(TenantType) /\ reqs \in Nat
    BY DEF Versions
  <2>7. Len(objects) <= Len(objects')
    BY <2>5, <2>6
  <2>8. tenantCache' \in [TenantCoords -> (1..Len(objects')) \cup {None}]
    BY <2>5, Zenon DEF Versions
  <2>9. tenantRow' \in Tenant!Row \cup {None} /\ objects' \in Seq(TenantType) /\ reqs' \in Nat
    BY <1>3, <2>5, <2>6, Zenon
  <2>. QED
    BY <1>5, <2>2, <2>3, <2>4, <2>7, <2>8, <2>9, ProcStep, Zenon
<1>. QED
  BY <1>6 DEF Tenant!Save, Tenant!Goto, Tenant!Reply

\* The cached tenant is dropped.
LEMMA CacheDeleteKeeps ==
  ASSUME Versions, NEW p \in Procs, Tenant!CacheDelete(p) PROVE Versions'
<1> DEFINE q == [tenantProc[p] EXCEPT !.at = "stored"]
<1>1. /\ HasStored(tenantProc[p]) /\ tenantProc[p].at = "invalidate"
      /\ UNCHANGED <<tenantRow, objects, storedBy, reqs>>
  BY DEF Versions, Tenant!CacheDelete
<1>2. "stored" \in Labels
  BY DEF Labels, Tenant!Answers
<1>3. q \in ProcType /\ q.at = "stored" /\ q.id = tenantProc[p].id
  BY <1>2, Moved
<1>4. tenantProc' = [tenantProc EXCEPT ![p] = q]
  BY DEF Tenant!CacheDelete, Tenant!Goto
<1> HIDE DEF q
<1>5. TenantHolds(q, Len(objects'))
  BY <1>3 DEF TenantHolds
<1>6. tenantCache' \in [TenantCoords -> (1..Len(objects')) \cup {None}]
  BY <1>1, Zenon DEF Versions, Tenant!CacheDelete
<1>7. \E i \in DOMAIN storedBy' : storedBy'[i] = q.id
  BY <1>1, <1>3, Zenon DEF HasStored
<1>8. Tenant!OneWinnerPerVersion' /\ Len(objects) <= Len(objects')
  BY <1>1 DEF Versions, Tenant!OneWinnerPerVersion
<1>. QED
  BY <1>1, <1>3, <1>4, <1>5, <1>6, <1>7, <1>8, ProcStep, Zenon DEF Versions

\* Every step keeps the invariant.
LEMMA VersionsStep ==
  ASSUME Tenant!TenantAssumption PROVE Versions /\ [Tenant!Next]_(Tenant!vars) => Versions'
<1> SUFFICES ASSUME Versions, [Tenant!Next]_(Tenant!vars) PROVE Versions'
  OBVIOUS
<1>1. ASSUME NEW p \in Procs, NEW rf \in Factors, Tenant!BeginCreate(p, rf) PROVE Versions'
  <2> DEFINE want == IF rf = 0 THEN Tenant!DefaultFactor ELSE rf
  <2>1. want \in (1..Tenant!MaxFactor) \cup {None} /\ want # None
    BY <1>1, Tenant!TenantAssumption DEF Tenant!BeginCreate, Tenant!MaxFactor, Tenant!DefaultFactor, Tenant!TenantAssumption
  <2>2. Tenant!Start(p, "insert", want) /\ UNCHANGED <<tenantRow, objects, tenantCache, storedBy>>
    BY <1>1 DEF Tenant!BeginCreate
  <2> HIDE DEF want
  <2>. QED
    BY <2>1, <2>2, Started
<1>2. ASSUME NEW p \in Procs, NEW rf \in Factors, Tenant!BeginUpdate(p, rf) PROVE Versions'
  BY <1>2, Started DEF Tenant!BeginUpdate
<1>3. ASSUME NEW p \in Procs, Tenant!BeginGet(p) PROVE Versions'
  BY <1>3, Started, Zenon DEF Tenant!BeginGet
<1>4. ASSUME NEW p \in Procs, Tenant!InsertFails(p) \/ Tenant!FetchFails(p) \/ Tenant!SaveFails(p)
      PROVE  Versions'
  BY <1>4, Answered DEF Tenant!InsertFails, Tenant!FetchFails, Tenant!SaveFails
<1>5. ASSUME NEW p \in Procs, Tenant!Step(p) PROVE Versions'
  BY <1>4, <1>5, InsertKeeps, CacheGetKeeps, FetchKeeps, CacheSetKeeps, GotKeeps,
     IncrementKeeps, ArgumentsKeeps, SaveKeeps, CacheDeleteKeeps DEF Tenant!Step
<1>6. ASSUME NEW c \in TenantCoords, Tenant!Expire(c) PROVE Versions'
  BY <1>6 DEF Tenant!Expire, Versions, Tenant!OneWinnerPerVersion, HasStored
<1>7. CASE UNCHANGED Tenant!vars
  BY <1>7 DEF Tenant!vars, Versions, Tenant!OneWinnerPerVersion, HasStored
<1>. QED
  BY <1>1, <1>2, <1>3, <1>5, <1>6, <1>7 DEF Tenant!Next

\* UpdatesAreVersions for any number of coordinators and requests, whatever they do to
\* the values they share in a cache and whichever statements fail: the version in the
\* WHERE clause of UpdateTenant decides.
THEOREM UpdatesAlwaysVersions == Tenant!Spec => []UpdatesAreVersions
<1>1. Versions => UpdatesAreVersions
  BY DEF Versions, UpdatesAreVersions, Tenant!SuccessHasVersion, HasStored
<1>2. Versions /\ [Tenant!Next]_(Tenant!vars) => Versions'
  BY ClusterAssumption, VersionsStep
<1>. QED
  BY VersionsInit, <1>1, <1>2, PTL DEF Tenant!Spec
==============================================================================
