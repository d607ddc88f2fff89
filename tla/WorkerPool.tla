----------------------------- MODULE WorkerPool -----------------------------
(***************************************************************************)
(* The bounded worker pool of a storage node                               *)
(* (storage-node/internal/util/workerpool/pool.go): the three ways to      *)
(* submit a task, the workers, and Stop.                                   *)
(*                                                                         *)
(* Each task is submitted by a goroutine of its own, and a task's function *)
(* is external: it returns, fails or panics.  A Go select with several     *)
(* ready cases takes any of them, so each case is a disjunct.  totalTasks  *)
(* is added to after the send, in a step of its own; a refusal and its     *)
(* counter are one step, as nothing can be observed in between.            *)
(***************************************************************************)
EXTENDS Naturals, Sequences, FiniteSets

CONSTANTS
  Tasks,      \* the tasks submitted, one goroutine each
  Workers,    \* 0 .. maxWorkers - 1
  Stoppers,   \* goroutines that call Stop
  QueueSize   \* capacity of the channel taskQueue

\* NewWorkerPool replaces a size that is not positive by its default.
PoolAssumption ==
  /\ QueueSize \in Nat \ {0}
  /\ {"idle", "left"} \cap Tasks = {}

VARIABLES
  queue,      \* taskQueue
  stopped,    \* stopChan is closed
  call,       \* where the submission of each task is
  worker,     \* the task each worker executes; "left" when it returned
  finished,   \* history: the tasks whose function returned, and how
  stop,       \* where each call of Stop is, and what it returned
  once,       \* stopOnce: "free", "held" or "done"
  counters    \* the atomic counters of the pool

vars == <<queue, stopped, call, worker, finished, stop, once, counters>>

Idle == "idle"
Left == "left"
Bump(c) == counters' = [counters EXCEPT ![c] = @ + 1]
Running == {worker[w] : w \in Workers} \cap Tasks
Queued == {queue[i] : i \in DOMAIN queue}

Init ==
  /\ queue = <<>> /\ stopped = FALSE
  /\ call = [t \in Tasks |-> "new"]
  /\ worker = [w \in Workers |-> Idle]
  /\ finished = [t \in Tasks |-> "no"]
  /\ stop = [s \in Stoppers |-> "new"] /\ once = "free"
  /\ counters = [total |-> 0, completed |-> 0, failed |-> 0, rejected |-> 0]

------------------------------------------------------------------------------
\* Submission.

Refuse(t) ==
  /\ call' = [call EXCEPT ![t] = "rejected"] /\ Bump("rejected")
  /\ UNCHANGED <<queue, stopped, worker, finished, stop, once>>

\* Mutant: the channel has no capacity.
SendUnbounded(t) ==
  /\ queue' = Append(queue, t) /\ call' = [call EXCEPT ![t] = "counting"]
  /\ UNCHANGED <<stopped, worker, finished, stop, once, counters>>

\* p.taskQueue <- task
Send(t) ==
  /\ Len(queue) < QueueSize
  /\ queue' = Append(queue, t) /\ call' = [call EXCEPT ![t] = "counting"]
  /\ UNCHANGED <<stopped, worker, finished, stop, once, counters>>

Count(t) ==
  /\ call[t] = "counting"
  /\ call' = [call EXCEPT ![t] = "accepted"] /\ Bump("total")
  /\ UNCHANGED <<queue, stopped, worker, finished, stop, once>>

\* Submit: the stop signal is looked at first, the queue afterwards.
SubmitCheck(t) ==
  /\ call[t] = "new"
  /\ IF stopped
       THEN Refuse(t)
       ELSE /\ call' = [call EXCEPT ![t] = "checked"]
            /\ UNCHANGED <<queue, stopped, worker, finished, stop, once, counters>>

SubmitEnqueue(t) ==
  /\ call[t] = "checked"
  /\ \/ Send(t)
     \/ Len(queue) = QueueSize /\ Refuse(t)

\* SubmitWithContext blocks until a case is ready; its context may end.
SubmitWithContext(t) ==
  /\ call[t] = "new"
  /\ call' = [call EXCEPT ![t] = "blocked"]
  /\ UNCHANGED <<queue, stopped, worker, finished, stop, once, counters>>

SubmitBlocked(t) ==
  /\ call[t] = "blocked"
  /\ \/ stopped /\ Refuse(t)
     \/ Send(t)

ContextDone(t) ==
  /\ call[t] = "blocked"
  /\ Refuse(t)

TrySubmit(t) ==
  /\ call[t] = "new"
  /\ \/ stopped /\ Refuse(t)
     \/ Send(t)
     \/ ~stopped /\ Len(queue) = QueueSize /\ Refuse(t)

------------------------------------------------------------------------------
\* Workers.

Take(w) ==
  /\ worker[w] = Idle /\ queue # <<>>
  /\ worker' = [worker EXCEPT ![w] = Head(queue)] /\ queue' = Tail(queue)
  /\ UNCHANGED <<stopped, call, finished, stop, once, counters>>

Leave(w) ==
  /\ worker[w] = Idle /\ stopped
  /\ worker' = [worker EXCEPT ![w] = Left]
  /\ UNCHANGED <<queue, stopped, call, finished, stop, once, counters>>

\* Mutant: the worker goroutine dies of the panic of its task.
FinishPanicKills(w, how) ==
  /\ worker[w] \in Tasks
  /\ finished' = [finished EXCEPT ![worker[w]] = how]
  /\ Bump(IF how = "ok" THEN "completed" ELSE "failed")
  /\ worker' = [worker EXCEPT ![w] = IF how = "panic" THEN "dead" ELSE Idle]
  /\ UNCHANGED <<queue, stopped, call, stop, once>>

\* executeTask: the function returns nil, an error, or panics, which
\* safeExecute turns into an error; the worker goes back to its select.
Finish(w, how) ==
  /\ worker[w] \in Tasks
  /\ finished' = [finished EXCEPT ![worker[w]] = how]
  /\ Bump(IF how = "ok" THEN "completed" ELSE "failed")
  /\ worker' = [worker EXCEPT ![w] = Idle]
  /\ UNCHANGED <<queue, stopped, call, stop, once>>

------------------------------------------------------------------------------
\* Stop.

StopReturn(s, result) ==
  /\ stop' = [stop EXCEPT ![s] = result]
  /\ UNCHANGED <<queue, stopped, call, worker, finished, counters>>

\* The first caller closes stopChan; the others wait for it in stopOnce.Do.
StopFirst(s) ==
  /\ stop[s] = "new" /\ once = "free"
  /\ once' = "held" /\ stopped' = TRUE
  /\ stop' = [stop EXCEPT ![s] = "waiting"]
  /\ UNCHANGED <<queue, call, worker, finished, counters>>

\* Mutant: wg.Wait does not wait for the workers.
StopGracefulAtOnce(s) ==
  /\ stop[s] = "waiting"
  /\ once' = "done" /\ StopReturn(s, "graceful")

\* wg.Wait returned.
StopGraceful(s) ==
  /\ stop[s] = "waiting" /\ \A w \in Workers : worker[w] = Left
  /\ once' = "done" /\ StopReturn(s, "graceful")

StopTimeout(s) ==
  /\ stop[s] = "waiting"
  /\ once' = "done" /\ StopReturn(s, "timeout")

\* A later call returns nil and has done nothing.
StopAgain(s) ==
  /\ stop[s] = "new" /\ once = "done"
  /\ UNCHANGED once /\ StopReturn(s, "again")

Next ==
  \/ \E t \in Tasks :
       \/ SubmitCheck(t) \/ SubmitEnqueue(t)
       \/ SubmitWithContext(t) \/ SubmitBlocked(t) \/ ContextDone(t)
       \/ TrySubmit(t) \/ Count(t)
  \/ \E w \in Workers :
       \/ Take(w) \/ Leave(w)
       \/ \E how \in {"ok", "error", "panic"} : Finish(w, how)
  \/ \E s \in Stoppers :
       StopFirst(s) \/ StopGraceful(s) \/ StopTimeout(s) \/ StopAgain(s)

Spec == Init /\ [][Next]_vars

\* Goroutines that can run do; a task's function returns; a timer fires.
Fairness ==
  /\ \A t \in Tasks :
       WF_vars(SubmitEnqueue(t)) /\ WF_vars(SubmitBlocked(t)) /\ WF_vars(Count(t))
  /\ \A w \in Workers :
       /\ WF_vars(Take(w) \/ Leave(w))
       /\ WF_vars(\E how \in {"ok", "error", "panic"} : Finish(w, how))
  /\ \A s \in Stoppers :
       WF_vars(StopGraceful(s) \/ StopTimeout(s) \/ StopAgain(s))

FairSpec == Spec /\ Fairness

------------------------------------------------------------------------------
\* Properties.

\* The types, with the queue never past the capacity of the channel.
TypeOK ==
  /\ queue \in Seq(Tasks) /\ Len(queue) <= QueueSize
  /\ stopped \in BOOLEAN
  /\ call \in [Tasks -> {"new", "checked", "blocked", "counting", "accepted", "rejected"}]
  /\ worker \in [Workers -> Tasks \cup {Idle, Left}]
  /\ finished \in [Tasks -> {"no", "ok", "error", "panic"}]
  /\ stop \in [Stoppers -> {"new", "waiting", "graceful", "timeout", "again"}]
  /\ once \in {"free", "held", "done"}
  /\ counters \in [{"total", "completed", "failed", "rejected"} -> Nat]

\* A task that entered the channel is in exactly one place - once in the
\* queue, at one worker, or finished - and a task that was refused in none:
\* nothing is lost, run twice, or run after its submitter was told no.
TaskInOnePlace ==
  /\ \A t \in Tasks :
       (call[t] \in {"counting", "accepted"})
         <=> (t \in Queued \/ t \in Running \/ finished[t] # "no")
  /\ \A i, j \in DOMAIN queue : queue[i] = queue[j] => i = j
  /\ \A v, w \in Workers : worker[v] = worker[w] /\ worker[v] \in Tasks => v = w
  /\ Queued \cap Running = {}
  /\ \A t \in Queued \cup Running : finished[t] = "no"

\* When Stop reports a graceful stop every worker has returned, and no task
\* runs then or ever after.
GracefulMeansQuiet ==
  (\E s \in Stoppers : stop[s] = "graceful")
    => stopped /\ Running = {} /\ \A w \in Workers : worker[w] = Left

\* Unless the pool is stopped, an accepted task is executed: neither a panic
\* nor a failure of another task takes its worker away.
AcceptedRuns ==
  \A t \in Tasks : (call[t] = "accepted") ~> (finished[t] # "no" \/ stopped)

\* Every call of Stop returns, and the workers leave.
StopReturns ==
  \A s \in Stoppers :
    (stop[s] = "waiting") ~> (stop[s] \in {"graceful", "timeout"}
                              /\ \A w \in Workers : worker[w] = Left)

------------------------------------------------------------------------------
\* What the documentation or a comment says, and this code does not do: TLC finds
\* a counterexample to each of these.

\* "Returns false if queue is full or pool is stopped" (pool.go:187): no task
\* enters the queue once stopChan is closed.
RefusedOnceStopped ==
  [][\A t \in Tasks : call[t] # "counting" /\ call'[t] = "counting" => ~stopped]_vars
==============================================================================
