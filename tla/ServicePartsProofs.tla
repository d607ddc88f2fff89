------------------------- MODULE ServicePartsProofs --------------------------
(***************************************************************************)
(* Theorems about the services of a storage node, for any number of tasks, *)
(* workers, writers, streams and probes.  Each part has an inductive       *)
(* invariant of its own.                                                   *)
(***************************************************************************)
EXTENDS ServiceParts, TLAPS

\* For the values that are memberships.
LEMMA InIsBoolean == ASSUME NEW x, NEW S PROVE (x \in S) \in BOOLEAN
OBVIOUS

------------------------------------------------------------------------------
\* Compaction: jobs of several workers on the tables of all levels.

Level == 0..LastLevel
Table == [id : Nat, holds : SUBSET Nat]
Job == [level : 0..LastLevel - 1, input : SUBSET Table]

JobsTypes ==
  /\ levels \in [Level -> SUBSET Table] /\ next \in Nat /\ level \in -1..LastLevel - 1
  /\ queue \in Seq(Job) /\ job \in [Compactors -> Job] /\ output \in [Compactors -> Table]
  /\ doing \in [Compactors -> {"idle", "open", "merge", "add", "remove", "delete", "left"}]
  /\ flushed \subseteq Nat /\ (levelDue => level > 0)

\* The jobs that were made from what a level listed, and that may have changed since.
Scheduled == {queue[i] : i \in DOMAIN queue} \cup {job[w] : w \in Compactors}

\* A listed table has its file and only data that was flushed, and is listed once.
ListedOK ==
  /\ \A l \in Level : \A t \in levels[l] : t.id < next /\ t.id \in files /\ t.holds \subseteq flushed
  /\ \A l, m \in Level : \A t \in levels[l], u \in levels[m] : t.id = u.id => l = m /\ t = u

\* An input that is still listed is listed at the level of its job.
InputsOK ==
  \A j \in Scheduled : \A t \in j.input :
    /\ t.id < next /\ t.holds \subseteq flushed
    /\ \A l \in Level : \A u \in levels[l] : u.id = t.id => l = j.level /\ u = t

\* An output that is not listed yet has its file and the data of the inputs, and no
\* other job knows of it.
OutputsOK ==
  \A w \in Compactors : doing[w] = "add" =>
    /\ output[w].id < next /\ output[w].id \in files /\ output[w].holds = Jobs!Holds(job[w].input)
    /\ \A j \in Scheduled : \A t \in j.input : t.id # output[w].id
    /\ \A l \in Level : \A t \in levels[l] : t.id # output[w].id
    /\ \A v \in Compactors \ {w} : doing[v] = "add" => output[v].id # output[w].id

\* When the inputs are unlisted their data is deeper down, if no longer in the output
\* then in what the output was merged into.
MovedOK ==
  \A w \in Compactors : doing[w] = "remove" =>
    \A x \in Jobs!Holds(job[w].input) :
      \E l \in Level : l > job[w].level /\ \E t \in levels[l] : x \in t.holds

\* When files are deleted no table that is listed is among them.
GoneOK ==
  \A w \in Compactors : doing[w] = "delete" =>
    \A l \in Level : \A u \in levels[l] : u.id \notin Jobs!Ids(job[w].input)

FlushedOK == \A x \in flushed : \E l \in Level : \E t \in levels[l] : x \in t.holds

JobsInv == JobsTypes /\ ListedOK /\ InputsOK /\ OutputsOK /\ MovedOK /\ GoneOK /\ FlushedOK

\* The queue that is empty.
LEMMA EmptySeqIsSeq == ASSUME NEW S PROVE <<>> \in Seq(S)
OBVIOUS

\* There are no tables and no jobs at first.
LEMMA JobsInit == Jobs!JobsAssumption /\ Jobs!Init => JobsInv
<1> SUFFICES ASSUME Jobs!JobsAssumption, Jobs!Init PROVE JobsInv
  OBVIOUS
<1>1. LastLevel \in 1..4
  BY DEF Jobs!JobsAssumption
<1>2. JobsTypes
  <2>1. Jobs!NoJob \in Job /\ Jobs!NoTable \in Table
    BY <1>1 DEF Jobs!NoJob, Jobs!NoTable, Table, Job
  <2> QED
    <3>1. levels \in [Level -> SUBSET Table] /\ next \in Nat /\ flushed \subseteq Nat
      BY DEF Jobs!Init, Level
    <3>2. level = -1 /\ levelDue = FALSE
      BY DEF Jobs!Init
    <3>3. level \in -1..LastLevel - 1
      BY <1>1, <3>2
    <3>4. queue \in Seq(Job)
      BY EmptySeqIsSeq DEF Jobs!Init
    <3>5. /\ job \in [Compactors -> Job] /\ output \in [Compactors -> Table]
          /\ doing \in [Compactors -> {"idle", "open", "merge", "add", "remove", "delete", "left"}]
      BY <2>1 DEF Jobs!Init
    <3> QED
      BY <3>1, <3>2, <3>4, <3>5, <3>3 DEF JobsTypes
<1>3. \A j \in Scheduled : j.input = {}
  BY DEF Scheduled, Jobs!Init, Jobs!NoJob
<1> QED
  BY <1>2, <1>3, Zenon DEF JobsInv, ListedOK, InputsOK, OutputsOK, MovedOK, GoneOK, FlushedOK, Jobs!Init, Level

\* What is listed or scheduled are tables and jobs.
LEMMA TablesKnown ==
  ASSUME JobsTypes
  PROVE  /\ \A l \in Level : \A t \in levels[l] : t \in Table /\ t.id \in Nat
         /\ \A j \in Scheduled : j \in Job /\ \A t \in j.input : t \in Table /\ t.id \in Nat
<1>1. \A t \in Table : t.id \in Nat
  BY DEF Table
<1>2. \A j \in Scheduled : j \in Job
  BY DEF Scheduled, JobsTypes
<1>3. \A j \in Job : j.input \subseteq Table
  BY DEF Job
<1>4. \A l \in Level : levels[l] \subseteq Table
  BY DEF JobsTypes
<1> QED
  BY <1>1, <1>2, <1>3, <1>4

\* A flush lists a new table at level 0.
LEMMA FlushStep == ASSUME Jobs!JobsAssumption, JobsInv, Jobs!Flush PROVE JobsInv'
<1> DEFINE new == [id |-> next, holds |-> {next}]
<1>1. /\ levels' = [levels EXCEPT ![0] = levels[0] \cup {new}] /\ files' = files \cup {next}
      /\ next' = next + 1 /\ flushed' = flushed \cup {next}
      /\ UNCHANGED <<queue, level, levelDue, job, doing, output>>
  BY DEF Jobs!Flush
<1>2. /\ next \in Nat /\ LastLevel \in 1..4 /\ 0 \in Level /\ new \in Table /\ new.id = next /\ new.holds = {next}
      /\ levels \in [Level -> SUBSET Table]
  BY DEF JobsInv, JobsTypes, Jobs!JobsAssumption, Level, Table
<1>3. \A l \in Level : \A t : t \in levels'[l] <=> t \in levels[l] \/ (l = 0 /\ t = new)
  BY <1>1, <1>2
<1>4. \A l \in Level : \A t \in levels[l] : t.id \in Nat /\ t.id < next
  BY TablesKnown DEF JobsInv, ListedOK
<1> HIDE DEF new
<1>5. Scheduled' = Scheduled
  BY <1>1 DEF Scheduled
<1>6. \A j \in Scheduled : \A t \in j.input : t.id \in Nat /\ t.id < next
  BY TablesKnown DEF JobsInv, InputsOK
<1>7. JobsTypes'
  BY <1>1, <1>2 DEF JobsInv, JobsTypes
<1>8. ListedOK'
  <2>1. \A l \in Level : \A t \in levels'[l] : t.id < next' /\ t.id \in files' /\ t.holds \subseteq flushed'
    BY <1>1, <1>2, <1>3, <1>4 DEF JobsInv, ListedOK
  <2>2. \A l, m \in Level : \A t \in levels'[l], u \in levels'[m] : t.id = u.id => l = m /\ t = u
    BY <1>2, <1>3, <1>4 DEF JobsInv, ListedOK
  <2> QED
    BY <2>1, <2>2 DEF ListedOK
<1>9. InputsOK'
  <2> SUFFICES ASSUME NEW j \in Scheduled, NEW t \in j.input
               PROVE  /\ t.id < next' /\ t.holds \subseteq flushed'
                      /\ \A l \in Level : \A u \in levels'[l] : u.id = t.id => l = j.level /\ u = t
    BY <1>5 DEF InputsOK
  <2>1. /\ t.holds \subseteq flushed
        /\ \A l \in Level : \A u \in levels[l] : u.id = t.id => l = j.level /\ u = t
    BY DEF JobsInv, InputsOK
  <2>2. t.id \in Nat /\ t.id < next
    BY <1>6
  <2>3. next' = next + 1 /\ flushed' = flushed \cup {next} /\ next \in Nat /\ new.id = next
    BY <1>1, <1>2, Zenon
  <2>4. t.id < next' /\ t.holds \subseteq flushed' /\ t.id # new.id
    BY <2>1, <2>2, <2>3
  <2> QED
    BY <1>3, <2>1, <2>4, Zenon
<1>10. OutputsOK'
  BY <1>1, <1>2, <1>3, <1>5 DEF JobsInv, OutputsOK, JobsTypes, Table
<1>11. MovedOK'
  BY <1>1, <1>3 DEF JobsInv, MovedOK
<1>12. GoneOK'
  BY <1>1, <1>2, <1>3, <1>6 DEF JobsInv, GoneOK, Scheduled, Jobs!Ids
<1>13. FlushedOK'
  BY <1>1, <1>2, <1>3 DEF JobsInv, FlushedOK
<1> QED
  BY <1>7, <1>8, <1>9, <1>10, <1>11, <1>12, <1>13 DEF JobsInv

\* A job that is made from what a level lists may be queued, or dropped.
LEMMA QueueStep ==
  ASSUME Jobs!JobsAssumption, JobsInv, NEW l \in 0..LastLevel - 1,
         queue' \in {queue, Append(queue, [level |-> l, input |-> levels[l]])},
         level' \in -1..LastLevel - 1, levelDue' => level' > 0,
         UNCHANGED <<levels, files, next, flushed, job, doing, output>>
  PROVE  JobsInv'
<1> DEFINE new == [level |-> l, input |-> levels[l]]
<1>1. JobsTypes
  BY DEF JobsInv
<1>2. l \in Level /\ new \in Job /\ new.level = l /\ new.input = levels[l]
  <2>1. l \in Level
    BY DEF Jobs!JobsAssumption, Level
  <2> QED
    BY <1>1, <2>1 DEF JobsTypes, Job
<1> HIDE DEF new
<1>3. queue' = queue \/ queue' = Append(queue, new)
  BY DEF new
<1>4. \A j \in Scheduled' : j \in Scheduled \/ j = new
  <2>1. {queue'[i] : i \in DOMAIN queue'} \subseteq {queue[i] : i \in DOMAIN queue} \cup {new}
    BY <1>1, <1>2, <1>3 DEF JobsTypes
  <2> QED
    BY <2>1 DEF Scheduled
<1>5. JobsTypes'
  <2>1. queue' \in Seq(Job)
    BY <1>1, <1>2, <1>3 DEF JobsTypes
  <2> QED
    BY <1>1, <2>1 DEF JobsTypes
<1>6. ListedOK'
  BY DEF JobsInv, ListedOK
<1>7. InputsOK'
  <2>1. InputsOK /\ ListedOK
    BY DEF JobsInv
  <2>2. ASSUME NEW t \in levels[l]
        PROVE  /\ t.id < next /\ t.holds \subseteq flushed
               /\ \A m \in Level : \A u \in levels[m] : u.id = t.id => m = l /\ u = t
    BY <1>2, <2>1 DEF ListedOK
  <2> QED
    BY <1>2, <1>4, <2>1, <2>2 DEF InputsOK
<1>8. OutputsOK'
  <2>1. OutputsOK
    BY DEF JobsInv
  <2> QED
    BY <1>2, <1>4, <2>1 DEF OutputsOK
<1>9. MovedOK' /\ GoneOK' /\ FlushedOK'
  BY Zenon DEF JobsInv, MovedOK, GoneOK, FlushedOK
<1> QED
  BY <1>5, <1>6, <1>7, <1>8, <1>9 DEF JobsInv

\* The scheduler looks at one level after another and queues what is due.
LEMMA ScheduleStep ==
  ASSUME Jobs!JobsAssumption, JobsInv, Jobs!Tick \/ Jobs!CheckCompactionNeeded
  PROVE  JobsInv'
<1>1. LastLevel \in 1..4 /\ level \in -1..LastLevel - 1 /\ 0 \in 0..LastLevel - 1
  BY DEF Jobs!JobsAssumption, JobsInv, JobsTypes
<1>2. UNCHANGED <<levels, files, next, flushed, job, doing, output>>
  BY Zenon DEF Jobs!Tick, Jobs!CheckCompactionNeeded, Jobs!CheckL0, Jobs!CheckLevel, Jobs!TriggerLevelCompaction
<1>3. levelDue => level > 0
  BY DEF JobsInv, JobsTypes
<1>4. ASSUME Jobs!Advance, level >= 0 PROVE level' \in -1..LastLevel - 1
  BY <1>1, <1>4 DEF Jobs!Advance
<1>5. CASE Jobs!Tick
  <2>1. queue' = queue /\ level' = 0 /\ level = -1 /\ levelDue' = levelDue
    BY <1>5 DEF Jobs!Tick
  <2> QED
    BY <1>1, <1>2, <1>3, <2>1, QueueStep
<1>6. CASE Jobs!CheckL0
  <2>1. /\ level = 0 /\ Jobs!Advance /\ levelDue' = levelDue
        /\ queue' \in {queue, Append(queue, [level |-> 0, input |-> levels[0]])}
    BY <1>6 DEF Jobs!CheckL0, Jobs!Enqueued
  <2> QED
    BY <1>1, <1>2, <1>3, <1>4, <2>1, QueueStep
<1>7. CASE Jobs!CheckLevel
  <2>1. queue' = queue /\ level > 0 /\ (IF levelDue' THEN level' = level ELSE Jobs!Advance)
    BY <1>7 DEF Jobs!CheckLevel
  <2>2. level' \in -1..LastLevel - 1 /\ (levelDue' => level' > 0)
    BY <1>1, <1>4, <2>1
  <2> QED
    BY <1>1, <1>2, <2>1, <2>2, QueueStep
<1>8. CASE Jobs!TriggerLevelCompaction
  <2>1. /\ levelDue /\ ~levelDue' /\ Jobs!Advance
        /\ queue' \in {queue, Append(queue, [level |-> level, input |-> levels[level]])}
    BY <1>8 DEF Jobs!TriggerLevelCompaction, Jobs!Enqueued
  <2>2. level \in 0..LastLevel - 1 /\ level' \in -1..LastLevel - 1
    BY <1>1, <1>3, <1>4, <2>1
  <2> QED
    BY <1>2, <2>1, <2>2, QueueStep
<1> QED
  BY <1>5, <1>6, <1>7, <1>8 DEF Jobs!CheckCompactionNeeded

\* A worker takes the first job of the queue.
LEMMA TakeStep ==
  ASSUME Jobs!JobsAssumption, JobsInv, NEW w \in Compactors, Jobs!TakeJob(w)
  PROVE  JobsInv'
<1>1. /\ doing[w] = "idle" /\ doing' = [doing EXCEPT ![w] = "open"]
      /\ queue # <<>> /\ job' = [job EXCEPT ![w] = Head(queue)] /\ queue' = Tail(queue)
      /\ UNCHANGED <<levels, files, next, flushed, level, levelDue, output>>
  BY DEF Jobs!TakeJob, Jobs!At
<1>2. JobsTypes
  BY DEF JobsInv
<1>3. /\ Head(queue) \in {queue[i] : i \in DOMAIN queue} /\ Head(queue) \in Job
      /\ Tail(queue) \in Seq(Job)
      /\ {Tail(queue)[i] : i \in DOMAIN Tail(queue)} \subseteq {queue[i] : i \in DOMAIN queue}
  BY <1>1, <1>2 DEF JobsTypes
<1>4. Scheduled' \subseteq Scheduled
  BY <1>1, <1>2, <1>3 DEF JobsTypes, Scheduled
<1>5. JobsTypes'
  BY <1>1, <1>2, <1>3 DEF JobsTypes
<1>6. \A v \in Compactors : doing'[v] \in {"add", "remove", "delete"} => doing'[v] = doing[v] /\ job'[v] = job[v]
  BY <1>1, <1>2 DEF JobsTypes
<1>7. ListedOK' /\ InputsOK' /\ FlushedOK'
  BY <1>1, <1>4 DEF JobsInv, ListedOK, InputsOK, FlushedOK
<1>8. OutputsOK'
  BY <1>1, <1>4, <1>6 DEF JobsInv, OutputsOK
<1>9. MovedOK' /\ GoneOK'
  BY <1>1, <1>6, Zenon DEF JobsInv, MovedOK, GoneOK
<1> QED
  BY <1>5, <1>7, <1>8, <1>9 DEF JobsInv

\* A worker that changes no level: files may come, and files may go that no level lists.
LEMMA PassStep ==
  ASSUME JobsInv, NEW w \in Compactors, NEW to \in {"merge", "idle", "left"},
         doing' = [doing EXCEPT ![w] = to], next' \in Nat, next' >= next,
         \A x \in files : x \in files' \/ \A l \in Level : \A t \in levels[l] : t.id # x,
         \A v \in Compactors \ {w} : doing[v] = "add" => output[v].id \in files',
         UNCHANGED <<levels, flushed, queue, level, levelDue, job, output>>
  PROVE  JobsInv'
<1>1. JobsTypes /\ next \in Nat
  BY DEF JobsInv, JobsTypes
<1>2. Scheduled' = Scheduled
  BY DEF Scheduled
<1>3. \A v \in Compactors : doing'[v] \in {"add", "remove", "delete"} => v # w /\ doing'[v] = doing[v]
  BY <1>1 DEF JobsTypes
<1>4. \A v \in Compactors : output[v].id \in Nat
  BY <1>1 DEF JobsTypes, Table
<1>5. JobsTypes'
  BY <1>1 DEF JobsTypes
<1>6. ListedOK'
  BY <1>1, TablesKnown DEF JobsInv, ListedOK
<1>7. InputsOK'
  BY <1>1, <1>2, TablesKnown DEF JobsInv, InputsOK
<1>8. OutputsOK'
  BY <1>1, <1>2, <1>3, <1>4 DEF JobsInv, OutputsOK
<1>9. MovedOK' /\ GoneOK' /\ FlushedOK'
  BY <1>3, Zenon DEF JobsInv, MovedOK, GoneOK, FlushedOK
<1> QED
  BY <1>5, <1>6, <1>7, <1>8, <1>9, Zenon DEF JobsInv

\* A merge writes the file of a new table with the data of the inputs.
LEMMA MergeStep ==
  ASSUME Jobs!JobsAssumption, JobsInv, NEW w \in Compactors, Jobs!MergeTables(w)
  PROVE  JobsInv'
<1> DEFINE new == [id |-> next, holds |-> Jobs!Holds(job[w].input)]
<1>1. /\ doing[w] = "merge" /\ doing' = [doing EXCEPT ![w] = "add"]
      /\ output' = [output EXCEPT ![w] = new] /\ files' = files \cup {next} /\ next' = next + 1
      /\ UNCHANGED <<levels, flushed, queue, level, levelDue, job>>
  BY DEF Jobs!MergeTables, Jobs!At
<1>2. JobsTypes /\ next \in Nat
  BY DEF JobsInv, JobsTypes
<1>3. Jobs!Holds(job[w].input) \subseteq Nat
  <2>1. job[w].input \subseteq Table
    BY <1>2 DEF JobsTypes, Job
  <2> QED
    BY <2>1 DEF Jobs!Holds, Table
<1>4. new \in Table /\ new.id = next /\ new.holds = Jobs!Holds(job[w].input)
  BY <1>2, <1>3 DEF Table
<1> HIDE DEF new
<1>5. Scheduled' = Scheduled
  BY <1>1 DEF Scheduled
<1>6. \A v \in Compactors : /\ output[v].id \in Nat
                            /\ v # w => output'[v] = output[v] /\ doing'[v] = doing[v]
                            /\ v = w => output'[v] = new /\ doing'[v] = "add"
  BY <1>1, <1>2 DEF JobsTypes, Table
<1>7. /\ \A l \in Level : \A t \in levels[l] : t.id \in Nat /\ t.id < next
      /\ \A j \in Scheduled : \A t \in j.input : t.id \in Nat /\ t.id < next
  BY <1>2, TablesKnown DEF JobsInv, ListedOK, InputsOK
<1>8. JobsTypes'
  BY <1>1, <1>2, <1>4 DEF JobsTypes
<1>9. ListedOK' /\ InputsOK'
  <2>1. \A i \in Nat : i < next => i < next'
    BY <1>1, <1>2
  <2>2. /\ \A l \in Level : \A t \in levels[l] : t.id < next'
        /\ \A j \in Scheduled : \A t \in j.input : t.id < next'
    BY <1>7, <2>1
  <2>3. files \subseteq files' /\ levels' = levels /\ flushed' = flushed
    BY <1>1
  <2>4. ListedOK'
    BY <2>2, <2>3 DEF JobsInv, ListedOK
  <2>5. InputsOK'
    BY <1>5, <2>2, <2>3, Zenon DEF JobsInv, InputsOK
  <2> QED
    BY <2>4, <2>5
<1>10. OutputsOK'
  <2>1. OutputsOK
    BY DEF JobsInv
  <2>2. ASSUME NEW v \in Compactors, doing'[v] = "add", v # w
        PROVE  /\ output'[v].id < next' /\ output'[v].id \in files' /\ output'[v].id # next
               /\ output'[v].holds = Jobs!Holds(job[v].input)
               /\ \A j \in Scheduled : \A t \in j.input : t.id # output'[v].id
               /\ \A l \in Level : \A t \in levels[l] : t.id # output'[v].id
               /\ \A u \in Compactors \ {v} : u # w /\ doing[u] = "add" => output[u].id # output'[v].id
    <3>1. doing[v] = "add" /\ output'[v] = output[v] /\ output[v].id \in Nat
      BY <1>6, <2>2
    <3>2. output[v].id < next' /\ output[v].id # next /\ output[v].id \in files'
      BY <1>1, <1>2, <2>1, <3>1 DEF OutputsOK
    <3>3. output[v].holds = Jobs!Holds(job[v].input)
      BY <2>1, <3>1, Zenon DEF OutputsOK
    <3>4. /\ \A j \in Scheduled : \A t \in j.input : t.id # output[v].id
          /\ \A l \in Level : \A t \in levels[l] : t.id # output[v].id
          /\ \A u \in Compactors \ {v} : doing[u] = "add" => output[u].id # output[v].id
      BY <2>1, <3>1, Zenon DEF OutputsOK
    <3> QED
      BY <3>1, <3>2, <3>3, <3>4, Zenon
  <2>3. ASSUME NEW v \in Compactors, doing'[v] = "add"
        PROVE  \A u \in Compactors \ {v} : doing'[u] = "add" => output'[u].id # output'[v].id
    BY <1>4, <1>6, <2>2, <2>3, Zenon
  <2>4. /\ output'[w].id < next' /\ output'[w].id \in files'
        /\ output'[w].holds = Jobs!Holds(job[w].input)
        /\ \A j \in Scheduled : \A t \in j.input : t.id # output'[w].id
        /\ \A l \in Level : \A t \in levels[l] : t.id # output'[w].id
    BY <1>1, <1>2, <1>4, <1>6, <1>7
  <2> QED
    BY <1>1, <1>5, <2>2, <2>3, <2>4, Zenon DEF OutputsOK
<1>11. MovedOK' /\ GoneOK' /\ FlushedOK'
  BY <1>1, <1>6 DEF JobsInv, MovedOK, GoneOK, FlushedOK
<1> QED
  BY <1>8, <1>9, <1>10, <1>11 DEF JobsInv

\* The new table is listed one level further down.
LEMMA AddStep ==
  ASSUME Jobs!JobsAssumption, JobsInv, NEW w \in Compactors, Jobs!AddTable(w)
  PROVE  JobsInv'
<1> DEFINE k == job[w].level + 1
<1>1. /\ doing[w] = "add" /\ doing' = [doing EXCEPT ![w] = "remove"]
      /\ levels' = [levels EXCEPT ![k] = levels[k] \cup {output[w]}]
      /\ UNCHANGED <<files, next, flushed, queue, level, levelDue, job, output>>
  BY DEF Jobs!AddTable, Jobs!At
<1>2. JobsTypes
  BY DEF JobsInv
<1>3. job[w] \in Job /\ job[w].level \in 0..LastLevel - 1 /\ output[w] \in Table /\ job[w] \in Scheduled
  BY <1>2 DEF JobsTypes, Job, Scheduled
<1>4. k \in Level /\ k > job[w].level
  BY <1>3 DEF Jobs!JobsAssumption, Level
<1> HIDE DEF k
<1>5. \A l \in Level : \A t : t \in levels'[l] <=> t \in levels[l] \/ (l = k /\ t = output[w])
  BY <1>1, <1>2, <1>4 DEF JobsTypes
<1>6. Scheduled' = Scheduled
  BY <1>1, Zenon DEF Scheduled
<1>7. /\ output[w].id < next /\ output[w].id \in files /\ output[w].holds = Jobs!Holds(job[w].input)
      /\ \A j \in Scheduled : \A t \in j.input : t.id # output[w].id
      /\ \A l \in Level : \A t \in levels[l] : t.id # output[w].id
      /\ \A v \in Compactors \ {w} : doing[v] = "add" => output[v].id # output[w].id
  BY <1>1 DEF JobsInv, OutputsOK
<1>8. output[w].holds \subseteq flushed
  BY <1>3, <1>7 DEF JobsInv, InputsOK, Jobs!Holds
<1>9. \A v \in Compactors : /\ doing'[v] \in {"add", "delete"} => v # w /\ doing'[v] = doing[v]
                            /\ doing'[v] = "remove" => v = w \/ doing[v] = "remove"
  BY <1>1, <1>2 DEF JobsTypes
<1>10. JobsTypes'
  <2>1. levels' \in [Level -> SUBSET Table]
    BY <1>1, <1>2, <1>3, <1>4 DEF JobsTypes
  <2> QED
    BY <1>1, <1>2, <2>1 DEF JobsTypes
<1>11. ListedOK'
  BY <1>1, <1>5, <1>7, <1>8 DEF JobsInv, ListedOK
<1>12. InputsOK'
  <2> SUFFICES ASSUME NEW j \in Scheduled, NEW t \in j.input
               PROVE  /\ t.id < next' /\ t.holds \subseteq flushed'
                      /\ \A l \in Level : \A u \in levels'[l] : u.id = t.id => l = j.level /\ u = t
    BY <1>6 DEF InputsOK
  <2>1. /\ t.id < next /\ t.holds \subseteq flushed
        /\ \A l \in Level : \A u \in levels[l] : u.id = t.id => l = j.level /\ u = t
    BY DEF JobsInv, InputsOK
  <2>2. t.id # output[w].id
    BY <1>7
  <2>3. next' = next /\ flushed' = flushed
    BY <1>1
  <2> QED
    BY <1>5, <2>1, <2>2, <2>3, Zenon
<1>13. OutputsOK'
  <2>1. ASSUME NEW v \in Compactors, doing'[v] = "add"
        PROVE  /\ output[v].id < next /\ output[v].id \in files /\ output[v].holds = Jobs!Holds(job[v].input)
               /\ \A j \in Scheduled : \A t \in j.input : t.id # output[v].id
               /\ \A l \in Level : \A t \in levels'[l] : t.id # output[v].id
               /\ \A u \in Compactors \ {v} : doing'[u] = "add" => output[u].id # output[v].id
    <3>1. v # w /\ doing[v] = "add" /\ output[v].id # output[w].id
      BY <1>7, <1>9, <2>1, Zenon
    <3>2. OutputsOK
      BY DEF JobsInv
    <3>3. \A u \in Compactors : doing'[u] = "add" => doing[u] = "add"
      BY <1>9
    <3>4. \A l \in Level : \A t \in levels'[l] : t.id # output[v].id
      BY <1>5, <3>1, <3>2, Zenon DEF OutputsOK
    <3> QED
      BY <3>1, <3>2, <3>3, <3>4, Zenon DEF OutputsOK
  <2>2. UNCHANGED <<files, next, job, output>>
    BY <1>1, Zenon
  <2> QED
    BY <1>6, <2>1, <2>2 DEF OutputsOK
<1>14. MovedOK'
  <2>1. MovedOK
    BY DEF JobsInv
  <2>2. ASSUME NEW v \in Compactors, doing'[v] = "remove", NEW x \in Jobs!Holds(job[v].input)
        PROVE  \E l \in Level : l > job[v].level /\ \E t \in levels'[l] : x \in t.holds
    <3>1. CASE v = w
      BY <1>4, <1>5, <1>7, <2>2, <3>1, Zenon
    <3>2. CASE v # w
      BY <1>5, <1>9, <2>1, <2>2, <3>2, Zenon DEF MovedOK
    <3> QED
      BY <3>1, <3>2, Zenon
  <2> QED
    BY <1>1, <2>2, Zenon DEF MovedOK
<1>15. GoneOK'
  <2>1. \A v \in Compactors : job[v] \in Scheduled
    BY DEF Scheduled
  <2>2. GoneOK
    BY DEF JobsInv
  <2>3. ASSUME NEW v \in Compactors, doing'[v] = "delete", NEW l \in Level, NEW u \in levels'[l]
        PROVE  u.id \notin Jobs!Ids(job[v].input)
    <3>1. doing[v] = "delete" /\ (u \in levels[l] \/ u = output[w])
      BY <1>1, <1>5, <1>9, <2>3, Zenon
    <3>2. CASE u \in levels[l]
      BY <2>2, <3>1, <3>2, Zenon DEF GoneOK
    <3>3. CASE u = output[w]
      BY <1>7, <2>1, <3>3, Zenon DEF Jobs!Ids
    <3> QED
      BY <3>1, <3>2, <3>3, Zenon
  <2>4. job' = job
    BY <1>1, Zenon
  <2> QED
    BY <2>3, <2>4, Zenon DEF GoneOK, Jobs!Ids
<1>16. FlushedOK'
  BY <1>1, <1>5, Zenon DEF JobsInv, FlushedOK
<1> QED
  BY <1>10, <1>11, <1>12, <1>13, <1>14, <1>15, <1>16 DEF JobsInv

\* The inputs are unlisted, of which another job may have been made from the same level.
LEMMA RemoveStep ==
  ASSUME JobsInv, NEW w \in Compactors, Jobs!RemoveTables(w)
  PROVE  JobsInv'
<1> DEFINE k == job[w].level
<1>1. /\ doing[w] = "remove" /\ doing' = [doing EXCEPT ![w] = "delete"]
      /\ levels' = [levels EXCEPT ![k] = {t \in levels[k] : t.id \notin Jobs!Ids(job[w].input)}]
      /\ UNCHANGED <<files, next, flushed, queue, level, levelDue, job, output>>
  BY Zenon DEF Jobs!RemoveTables, Jobs!At
<1>2. JobsTypes
  BY DEF JobsInv
<1>3. \A l \in Level : \A t : t \in levels'[l] <=>
                              t \in levels[l] /\ (l = k => t.id \notin Jobs!Ids(job[w].input))
  BY <1>1, <1>2 DEF JobsTypes
<1>4. Scheduled' = Scheduled /\ \A v \in Compactors : job[v] \in Scheduled
  BY <1>1, Zenon DEF Scheduled
<1>5. \A v \in Compactors : /\ doing'[v] \in {"add", "remove"} => doing'[v] = doing[v]
                            /\ doing'[v] = "delete" => v = w \/ doing[v] = "delete"
  BY <1>1, <1>2 DEF JobsTypes
\* The data of what is unlisted is listed further down.
<1>6. ASSUME NEW l \in Level, NEW t \in levels[l], t \notin levels'[l], NEW x \in t.holds
      PROVE  \E m \in Level : m > l /\ \E u \in levels'[m] : x \in u.holds
  <2>1. l = k /\ t.id \in Jobs!Ids(job[w].input)
    BY <1>3, <1>6
  <2>2. PICK s \in job[w].input : s.id = t.id
    BY <2>1 DEF Jobs!Ids
  <2>3. t = s
    BY <1>4, <2>2 DEF JobsInv, InputsOK
  <2>4. x \in Jobs!Holds(job[w].input)
    BY <1>6, <2>2, <2>3 DEF Jobs!Holds
  <2>5. PICK m \in Level : m > k /\ \E u \in levels[m] : x \in u.holds
    BY <1>1, <2>4 DEF JobsInv, MovedOK
  <2>6. m # k
    <3>1. k \in Int
      BY <1>2 DEF JobsTypes, Job
    <3> QED
      BY <2>5, <3>1
  <2> QED
    BY <1>3, <2>1, <2>5, <2>6
<1> HIDE DEF k
<1>7. JobsTypes'
  <2>1. \A l \in Level : levels'[l] \subseteq Table
    BY <1>2, <1>3 DEF JobsTypes
  <2>2. levels' \in [Level -> SUBSET Table]
    BY <1>1, <1>2, <2>1, Zenon DEF JobsTypes
  <2> QED
    BY <1>1, <1>2, <2>2 DEF JobsTypes
<1>8. ListedOK' /\ InputsOK'
  BY <1>1, <1>3, <1>4 DEF JobsInv, ListedOK, InputsOK
<1>9. OutputsOK'
  <2>1. OutputsOK
    BY DEF JobsInv
  <2>2. \A v \in Compactors : doing'[v] = "add" => doing[v] = "add"
    BY <1>5
  <2>3. \A l \in Level : levels'[l] \subseteq levels[l]
    BY <1>3, Zenon
  <2>4. UNCHANGED <<files, next, job, output>>
    BY <1>1, Zenon
  <2> QED
    BY <1>4, <2>1, <2>2, <2>3, <2>4 DEF OutputsOK
<1>10. MovedOK'
  <2>1. ASSUME NEW v \in Compactors, doing[v] = "remove", NEW x \in Jobs!Holds(job[v].input)
        PROVE  \E m \in Level : m > job[v].level /\ \E u \in levels'[m] : x \in u.holds
    <3>1. PICK l \in Level : l > job[v].level /\ \E t \in levels[l] : x \in t.holds
      BY <2>1 DEF JobsInv, MovedOK
    <3>2. PICK t \in levels[l] : x \in t.holds
      BY <3>1
    <3>3. CASE t \in levels'[l]
      BY <3>1, <3>2, <3>3
    <3>4. CASE t \notin levels'[l]
      <4>1. PICK m \in Level : m > l /\ \E u \in levels'[m] : x \in u.holds
        BY <1>6, <3>2, <3>4
      <4>2. job[v].level \in Int /\ l \in Int /\ m \in Int
        BY <1>2 DEF JobsTypes, Job, Level
      <4>3. m > job[v].level
        BY <3>1, <4>1, <4>2
      <4> QED
        BY <4>1, <4>3
    <3> QED
      BY <3>3, <3>4, Zenon
  <2> QED
    BY <1>1, <1>5, <2>1, Zenon DEF MovedOK
<1>11. GoneOK'
  <2>1. ASSUME NEW l \in Level, NEW u \in levels'[l] PROVE u.id \notin Jobs!Ids(job[w].input)
    <3>1. SUFFICES ASSUME u.id \in Jobs!Ids(job[w].input) PROVE FALSE
      OBVIOUS
    <3>2. PICK s \in job[w].input : s.id = u.id
      BY <3>1, Zenon DEF Jobs!Ids
    <3>3. l = k
      BY <1>3, <1>4, <3>2 DEF JobsInv, InputsOK, k
    <3> QED
      BY <1>3, <3>1, <3>3, Zenon
  <2> QED
    BY <1>1, <1>3, <1>5, <2>1, Zenon DEF JobsInv, GoneOK
<1>12. FlushedOK'
  <2>1. ASSUME NEW x \in flushed PROVE \E l \in Level : \E t \in levels'[l] : x \in t.holds
    <3>1. PICK l \in Level : \E t \in levels[l] : x \in t.holds
      BY DEF JobsInv, FlushedOK
    <3> QED
      BY <1>6, <3>1
  <2> QED
    BY <1>1, <2>1, Zenon DEF FlushedOK
<1> QED
  BY <1>7, <1>8, <1>9, <1>10, <1>11, <1>12 DEF JobsInv

\* Every step keeps the invariant.
LEMMA JobsStep ==
  ASSUME Jobs!JobsAssumption, JobsInv, [Jobs!Next]_(Jobs!vars)
  PROVE  JobsInv'
<1>0. JobsTypes /\ next \in Nat
  BY DEF JobsInv, JobsTypes
<1>1. ASSUME NEW w \in Compactors, Jobs!OpenInputs(w) \/ Jobs!Leave(w) PROVE JobsInv'
  <2>1. PICK to \in {"merge", "idle", "left"} : doing' = [doing EXCEPT ![w] = to]
    BY <1>1 DEF Jobs!OpenInputs, Jobs!Leave, Jobs!At
  <2>2. UNCHANGED <<levels, files, next, flushed, queue, level, levelDue, job, output>>
    BY <1>1 DEF Jobs!OpenInputs, Jobs!Leave
  <2>3. \A v \in Compactors : doing[v] = "add" => output[v].id \in files'
    BY <2>2 DEF JobsInv, OutputsOK
  <2>4. next' \in Nat /\ next' >= next
    BY <1>0, <2>2
  <2>5. \A x \in files : x \in files'
    BY <2>2
  <2> QED
    BY <2>1, <2>2, <2>3, <2>4, <2>5, PassStep, Zenon
<1>2. ASSUME NEW w \in Compactors, Jobs!MergeFails(w) PROVE JobsInv'
  <2>1. /\ doing' = [doing EXCEPT ![w] = "idle"] /\ files' = files \cup {next} /\ next' = next + 1
        /\ UNCHANGED <<levels, flushed, queue, level, levelDue, job, output>>
    BY <1>2 DEF Jobs!MergeFails, Jobs!At
  <2>2. next' \in Nat /\ next' >= next
    BY <1>0, <2>1
  <2>3. \A v \in Compactors : doing[v] = "add" => output[v].id \in files'
    BY <2>1 DEF JobsInv, OutputsOK
  <2> QED
    BY <2>1, <2>2, <2>3, PassStep, Zenon
<1>3. ASSUME NEW w \in Compactors, Jobs!DeleteFiles(w) PROVE JobsInv'
  <2>1. /\ doing[w] = "delete" /\ doing' = [doing EXCEPT ![w] = "idle"]
        /\ files' = files \ Jobs!Ids(job[w].input)
        /\ UNCHANGED <<levels, next, flushed, queue, level, levelDue, job, output>>
    BY <1>3, Zenon DEF Jobs!DeleteFiles, Jobs!At
  <2>2. \A l \in Level : \A t \in levels[l] : t.id \notin Jobs!Ids(job[w].input)
    BY <2>1 DEF JobsInv, GoneOK
  <2>3. job[w] \in Scheduled
    BY DEF Scheduled
  <2>4. \A v \in Compactors : doing[v] = "add" => output[v].id \in files'
    BY <2>1, <2>3, Zenon DEF JobsInv, OutputsOK, Jobs!Ids
  <2>5. \A x \in files : x \in files' \/ \A l \in Level : \A t \in levels[l] : t.id # x
    BY <2>1, <2>2
  <2>6. next' \in Nat /\ next' >= next
    <3>1. next' = next
      BY <2>1, Zenon
    <3> QED
      BY <1>0, <3>1
  <2> QED
    BY <2>1, <2>4, <2>5, <2>6, PassStep, Zenon
<1>4. CASE Jobs!Stop \/ UNCHANGED Jobs!vars
  <2>1. UNCHANGED <<levels, files, next, flushed, queue, level, levelDue, job, doing, output>>
    BY <1>4 DEF Jobs!Stop, Jobs!vars
  <2> QED
    <3>1. Scheduled' = Scheduled
      BY <2>1, Zenon DEF Scheduled
    <3>2. JobsTypes'
      BY <2>1, Zenon DEF JobsInv, JobsTypes
    <3>3. ListedOK'
      <4>1. levels' = levels /\ files' = files /\ next' = next /\ flushed' = flushed
        BY <2>1, Zenon
      <4>2. ListedOK
        BY DEF JobsInv
      <4> QED
        BY <4>1, <4>2 DEF ListedOK
    <3>4. InputsOK'
      BY <2>1, <3>1, Zenon DEF JobsInv, InputsOK
    <3>5. OutputsOK'
      BY <2>1, <3>1, Zenon DEF JobsInv, OutputsOK
    <3>6. MovedOK' /\ GoneOK' /\ FlushedOK'
      BY <2>1, Zenon DEF JobsInv, MovedOK, GoneOK, FlushedOK
    <3> QED
      BY <3>2, <3>3, <3>4, <3>5, <3>6, Zenon DEF JobsInv
<1> QED
  BY <1>1, <1>2, <1>3, <1>4, FlushStep, ScheduleStep, TakeStep, MergeStep, AddStep, RemoveStep
     DEF Jobs!Next, Jobs!Work

\* DataIsListed and ListedHaveFiles for any number of workers, jobs and tables, although
\* several jobs may have the same inputs: levels are left downwards only.
THEOREM CompactionKeepsData ==
  Jobs!Spec => []CompactionLosesNothing
<1>1. Jobs!Init => JobsInv
  BY ServiceAssumption, JobsInit
<1>2. JobsInv /\ [Jobs!Next]_(Jobs!vars) => JobsInv'
  BY ServiceAssumption, JobsStep
<1>3. JobsInv => CompactionLosesNothing
  <2> SUFFICES ASSUME JobsInv PROVE Jobs!DataIsListed /\ Jobs!ListedHaveFiles
    BY DEF CompactionLosesNothing
  <2>1. \A t : t \in Jobs!Listed <=> \E l \in Level : t \in levels[l]
    BY Zenon DEF Jobs!Listed, Level
  <2>2. Jobs!ListedHaveFiles
    BY <2>1, Zenon DEF JobsInv, ListedOK, Jobs!ListedHaveFiles
  <2>3. \A x : x \in Jobs!Holds(Jobs!Listed) <=> \E t \in Jobs!Listed : x \in t.holds
    BY Zenon DEF Jobs!Holds
  <2>4. Jobs!Holds(Jobs!Listed) = flushed
    <3>1. ASSUME NEW x \in Jobs!Holds(Jobs!Listed) PROVE x \in flushed
      BY <2>1, <2>3, <3>1, Zenon DEF JobsInv, ListedOK
    <3>2. ASSUME NEW x \in flushed PROVE x \in Jobs!Holds(Jobs!Listed)
      BY <2>1, <2>3, <3>2, Zenon DEF JobsInv, FlushedOK
    <3> QED
      BY <3>1, <3>2, Zenon
  <2> QED
    BY <2>2, <2>4 DEF Jobs!DataIsListed
<1> QED
  BY <1>1, <1>2, <1>3, PTL DEF Jobs!Spec

------------------------------------------------------------------------------
\* The worker pool.

Elements(q) == {q[i] : i \in DOMAIN q}
Distinct(q) == \A i, j \in DOMAIN q : q[i] = q[j] => i = j

\* Sending to a channel.
LEMMA Appended ==
  ASSUME NEW T, NEW q \in Seq(T), NEW t \in T, Distinct(q), t \notin Elements(q)
  PROVE  /\ Append(q, t) \in Seq(T) /\ Len(Append(q, t)) = Len(q) + 1
         /\ Elements(Append(q, t)) = Elements(q) \cup {t}
         /\ Distinct(Append(q, t))
<1> DEFINE r == Append(q, t)
<1>1. /\ r \in Seq(T) /\ Len(r) = Len(q) + 1 /\ Len(q) \in Nat
      /\ DOMAIN q = 1..Len(q) /\ DOMAIN r = 1..Len(q) + 1
  OBVIOUS
<1>2. (\A i \in DOMAIN q : r[i] = q[i]) /\ r[Len(q) + 1] = t
  OBVIOUS
<1> HIDE DEF r
<1>3. Elements(r) = Elements(q) \cup {t}
  <2>1. \A i \in DOMAIN r : i \in DOMAIN q \/ i = Len(q) + 1
    BY <1>1
  <2>2. DOMAIN q \subseteq DOMAIN r /\ Len(q) + 1 \in DOMAIN r
    BY <1>1
  <2>. QED
    BY <1>2, <2>1, <2>2 DEF Elements
<1>4. Distinct(r)
  <2>1. \A i \in DOMAIN r : i \in DOMAIN q \/ i = Len(q) + 1
    BY <1>1
  <2>2. \A i \in DOMAIN q : q[i] # t
    BY DEF Elements
  <2>. QED
    BY <1>2, <2>1, <2>2 DEF Distinct
<1>. QED
  BY <1>1, <1>3, <1>4 DEF r

\* Receiving from a channel.
LEMMA Received ==
  ASSUME NEW T, NEW q \in Seq(T), q # <<>>, Distinct(q)
  PROVE  /\ Head(q) \in Elements(q) /\ Head(q) \in T
         /\ Tail(q) \in Seq(T) /\ Len(Tail(q)) < Len(q)
         /\ Elements(Tail(q)) = Elements(q) \ {Head(q)}
         /\ Distinct(Tail(q))
<1> DEFINE r == Tail(q)
<1>1. /\ r \in Seq(T) /\ Len(q) \in Nat /\ Len(q) > 0 /\ Len(r) = Len(q) - 1
      /\ DOMAIN q = 1..Len(q) /\ DOMAIN r = 1..Len(q) - 1
  OBVIOUS
<1>2. (\A i \in DOMAIN r : r[i] = q[i + 1]) /\ Head(q) = q[1]
  OBVIOUS
<1> HIDE DEF r
<1>3. 1 \in DOMAIN q /\ Head(q) \in T
  BY <1>1, <1>2
<1>4. \A i \in DOMAIN r : i + 1 \in DOMAIN q /\ i + 1 # 1
  BY <1>1
<1>5. \A i \in DOMAIN q : i # 1 => i - 1 \in DOMAIN r /\ (i - 1) + 1 = i
  BY <1>1
<1>6. Elements(r) = Elements(q) \ {Head(q)}
  <2>1. ASSUME NEW i \in DOMAIN r PROVE r[i] \in Elements(q) \ {Head(q)}
    BY <1>2, <1>3, <1>4 DEF Elements, Distinct
  <2>2. ASSUME NEW i \in DOMAIN q, q[i] # Head(q) PROVE q[i] \in Elements(r)
    <3>1. i - 1 \in DOMAIN r /\ r[i - 1] = q[i]
      BY <1>2, <1>5, <2>2
    <3>. QED
      BY <3>1 DEF Elements
  <2>. QED
    BY <2>1, <2>2 DEF Elements
<1>7. Distinct(r)
  <2> SUFFICES ASSUME NEW i \in DOMAIN r, NEW j \in DOMAIN r, r[i] = r[j] PROVE i = j
    BY DEF Distinct
  <2>1. i + 1 = j + 1
    BY <1>2, <1>4 DEF Distinct
  <2>. QED
    BY <1>1, <2>1
<1>8. Head(q) \in Elements(q)
  BY <1>2, <1>3 DEF Elements
<1>9. Len(r) < Len(q)
  BY <1>1
<1>. QED
  BY <1>1, <1>3, <1>6, <1>7, <1>8, <1>9 DEF r

------------------------------------------------------------------------------
\* TypeOK but for the counters, which nothing below depends on.
PoolTypes ==
  /\ taskQueue \in Seq(Tasks) /\ Len(taskQueue) <= PoolQueue
  /\ poolStopped \in BOOLEAN
  /\ submission \in [Tasks -> {"new", "checked", "blocked", "counting", "accepted", "rejected"}]
  /\ poolWorker \in [PoolWorkers -> Tasks \cup {Pool!Idle, Pool!Left}]
  /\ finished \in [Tasks -> {"no", "ok", "error", "panic"}]
  /\ stop \in [Stoppers -> {"new", "waiting", "graceful", "timeout", "again"}]

\* The inductive invariant: the types, one place for each task, and what Stop
\* relies on: stopChan is closed before anyone waits, and a worker that left
\* does not come back.
PoolInv ==
  /\ PoolTypes /\ Pool!TaskInOnePlace /\ Pool!GracefulMeansQuiet
  /\ \A s \in Stoppers : stop[s] = "waiting" => poolStopped

\* Nothing was submitted at first.
LEMMA PoolInit ==
  ASSUME Pool!PoolAssumption PROVE Pool!Init => PoolInv
<1> SUFFICES ASSUME Pool!Init PROVE PoolInv
  OBVIOUS
<1>1. PoolTypes
  <2>1. taskQueue \in Seq(Tasks) /\ Len(taskQueue) <= PoolQueue
    BY Pool!PoolAssumption DEF Pool!Init, Pool!PoolAssumption
  <2>2. poolWorker \in [PoolWorkers -> Tasks \cup {Pool!Idle, Pool!Left}]
    BY DEF Pool!Init
  <2>3. /\ submission \in [Tasks -> {"new", "checked", "blocked", "counting", "accepted", "rejected"}]
        /\ finished \in [Tasks -> {"no", "ok", "error", "panic"}]
        /\ stop \in [Stoppers -> {"new", "waiting", "graceful", "timeout", "again"}]
    BY DEF Pool!Init
  <2>4. poolStopped \in BOOLEAN
    BY Zenon DEF Pool!Init
  <2>. QED
    BY <2>1, <2>2, <2>3, <2>4 DEF PoolTypes
<1>2. Pool!Queued = {} /\ Pool!Running = {}
  BY Pool!PoolAssumption DEF Pool!Init, Pool!Queued, Pool!Running, Pool!Idle, Pool!PoolAssumption
<1>3. Pool!TaskInOnePlace
  BY <1>2, Pool!PoolAssumption DEF Pool!Init, Pool!TaskInOnePlace, Pool!Idle, Pool!PoolAssumption
<1>. QED
  BY <1>1, <1>3 DEF Pool!Init, PoolInv, Pool!GracefulMeansQuiet

\* A submission that neither enters the queue nor was in it.
LEMMA Waits ==
  ASSUME PoolInv, NEW t \in Tasks, NEW l \in {"checked", "blocked", "rejected"},
         submission[t] \in {"new", "checked", "blocked"},
         submission' = [submission EXCEPT ![t] = l],
         UNCHANGED <<taskQueue, poolStopped, poolWorker, finished, stop>>
  PROVE  PoolInv'
<1>1. PoolTypes'
  BY DEF PoolInv, PoolTypes
<1>2. Pool!Queued' = Pool!Queued /\ Pool!Running' = Pool!Running
  BY DEF Pool!Queued, Pool!Running
<1>3. \A u \in Tasks :
        (submission'[u] \in {"counting", "accepted"}) <=> (submission[u] \in {"counting", "accepted"})
  BY DEF PoolInv, PoolTypes
<1>4. Pool!TaskInOnePlace'
  BY <1>2, <1>3 DEF PoolInv, Pool!TaskInOnePlace
<1>5. Pool!GracefulMeansQuiet'
  BY <1>2 DEF PoolInv, Pool!GracefulMeansQuiet
<1>. QED
  BY <1>1, <1>4, <1>5 DEF PoolInv

\* A task that was not in the queue enters it.
LEMMA Sent ==
  ASSUME Pool!PoolAssumption, PoolInv, NEW t \in Tasks,
         submission[t] \in {"new", "checked", "blocked"}, Pool!Send(t)
  PROVE  PoolInv'
<1>1. /\ taskQueue' = Append(taskQueue, t) /\ submission' = [submission EXCEPT ![t] = "counting"]
      /\ Len(taskQueue) < PoolQueue /\ UNCHANGED <<poolStopped, poolWorker, finished, stop>>
  BY DEF Pool!Send
<1>2. t \notin Pool!Queued /\ t \notin Pool!Running /\ finished[t] = "no"
  BY DEF PoolInv, Pool!TaskInOnePlace
<1>3. Pool!Queued = Elements(taskQueue) /\ Distinct(taskQueue) /\ taskQueue \in Seq(Tasks)
  BY DEF Pool!Queued, Elements, Distinct, PoolInv, Pool!TaskInOnePlace, PoolTypes
<1>4. /\ taskQueue' \in Seq(Tasks) /\ Len(taskQueue') = Len(taskQueue) + 1
      /\ Elements(taskQueue') = Elements(taskQueue) \cup {t} /\ Distinct(taskQueue')
  BY <1>1, <1>2, <1>3, Appended
<1>5. Pool!Queued' = Pool!Queued \cup {t} /\ Pool!Running' = Pool!Running
  BY <1>1, <1>3, <1>4 DEF Pool!Queued, Elements, Pool!Running
<1>6. PoolTypes'
  <2>1. Len(taskQueue') <= PoolQueue
    BY <1>1, <1>3, <1>4, Pool!PoolAssumption DEF Pool!PoolAssumption
  <2>. QED
    BY <1>1, <1>4, <2>1 DEF PoolInv, PoolTypes
<1>7. \A u \in Tasks :
        (submission'[u] \in {"counting", "accepted"})
          <=> (submission[u] \in {"counting", "accepted"} \/ u = t)
  BY <1>1 DEF PoolInv, PoolTypes
<1>8. Pool!TaskInOnePlace'
  <2>1. \A u \in Tasks :
          (submission'[u] \in {"counting", "accepted"})
            <=> (u \in Pool!Queued' \/ u \in Pool!Running' \/ finished'[u] # "no")
    BY <1>1, <1>5, <1>7 DEF PoolInv, Pool!TaskInOnePlace
  <2>2. Pool!Queued' \cap Pool!Running' = {} /\ \A u \in Pool!Queued' \cup Pool!Running' : finished'[u] = "no"
    BY <1>1, <1>2, <1>5 DEF PoolInv, Pool!TaskInOnePlace
  <2>3. \A v, w \in PoolWorkers : poolWorker'[v] = poolWorker'[w] /\ poolWorker'[v] \in Tasks => v = w
    BY <1>1 DEF PoolInv, Pool!TaskInOnePlace
  <2>. QED
    BY <1>4, <2>1, <2>2, <2>3 DEF Pool!TaskInOnePlace, Distinct
<1>9. Pool!GracefulMeansQuiet'
  BY <1>1, <1>5 DEF PoolInv, Pool!GracefulMeansQuiet
<1>. QED
  BY <1>1, <1>6, <1>8, <1>9 DEF PoolInv

\* A submission that returns is counted.
LEMMA CountKeeps == ASSUME PoolInv, NEW t \in Tasks, Pool!Count(t) PROVE PoolInv'
<1>1. /\ submission[t] = "counting" /\ submission' = [submission EXCEPT ![t] = "accepted"]
      /\ UNCHANGED <<taskQueue, poolStopped, poolWorker, finished, stop>>
  BY DEF Pool!Count
<1>2. PoolTypes'
  BY <1>1 DEF PoolInv, PoolTypes
<1>3. Pool!Queued' = Pool!Queued /\ Pool!Running' = Pool!Running
  BY <1>1 DEF Pool!Queued, Pool!Running
<1>4. \A u \in Tasks :
        (submission'[u] \in {"counting", "accepted"}) <=> (submission[u] \in {"counting", "accepted"})
  BY <1>1 DEF PoolInv, PoolTypes
<1>5. Pool!TaskInOnePlace'
  BY <1>1, <1>3, <1>4 DEF PoolInv, Pool!TaskInOnePlace
<1>6. Pool!GracefulMeansQuiet'
  BY <1>1, <1>3 DEF PoolInv, Pool!GracefulMeansQuiet
<1>. QED
  BY <1>1, <1>2, <1>5, <1>6 DEF PoolInv

\* A worker takes the head of the queue.
LEMMA TakeKeeps == ASSUME Pool!PoolAssumption, PoolInv, NEW w \in PoolWorkers, Pool!Take(w) PROVE PoolInv'
<1> DEFINE t == Head(taskQueue)
<1>1. /\ poolWorker[w] = Pool!Idle /\ taskQueue # <<>>
      /\ poolWorker' = [poolWorker EXCEPT ![w] = t] /\ taskQueue' = Tail(taskQueue)
      /\ UNCHANGED <<poolStopped, submission, finished, stop>>
  BY DEF Pool!Take
<1>2. Pool!Queued = Elements(taskQueue) /\ Distinct(taskQueue) /\ taskQueue \in Seq(Tasks)
  BY DEF Pool!Queued, Elements, Distinct, PoolInv, Pool!TaskInOnePlace, PoolTypes
<1>3. /\ t \in Pool!Queued /\ t \in Tasks
      /\ taskQueue' \in Seq(Tasks) /\ Len(taskQueue') < Len(taskQueue)
      /\ Elements(taskQueue') = Pool!Queued \ {t} /\ Distinct(taskQueue')
  BY <1>1, <1>2, Received
<1> HIDE DEF t
<1>4. Pool!Idle \notin Tasks /\ Pool!Left \notin Tasks /\ Pool!Idle # Pool!Left
  BY Pool!PoolAssumption DEF Pool!Idle, Pool!Left, Pool!PoolAssumption
<1>5. Pool!Queued' = Pool!Queued \ {t}
  BY <1>3, Zenon DEF Pool!Queued, Elements
<1>6. poolWorker'[w] = t /\ \A v \in PoolWorkers : v # w => poolWorker'[v] = poolWorker[v]
  BY <1>1 DEF PoolInv, PoolTypes
<1>7. Pool!Running' = Pool!Running \cup {t}
  BY <1>1, <1>3, <1>4, <1>6 DEF Pool!Running
<1>8. PoolTypes'
  <2>1. Len(taskQueue') <= PoolQueue
    BY <1>2, <1>3, Pool!PoolAssumption DEF PoolInv, PoolTypes, Pool!PoolAssumption
  <2>. QED
    BY <1>1, <1>3, <2>1 DEF PoolInv, PoolTypes
<1>9. Pool!TaskInOnePlace'
  <2>1. \A u \in Tasks :
          (submission'[u] \in {"counting", "accepted"})
            <=> (u \in Pool!Queued' \/ u \in Pool!Running' \/ finished'[u] # "no")
    BY <1>1, <1>3, <1>5, <1>7 DEF PoolInv, Pool!TaskInOnePlace
  <2>2. Pool!Queued' \cap Pool!Running' = {} /\ \A u \in Pool!Queued' \cup Pool!Running' : finished'[u] = "no"
    BY <1>1, <1>3, <1>5, <1>7 DEF PoolInv, Pool!TaskInOnePlace
  <2>3. t \notin Pool!Running
    BY <1>3 DEF PoolInv, Pool!TaskInOnePlace
  <2>4. \A v \in PoolWorkers : poolWorker[v] # t
    BY <1>3, <2>3 DEF Pool!Running
  <2>5. \A v, x \in PoolWorkers : poolWorker'[v] = poolWorker'[x] /\ poolWorker'[v] \in Tasks => v = x
    BY <1>6, <2>4 DEF PoolInv, Pool!TaskInOnePlace
  <2>. QED
    BY <1>3, <2>1, <2>2, <2>5 DEF Pool!TaskInOnePlace, Distinct
<1>10. Pool!GracefulMeansQuiet'
  <2>1. ~(\E s \in Stoppers : stop[s] = "graceful")
    BY <1>1, <1>4 DEF PoolInv, Pool!GracefulMeansQuiet
  <2>. QED
    BY <1>1, <2>1 DEF Pool!GracefulMeansQuiet
<1>. QED
  BY <1>1, <1>8, <1>9, <1>10 DEF PoolInv

\* A worker leaves once the pool is stopped.
LEMMA LeaveKeeps == ASSUME Pool!PoolAssumption, PoolInv, NEW w \in PoolWorkers, Pool!Leave(w) PROVE PoolInv'
<1>1. /\ poolWorker[w] = Pool!Idle /\ poolWorker' = [poolWorker EXCEPT ![w] = Pool!Left]
      /\ UNCHANGED <<taskQueue, poolStopped, submission, finished, stop>>
  BY DEF Pool!Leave
<1>2. Pool!Idle \notin Tasks /\ Pool!Left \notin Tasks /\ Pool!Idle # Pool!Left
  BY Pool!PoolAssumption DEF Pool!Idle, Pool!Left, Pool!PoolAssumption
<1>3. PoolTypes'
  BY <1>1 DEF PoolInv, PoolTypes
<1>4. poolWorker'[w] = Pool!Left /\ \A v \in PoolWorkers : v # w => poolWorker'[v] = poolWorker[v]
  BY <1>1 DEF PoolInv, PoolTypes
<1>5. Pool!Queued' = Pool!Queued
  BY <1>1 DEF Pool!Queued
<1>6. Pool!Running' = Pool!Running
  BY <1>1, <1>2, <1>4 DEF Pool!Running
<1>7. Pool!TaskInOnePlace'
  <2>1. \A v, x \in PoolWorkers : poolWorker'[v] = poolWorker'[x] /\ poolWorker'[v] \in Tasks => v = x
    BY <1>2, <1>4 DEF PoolInv, Pool!TaskInOnePlace
  <2>. QED
    BY <1>1, <1>5, <1>6, <2>1 DEF PoolInv, Pool!TaskInOnePlace
<1>8. Pool!GracefulMeansQuiet'
  BY <1>1, <1>4, <1>6 DEF PoolInv, Pool!GracefulMeansQuiet
<1>. QED
  BY <1>1, <1>3, <1>7, <1>8 DEF PoolInv

\* A task ends, with whatever result.
LEMMA FinishKeeps ==
  ASSUME Pool!PoolAssumption, PoolInv, NEW w \in PoolWorkers,
         NEW how \in {"ok", "error", "panic"}, Pool!Finish(w, how)
  PROVE  PoolInv'
<1> DEFINE t == poolWorker[w]
<1>1. /\ t \in Tasks /\ finished' = [finished EXCEPT ![t] = how]
      /\ poolWorker' = [poolWorker EXCEPT ![w] = Pool!Idle]
      /\ UNCHANGED <<taskQueue, poolStopped, submission, stop>>
  BY DEF Pool!Finish
<1>2. Pool!Idle \notin Tasks /\ Pool!Left \notin Tasks /\ Pool!Idle # Pool!Left
  BY Pool!PoolAssumption DEF Pool!Idle, Pool!Left, Pool!PoolAssumption
<1>3. PoolTypes'
  BY <1>1 DEF PoolInv, PoolTypes
<1>4. poolWorker'[w] = Pool!Idle /\ \A v \in PoolWorkers : v # w => poolWorker'[v] = poolWorker[v]
  BY <1>1 DEF PoolInv, PoolTypes
<1>5. finished'[t] = how /\ \A u \in Tasks : u # t => finished'[u] = finished[u]
  BY <1>1 DEF PoolInv, PoolTypes
<1>6. Pool!Queued' = Pool!Queued /\ t \in Pool!Running
  BY <1>1 DEF Pool!Queued, Pool!Running
<1>7. \A v \in PoolWorkers : v # w => poolWorker[v] # t
  BY <1>1 DEF PoolInv, Pool!TaskInOnePlace
<1>8. Pool!Running' = Pool!Running \ {t}
  BY <1>1, <1>2, <1>4, <1>7 DEF Pool!Running
<1>9. Pool!TaskInOnePlace'
  <2>1. t \notin Pool!Queued /\ Pool!Queued \subseteq Tasks
    <3>1. t \notin Pool!Queued
      BY <1>6, Zenon DEF PoolInv, Pool!TaskInOnePlace
    <3>2. Pool!Queued \subseteq Tasks
      BY DEF PoolInv, PoolTypes, Pool!Queued
    <3> QED
      BY <3>1, <3>2, Zenon
  <2>2. \A u \in Tasks :
          (submission'[u] \in {"counting", "accepted"})
            <=> (u \in Pool!Queued' \/ u \in Pool!Running' \/ finished'[u] # "no")
    BY <1>1, <1>5, <1>6, <1>8 DEF PoolInv, Pool!TaskInOnePlace
  <2>3. Pool!Queued' \cap Pool!Running' = {}
    BY <1>6, <1>8, Zenon DEF PoolInv, Pool!TaskInOnePlace
  <2>4. \A u \in Pool!Queued' \cup Pool!Running' : finished'[u] = "no"
    BY <1>5, <1>6, <1>8, <2>1, Zenon DEF PoolInv, Pool!TaskInOnePlace, Pool!Running
  <2>5. \A v, x \in PoolWorkers : poolWorker'[v] = poolWorker'[x] /\ poolWorker'[v] \in Tasks => v = x
    BY <1>2, <1>4 DEF PoolInv, Pool!TaskInOnePlace
  <2>. QED
    BY <1>1, <2>2, <2>3, <2>4, <2>5 DEF PoolInv, Pool!TaskInOnePlace
<1>10. Pool!GracefulMeansQuiet'
  <2>1. ~(\E s \in Stoppers : stop[s] = "graceful")
    BY <1>1, <1>2 DEF PoolInv, Pool!GracefulMeansQuiet
  <2>. QED
    BY <1>1, <2>1 DEF Pool!GracefulMeansQuiet
<1>. QED
  BY <1>1, <1>3, <1>9, <1>10 DEF PoolInv

\* The steps of Stop leave the queue, the tasks and the workers alone.
LEMMA StopKeeps ==
  ASSUME Pool!PoolAssumption, PoolInv, NEW s \in Stoppers,
         Pool!StopFirst(s) \/ Pool!StopGraceful(s) \/ Pool!StopTimeout(s) \/ Pool!StopAgain(s)
  PROVE  PoolInv'
<1>1. UNCHANGED <<taskQueue, submission, poolWorker, finished>>
  BY DEF Pool!StopFirst, Pool!StopGraceful, Pool!StopTimeout, Pool!StopAgain, Pool!StopReturn
<1>2. Pool!Queued' = Pool!Queued /\ Pool!Running' = Pool!Running
  BY <1>1 DEF Pool!Queued, Pool!Running
<1>3. Pool!TaskInOnePlace'
  BY <1>1, <1>2, Zenon DEF PoolInv, Pool!TaskInOnePlace
<1>4. CASE Pool!StopFirst(s)
  <2>1. poolStopped' = TRUE /\ stop' = [stop EXCEPT ![s] = "waiting"]
    BY <1>4 DEF Pool!StopFirst
  <2>2. PoolTypes'
    BY <1>1, <2>1 DEF PoolInv, PoolTypes
  <2>3. \A x \in Stoppers : stop'[x] = "graceful" => stop[x] = "graceful"
    BY <2>1 DEF PoolInv, PoolTypes
  <2>4. Pool!GracefulMeansQuiet'
    BY <1>1, <1>2, <2>1, <2>3 DEF PoolInv, Pool!GracefulMeansQuiet
  <2>. QED
    BY <1>3, <2>1, <2>2, <2>4 DEF PoolInv
<1>5. CASE Pool!StopGraceful(s)
  <2>1. /\ stop[s] = "waiting" /\ \A w \in PoolWorkers : poolWorker[w] = Pool!Left
        /\ stop' = [stop EXCEPT ![s] = "graceful"] /\ poolStopped' = poolStopped
    BY <1>5 DEF Pool!StopGraceful, Pool!StopReturn
  <2>2. PoolTypes'
    BY <1>1, <2>1 DEF PoolInv, PoolTypes
  <2>3. poolStopped /\ Pool!Running = {}
    BY <2>1, Pool!PoolAssumption DEF PoolInv, Pool!Running, Pool!Left, Pool!PoolAssumption
  <2>4. Pool!GracefulMeansQuiet'
    BY <1>1, <1>2, <2>1, <2>3 DEF Pool!GracefulMeansQuiet
  <2>. QED
    BY <1>3, <2>1, <2>2, <2>3, <2>4 DEF PoolInv
<1>6. ASSUME NEW r \in {"timeout", "again"}, Pool!StopReturn(s, r) PROVE PoolInv'
  <2>1. stop' = [stop EXCEPT ![s] = r] /\ poolStopped' = poolStopped
    BY <1>6 DEF Pool!StopReturn
  <2>2. PoolTypes'
    BY <1>1, <2>1 DEF PoolInv, PoolTypes
  <2>3. \A x \in Stoppers : stop'[x] \in {"graceful", "waiting"} => stop'[x] = stop[x]
    BY <2>1 DEF PoolInv, PoolTypes
  <2>4. Pool!GracefulMeansQuiet'
    BY <1>1, <1>2, <2>1, <2>3 DEF PoolInv, Pool!GracefulMeansQuiet
  <2>. QED
    BY <1>3, <2>1, <2>2, <2>3, <2>4 DEF PoolInv
<1>. QED
  BY <1>4, <1>5, <1>6 DEF Pool!StopTimeout, Pool!StopAgain

\* Every step keeps the invariant.
LEMMA PoolStep ==
  ASSUME Pool!PoolAssumption PROVE PoolInv /\ [Pool!Next]_(Pool!vars) => PoolInv'
<1> SUFFICES ASSUME PoolInv, [Pool!Next]_(Pool!vars) PROVE PoolInv'
  OBVIOUS
<1>1. ASSUME NEW t \in Tasks, submission[t] \in {"new", "checked", "blocked"}, Pool!Refuse(t)
      PROVE  PoolInv'
  BY <1>1, Waits, Zenon DEF Pool!Refuse
<1>2. ASSUME NEW t \in Tasks,
             Pool!SubmitCheck(t) \/ Pool!SubmitEnqueue(t) \/ Pool!SubmitWithContext(t)
               \/ Pool!SubmitBlocked(t) \/ Pool!ContextDone(t) \/ Pool!TrySubmit(t)
      PROVE  PoolInv'
  <2>1. CASE Pool!SubmitCheck(t)
    BY <1>1, <2>1, Waits DEF Pool!SubmitCheck
  <2>2. CASE Pool!SubmitEnqueue(t)
    BY <1>1, <2>2, Sent DEF Pool!SubmitEnqueue
  <2>3. CASE Pool!SubmitWithContext(t)
    BY <2>3, Waits, Zenon DEF Pool!SubmitWithContext
  <2>4. CASE Pool!SubmitBlocked(t)
    BY <1>1, <2>4, Sent DEF Pool!SubmitBlocked
  <2>5. CASE Pool!ContextDone(t)
    BY <1>1, <2>5 DEF Pool!ContextDone
  <2>6. CASE Pool!TrySubmit(t)
    BY <1>1, <2>6, Sent DEF Pool!TrySubmit
  <2>. QED
    BY <1>2, <2>1, <2>2, <2>3, <2>4, <2>5, <2>6
<1>3. CASE UNCHANGED Pool!vars
  <2>1. Pool!Queued' = Pool!Queued /\ Pool!Running' = Pool!Running
    BY <1>3 DEF Pool!vars, Pool!Queued, Pool!Running
  <2>. QED
    BY <1>3, <2>1 DEF Pool!vars, PoolInv, PoolTypes, Pool!TaskInOnePlace, Pool!GracefulMeansQuiet
<1>. QED
  BY <1>2, <1>3, CountKeeps, TakeKeeps, LeaveKeeps, FinishKeeps, StopKeeps DEF Pool!Next

\* TasksAreKept for any number of tasks, workers and calls of Stop, and any capacity of
\* the queue.
THEOREM TasksAlwaysKept == Pool!Spec => []TasksAreKept
<1>1. PoolInv => TasksAreKept
  BY DEF PoolInv, TasksAreKept
<1>2. Pool!Init => PoolInv
  BY ServiceAssumption, PoolInit
<1>3. PoolInv /\ [Pool!Next]_(Pool!vars) => PoolInv'
  BY ServiceAssumption, PoolStep
<1>. QED
  BY <1>1, <1>2, <1>3, PTL DEF Pool!Spec

------------------------------------------------------------------------------
\* The admission of writes by the disk manager.

WriterSteps == {"idle", "stale", "want", "wait", "check", "again", "decide", "write"}

\* lastCheck is when the cached usage was measured, which a failed check leaves alone,
\* and a call that has passed the test of its age, or has checked, may decide on it.
DiskInv ==
  /\ now \in Int /\ cache.at \in Int /\ cache.seen = cache.at /\ cache.seen <= now
  /\ writer \in [Writers -> WriterSteps]
  /\ call \in [Writers -> [at : Int, failed : BOOLEAN]]
  /\ \A p \in Writers :
       /\ call[p].at <= now
       /\ writer[p] \in {"again", "decide"} /\ ~call[p].failed => call[p].at - cache.seen <= Interval

\* The disk manager starts without a measurement or with one.
LEMMA DiskInit == Disk!DiskAssumption /\ Disk!Init => DiskInv
BY DEF Disk!DiskAssumption, Disk!Init, DiskInv, Disk!Zero, WriterSteps

\* Every step of a writer keeps the age of the usage within the interval.
LEMMA DiskStep == ASSUME Disk!DiskAssumption, DiskInv, [Disk!Next]_(Disk!vars) PROVE DiskInv'
<1>0. Interval \in Nat
  BY DEF Disk!DiskAssumption
<1> USE DEF DiskInv, Disk!At, WriterSteps
<1>1. ASSUME NEW p \in Writers, NEW n \in Sizes, Disk!Begin(p, n) PROVE DiskInv'
  BY <1>0, <1>1 DEF Disk!Begin
<1>2. ASSUME NEW p \in Writers, Disk!Upgrade(p) \/ Disk!Announce(p) \/ Disk!Enter(p) PROVE DiskInv'
  BY <1>0, <1>2 DEF Disk!Upgrade, Disk!Announce, Disk!Enter
<1>3. ASSUME NEW p \in Writers, Disk!CheckDiskSpace(p) PROVE DiskInv'
  BY <1>0, <1>3 DEF Disk!CheckDiskSpace, Disk!Measured
<1>4. ASSUME NEW p \in Writers, Disk!CheckFails(p) PROVE DiskInv'
  BY <1>0, <1>4, Zenon DEF Disk!CheckFails
<1>5. ASSUME NEW p \in Writers, Disk!Again(p) PROVE DiskInv'
  BY <1>0, <1>5 DEF Disk!Again
<1>6. ASSUME NEW p \in Writers, Disk!Decide(p) \/ Disk!Write(p) PROVE DiskInv'
  BY <1>0, <1>6 DEF Disk!Decide, Disk!Write
<1>7. CASE Disk!Reclaim
  BY <1>0, <1>7 DEF Disk!Reclaim
<1>8. CASE Disk!Tick
  BY <1>0, <1>8 DEF Disk!Tick
<1>9. CASE UNCHANGED Disk!vars
  BY <1>9 DEF Disk!vars
<1> QED
  BY <1>1, <1>2, <1>3, <1>4, <1>5, <1>6, <1>7, <1>8, <1>9, Zenon DEF Disk!Next, Disk!Step

\* FreshDecisions for any number of writers and any interval: neither the checks of
\* others nor failures make a write be decided on an older usage.
THEOREM DecisionsAreFresh ==
  Disk!Spec => []FreshDecisions
<1>1. Disk!Init => DiskInv
  BY ServiceAssumption, DiskInit
<1>2. DiskInv /\ [Disk!Next]_(Disk!vars) => DiskInv'
  BY ServiceAssumption, DiskStep
<1>3. DiskInv => FreshDecisions
  BY DEF DiskInv, FreshDecisions, Disk!FreshDecisions
<1> QED
  BY <1>1, <1>2, <1>3, PTL DEF Disk!Spec

------------------------------------------------------------------------------
\* The probes of a storage node.

Holds(p) == IF goroutine[p] \in {"read", "release"} THEN 1 ELSE IF goroutine[p] = "status" THEN 2 ELSE 0
\* The lock: who waits for it or is in, and how often each handler holds it.
LockInv ==
  /\ probeLock \in [r : [Goroutines -> Int], w : Goroutines \cup {Nobody}, in : BOOLEAN]
  /\ goroutine \in [Goroutines -> {"idle", "lock", "in", "done", "read", "status", "release"}]
  /\ \A p \in Goroutines : probeLock.r[p] = Holds(p)
  /\ \A p \in Goroutines : goroutine[p] \in {"lock", "in"} => probeLock.w = p
  /\ \A p \in Goroutines : goroutine[p] = "in" => \A q \in Goroutines : Holds(q) = 0
\* The readiness and the status agree, and a handler between its two locks has the readiness.
Agree(r, s, up) == (~r => s = "unhealthy") /\ (r /\ s = "unhealthy" => up)
HealthInv ==
  /\ LockInv /\ saw \in [Probers -> BOOLEAN] /\ ready \in BOOLEAN
  /\ Agree(ready, status, listening)
  /\ \A p \in Probers : goroutine[p] = "read" => saw[p] = ready
  /\ \A a \in answers : Agree(a.ready, a.status, a.up)

\* No check has been made at first, and the lock is free.
LEMMA HealthInit == Health!HealthAssumption /\ Health!Init => HealthInv
BY DEF Health!HealthAssumption, Health!Init, HealthInv, LockInv, Agree, Holds, Health!Unlocked

\* What the steps of the lock do to the goroutines.
LEMMA LockStep ==
  ASSUME Health!HealthAssumption, Health!RWMutexAssumption, LockInv, [Health!Next]_(Health!vars)
  PROVE  LockInv'
<1> USE DEF LockInv, Holds, Health!At
<1>0. /\ Goroutines = Probers \cup {"checker", "main"} /\ {"checker", "main"} \cap Probers = {}
      /\ Nobody \notin Goroutines
  BY DEF Health!HealthAssumption, Health!Checker, Health!Main, Health!RWMutexAssumption
<1>1. ASSUME NEW p \in Goroutines, Health!Lock(p) PROVE LockInv'
  BY <1>0, <1>1 DEF Health!Lock, Health!CanAnnounce, Health!Announced
<1>2. ASSUME NEW p \in Goroutines, Health!Enter(p) PROVE LockInv'
  <2>1. /\ goroutine[p] = "lock" /\ goroutine' = [goroutine EXCEPT ![p] = "in"] /\ probeLock.w = p
        /\ \A q \in Goroutines : probeLock.r[q] = 0
        /\ probeLock' = [probeLock EXCEPT !.in = TRUE]
    BY <1>2 DEF Health!Enter, Health!CanEnter, Health!Entered
  <2>2. \A q \in Goroutines : Holds(q) = 0 /\ Holds(q)' = 0
    BY <2>1
  <2> QED
    BY <2>1, <2>2, Zenon
<1>3. ASSUME NEW p \in Goroutines, goroutine[p] = "in", NEW l \in {"idle", "done"},
             goroutine' = [goroutine EXCEPT ![p] = l], probeLock' = Health!WUnlocked(probeLock)
      PROVE  LockInv'
  BY <1>0, <1>3, Zenon DEF Health!WUnlocked
<1>4. ASSUME NEW p \in Probers, Health!ReadReadiness(p) PROVE LockInv'
  BY <1>0, <1>4 DEF Health!ReadReadiness, Health!CanRLock, Health!RLocked
<1>5. ASSUME NEW p \in Probers, Health!GetStatus(p) PROVE LockInv'
  BY <1>0, <1>5 DEF Health!GetStatus, Health!CanRLock, Health!RLocked
<1>6. ASSUME NEW p \in Probers, Health!Answer(p) PROVE LockInv'
  BY <1>0, <1>6 DEF Health!Answer, Health!RUnlocked
<1>7. ASSUME NEW p \in Probers, Health!Release(p) PROVE LockInv'
  BY <1>0, <1>7 DEF Health!Release, Health!RUnlocked
<1>8. CASE UNCHANGED Health!vars
  BY <1>8 DEF Health!vars
<1>9. ASSUME NEW m, Health!RunHealthChecks(m) PROVE LockInv'
  BY <1>0, <1>3, <1>9, Zenon DEF Health!RunHealthChecks, Health!Checker
<1>10. CASE Health!SetReadiness
  BY <1>0, <1>3, <1>10, Zenon DEF Health!SetReadiness, Health!Main
<1> QED
  BY <1>0, <1>1, <1>2, <1>4, <1>5, <1>6, <1>7, <1>8, <1>9, <1>10, Zenon
     DEF Health!Next, Health!Check, Health!Startup, Health!Probe, Health!Checker, Health!Main

\* The readiness and the status change only under the lock, which no handler then holds.
LEMMA HealthStep ==
  ASSUME Health!HealthAssumption, Health!RWMutexAssumption, HealthInv, [Health!Next]_(Health!vars)
  PROVE  HealthInv'
<1>0. /\ Goroutines = Probers \cup {"checker", "main"} /\ {"checker", "main"} \cap Probers = {}
  BY DEF Health!HealthAssumption, Health!Checker, Health!Main
<1>1. LockInv /\ LockInv'
  BY LockStep DEF HealthInv
<1>2. \A p \in Goroutines : goroutine[p] = "in" => \A q \in Probers : goroutine[q] # "read"
  BY <1>0, <1>1 DEF LockInv, Holds
<1>3. goroutine \in [Goroutines -> {"idle", "lock", "in", "done", "read", "status", "release"}]
  BY <1>1 DEF LockInv
<1> DEFINE Rest == /\ saw \in [Probers -> BOOLEAN] /\ ready \in BOOLEAN
                   /\ Agree(ready, status, listening)
                   /\ \A p \in Probers : goroutine[p] = "read" => saw[p] = ready
                   /\ \A a \in answers : Agree(a.ready, a.status, a.up)
<1>4. Rest
  BY DEF HealthInv
<1> SUFFICES Rest'
  BY <1>1 DEF HealthInv
<1>5. ASSUME NEW p \in Goroutines, Health!Lock(p) \/ Health!Enter(p) PROVE Rest'
  BY <1>0, <1>3, <1>4, <1>5 DEF Health!Lock, Health!Enter, Health!At
<1>6. ASSUME NEW m, Health!RunHealthChecks(m) PROVE Rest'
  <2>1. Agree(ready', status', listening') /\ ready' \in BOOLEAN
    BY <1>6, InIsBoolean, Zenon DEF Health!RunHealthChecks, Agree
  <2>2. goroutine["checker"] = "in" /\ goroutine' = [goroutine EXCEPT !["checker"] = "idle"]
        /\ UNCHANGED <<saw, answers>>
    BY <1>6 DEF Health!RunHealthChecks, Health!At, Health!Checker
  <2> QED
    BY <1>0, <1>2, <1>3, <1>4, <2>1, <2>2
<1>7. ASSUME Health!SetReadiness PROVE Rest'
  <2>1. goroutine["main"] = "in" /\ goroutine' = [goroutine EXCEPT !["main"] = "done"]
    BY <1>7 DEF Health!SetReadiness, Health!At, Health!Main
  <2> QED
    BY <1>0, <1>2, <1>3, <1>4, <1>7, <2>1, Zenon DEF Health!SetReadiness, Agree
<1>8. ASSUME NEW p \in Probers, Health!ReadReadiness(p) PROVE Rest'
  BY <1>0, <1>3, <1>4, <1>8 DEF Health!ReadReadiness, Health!At
<1>9. ASSUME NEW p \in Probers, Health!GetStatus(p) PROVE Rest'
  <2>1. /\ goroutine[p] = "read" /\ goroutine' = [goroutine EXCEPT ![p] = "status"]
        /\ UNCHANGED <<status, ready, listening, saw>>
        /\ answers' = answers \cup {[ready |-> saw[p], status |-> status, up |-> listening]}
    BY <1>9, Zenon DEF Health!GetStatus, Health!At
  <2>2. Agree(saw[p], status, listening)
    BY <1>4, <2>1
  <2>3. \A a \in answers' : Agree(a.ready, a.status, a.up)
    BY <1>4, <2>1, <2>2
  <2>4. \A q \in Probers : goroutine'[q] = "read" => saw'[q] = ready'
    BY <1>0, <1>3, <1>4, <2>1
  <2> QED
    BY <1>4, <2>1, <2>3, <2>4
<1>10. ASSUME NEW p \in Probers, Health!Answer(p) \/ Health!Release(p) PROVE Rest'
  BY <1>0, <1>3, <1>4, <1>10 DEF Health!Answer, Health!Release, Health!At
<1>11. ASSUME UNCHANGED Health!vars PROVE Rest'
  BY <1>4, <1>11 DEF Health!vars
<1> QED
  BY <1>0, <1>5, <1>6, <1>7, <1>8, <1>9, <1>10, <1>11
     DEF Health!Next, Health!Check, Health!Startup, Health!Probe, Health!Checker, Health!Main

\* AnswersAreOfOneCheck for any number of probes at once: the lock that a handler keeps
\* between the readiness and the status keeps the checks out.
THEOREM ProbesSeeOneCheck ==
  Health!Spec => []AnswersAreOfOneCheck
<1>1. Health!Init => HealthInv
  BY ServiceAssumption, HealthInit
<1>2. HealthInv /\ [Health!Next]_(Health!vars) => HealthInv'
  BY ServiceAssumption, HealthStep
<1>3. HealthInv => AnswersAreOfOneCheck
  BY DEF HealthInv, Agree, AnswersAreOfOneCheck, Health!AnswersAreOfOneCheck
<1> QED
  BY <1>1, <1>2, <1>3, PTL DEF Health!Spec
==============================================================================
