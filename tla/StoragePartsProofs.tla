------------------------- MODULE StoragePartsProofs --------------------------
(***************************************************************************)
(* Theorems about the parts that keep writes, for any number of readers,   *)
(* segments, calls, hints, goroutines and retries.  Each part has an       *)
(* inductive invariant of its own.                                         *)
(***************************************************************************)
EXTENDS StorageParts, FiniteSetTheorems, TLAPS

\* A set of naturals that is not empty has a least element.
LEMMA LeastOf ==
  ASSUME NEW T, T \subseteq Nat, T # {}
  PROVE  \E i \in T : \A j \in T : i <= j
<1> DEFINE R == OpToRel(<, Nat)
<1>1. IsWellFoundedOn(R, Nat)
  BY NatLessThanWellFounded, Zenon
<1>2. \A i, j \in Nat : j < i => <<j, i>> \in R
  BY DEF OpToRel
<1> HIDE DEF R
<1>3. \E i \in T : \A j \in T : ~(<<j, i>> \in R)
  BY <1>1, WFMin, Zenon
<1>4. PICK i \in T : \A j \in T : ~(<<j, i>> \in R)
  BY <1>3
<1>5. ASSUME NEW j \in T PROVE i <= j
  <2>1. i \in Nat /\ j \in Nat /\ ~(j < i)
    BY <1>2, <1>4, Zenon
  <2> QED
    BY <2>1
<1> QED
  BY <1>5

\* What follows the first of two sequences is the second.
LEMMA SecondPart ==
  ASSUME NEW S, NEW x \in Seq(S), NEW y \in Seq(S), NEW i \in 1..Len(x) + Len(y), i > Len(x)
  PROVE  i - Len(x) \in 1..Len(y) /\ (x \o y)[i] = y[i - Len(x)]
OBVIOUS

------------------------------------------------------------------------------
\* The end of a storage node's process.

ExitSteps == {"serving", "flush", "flushing", "stopping", "closing", "exited"}

CallType == [write : Nat, pc : {"idle", "append", "put", "answer"}]

\* The log is closed by the last step only, and from the one before it on no call
\* runs: the end of GracefulStop, which both depend on.
Drained ==
  /\ main \in ExitSteps
  /\ rpc \in [Clients -> CallType]
  /\ main # "exited" => logOpen
  /\ main \in {"closing", "exited"} => \A c \in Clients : rpc[c] = Exit!NoCall
  /\ refused = {}

\* A node starts with its log open and no call running.
LEMMA DrainedInit == Exit!Init => Drained
  BY DEF Exit!Init, Drained, ExitSteps, CallType, Exit!NoCall

\* No step of main or of a call breaks this.
LEMMA DrainedStep == Drained /\ [Exit!Next]_(Exit!vars) => Drained'
<1> SUFFICES ASSUME Drained, [Exit!Next]_(Exit!vars) PROVE Drained'
  OBVIOUS
<1> USE DEF Drained, ExitSteps, CallType, Exit!NoCall
<1>1. ASSUME NEW c \in Clients, NEW w \in 1..MaxCalls, Exit!Call(c, w) PROVE Drained'
  BY <1>1 DEF Exit!Call, Exit!Accepting
<1>2. ASSUME NEW c \in Clients, Exit!AppendLog(c) PROVE Drained'
  <2>1. rpc[c].pc = "append" /\ rpc[c] # Exit!NoCall
    BY <1>2 DEF Exit!AppendLog
  <2>2. logOpen /\ main \notin {"closing", "exited"}
    BY <2>1
  <2>3. rpc' = [rpc EXCEPT ![c].pc = "put"]
    BY <1>2, <2>2 DEF Exit!AppendLog
  <2>4. UNCHANGED <<main, logOpen, refused>>
    BY <1>2, <2>2 DEF Exit!AppendLog
  <2>. QED
    BY <2>2, <2>3, <2>4
<1>3. ASSUME NEW c \in Clients, Exit!PutMemTable(c) PROVE Drained'
  BY <1>3 DEF Exit!PutMemTable
<1>4. ASSUME NEW c \in Clients, Exit!Answer(c) PROVE Drained'
  BY <1>4 DEF Exit!Answer
<1>5. CASE Exit!Signal
  BY <1>5 DEF Exit!Signal
<1>6. CASE Exit!FlushBegins
  BY <1>6 DEF Exit!FlushBegins
<1>7. CASE Exit!FlushEnds
  BY <1>7 DEF Exit!FlushEnds
<1>8. CASE Exit!GracefulStop
  BY <1>8 DEF Exit!GracefulStop
<1>9. CASE Exit!Close
  BY <1>9 DEF Exit!Close
<1>10. CASE UNCHANGED Exit!vars
  BY <1>10 DEF Exit!vars
<1>. QED
  BY <1>1, <1>2, <1>3, <1>4, <1>5, <1>6, <1>7, <1>8, <1>9, <1>10 DEF Exit!Next

\* However calls, the flush and the stop of the server interleave, a call that was
\* accepted finds the commit log open, and none is cut off at the end.
THEOREM CallsAlwaysFinish == Exit!Spec => []CallsFinish
<1>1. Drained => CallsFinish
  BY DEF Drained, CallsFinish, Exit!CallsFinish
<1>. QED
  BY DrainedInit, DrainedStep, <1>1, PTL DEF Exit!Spec

------------------------------------------------------------------------------
\* A hit of the cache, copied while an update is under way.

Words == Hits!Words
Copy == [from : Nat, toLoad : SUBSET Words, words : [Words -> Nat]]
HitsInv ==
  /\ entry \in [Words -> Nat] /\ puts \in Nat /\ toStore \in SUBSET Words
  /\ read \in [Readers -> Copy]
  /\ \A w \in Words : entry[w] <= puts /\ (w \notin toStore => entry[w] = puts)
  /\ \A r \in Readers : \A w \in Words :
       /\ read[r].from <= entry[w]
       /\ w \notin read[r].toLoad => read[r].from <= read[r].words[w]

\* Nothing has been put or read at first.
LEMMA HitsInit == Hits!Init => HitsInv
BY DEF Hits!Init, HitsInv, Copy, Words, Hits!NoRead

\* Neither a put nor the steps of a read break this.
LEMMA HitsStep == ASSUME HitsInv, [Hits!Next]_(Hits!vars) PROVE HitsInv'
<1> USE DEF HitsInv, Copy
<1>1. ASSUME NEW r \in Readers, Hits!Get(r) PROVE HitsInv'
  BY <1>1, Zenon DEF Hits!Get, Hits!NoRead, Words
<1>2. ASSUME NEW r \in Readers, Hits!Return(r) PROVE HitsInv'
  BY <1>2 DEF Hits!Return, Hits!NoRead, Words
<1>3. ASSUME NEW r \in Readers, NEW w \in Words, Hits!Load(r, w) PROVE HitsInv'
  BY <1>3, Zenon DEF Hits!Load
<1>4. CASE Hits!Put
  BY <1>4 DEF Hits!Put, Words
<1>5. ASSUME NEW w \in Words, Hits!Store(w) PROVE HitsInv'
  BY <1>5 DEF Hits!Store
<1>6. CASE UNCHANGED Hits!vars
  BY <1>6 DEF Hits!vars
<1> QED
  BY <1>1, <1>2, <1>3, <1>4, <1>5, <1>6 DEF Hits!Next, Words

\* What StorageService.Read copies from a cached entry, word by word and without the
\* lock, is at least as new as the last Put that was complete when Get found the entry.
THEOREM CopiesNeverOlder == Hits!Spec => []NeverOlder
<1>1. HitsInv => NeverOlder
  BY DEF HitsInv, NeverOlder, Hits!NeverOlder, Hits!Loaded, Words, Copy
<1> QED
  BY <1>1, HitsInit, HitsStep, PTL DEF Hits!Spec

------------------------------------------------------------------------------
\* The commit log.

Times == 0..LogTime
Entry == [sequence : 0..MaxAppends, place : Nat]
Lines(t) == logFiles[t].entries

\* Only files that exist have entries, and the one that is appended to exists.
SegmentTypes ==
  /\ logFiles \in [Times -> [exists : BOOLEAN, entries : Seq(Entry)]]
  /\ current \in Times /\ segmentID \in Times /\ logNow \in Times
  /\ sequence \in 0..MaxAppends /\ written \in Nat
  /\ \A t \in Times : Lines(t) # <<>> => logFiles[t].exists
  /\ up # "down" => logFiles[current].exists

\* What Append acknowledged is a line of a file.
AppendedOK == \A p \in appended : \E t \in Times : \E i \in 1..Len(Lines(t)) : Lines(t)[i].place = p

\* There are no files at first.
LEMMA SegmentsInit ==
  ASSUME Segments!CommitLogAssumption, Segments!Init PROVE SegmentTypes /\ AppendedOK
<1>1. LogTime \in Nat /\ MaxAppends \in Nat /\ 0 \in Times
  BY DEF Segments!CommitLogAssumption, Times
<1>2. <<>> \in Seq(Entry)
  OBVIOUS
<1>3. logFiles = [t \in Times |-> [exists |-> FALSE, entries |-> <<>>]]
  BY DEF Segments!Init, Segments!NoFile, Times
<1>4. logFiles \in [Times -> [exists : BOOLEAN, entries : Seq(Entry)]] /\ \A t \in Times : Lines(t) = <<>>
  BY <1>2, <1>3 DEF Lines
<1> QED
  BY <1>1, <1>4 DEF Segments!Init, SegmentTypes, AppendedOK

\* A line that is written goes to the end of the current file.
LEMMA LineAdded ==
  ASSUME Segments!CommitLogAssumption, SegmentTypes, Segments!AppendEntry \/ Segments!SyncFails
  PROVE  /\ SegmentTypes'
         /\ \A t \in Times \ {current} : Lines(t)' = Lines(t)
         /\ Len(Lines(current)') = Len(Lines(current)) + 1
         /\ \A i \in 1..Len(Lines(current)) : Lines(current)'[i] = Lines(current)[i]
         /\ Lines(current)'[Len(Lines(current)) + 1] = [sequence |-> sequence + 1, place |-> written + 1]
         /\ up = "serving" /\ sequence' = sequence + 1 /\ written' = written + 1
         /\ UNCHANGED <<up, current, segmentID, logNow, recovered>>
         /\ appended' \subseteq appended \cup {written + 1}
<1> DEFINE e == [sequence |-> sequence + 1, place |-> written + 1]
           s == Append(Lines(current), e)
           f == [logFiles[current] EXCEPT !.entries = s]
<1>1. /\ logFiles' = [logFiles EXCEPT ![current].entries = s]
      /\ up = "serving" /\ sequence' = sequence + 1 /\ written' = written + 1 /\ sequence < MaxAppends
      /\ UNCHANGED <<up, current, segmentID, logNow, recovered>>
      /\ appended' \subseteq appended \cup {written + 1}
  BY DEF Segments!AppendEntry, Segments!SyncFails, Segments!Line, Lines
<1>2. e \in Entry
  BY <1>1 DEF SegmentTypes, Segments!CommitLogAssumption, Entry
<1>3. Lines(current) \in Seq(Entry)
  BY DEF SegmentTypes, Lines
<1> HIDE DEF e
<1>4. /\ s \in Seq(Entry) /\ Len(s) = Len(Lines(current)) + 1 /\ s[Len(Lines(current)) + 1] = e
      /\ \A i \in 1..Len(Lines(current)) : s[i] = Lines(current)[i]
  BY <1>2, <1>3
<1> HIDE DEF s
<1>5. f \in [exists : BOOLEAN, entries : Seq(Entry)] /\ f.entries = s /\ f.exists = logFiles[current].exists
  BY <1>4 DEF SegmentTypes
<1>6. logFiles' = [logFiles EXCEPT ![current] = f]
  BY <1>1
<1> HIDE DEF f
<1>7. /\ logFiles' \in [Times -> [exists : BOOLEAN, entries : Seq(Entry)]] /\ logFiles'[current] = f
      /\ \A t \in Times \ {current} : logFiles'[t] = logFiles[t]
  BY <1>5, <1>6 DEF SegmentTypes
<1>8. Lines(current)' = s /\ \A t \in Times \ {current} : Lines(t)' = Lines(t)
  BY <1>1, <1>5, <1>7 DEF Lines
<1>9. SegmentTypes'
  <2>1. sequence' \in 0..MaxAppends /\ written' \in Nat
    BY <1>1 DEF SegmentTypes, Segments!CommitLogAssumption
  <2>2. \A t \in Times : Lines(t)' # <<>> => logFiles'[t].exists
    BY <1>1, <1>5, <1>7, <1>8 DEF SegmentTypes
  <2> QED
    BY <1>1, <1>5, <1>7, <2>1, <2>2 DEF SegmentTypes, Lines
<1> QED
  BY <1>1, <1>4, <1>8, <1>9 DEF e

\* Opening a file writes nothing.
LEMMA FileOpened ==
  ASSUME Segments!CommitLogAssumption, SegmentTypes, NEW name \in Times, Segments!Opened(name),
         sequence' \in 0..MaxAppends, UNCHANGED <<written, logNow>>
  PROVE  SegmentTypes' /\ \A t \in Times : Lines(t)' = Lines(t)
<1> DEFINE f == [logFiles[name] EXCEPT !.exists = TRUE]
<1>1. logFiles' = [logFiles EXCEPT ![name] = f] /\ current' = name /\ segmentID' = logNow
  BY DEF Segments!Opened
<1>2. f \in [exists : BOOLEAN, entries : Seq(Entry)] /\ f.entries = logFiles[name].entries /\ f.exists = TRUE
  BY Zenon DEF SegmentTypes
<1> HIDE DEF f
<1>3. /\ logFiles' \in [Times -> [exists : BOOLEAN, entries : Seq(Entry)]] /\ logFiles'[name] = f
      /\ \A t \in Times \ {name} : logFiles'[t] = logFiles[t]
  BY <1>1, <1>2 DEF SegmentTypes
<1>4. \A t \in Times : Lines(t)' = Lines(t)
  BY <1>2, <1>3 DEF Lines
<1>5. \A t \in Times : Lines(t)' # <<>> => logFiles'[t].exists
  BY <1>2, <1>3, <1>4, Zenon DEF SegmentTypes
<1> QED
  BY <1>1, <1>2, <1>3, <1>4, <1>5 DEF SegmentTypes, Lines

\* A set of naturals that is not empty and has a bound has a greatest element.
LEMMA GreatestOf ==
  ASSUME NEW n \in Nat, NEW S, S \subseteq 0..n, S # {}
  PROVE  LET m == Segments!Max(S) IN m \in S /\ \A x \in S : x <= m
<1> DEFINE T == {u \in Nat : \A x \in S : x <= u}
<1>1. T \subseteq Nat /\ T # {}
  <2>1. n \in T
    OBVIOUS
  <2> QED
    BY <2>1
<1>2. PICK u \in T : \A v \in T : u <= v
  BY <1>1, LeastOf, Zenon
<1>3. u \in S
  <2>1. SUFFICES ASSUME u \notin S PROVE FALSE
    OBVIOUS
  <2>2. PICK x : x \in S
    OBVIOUS
  <2>3. x \in Nat /\ u \in Nat /\ x <= u /\ x # u
    BY <2>1, <2>2
  <2>4. \A y \in S : y \in Nat /\ y <= u /\ y # u
    BY <2>1
  <2>5. u - 1 \in T
    BY <2>3, <2>4
  <2> QED
    BY <1>2, <2>3, <2>5
<1>4. \A x \in S : u >= x
  BY <1>2
<1>5. Segments!Max(S) \in S /\ \A x \in S : Segments!Max(S) >= x
  BY <1>3, <1>4, Zenon DEF Segments!Max
<1> QED
  BY <1>5

\* The sequence number that Recover goes on from is a number of one of the entries it
\* read or zero, and none of them has a higher one.
LEMMA HighestSequence ==
  ASSUME Segments!CommitLogAssumption, SegmentTypes, NEW names, names \subseteq Times
  PROVE  LET m == Segments!MaxSequence(Segments!EntriesOf(names))
         IN  /\ m \in 0..MaxAppends
             /\ \A t \in names : \A i \in 1..Len(Lines(t)) : Lines(t)[i].sequence <= m
<1> DEFINE S == {0} \cup {e.sequence : e \in Segments!EntriesOf(names)}
<1>1. \A t \in names : Lines(t) \in Seq(Entry)
  BY DEF SegmentTypes, Lines
<1>2. \A t \in names : \A i \in 1..Len(Lines(t)) :
        Lines(t)[i] \in Segments!EntriesOf(names) /\ Lines(t)[i] \in Entry
  BY <1>1 DEF Segments!EntriesOf, Segments!Range, Lines
<1>3. \A e \in Segments!EntriesOf(names) : e \in Entry
  BY <1>1 DEF Segments!EntriesOf, Segments!Range, Lines
<1>4. S \subseteq 0..MaxAppends /\ S # {}
  BY <1>3 DEF Entry, Segments!CommitLogAssumption
<1>5. MaxAppends \in Nat
  BY DEF Segments!CommitLogAssumption
<1>6. \A t \in names : \A i \in 1..Len(Lines(t)) : Lines(t)[i].sequence \in S
  BY <1>2
<1>7. Segments!Max(S) = Segments!MaxSequence(Segments!EntriesOf(names))
  BY DEF Segments!MaxSequence
<1> HIDE DEF S
<1>8. Segments!Max(S) \in S /\ \A x \in S : x <= Segments!Max(S)
  BY <1>4, <1>5, GreatestOf, Zenon
<1> QED
  BY <1>4, <1>6, <1>7, <1>8, Zenon

\* What each of the other steps does to the files and the counters.
LEMMA OtherSteps ==
  ASSUME Segments!CommitLogAssumption, SegmentTypes,
         \/ Segments!Start \/ \E unread \in Segments!Unread : Segments!Recover(unread)
         \/ Segments!WriteFails \/ Segments!Rotate \/ Segments!RotateFails
         \/ Segments!Stop \/ Segments!Tick \/ UNCHANGED Segments!vars
  PROVE  /\ SegmentTypes' /\ UNCHANGED <<written, appended>>
         /\ \A t \in Times : Lines(t)' = Lines(t)
<1>1. CASE Segments!Start
  <2>1. sequence' \in 0..MaxAppends /\ logNow \in Times
    BY <1>1 DEF Segments!Start, Segments!CommitLogAssumption, SegmentTypes
  <2> QED
    BY <1>1, <2>1, FileOpened DEF Segments!Start
<1>2. CASE Segments!Rotate
  BY <1>2, FileOpened DEF Segments!Rotate, SegmentTypes
<1>3. ASSUME NEW unread \in Segments!Unread, Segments!Recover(unread)
      PROVE  /\ SegmentTypes' /\ UNCHANGED <<written, appended>>
             /\ \A t \in Times : Lines(t)' = Lines(t)
  <2>1. Segments!FileNames \ DOMAIN unread \subseteq Times
    BY DEF Segments!FileNames, Times
  <2>2. sequence' \in 0..MaxAppends
    BY <1>3, <2>1, HighestSequence DEF Segments!Recover
  <2>3. UNCHANGED <<logFiles, current, segmentID, written, appended, logNow>> /\ up # "down"
    BY <1>3 DEF Segments!Recover
  <2> QED
    BY <2>2, <2>3 DEF SegmentTypes, Lines
<1>4. CASE Segments!WriteFails
  <2>1. UNCHANGED <<logFiles, up, current, segmentID, written, appended, logNow>>
    BY <1>4 DEF Segments!WriteFails
  <2>2. sequence' \in 0..MaxAppends
    BY <1>4 DEF Segments!WriteFails, SegmentTypes, Segments!CommitLogAssumption
  <2> QED
    BY <2>1, <2>2 DEF SegmentTypes, Lines
<1>5. CASE Segments!RotateFails \/ Segments!Stop \/ UNCHANGED Segments!vars
  <2>1. UNCHANGED <<logFiles, current, segmentID, sequence, written, appended, logNow>>
        /\ (up' # "down" => up # "down")
    BY <1>5 DEF Segments!RotateFails, Segments!Stop, Segments!vars
  <2> QED
    BY <2>1 DEF SegmentTypes, Lines
<1>6. CASE Segments!Tick
  <2>1. UNCHANGED <<logFiles, up, current, segmentID, sequence, written, appended>>
    BY <1>6 DEF Segments!Tick
  <2>2. logNow' \in Times
    BY <1>6 DEF Segments!Tick, SegmentTypes, Times, Segments!CommitLogAssumption
  <2> QED
    BY <2>1, <2>2 DEF SegmentTypes, Lines
<1> QED
  BY <1>1, <1>2, <1>3, <1>4, <1>5, <1>6

\* Lines are only ever added.
LEMMA KeptStep ==
  ASSUME Segments!CommitLogAssumption, SegmentTypes, AppendedOK, [Segments!Next]_(Segments!vars)
  PROVE  SegmentTypes' /\ AppendedOK'
<1>1. CASE Segments!AppendEntry \/ Segments!SyncFails
  <2> DEFINE n == Len(Lines(current))
  <2>1. /\ SegmentTypes' /\ current \in Times /\ n \in Nat /\ Len(Lines(current)') = n + 1
        /\ \A t \in Times \ {current} : Lines(t)' = Lines(t)
        /\ \A i \in 1..n : Lines(current)'[i] = Lines(current)[i]
        /\ Lines(current)'[n + 1].place = written + 1
        /\ appended' \subseteq appended \cup {written + 1} /\ current' = current
    BY <1>1, LineAdded DEF SegmentTypes, Lines
  <2> HIDE DEF n
  <2>2. ASSUME NEW p \in appended'
        PROVE  \E t \in Times : \E i \in 1..Len(Lines(t)') : Lines(t)'[i].place = p
    <3>1. CASE p = written + 1
      <4>1. n + 1 \in 1..Len(Lines(current)')
        BY <2>1
      <4> QED
        BY <2>1, <3>1, <4>1
    <3>2. CASE p \in appended
      <4>1. PICK t \in Times : \E i \in 1..Len(Lines(t)) : Lines(t)[i].place = p
        BY <3>2 DEF AppendedOK
      <4>2. PICK i \in 1..Len(Lines(t)) : Lines(t)[i].place = p
        BY <4>1
      <4>3. CASE t # current
        BY <2>1, <4>2, <4>3
      <4>4. CASE t = current
        <5>1. i \in 1..Len(Lines(current)') /\ Lines(current)'[i].place = p
          BY <2>1, <4>2, <4>4 DEF n
        <5> QED
          BY <2>1, <5>1
      <4> QED
        BY <4>3, <4>4
    <3> QED
      BY <2>1, <3>1, <3>2
  <2> QED
    BY <2>1, <2>2 DEF AppendedOK
<1>2. CASE ~(Segments!AppendEntry \/ Segments!SyncFails)
  BY <1>2, OtherSteps DEF Segments!Next, AppendedOK
<1> QED
  BY <1>1, <1>2

\* What CommitLogService.Append acknowledged is in a segment file, whatever rotations,
\* restarts, failed writes and turns of the clock come in between.
THEOREM AppendsAreKept ==
  Segments!Spec => []Segments!AppendedAreInFiles
<1>0. Segments!CommitLogAssumption
  BY StorageAssumption
<1> DEFINE Inv == SegmentTypes /\ AppendedOK
<1>1. ASSUME Inv PROVE Segments!AppendedAreInFiles
  <2>1. ASSUME NEW p \in appended PROVE \E e \in Segments!Entries : e.place = p
    <3>1. PICK t \in Times : \E i \in 1..Len(Lines(t)) : Lines(t)[i].place = p
      BY <1>1 DEF AppendedOK
    <3>2. PICK i \in 1..Len(Lines(t)) : Lines(t)[i].place = p
      BY <3>1
    <3>3. t \in Segments!FileNames /\ Lines(t) \in Seq(Entry)
      BY <1>1, <3>2 DEF SegmentTypes, Segments!FileNames, Times, Lines
    <3>4. Lines(t)[i] \in Segments!Entries
      BY <3>2, <3>3 DEF Segments!Entries, Segments!EntriesOf, Segments!Range, Lines
    <3> QED
      BY <3>2, <3>4
  <2> QED
    BY <2>1 DEF Segments!AppendedAreInFiles
<1>2. Segments!Init => Inv
  BY <1>0, SegmentsInit
<1>3. Inv /\ [Segments!Next]_(Segments!vars) => Inv'
  BY <1>0, KeptStep
<1> HIDE DEF Inv
<1> QED
  BY <1>1, <1>2, <1>3, PTL DEF Segments!Spec

\* Numbers and places of the lines go together, none is beyond the counters.
NumbersOK ==
  /\ \A s, t \in Times : \A i \in 1..Len(Lines(s)), j \in 1..Len(Lines(t)) :
       Lines(s)[i].place < Lines(t)[j].place => Lines(s)[i].sequence < Lines(t)[j].sequence
  /\ \A t \in Times : \A i \in 1..Len(Lines(t)) : Lines(t)[i].place <= written
  /\ up = "serving" => \A t \in Times : \A i \in 1..Len(Lines(t)) : Lines(t)[i].sequence <= sequence

\* The cardinality of the instance is that of finite sets.
LEMMA CardinalityOfSegments ==
  ASSUME NEW S PROVE Segments!Cardinality(S) = Cardinality(S)
BY DEF Cardinality, Segments!Cardinality

\* When no file fails to be read, the set of those that do is empty.
LEMMA AllRead ==
  ASSUME Segments!CommitLogAssumption, ReadErrors = 0, errors \in Nat, NEW unread \in Segments!Unread
  PROVE  DOMAIN unread = {}
<1>1. LogTime \in Nat /\ Segments!FileNames \in SUBSET (0..LogTime)
  BY DEF Segments!CommitLogAssumption, Segments!FileNames
<1>2. DOMAIN unread \in SUBSET Segments!FileNames
  BY DEF Segments!Unread
<1>3. IsFiniteSet(0..LogTime)
  BY <1>1, FS_Interval
<1>4. IsFiniteSet(DOMAIN unread)
  BY <1>1, <1>2, <1>3, FS_Subset, Zenon
<1>5. errors + Cardinality(DOMAIN unread) <= ReadErrors
  BY CardinalityOfSegments DEF Segments!Unread
<1>6. Cardinality(DOMAIN unread) \in Nat
  BY <1>4, FS_CardinalityType
<1>7. Cardinality(DOMAIN unread) = 0
  BY <1>5, <1>6
<1> QED
  BY <1>4, <1>7, FS_EmptySet

\* A line that is written has the highest number and the last place.
LEMMA NumbersOfLine ==
  ASSUME Segments!CommitLogAssumption, SegmentTypes, NumbersOK, Segments!AppendEntry \/ Segments!SyncFails
  PROVE  NumbersOK'
<1> DEFINE n == Len(Lines(current))
<1>1. /\ current \in Times /\ n \in Nat /\ Len(Lines(current)') = n + 1
      /\ \A t \in Times \ {current} : Lines(t)' = Lines(t)
      /\ \A i \in 1..n : Lines(current)'[i] = Lines(current)[i]
      /\ Lines(current)'[n + 1].place = written + 1
      /\ Lines(current)'[n + 1].sequence = sequence + 1
      /\ up = "serving" /\ sequence' = sequence + 1 /\ written' = written + 1 /\ current' = current
  BY LineAdded DEF SegmentTypes, Lines
<1>2. /\ sequence \in Nat /\ written \in Nat
      /\ \A t \in Times : \A i \in 1..Len(Lines(t)) : Lines(t)[i].place \in Nat /\ Lines(t)[i].sequence \in Nat
  <2>1. \A t \in Times : Lines(t) \in Seq(Entry)
    BY DEF SegmentTypes, Lines
  <2>2. \A t \in Times : \A i \in 1..Len(Lines(t)) : Lines(t)[i] \in Entry
    BY <2>1
  <2> QED
    BY <2>2 DEF SegmentTypes, Entry
<1>3. ASSUME NEW t \in Times, NEW i \in 1..Len(Lines(t)')
      PROVE  \/ t = current /\ i = n + 1
             \/ i \in 1..Len(Lines(t)) /\ Lines(t)'[i] = Lines(t)[i]
  BY <1>1, <1>3
<1> HIDE DEF n
<1>4. \A t \in Times : \A i \in 1..Len(Lines(t)) :
        Lines(t)[i].place <= written /\ Lines(t)[i].sequence <= sequence
  BY <1>1 DEF NumbersOK
<1>5. ASSUME NEW t \in Times, NEW i \in 1..Len(Lines(t)')
      PROVE  Lines(t)'[i].place <= written' /\ Lines(t)'[i].sequence <= sequence'
  BY <1>1, <1>2, <1>3, <1>4
<1>6. ASSUME NEW s \in Times, NEW t \in Times, NEW i \in 1..Len(Lines(s)'), NEW j \in 1..Len(Lines(t)'),
             Lines(s)'[i].place < Lines(t)'[j].place
      PROVE  Lines(s)'[i].sequence < Lines(t)'[j].sequence
  <2>1. CASE s = current /\ i = n + 1
    <3>1. Lines(t)'[j].place <= written + 1
      BY <1>1, <1>5
    <3>2. Lines(s)'[i].place = written + 1
      BY <1>1, <2>1
    <3>3. Lines(t)'[j].place \in Nat
      BY <1>1, <1>2, <1>3
    <3> QED
      BY <1>2, <1>6, <3>1, <3>2, <3>3
  <2>2. CASE i \in 1..Len(Lines(s)) /\ Lines(s)'[i] = Lines(s)[i] /\ t = current /\ j = n + 1
    BY <1>1, <1>2, <1>4, <2>2
  <2>3. CASE /\ i \in 1..Len(Lines(s)) /\ Lines(s)'[i] = Lines(s)[i]
             /\ j \in 1..Len(Lines(t)) /\ Lines(t)'[j] = Lines(t)[j]
    BY <1>6, <2>3 DEF NumbersOK
  <2> QED
    BY <1>3, <2>1, <2>2, <2>3
<1> QED
  BY <1>5, <1>6 DEF NumbersOK

\* A recovery that reads all files goes on from the highest number.
LEMMA NumbersStep ==
  ASSUME Segments!CommitLogAssumption, ReadErrors = 0, SegmentTypes, errors \in Nat, NumbersOK,
         [Segments!Next]_(Segments!vars)
  PROVE  NumbersOK' /\ errors' \in Nat
<1>1. CASE Segments!AppendEntry \/ Segments!SyncFails
  BY <1>1, NumbersOfLine DEF Segments!AppendEntry, Segments!SyncFails
<1>2. ASSUME NEW unread \in Segments!Unread, Segments!Recover(unread) PROVE NumbersOK' /\ errors' \in Nat
  <2>1. DOMAIN unread = {} /\ Segments!FileNames \ DOMAIN unread = Segments!FileNames
    BY AllRead
  <2>2. Segments!FileNames \subseteq Times
    BY DEF Segments!FileNames, Times
  <2>3. \A t \in Segments!FileNames : \A i \in 1..Len(Lines(t)) : Lines(t)[i].sequence <= sequence'
    BY <1>2, <2>1, <2>2, HighestSequence DEF Segments!Recover
  <2>4. \A t \in Times : Lines(t) # <<>> => t \in Segments!FileNames
    BY DEF SegmentTypes, Segments!FileNames, Times
  <2>5. \A t \in Times : \A i \in 1..Len(Lines(t)) : Lines(t)[i].sequence <= sequence'
    <3>1. \A t \in Times : Lines(t) \in Seq(Entry)
      BY DEF SegmentTypes, Lines
    <3>2. \A t \in Times : \A i \in 1..Len(Lines(t)) : Lines(t) # <<>>
      BY <3>1
    <3> QED
      BY <2>3, <2>4, <3>2
  <2>6. UNCHANGED <<logFiles, written>> /\ \A t \in Times : Lines(t)' = Lines(t)
    BY <1>2 DEF Segments!Recover, Lines
  <2>7. errors' \in Nat
    <3>1. Cardinality({}) = 0
      BY FS_EmptySet
    <3>2. errors' = errors + Cardinality(DOMAIN unread)
      BY <1>2, CardinalityOfSegments DEF Segments!Recover
    <3>3. errors' = errors + 0
      BY <2>1, <3>1, <3>2, Zenon
    <3> QED
      BY <3>3
  <2> QED
    BY <2>5, <2>6, <2>7 DEF NumbersOK
<1>3. CASE Segments!WriteFails
  <2>1. \A t \in Times : \A i \in 1..Len(Lines(t)) : Lines(t)[i].sequence \in Nat
    <3>1. \A t \in Times : Lines(t) \in Seq(Entry)
      BY DEF SegmentTypes, Lines
    <3>2. \A t \in Times : \A i \in 1..Len(Lines(t)) : Lines(t)[i] \in Entry
      BY <3>1
    <3> QED
      BY <3>2 DEF Entry
  <2>2. sequence \in Nat /\ sequence' = sequence + 1 /\ up = "serving" /\ UNCHANGED <<logFiles, written, errors>>
    BY <1>3 DEF Segments!WriteFails, SegmentTypes
  <2>3. \A t \in Times : \A i \in 1..Len(Lines(t)) : Lines(t)[i].sequence <= sequence'
    BY <2>1, <2>2 DEF NumbersOK
  <2> QED
    BY <2>2, <2>3 DEF NumbersOK, Lines
<1>4. CASE \/ Segments!Start \/ Segments!Rotate \/ Segments!RotateFails
           \/ Segments!Stop \/ Segments!Tick \/ UNCHANGED Segments!vars
  <2>1. (\A t \in Times : Lines(t)' = Lines(t)) /\ written' = written
    BY <1>4, OtherSteps
  <2>2. up' = "serving" => up = "serving" /\ sequence' = sequence
    BY <1>4 DEF Segments!Start, Segments!Rotate, Segments!RotateFails, Segments!Stop, Segments!Tick, Segments!vars
  <2>3. errors' = errors
    BY <1>4 DEF Segments!Start, Segments!Rotate, Segments!RotateFails, Segments!Stop, Segments!Tick, Segments!vars
  <2> QED
    BY <2>1, <2>2, <2>3 DEF NumbersOK
<1> QED
  BY <1>1, <1>2, <1>3, <1>4 DEF Segments!Next

\* Entries get higher sequence numbers than those that were written before them, also
\* after a restart, as long as every file can be read in a recovery.
THEOREM NumbersIncrease ==
  ASSUME ReadErrors = 0
  PROVE  Segments!Spec => []Segments!SequenceIncreasing
<1>0. Segments!CommitLogAssumption
  BY StorageAssumption
<1> DEFINE Inv == SegmentTypes /\ AppendedOK /\ NumbersOK /\ errors \in Nat
<1>1. ASSUME Inv PROVE Segments!SequenceIncreasing
  <2>1. ASSUME NEW e \in Segments!Entries PROVE \E t \in Times : \E i \in 1..Len(Lines(t)) : e = Lines(t)[i]
    <3>1. PICK t \in Times : e \in Segments!Range(Lines(t))
      BY <2>1 DEF Segments!Entries, Segments!EntriesOf, Segments!FileNames, Times, Lines
    <3>2. Lines(t) \in Seq(Entry)
      BY <1>1 DEF SegmentTypes, Lines
    <3> QED
      BY <3>1, <3>2 DEF Segments!Range
  <2> QED
    BY <1>1, <2>1 DEF Segments!SequenceIncreasing, NumbersOK
<1>2. Segments!Init => Inv
  <2> SUFFICES ASSUME Segments!Init PROVE Inv
    OBVIOUS
  <2>1. \A t \in Times : Len(Lines(t)) = 0
    BY DEF Segments!Init, Segments!NoFile, Times, Lines
  <2>2. NumbersOK /\ errors \in Nat
    BY <2>1 DEF NumbersOK, Segments!Init
  <2> QED
    BY <1>0, <2>2, SegmentsInit
<1>3. Inv /\ [Segments!Next]_(Segments!vars) => Inv'
  BY <1>0, KeptStep, NumbersStep
<1> HIDE DEF Inv
<1> QED
  BY <1>1, <1>2, <1>3, PTL DEF Segments!Spec

\* b[t] entries were written before the first line of the file that is named t; the
\* current file is the last that has any.
Placed(b) ==
  /\ b \in [Times -> Nat] /\ b[0] = 0
  /\ \A t \in Times : /\ t + 1 \in Times => b[t + 1] = b[t] + Len(Lines(t))
                      /\ \A i \in 1..Len(Lines(t)) : Lines(t)[i].place = b[t] + i
                      /\ t > current => Len(Lines(t)) = 0 /\ b[t] = written
  /\ b[current] + Len(Lines(current)) = written

\* Files are named by times that have come, the next one by no earlier one than the current.
NamesOK ==
  /\ current <= segmentID /\ segmentID <= logNow
  /\ \E b : Placed(b)

\* Opening a file that is named no earlier than the current one leaves all lines in place.
LEMMA PlacedOpened ==
  ASSUME Segments!CommitLogAssumption, SegmentTypes, NEW b, Placed(b), current' \in Times, current' >= current,
         written' = written, \A t \in Times : Lines(t)' = Lines(t)
  PROVE  Placed(b)'
<1>1. \A t \in Times : Len(Lines(t)) \in Nat
  BY DEF SegmentTypes, Lines
<1>2. current \in Times /\ current \in Nat /\ current' \in Nat /\ Times \subseteq Nat
  BY DEF SegmentTypes, Times, Segments!CommitLogAssumption
<1>3. PICK name \in Times : current' = name
  OBVIOUS
<1>4. b[name] + Len(Lines(name)) = written
  BY <1>1, <1>2, <1>3 DEF Placed
<1>5. \A t \in Times : t > name => t > current
  BY <1>2, <1>3
<1> QED
  BY <1>3, <1>4, <1>5 DEF Placed

\* A line at the end of the current file comes after all others.
LEMMA PlacedLine ==
  ASSUME Segments!CommitLogAssumption, SegmentTypes, NEW b, Placed(b), Segments!AppendEntry \/ Segments!SyncFails
  PROVE  \E c : Placed(c)'
<1>0. PICK k \in Times : k = current
  BY DEF SegmentTypes
<1> DEFINE n == Len(Lines(k))
           c == [t \in Times |-> IF t > k THEN b[t] + 1 ELSE b[t]]
<1>1. /\ n \in Nat /\ Len(Lines(k)') = n + 1
      /\ \A t \in Times \ {k} : Lines(t)' = Lines(t)
      /\ \A i \in 1..n : Lines(k)'[i] = Lines(k)[i]
      /\ Lines(k)'[n + 1].place = written + 1
      /\ written' = written + 1 /\ current' = k /\ current = k
  BY <1>0, LineAdded DEF SegmentTypes, Lines
<1>2. /\ Times \subseteq Nat /\ 0 \in Times /\ written \in Nat
      /\ \A t \in Times : Len(Lines(t)) \in Nat /\ b[t] \in Nat
      /\ b \in [Times -> Nat] /\ b[0] = 0 /\ b[k] + n = written
  <2>1. Times \subseteq Nat /\ 0 \in Times
    BY DEF Times, Segments!CommitLogAssumption
  <2>2. written \in Nat /\ \A t \in Times : Len(Lines(t)) \in Nat
    BY DEF SegmentTypes, Lines
  <2>3. b \in [Times -> Nat] /\ b[0] = 0 /\ b[k] + n = written
    BY <1>0, Zenon DEF Placed
  <2>4. \A t \in Times : b[t] \in Nat
    BY <2>3
  <2> QED
    BY <2>1, <2>2, <2>3, <2>4, Zenon
<1>3. /\ c \in [Times -> Nat] /\ c[0] = 0
      /\ \A t \in Times : (t > k => c[t] = b[t] + 1) /\ (~(t > k) => c[t] = b[t])
  BY <1>2
<1> HIDE DEF n, c
<1>4. ASSUME NEW t \in Times, t + 1 \in Times PROVE c[t + 1] = c[t] + Len(Lines(t)')
  <2>1. b[t + 1] = b[t] + Len(Lines(t))
    BY <1>4 DEF Placed
  <2>2. CASE t = k
    <3>1. k \in Nat /\ k + 1 > k /\ k + 1 \in Times
      BY <1>2, <1>4, <2>2
    <3>2. c[k + 1] = b[k + 1] + 1 /\ c[k] = b[k]
      BY <1>2, <1>3, <3>1
    <3>3. b[k + 1] = b[k] + n
      BY <2>1, <2>2 DEF n
    <3> QED
      BY <1>1, <1>2, <2>2, <3>2, <3>3
  <2>3. CASE t # k
    <3>1. Lines(t)' = Lines(t)
      BY <1>1, <2>3
    <3>2. t \in Nat /\ k \in Nat /\ (t + 1 > k <=> t > k)
      BY <1>2, <2>3
    <3> QED
      BY <1>2, <1>3, <1>4, <2>1, <3>1, <3>2
  <2> QED
    BY <2>2, <2>3
<1>5. ASSUME NEW t \in Times, NEW i \in 1..Len(Lines(t)') PROVE Lines(t)'[i].place = c[t] + i
  <2>1. CASE t = k
    <3>1. c[t] = b[t]
      BY <1>2, <1>3, <2>1
    <3>2. CASE i = n + 1
      BY <1>1, <1>2, <2>1, <3>1, <3>2
    <3>3. CASE i # n + 1
      <4>1. i \in 1..n /\ Lines(t)'[i] = Lines(t)[i]
        BY <1>1, <2>1, <3>3
      <4> QED
        BY <2>1, <3>1, <4>1 DEF Placed, n
    <3> QED
      BY <3>2, <3>3
  <2>2. CASE t # k
    <3>1. i \in 1..Len(Lines(t)) /\ Lines(t)' = Lines(t)
      BY <1>1, <2>2
    <3>2. ~(t > k)
      BY <1>0, <1>2, <3>1 DEF Placed
    <3> QED
      BY <1>3, <3>1, <3>2 DEF Placed
  <2> QED
    BY <2>1, <2>2
<1>6. ASSUME NEW t \in Times, t > k PROVE Len(Lines(t)') = 0 /\ c[t] = written'
  BY <1>1, <1>2, <1>3, <1>6 DEF Placed
<1>7. c[k] + Len(Lines(k)') = written'
  <2>1. c[k] = b[k] /\ b[k] \in Nat
    BY <1>2, <1>3
  <2> QED
    BY <1>1, <1>2, <2>1
<1>8. Placed(c)'
  BY <1>1, <1>3, <1>4, <1>5, <1>6, <1>7 DEF Placed
<1> QED
  BY <1>8

\* A clock that goes forward only names files in the order they are opened in.
LEMMA NamesStep ==
  ASSUME Segments!CommitLogAssumption, ClockSteps \subseteq {"forward"}, SegmentTypes, NamesOK,
         [Segments!Next]_(Segments!vars)
  PROVE  NamesOK'
<1>1. PICK b : Placed(b)
  BY DEF NamesOK
<1>2. current \in Nat /\ segmentID \in Nat /\ logNow \in Nat /\ current <= segmentID /\ segmentID <= logNow
  BY DEF SegmentTypes, Times, Segments!CommitLogAssumption, NamesOK
<1>3. CASE Segments!AppendEntry \/ Segments!SyncFails
  <2>1. UNCHANGED <<current, segmentID, logNow>>
    BY <1>3, LineAdded
  <2> QED
    BY <1>1, <1>2, <1>3, <2>1, PlacedLine DEF NamesOK
<1>4. CASE ~(Segments!AppendEntry \/ Segments!SyncFails)
  <2>1. SegmentTypes' /\ written' = written /\ \A t \in Times : Lines(t)' = Lines(t)
    BY <1>4, OtherSteps DEF Segments!Next
  <2>2. current' >= current /\ current' <= segmentID' /\ segmentID' <= logNow'
    <3>1. CASE Segments!Start \/ Segments!Rotate
      BY <1>2, <3>1 DEF Segments!Start, Segments!Rotate, Segments!Opened
    <3>2. CASE Segments!Tick
      <4>1. logNow' = logNow + 1 /\ UNCHANGED <<current, segmentID>>
        BY <3>2 DEF Segments!Tick
      <4> QED
        BY <1>2, <4>1
    <3>3. CASE UNCHANGED <<current, segmentID, logNow>>
      BY <1>2, <3>3
    <3> QED
      BY <1>4, <3>1, <3>2, <3>3, Zenon DEF Segments!Next, Segments!Recover, Segments!WriteFails,
           Segments!RotateFails, Segments!Stop, Segments!vars
  <2>3. current' \in Times
    BY <2>1 DEF SegmentTypes
  <2>4. Placed(b)'
    BY <1>1, <2>1, <2>2, <2>3, PlacedOpened
  <2> QED
    BY <2>2, <2>4 DEF NamesOK
<1> QED
  BY <1>3, <1>4

\* The recursive function of InOrder exists: of the names up to which it did not there
\* would be a least one.
LEMMA OrderSteps ==
  ASSUME LogTime \in Nat, NEW unread
  PROVE  \E g : /\ Segments!InOrder(unread) = g[LogTime]
                /\ g[0] = Segments!Replayed(0, unread)
                /\ \A t \in 1..LogTime : g[t] = g[t - 1] \o Segments!Replayed(t, unread)
<1> DEFINE F(t) == Segments!Replayed(t, unread)
           Step(t, g) == IF t = 0 THEN F(0) ELSE g[t - 1] \o F(t)
           Solves(g, m) == g = [t \in 0..m |-> Step(t, g)]
           T == {m \in 0..LogTime : ~\E g : Solves(g, m)}
           all == CHOOSE g : Solves(g, LogTime)
<1>1. Segments!InOrder(unread) = all[LogTime]
  BY DEF Segments!InOrder
<1> HIDE DEF F
<1>2. T = {}
  <2>1. SUFFICES ASSUME T # {} PROVE FALSE
    BY Zenon
  <2>2. T \subseteq Nat /\ T \subseteq 0..LogTime
    OBVIOUS
  <2>3. \A m \in 0..LogTime : m \notin T <=> \E g : Solves(g, m)
    BY Zenon
  <2> HIDE DEF T
  <2>4. PICK m \in T : \A j \in T : m <= j
    BY <2>1, <2>2, LeastOf, Zenon
  <2>5. m # 0
    <3>1. Solves([t \in 0..0 |-> F(0)], 0)
      OBVIOUS
    <3> QED
      BY <2>2, <2>3, <2>4, <3>1, Zenon
  <2>6. m - 1 \in 0..LogTime /\ m - 1 \notin T /\ m \in 0..LogTime
    BY <2>2, <2>4, <2>5
  <2>7. PICK g : Solves(g, m - 1)
    BY <2>3, <2>6, Zenon
  <2> DEFINE h == [t \in 0..m |-> IF t = m THEN Step(m, g) ELSE g[t]]
  <2>8. ASSUME NEW t \in 0..m PROVE h[t] = Step(t, h)
    <3>1. t = 0 \/ (t - 1 \in 0..m /\ t - 1 # m)
      BY <2>6
    <3>2. t = 0 \/ h[t - 1] = g[t - 1]
      BY <3>1
    <3>3. Step(t, h) = Step(t, g)
      BY <3>2
    <3>4. CASE t = m
      BY <3>3, <3>4
    <3>5. CASE t # m
      <4>1. t \in 0..(m - 1)
        BY <2>6, <3>5
      <4>2. h[t] = g[t] /\ g[t] = Step(t, g)
        BY <2>7, <3>5, <4>1, Zenon
      <4> QED
        BY <3>3, <4>2
    <3> QED
      BY <3>4, <3>5
  <2>9. Solves(h, m)
    BY <2>8
  <2> QED
    BY <2>3, <2>4, <2>6, <2>9, Zenon
<1>3. Solves(all, LogTime)
  <2>1. LogTime \in 0..LogTime
    OBVIOUS
  <2>2. \E g : Solves(g, LogTime)
    <3>1. LogTime \in T \/ \E g : Solves(g, LogTime)
      BY <2>1, Zenon
    <3> QED
      BY <1>2, <3>1, Zenon
  <2> QED
    BY <2>2, Zenon
<1> HIDE DEF all
<1>4. all[0] = F(0)
  BY <1>3
<1>5. ASSUME NEW t \in 1..LogTime PROVE all[t] = all[t - 1] \o F(t)
  <2>1. t \in 0..LogTime /\ t # 0
    OBVIOUS
  <2>2. all[t] = Step(t, all)
    BY <1>3, <2>1, Zenon
  <2> QED
    BY <2>1, <2>2, Zenon
<1> QED
  BY <1>1, <1>4, <1>5, Zenon DEF F

\* When every file is read to its end, the entries are replayed in the order they were
\* written in: of the names up to which they are not there would be a least one.
LEMMA ReplayInOrder ==
  ASSUME Segments!CommitLogAssumption, SegmentTypes, NamesOK, NEW unread, DOMAIN unread = {}
  PROVE  \A i \in DOMAIN Segments!InOrder(unread) : Segments!InOrder(unread)[i].place = i
<1>1. LogTime \in Nat /\ Times = 0..LogTime /\ 0 \in Times
  BY DEF Segments!CommitLogAssumption, Times
<1>2. \A t \in Times : Lines(t) \in Seq(Entry) /\ Len(Lines(t)) \in Nat
  BY DEF SegmentTypes, Lines
<1>3. \A t \in Times : Segments!Replayed(t, unread) = Lines(t)
  <2>1. \A t \in Times : Segments!Replayed(t, unread) = SubSeq(Lines(t), 1, Len(Lines(t)))
    BY DEF Segments!Replayed, Lines
  <2>2. \A q \in Seq(Entry) : SubSeq(q, 1, Len(q)) = q
    OBVIOUS
  <2> QED
    BY <1>2, <2>1, <2>2
<1>4. PICK g : /\ Segments!InOrder(unread) = g[LogTime]
               /\ g[0] = Lines(0)
               /\ \A t \in 1..LogTime : g[t] = g[t - 1] \o Lines(t)
  <2>1. PICK g : /\ Segments!InOrder(unread) = g[LogTime]
                 /\ g[0] = Segments!Replayed(0, unread)
                 /\ \A t \in 1..LogTime : g[t] = g[t - 1] \o Segments!Replayed(t, unread)
    BY <1>1, OrderSteps, Zenon
  <2>2. \A t \in 1..LogTime : t \in Times
    BY <1>1
  <2>3. g[0] = Lines(0)
    BY <1>1, <1>3, <2>1, Zenon
  <2>4. \A t \in 1..LogTime : g[t] = g[t - 1] \o Lines(t)
    BY <1>3, <2>1, <2>2, Zenon
  <2> QED
    BY <2>1, <2>3, <2>4, Zenon
<1>5. PICK b : Placed(b)
  BY DEF NamesOK
<1>6. /\ b[0] = 0 /\ \A t \in Times : b[t] \in Nat
      /\ \A t \in Times : \A i \in 1..Len(Lines(t)) : Lines(t)[i].place = b[t] + i
      /\ \A t \in 1..LogTime : b[t] = b[t - 1] + Len(Lines(t - 1))
  <2>1. \A t \in 1..LogTime : t - 1 \in Times /\ (t - 1) + 1 = t /\ t \in Times
    BY <1>1
  <2>2. \A s \in Times : s + 1 \in Times => b[s + 1] = b[s] + Len(Lines(s))
    BY <1>5 DEF Placed
  <2>3. \A t \in 1..LogTime : b[t] = b[t - 1] + Len(Lines(t - 1))
    BY <2>1, <2>2
  <2> QED
    BY <1>5, <2>3 DEF Placed
<1> DEFINE P(t) == /\ g[t] \in Seq(Entry) /\ Len(g[t]) = b[t] + Len(Lines(t))
                   /\ \A i \in 1..Len(g[t]) : g[t][i].place = i
           T == {t \in Times : ~P(t)}
<1>7. T = {}
  <2>1. SUFFICES ASSUME T # {} PROVE FALSE
    BY Zenon
  <2>2. T \subseteq Nat
    BY <1>1
  <2>3. \A t \in Times : t \notin T <=> P(t)
    BY Zenon
  <2>4. T \subseteq Times
    BY Zenon
  <2> HIDE DEF T
  <2>5. PICK t \in T : \A j \in T : t <= j
    BY <2>1, <2>2, LeastOf, Zenon
  <2>6. t # 0
    <3>1. P(0)
      BY <1>1, <1>2, <1>4, <1>6
    <3> QED
      BY <1>1, <2>3, <2>5, <3>1, Zenon
  <2>7. t \in Times /\ t \in 1..LogTime /\ t - 1 \in Times /\ t - 1 \notin T
    BY <1>1, <2>2, <2>4, <2>5, <2>6
  <2>8. P(t - 1)
    BY <2>3, <2>7, Zenon
  <2> DEFINE x == g[t - 1]
             y == Lines(t)
  <2>9. x \in Seq(Entry) /\ y \in Seq(Entry) /\ g[t] = x \o y /\ Len(x) = b[t]
    BY <1>2, <1>4, <1>6, <2>7, <2>8
  <2>10. \A i \in 1..Len(x) : x[i].place = i
    BY <2>8
  <2>11. \A i \in 1..Len(y) : y[i].place = Len(x) + i
    BY <1>6, <2>7, <2>9
  <2>12. Len(y) = Len(Lines(t))
    OBVIOUS
  <2> HIDE DEF x, y
  <2>13. g[t] \in Seq(Entry) /\ Len(g[t]) = Len(x) + Len(y)
    BY <2>9
  <2>14. \A i \in 1..Len(g[t]) : g[t][i].place = i
    <3>1. ASSUME NEW i \in 1..Len(g[t]) PROVE g[t][i].place = i
      <4>1. CASE i <= Len(x)
        <5>1. i \in 1..Len(x) /\ g[t][i] = x[i]
          BY <2>9, <4>1
        <5> QED
          BY <2>10, <5>1
      <4>2. CASE i > Len(x)
        <5>0. i \in 1..Len(x) + Len(y)
          BY <2>13
        <5>1. i - Len(x) \in 1..Len(y) /\ g[t][i] = y[i - Len(x)]
          BY <2>9, <4>2, <5>0, SecondPart, Zenon
        <5>2. Len(x) + (i - Len(x)) = i
          BY <2>9
        <5> QED
          BY <2>11, <5>1, <5>2
      <4> QED
        BY <2>9, <4>1, <4>2
    <3> QED
      BY <3>1
  <2>15. P(t)
    BY <2>9, <2>12, <2>13, <2>14
  <2> QED
    BY <2>3, <2>5, <2>7, <2>15, Zenon
<1>8. LogTime \in Times
  BY <1>1
<1>9. P(LogTime)
  <2>1. LogTime \in T \/ P(LogTime)
    BY <1>8, Zenon
  <2> QED
    BY <1>7, <2>1, Zenon
<1> QED
  BY <1>4, <1>9

\* What the last recovery replayed.
ReplayedOK == up = "serving" => \A i \in DOMAIN recovered : recovered[i].place = i

\* Recovery replays what was written in the order it was written in and without a gap,
\* although a file is named by the second in which the one before it was opened, a
\* rotation may go on in the same file and a restart may come in the same second; as
\* long as the clock goes forward and every file can be read.
THEOREM RecoveryInOrder ==
  ASSUME ReadErrors = 0, ClockSteps \subseteq {"forward"}
  PROVE  Segments!Spec => []Segments!ReplaysInOrder
<1>0. Segments!CommitLogAssumption
  BY StorageAssumption
<1> DEFINE Inv == SegmentTypes /\ AppendedOK /\ NumbersOK /\ errors \in Nat /\ NamesOK /\ ReplayedOK
<1>1. Inv => Segments!ReplaysInOrder
  BY DEF ReplayedOK, Segments!ReplaysInOrder
<1>2. Segments!Init => Inv
  <2> SUFFICES ASSUME Segments!Init PROVE Inv
    OBVIOUS
  <2>1. \A t \in Times : Len(Lines(t)) = 0
    BY DEF Segments!Init, Segments!NoFile, Times, Lines
  <2>2. NumbersOK /\ errors \in Nat /\ ReplayedOK
    BY <2>1 DEF NumbersOK, ReplayedOK, Segments!Init
  <2>3. 0 \in Times
    BY <1>0 DEF Times, Segments!CommitLogAssumption
  <2>4. Placed([t \in Times |-> 0])
    BY <2>1, <2>3 DEF Placed, Segments!Init
  <2>5. NamesOK
    BY <2>4 DEF NamesOK, Segments!Init
  <2> QED
    BY <1>0, <2>2, <2>5, SegmentsInit
<1>3. ASSUME Inv, [Segments!Next]_(Segments!vars) PROVE Inv'
  <2>1. ReplayedOK'
    <3>1. ASSUME NEW unread \in Segments!Unread, Segments!Recover(unread) PROVE ReplayedOK'
      <4>1. DOMAIN unread = {}
        BY <1>0, <1>3, AllRead
      <4> QED
        BY <1>0, <1>3, <3>1, <4>1, ReplayInOrder DEF ReplayedOK, Segments!Recover
    <3>2. CASE ~\E unread \in Segments!Unread : Segments!Recover(unread)
      BY <1>3, <3>2 DEF ReplayedOK, Segments!Next, Segments!Start, Segments!AppendEntry, Segments!WriteFails,
           Segments!SyncFails, Segments!Rotate, Segments!RotateFails, Segments!Stop, Segments!Tick, Segments!vars
    <3> QED
      BY <3>1, <3>2
  <2> QED
    BY <1>0, <1>3, <2>1, KeptStep, NumbersStep, NamesStep
<1> HIDE DEF Inv
<1> QED
  BY <1>1, <1>2, <1>3, PTL DEF Segments!Spec

\* LogIsReplayed for segments of any size and any number of entries, restarts and
\* failed writes, as long as the clock goes forward and every file can be read.
THEOREM LogAlwaysReplayed ==
  ASSUME ReadErrors = 0, ClockSteps \subseteq {"forward"}
  PROVE  Segments!Spec => []LogIsReplayed
<1>1. Segments!AppendedAreInFiles /\ Segments!ReplaysInOrder /\ Segments!SequenceIncreasing => LogIsReplayed
  BY DEF LogIsReplayed
<1> QED
  BY <1>1, AppendsAreKept, NumbersIncrease, RecoveryInOrder, PTL

------------------------------------------------------------------------------
\* The hints a coordinator keeps in memory.

Given == 1..Len(KeyOf)
Goroutine == [at : {"idle", "next", "failed"}, todo : SUBSET Given, seen : Nat]

\* The list has hints that were stored, no more than maxHints; a goroutine that is at
\* work has one to work on.
HandoffInv ==
  /\ hinted \in Nat /\ hinted <= Len(KeyOf) /\ expired \in Nat
  /\ list \subseteq 1..hinted /\ Cardinality(list) <= MaxHints
  /\ retries \in [Given -> Nat] /\ delivered \subseteq Given /\ panicked \in BOOLEAN
  /\ replayer \in [Replayers -> Goroutine]
  /\ \A w \in Replayers : replayer[w].at # "idle" => replayer[w].todo # {}

\* The cardinality of the instance is that of finite sets.
LEMMA CardinalityOfHandoff ==
  ASSUME NEW S PROVE Handoff!Cardinality(S) = Cardinality(S)
BY DEF Cardinality, Handoff!Cardinality

\* The hints are numbered.
LEMMA HintsAreGiven ==
  ASSUME Handoff!HintedHandoffAssumption
  PROVE  Len(KeyOf) \in Nat /\ Handoff!Hints = Given /\ MaxHints \in Nat /\ MaxHints # 0
BY DEF Handoff!HintedHandoffAssumption, Handoff!Hints, Given

\* There are no hints at first.
LEMMA HandoffInit ==
  ASSUME Handoff!HintedHandoffAssumption, Handoff!Init PROVE HandoffInv
<1>1. Cardinality({}) = 0
  BY FS_EmptySet
<1>2. Handoff!Idle \in Goroutine
  BY DEF Handoff!Idle, Goroutine
<1>3. retries \in [Given -> Nat] /\ hinted = 0 /\ expired = 0 /\ list = {} /\ delivered = {} /\ panicked = FALSE
  BY HintsAreGiven DEF Handoff!Init
<1>4. replayer \in [Replayers -> Goroutine] /\ \A w \in Replayers : replayer[w].at = "idle"
  BY <1>2 DEF Handoff!Init, Handoff!Idle
<1>5. hinted <= Len(KeyOf) /\ Cardinality(list) <= MaxHints
  BY <1>1, <1>3, HintsAreGiven
<1> QED
  BY <1>3, <1>4, <1>5, Zenon DEF HandoffInv

\* The hint that is worked on is one of those that are left.
LEMMA FirstIsLeft ==
  ASSUME HandoffInv, Handoff!HintedHandoffAssumption, NEW w \in Replayers, replayer[w].at # "idle"
  PROVE  Handoff!First(w) \in replayer[w].todo /\ Handoff!First(w) \in Given
<1>1. replayer[w].todo \subseteq Given /\ replayer[w].todo # {} /\ replayer[w].todo \subseteq Nat
  BY DEF HandoffInv, Goroutine, Given
<1>2. \E i \in replayer[w].todo : \A j \in replayer[w].todo : i <= j
  BY <1>1, LeastOf
<1> QED
  BY <1>1, <1>2 DEF Handoff!First, Handoff!Min

\* A goroutine that goes on has something left to do or is idle.
LEMMA Advanced ==
  ASSUME HandoffInv, Handoff!HintedHandoffAssumption, NEW w \in Replayers, Handoff!Advance(w)
  PROVE  /\ replayer' \in [Replayers -> Goroutine]
         /\ \A v \in Replayers : replayer'[v].at # "idle" => replayer'[v].todo # {}
<1> DEFINE todo == replayer[w].todo \ {Handoff!First(w)}
           g == IF todo = {} THEN Handoff!Idle ELSE [at |-> "next", todo |-> todo, seen |-> 0]
<1>1. replayer' = [replayer EXCEPT ![w] = g]
  BY DEF Handoff!Advance
<1>2. todo \subseteq Given
  BY DEF HandoffInv, Goroutine
<1> HIDE DEF todo
<1>3. g \in Goroutine /\ (g.at # "idle" => g.todo # {})
  BY <1>2 DEF Goroutine, Handoff!Idle
<1> HIDE DEF g
<1> QED
  BY <1>1, <1>3 DEF HandoffInv

\* Removing a hint removes no other.
LEMMA Removed ==
  ASSUME HandoffInv, Handoff!HintedHandoffAssumption, NEW h, Handoff!RemoveHint(h)
  PROVE  /\ list' \subseteq 1..hinted /\ Cardinality(list') <= MaxHints /\ panicked' \in BOOLEAN
         /\ \A x \in list \ list' : x = h
<1>1. list' \in SUBSET list /\ list \in SUBSET (1..hinted) /\ \A x \in list \ list' : x = h
  BY DEF Handoff!RemoveHint, Handoff!Without, HandoffInv
<1>2. IsFiniteSet(list)
  <2>1. IsFiniteSet(1..hinted)
    BY FS_Interval DEF HandoffInv
  <2> QED
    BY <1>1, <2>1, FS_Subset, Zenon
<1>3. Cardinality(list') <= Cardinality(list) /\ Cardinality(list') \in Nat /\ Cardinality(list) \in Nat
  BY <1>1, <1>2, FS_Subset, FS_CardinalityType, Zenon
<1>4. panicked' \in BOOLEAN
  BY DEF Handoff!RemoveHint
<1>5. Cardinality(list') <= MaxHints
  BY <1>3, HintsAreGiven DEF HandoffInv
<1> QED
  BY <1>1, <1>4, <1>5

\* At the limit one hint makes room for the new one.
LEMMA Stored ==
  ASSUME HandoffInv, Handoff!HintedHandoffAssumption, Handoff!StoreHint
  PROVE  HandoffInv' /\ \A x \in list \ list' : Cardinality(list) = MaxHints /\ hinted' > hinted
<1> DEFINE n == hinted + 1
           rest == IF Cardinality(list) >= MaxHints THEN list \ {Handoff!Min(list)} ELSE list
<1>1. /\ list' = {n} \cup rest /\ hinted' = n /\ hinted < Len(KeyOf)
      /\ UNCHANGED <<expired, retries, replayer, delivered, panicked>>
  BY CardinalityOfHandoff DEF Handoff!StoreHint
<1>2. hinted \in Nat /\ list \in SUBSET (1..hinted) /\ Cardinality(list) <= MaxHints
  BY DEF HandoffInv
<1>3. n \in Nat /\ n > hinted /\ n <= Len(KeyOf) /\ n \notin list /\ list \subseteq 1..n /\ n \in 1..n
  BY <1>1, <1>2, HintsAreGiven
<1>4. IsFiniteSet(list) /\ Cardinality(list) \in Nat
  <2>1. IsFiniteSet(1..hinted)
    BY <1>2, FS_Interval
  <2>2. IsFiniteSet(list)
    BY <1>2, <2>1, FS_Subset, Zenon
  <2> QED
    BY <2>2, FS_CardinalityType
<1>5. rest \in SUBSET list /\ (rest # list => Cardinality(list) >= MaxHints)
  BY Zenon
<1>6. Cardinality(rest) + 1 <= MaxHints
  <2>1. CASE ~(Cardinality(list) >= MaxHints)
    BY <1>2, <1>4, <2>1, HintsAreGiven
  <2>2. CASE Cardinality(list) >= MaxHints
    <3>1. Cardinality(list) = MaxHints /\ list # {}
      BY <1>2, <1>4, <2>2, HintsAreGiven, FS_EmptySet
    <3>2. \E i \in list : \A j \in list : i <= j
      <4>1. list \subseteq Nat
        BY <1>2
      <4> QED
        BY <3>1, <4>1, LeastOf, Zenon
    <3>3. Handoff!Min(list) \in list
      BY <3>2 DEF Handoff!Min
    <3>4. Cardinality(list \ {Handoff!Min(list)}) = Cardinality(list) - 1
      BY <1>4, <3>3, FS_RemoveElement
    <3> QED
      BY <1>4, <2>2, <3>1, <3>4
  <2> QED
    BY <2>1, <2>2
<1> HIDE DEF n, rest
<1>7. IsFiniteSet(rest) /\ n \notin rest
  BY <1>3, <1>4, <1>5, FS_Subset, Zenon
<1>8. Cardinality(rest \cup {n}) = Cardinality(rest) + 1
  BY <1>7, FS_AddElement
<1>9. list' = rest \cup {n}
  BY <1>1
<1>10. HandoffInv'
  BY <1>1, <1>2, <1>3, <1>5, <1>6, <1>8, <1>9, Zenon DEF HandoffInv
<1>11. ASSUME NEW x \in list \ list' PROVE Cardinality(list) = MaxHints /\ hinted' > hinted
  BY <1>1, <1>2, <1>3, <1>4, <1>5, <1>11, HintsAreGiven
<1> QED
  BY <1>10, <1>11

\* The steps of the replaying goroutines.
LEMMA Worked ==
  ASSUME HandoffInv, Handoff!HintedHandoffAssumption, NEW w \in Replayers, Handoff!Step(w)
  PROVE  HandoffInv' /\ Handoff!DropsForCause
<1>1. CASE Handoff!Tick(w)
  <2> DEFINE g == [Handoff!Idle EXCEPT !.at = "next", !.todo = list]
  <2>1. replayer' = [replayer EXCEPT ![w] = g] /\ list # {}
        /\ UNCHANGED <<list, hinted, expired, retries, delivered, panicked>>
    BY <1>1 DEF Handoff!Tick
  <2>2. list \subseteq Given
    BY HintsAreGiven DEF HandoffInv, Given
  <2>3. g \in Goroutine /\ g.todo = list
    BY <2>2, Zenon DEF Handoff!Idle, Goroutine
  <2> HIDE DEF g
  <2>4. /\ replayer' \in [Replayers -> Goroutine]
        /\ \A v \in Replayers : replayer'[v].at # "idle" => replayer'[v].todo # {}
    BY <2>1, <2>3 DEF HandoffInv
  <2> QED
    BY <2>1, <2>4 DEF HandoffInv, Handoff!DropsForCause
<1>2. CASE Handoff!DropExpired(w)
  <2>1. /\ Handoff!RemoveHint(Handoff!First(w)) /\ Handoff!Advance(w) /\ Handoff!First(w) <= expired
        /\ UNCHANGED <<hinted, expired, retries, delivered>>
    BY <1>2 DEF Handoff!DropExpired
  <2> QED
    BY <2>1, Removed, Advanced DEF HandoffInv, Handoff!DropsForCause
<1>3. CASE Handoff!Replay(w)
  <2>1. /\ replayer[w].at = "next"
        /\ replayer' = [replayer EXCEPT ![w].at = "failed", ![w].seen = retries[Handoff!First(w)]]
        /\ UNCHANGED <<list, delivered, panicked, hinted, expired, retries>>
    BY <1>3 DEF Handoff!Replay, Handoff!HasAddress
  <2> DEFINE n == retries[Handoff!First(w)]
             g == [replayer[w] EXCEPT !.at = "failed", !.seen = n]
  <2>2. n \in Nat
    BY <2>1, FirstIsLeft DEF HandoffInv
  <2>3. replayer' = [replayer EXCEPT ![w] = g]
    BY <2>1, Zenon
  <2> HIDE DEF n
  <2>4. replayer[w] \in Goroutine /\ replayer[w].todo # {}
    BY <2>1 DEF HandoffInv
  <2>5. g \in Goroutine /\ g.todo = replayer[w].todo
    BY <2>2, <2>4, Zenon DEF Goroutine
  <2> HIDE DEF g
  <2>6. /\ replayer' \in [Replayers -> Goroutine]
        /\ \A v \in Replayers : replayer'[v].at # "idle" => replayer'[v].todo # {}
    BY <2>3, <2>4, <2>5 DEF HandoffInv
  <2> QED
    BY <2>1, <2>6 DEF HandoffInv, Handoff!DropsForCause
<1>4. CASE Handoff!CountRetry(w)
  <2> DEFINE h == Handoff!First(w)
             n == replayer[w].seen + 1
  <2>1. /\ replayer[w].at = "failed" /\ retries' = [retries EXCEPT ![h] = n]
        /\ IF retries'[h] >= HintRetries THEN Handoff!RemoveHint(h) ELSE UNCHANGED <<list, panicked>>
        /\ Handoff!Advance(w) /\ UNCHANGED <<hinted, expired, delivered>>
    BY <1>4 DEF Handoff!CountRetry
  <2>2. h \in Given
    BY <2>1, FirstIsLeft
  <2>3. replayer[w] \in Goroutine
    BY DEF HandoffInv
  <2>4. n \in Nat
    BY <2>3 DEF Goroutine
  <2> HIDE DEF h, n
  <2>5. retries' \in [Given -> Nat]
    BY <2>1, <2>2, <2>4 DEF HandoffInv
  <2>6. CASE retries'[h] >= HintRetries
    BY <2>1, <2>5, <2>6, Removed, Advanced DEF HandoffInv, Handoff!DropsForCause
  <2>7. CASE ~(retries'[h] >= HintRetries)
    BY <2>1, <2>5, <2>7, Advanced, Zenon DEF HandoffInv, Handoff!DropsForCause
  <2> QED
    BY <2>6, <2>7
<1> QED
  BY <1>1, <1>2, <1>3, <1>4 DEF Handoff!Step

\* Every step keeps the invariant and drops hints for a cause only.
LEMMA HandoffStep ==
  ASSUME Handoff!HintedHandoffAssumption, HandoffInv, [Handoff!Next]_(Handoff!vars)
  PROVE  HandoffInv' /\ (Handoff!DropsForCause \/ UNCHANGED Handoff!vars)
<1>1. CASE Handoff!StoreHint
  BY <1>1, Stored, CardinalityOfHandoff DEF Handoff!DropsForCause
<1>2. CASE Handoff!Age
  <2>1. expired' \in Nat /\ UNCHANGED <<list, hinted, retries, replayer, delivered, panicked>>
    BY <1>2 DEF Handoff!Age, HandoffInv
  <2> QED
    BY <2>1 DEF HandoffInv, Handoff!DropsForCause
<1>3. CASE UNCHANGED Handoff!vars
  BY <1>3 DEF Handoff!vars, HandoffInv
<1>4. CASE Handoff!Quiet
  BY <1>3, <1>4 DEF Handoff!Quiet
<1> QED
  BY <1>1, <1>2, <1>3, <1>4, Worked DEF Handoff!Next

\* The list of hints stays within maxHints, and a hint leaves it only because it was
\* delivered, is too old, was tried too often or makes room for another at the limit,
\* with any number of goroutines working on copies of the list.
THEOREM HintsDropForCause ==
  Handoff!Spec => []Handoff!TypeOK /\ DroppedForCause
<1>0. Handoff!HintedHandoffAssumption
  BY StorageAssumption
<1>1. HandoffInv => Handoff!TypeOK
  BY <1>0, HintsAreGiven, CardinalityOfHandoff DEF HandoffInv, Handoff!TypeOK
<1>2. HandoffInv /\ [Handoff!Next]_(Handoff!vars) => HandoffInv' /\ [Handoff!DropsForCause]_(Handoff!vars)
  BY <1>0, HandoffStep
<1>3. Handoff!Init => HandoffInv
  BY <1>0, HandoffInit
<1> QED
  BY <1>1, <1>2, <1>3, PTL DEF Handoff!Spec, DroppedForCause, Handoff!DroppedForCause

------------------------------------------------------------------------------
\* The replay of the hints of a node.

\* While the replay runs, a hint that was due is in the table until the node has it or
\* it has expired: a batch ends the replay only when it finds the table empty, and a
\* hint is deleted only after the node took it.
ReplayInv ==
  /\ old \in Nat
  /\ at \in {"fetch", "hint", "delete", "wait"} => \A h \in due : h \in got \/ h <= old \/ h \in rows
  /\ at = "delete" => Replay!First \in got
  /\ at = "replayed" => \A h \in due : h \in got \/ h <= old
  /\ due \subseteq Nat /\ rows \subseteq Nat /\ writes \in Nat

\* Nothing is due before the replay begins.
LEMMA ReplayInit == Replay!Init => ReplayInv
BY DEF Replay!Init, ReplayInv

\* Every statement of the replay and of the others who use the table keeps what is due.
LEMMA ReplayStep ==
  ASSUME Replay!HintReplayAssumption, ReplayInv, [Replay!Next]_(Replay!vars)
  PROVE  ReplayInv'
<1> USE DEF ReplayInv
<1>1. CASE Replay!StoreHint
  BY <1>1 DEF Replay!StoreHint, Replay!replay, Replay!First
<1>2. CASE Replay!DirectWrite
  BY <1>2 DEF Replay!DirectWrite, Replay!replay, Replay!First
<1>3. CASE Replay!Age
  BY <1>3 DEF Replay!Age, Replay!replay, Replay!First
<1>4. CASE Replay!CleanupOldHints
  <2>1. rows' = {h \in rows : h > old} /\ UNCHANGED <<writes, old, got, at, batch, due>>
    BY <1>4 DEF Replay!CleanupOldHints, Replay!replay
  <2>2. Replay!First' = Replay!First
    BY <2>1 DEF Replay!First
  <2>3. \A h \in due : h \in rows => h <= old \/ h \in rows'
    BY <2>1
  <2> QED
    BY <2>1, <2>2, <2>3, Zenon
<1>5. CASE Replay!BeginReplay
  BY <1>5 DEF Replay!BeginReplay
<1>6. CASE Replay!FetchBatch
  BY <1>6 DEF Replay!FetchBatch
<1>7. CASE Replay!FetchFails
  BY <1>7 DEF Replay!FetchFails
<1>8. CASE Replay!ReplayHint
  BY <1>8 DEF Replay!ReplayHint, Replay!First
<1>9. CASE Replay!ReplayHintFails
  <2>1. ~(0 >= MaxReplays)
    BY DEF Replay!HintReplayAssumption
  <2>2. rows' = rows
    BY <1>9, <2>1 DEF Replay!ReplayHintFails, Replay!ReplayCount
  <2> QED
    BY <1>9, <2>2, Zenon DEF Replay!ReplayHintFails, Replay!NextHint
<1>10. CASE Replay!DeleteHint
  BY <1>10, Zenon DEF Replay!DeleteHint, Replay!NextHint
<1>11. CASE Replay!WaitBetween
  BY <1>11 DEF Replay!WaitBetween
<1>12. CASE UNCHANGED Replay!vars
  BY <1>12 DEF Replay!vars, Replay!First
<1> QED
  BY <1>1, <1>2, <1>3, <1>4, <1>5, <1>6, <1>7, <1>8, <1>9, <1>10, <1>11, <1>12
     DEF Replay!Next, Replay!Replaying, Replay!Returned

\* ReplayedMeansDelivered for tables and batches of any size, whichever statements and
\* calls fail: a replay that returns no error has delivered every hint that was due.
THEOREM ReplaysDeliver ==
  Replay!Spec => []ReplayedMeansDelivered
<1>1. Replay!Init => ReplayInv
  BY ReplayInit
<1>2. ReplayInv /\ [Replay!Next]_(Replay!vars) => ReplayInv'
  BY StorageAssumption, ReplayStep
<1>3. ReplayInv => ReplayedMeansDelivered
  BY DEF ReplayInv, ReplayedMeansDelivered, Replay!ReplayedMeansDelivered
<1> QED
  BY <1>1, <1>2, <1>3, PTL DEF Replay!Spec
==============================================================================
