----------------------- MODULE TelemetryRecordsProofs -----------------------
(***************************************************************************)
(* Every queued sample is accounted for, for all sizes, numbers of faults  *)
(* and of commands.                                                        *)
(*                                                                         *)
(* That the insert skips a sample says only that its number has a row.  So *)
(* the invariant says of any two samples that wait or have a row that they *)
(* have one number only if the numbers started again between the two, that *)
(* what waits is newer than the last such start, and that the sequence is  *)
(* past all numbers since.                                                 *)
(*                                                                         *)
(* That last_seen_at never goes back rests on the order of what waits: the *)
(* batch to be retried, then the queue, both by time, and nothing of them  *)
(* older than last_seen_at.  What retention deletes is older than a cutoff *)
(* that the clock can only leave further behind.                           *)
(***************************************************************************)
EXTENDS TelemetryRecords, TLAPS

Present == Waiting \cup records

Shape ==
    /\ now \in Nat /\ sequence \in Nat /\ sequence <= now /\ now <= MaxTime
    /\ queue \in Seq(Sample) /\ retryBatch \in Seq(Sample)
    /\ mode \in {"paused", "down"} => queue = <<>> /\ retryBatch = <<>>
    /\ records \subseteq stored /\ stored \subseteq Sample
    /\ renumbered \subseteq 0..now

\* Two samples of one number are of two numberings.
NumbersDiffer ==
    \A x, y \in Present : x.seq = y.seq /\ x.at < y.at =>
        \E t \in renumbered : x.at <= t /\ t < y.at

WaitingIsNew == \A x \in Waiting, t \in renumbered : t < x.at

NumbersPassed ==
    \A x \in Present : /\ x.at <= now
                       /\ x.seq <= sequence \/ \E t \in renumbered : x.at <= t

IInv == Shape /\ NumbersDiffer /\ WaitingIsNew /\ NumbersPassed /\ SamplesAreKept

-----------------------------------------------------------------------------
(* The queue.                                                              *)

\* A batch and what it leaves are together what was waiting.
LEMMA BatchSplits ==
    ASSUME Shape
    PROVE  /\ Batch \in Seq(Sample) /\ AfterBatch \in Seq(Sample)
           /\ Waiting = ToSet(Batch) \cup ToSet(AfterBatch)
  <1>1. CASE retryBatch # <<>>
    BY <1>1 DEF Shape, Batch, AfterBatch, Waiting
  <1>2. CASE retryBatch = <<>>
    <2> DEFINE n == IF Len(queue) < BatchSize THEN Len(queue) ELSE BatchSize
    <2>1. n \in 0..Len(queue)
      BY RecordsAssumption DEF Shape
    <2>2. Batch = SubSeq(queue, 1, n) /\ AfterBatch = SubSeq(queue, Len(Batch) + 1, Len(queue))
      BY <1>2 DEF Batch, AfterBatch
    <2> HIDE DEF n
    <2>3. Batch \in Seq(Sample) /\ Len(Batch) = n /\ \A i \in 1..n : Batch[i] = queue[i]
      BY <2>1, <2>2 DEF Shape
    <2>4. /\ AfterBatch \in Seq(Sample) /\ Len(AfterBatch) = Len(queue) - n
          /\ \A i \in 1..(Len(queue) - n) : AfterBatch[i] = queue[n + i]
      BY <2>1, <2>2, <2>3 DEF Shape
    <2>5. \A i \in 1..Len(queue) : i \in 1..n \/ (i - n \in 1..(Len(queue) - n) /\ n + (i - n) = i)
      BY <2>1 DEF Shape
    <2>6. ToSet(queue) = ToSet(Batch) \cup ToSet(AfterBatch)
      <3>1. /\ ToSet(queue) = {queue[i] : i \in 1..Len(queue)}
            /\ ToSet(Batch) = {Batch[i] : i \in 1..n}
            /\ ToSet(AfterBatch) = {AfterBatch[i] : i \in 1..(Len(queue) - n)}
        <4>1. DOMAIN queue = 1..Len(queue) /\ DOMAIN Batch = 1..n
              /\ DOMAIN AfterBatch = 1..(Len(queue) - n)
          BY <2>3, <2>4 DEF Shape
        <4> QED BY <4>1 DEF ToSet
      <3>2. ASSUME NEW i \in 1..Len(queue)
            PROVE  queue[i] \in ToSet(Batch) \cup ToSet(AfterBatch)
        <4>1. CASE i \in 1..n
          BY <2>3, <3>1, <4>1
        <4>2. CASE i - n \in 1..(Len(queue) - n) /\ n + (i - n) = i
          <5>1. AfterBatch[i - n] = queue[i]
            BY <2>4, <4>2
          <5> QED BY <3>1, <4>2, <5>1
        <4> QED BY <2>5, <4>1, <4>2
      <3>3. \A i \in 1..n : Batch[i] \in ToSet(queue)
        BY <2>1, <2>3, <3>1 DEF Shape
      <3>4. \A i \in 1..(Len(queue) - n) : AfterBatch[i] \in ToSet(queue)
        <4> SUFFICES ASSUME NEW i \in 1..(Len(queue) - n) PROVE AfterBatch[i] \in ToSet(queue)
          OBVIOUS
        <4>1. n + i \in 1..Len(queue) /\ AfterBatch[i] = queue[n + i]
          BY <2>1, <2>4 DEF Shape
        <4> QED BY <3>1, <4>1
      <3> QED BY <3>1, <3>2, <3>3, <3>4
    <2>7. ToSet(retryBatch) = {}
      BY <1>2 DEF ToSet
    <2> QED BY <2>3, <2>4, <2>6, <2>7 DEF Waiting
  <1> QED BY <1>1, <1>2

LEMMA EmptyWaits == queue = <<>> /\ retryBatch = <<>> => Waiting = {}
  BY DEF Waiting, ToSet

LEMMA WaitingIsSample == Shape => Waiting \subseteq Sample
  BY DEF Shape, Waiting, ToSet

LEMMA AppendWaits ==
    ASSUME queue \in Seq(Sample), NEW e \in Sample
    PROVE  Append(queue, e) \in Seq(Sample) /\ ToSet(Append(queue, e)) = ToSet(queue) \cup {e}
  <1>1. /\ Append(queue, e) \in Seq(Sample) /\ Len(Append(queue, e)) = Len(queue) + 1
        /\ Append(queue, e)[Len(queue) + 1] = e
        /\ \A i \in 1..Len(queue) : Append(queue, e)[i] = queue[i]
    OBVIOUS
  <1> QED BY <1>1 DEF ToSet

-----------------------------------------------------------------------------
(* Steps that number nothing anew.                                         *)

\* Nothing new waits and what gets a row was waiting: the numbers stay as
\* different as they were.
LEMMA NumbersStay ==
    ASSUME IInv, Waiting' \subseteq Waiting, records' \subseteq Present,
           renumbered' = renumbered, sequence' = sequence, now \in Nat, now' \in Nat, now <= now'
    PROVE  (NumbersDiffer /\ WaitingIsNew /\ NumbersPassed)'
  <1>1. Present' \subseteq Present /\ Present \subseteq Sample
    BY WaitingIsSample DEF Present, IInv, Shape
  <1>2. NumbersDiffer' /\ WaitingIsNew'
    BY <1>1 DEF IInv, NumbersDiffer, WaitingIsNew
  <1>3. NumbersPassed'
    BY <1>1 DEF IInv, NumbersPassed, Sample
  <1> QED BY <1>2, <1>3

\* What was settled or renumbered stays so while nothing leaves the queue,
\* the rows there have been, or what was lost.
LEMMA KeptStays ==
    ASSUME IInv, taken' = taken, Settled \subseteq Settled', stored \subseteq stored',
           renumbered \subseteq renumbered'
    PROVE  SamplesAreKept'
  BY DEF IInv, SamplesAreKept, Renumbered

\* The steps that leave the samples alone.
LEMMA OtherInv ==
    ASSUME IInv, now' \in Nat, now <= now', now' <= MaxTime,
           UNCHANGED <<queue, retryBatch, sequence, stored, taken, lost, renumbered>>,
           records' \subseteq records, mode' \in {"paused", "down"} => mode \in {"paused", "down"}
    PROVE  IInv'
  <1>1. Waiting' = Waiting /\ Settled' = Settled
    BY DEF Waiting, Settled
  <1>2. Shape'
    BY DEF IInv, Shape
  <1>3. (NumbersDiffer /\ WaitingIsNew /\ NumbersPassed)'
    BY <1>1, NumbersStay DEF IInv, Shape, Present
  <1>4. SamplesAreKept'
    BY <1>1, KeptStays
  <1> QED BY <1>2, <1>3, <1>4 DEF IInv

-----------------------------------------------------------------------------
(* The worker.                                                             *)

\* What a batch leaves without a row was renumbered.
LEMMA SkippedIsRenumbered ==
    ASSUME IInv, NEW e \in ToSet(Batch), e \notin New
    PROVE  e \in stored \/ Renumbered(e)
  <1>1. e \in Waiting /\ e \in Sample
    BY BatchSplits, WaitingIsSample DEF IInv
  <1>2. PICK f \in records : f.seq = e.seq
    BY DEF New
  <1>3. f \in Sample /\ f \in stored /\ f \in Present /\ e \in Present
    BY <1>1 DEF IInv, Shape, Present
  <1>4. CASE f.at = e.at
    BY <1>1, <1>2, <1>3, <1>4 DEF Sample
  <1>5. CASE f.at < e.at
    BY <1>2, <1>3, <1>5 DEF IInv, NumbersDiffer, Renumbered
  <1>6. CASE e.at < f.at
    <2>1. PICK t \in renumbered : e.at <= t /\ t < f.at
      BY <1>2, <1>3, <1>6 DEF IInv, NumbersDiffer
    <2>2. t < e.at
      BY <1>1, <2>1 DEF IInv, WaitingIsNew
    <2> QED BY <1>1, <1>3, <2>1, <2>2 DEF IInv, Shape, Sample
  <1> QED BY <1>1, <1>3, <1>4, <1>5, <1>6 DEF Sample

\* The batch leaves the queue, and its new samples have rows.
LEMMA PersistInv ==
    ASSUME IInv, Persist
    PROVE  IInv'
  <1>1. Batch \in Seq(Sample) /\ AfterBatch \in Seq(Sample)
        /\ Waiting = ToSet(Batch) \cup ToSet(AfterBatch)
    BY BatchSplits DEF IInv
  <1>2. /\ queue' = AfterBatch /\ retryBatch' = <<>>
        /\ records' = records \cup New /\ stored' = stored \cup New
        /\ UNCHANGED <<now, mode, sequence, taken, lost, renumbered>>
    BY DEF Persist, Store, manager
  <1>3. Waiting' = ToSet(AfterBatch)
    BY <1>2 DEF Waiting, ToSet
  <1>4. New \subseteq Waiting /\ New \subseteq Sample
    BY <1>1, WaitingIsSample DEF New, IInv
  <1>5. Shape'
    <2>1. mode \notin {"paused", "down"}
      BY DEF Persist, Working
    <2> QED BY <1>1, <1>2, <1>4, <2>1 DEF IInv, Shape
  <1>6. (NumbersDiffer /\ WaitingIsNew /\ NumbersPassed)'
    <2>1. records' \subseteq Present /\ Waiting' \subseteq Waiting
      BY <1>1, <1>2, <1>3, <1>4 DEF Present
    <2> QED BY <1>2, <2>1, NumbersStay DEF IInv, Shape
  <1>7. SamplesAreKept'
    <2> SUFFICES ASSUME NEW e \in taken, e \notin Settled' PROVE Renumbered(e)'
      BY <1>2 DEF SamplesAreKept
    <2>1. Renumbered(e) => Renumbered(e)'
      BY <1>2 DEF Renumbered
    <2>2. e \notin stored /\ e \notin New /\ e \notin lost /\ e \notin ToSet(AfterBatch)
      BY <1>2, <1>3 DEF Settled
    <2>3. CASE e \in ToSet(Batch)
      BY <2>1, <2>2, <2>3, SkippedIsRenumbered
    <2>4. CASE e \notin ToSet(Batch)
      BY <1>1, <2>1, <2>2, <2>4 DEF IInv, SamplesAreKept, Settled
    <2> QED BY <2>3, <2>4
  <1> QED BY <1>5, <1>6, <1>7 DEF IInv

\* The batch is kept, with or without its rows.
LEMMA PersistFailsInv ==
    ASSUME IInv, PersistFails
    PROVE  IInv'
  <1>1. Batch \in Seq(Sample) /\ AfterBatch \in Seq(Sample)
        /\ Waiting = ToSet(Batch) \cup ToSet(AfterBatch)
    BY BatchSplits DEF IInv
  <1>2. /\ queue' = AfterBatch /\ retryBatch' = Batch
        /\ UNCHANGED <<now, mode, sequence, taken, lost, renumbered>>
    BY DEF PersistFails, Retain, manager
  <1>3. \/ records' = records \cup New /\ stored' = stored \cup New
        \/ UNCHANGED <<records, stored>>
    BY DEF PersistFails, Store, table
  <1>4. Waiting' = Waiting
    BY <1>1, <1>2 DEF Waiting
  <1>5. New \subseteq Waiting /\ New \subseteq Sample
    BY <1>1, WaitingIsSample DEF New, IInv
  <1>6. Shape'
    <2>1. mode \notin {"paused", "down"}
      BY DEF PersistFails, Working
    <2> QED BY <1>1, <1>2, <1>3, <1>5, <2>1 DEF IInv, Shape
  <1>7. (NumbersDiffer /\ WaitingIsNew /\ NumbersPassed)'
    <2>1. records' \subseteq Present
      BY <1>3, <1>5 DEF Present
    <2> QED BY <1>2, <1>4, <2>1, NumbersStay DEF IInv, Shape
  <1>8. SamplesAreKept'
    BY <1>2, <1>3, <1>4, KeptStays DEF Settled
  <1> QED BY <1>6, <1>7, <1>8 DEF IInv

-----------------------------------------------------------------------------
(* Generation.                                                             *)

LEMMA GenerateInv ==
    ASSUME IInv, Generate
    PROVE  IInv'
  <1> DEFINE e == [seq |-> sequence + 1, at |-> now + 1]
  <1>1. /\ now' = now + 1 /\ sequence' = sequence + 1 /\ now < MaxTime
        /\ mode' = mode /\ mode = "running"
        /\ UNCHANGED <<retryBatch, records, stored, lost, renumbered>>
    BY DEF Generate, table
  <1>2. e \in Sample
    BY <1>1, RecordsAssumption DEF IInv, Shape, Sample
  <1>3. \/ queue' = Append(queue, e) /\ taken' = taken \cup {e}
        \/ UNCHANGED <<queue, taken>>
    BY DEF Generate, Enqueue
  <1>4. /\ queue' \in Seq(Sample)
        /\ \/ Waiting' = Waiting \cup {e} /\ taken' = taken \cup {e}
           \/ Waiting' = Waiting /\ taken' = taken
    BY <1>1, <1>2, <1>3, AppendWaits DEF IInv, Shape, Waiting
  <1>5. Shape'
    <2>1. now' \in Nat /\ sequence' \in Nat /\ sequence' <= now' /\ now' <= MaxTime
      BY <1>1, RecordsAssumption DEF IInv, Shape
    <2>2. renumbered' \subseteq 0..now'
      BY <1>1 DEF IInv, Shape
    <2> QED BY <1>1, <1>4, <2>1, <2>2 DEF IInv, Shape
  <1> HIDE DEF e
  <1>6. e.at = now + 1 /\ e.seq = sequence + 1
    BY DEF e
  <1>7. Present' \subseteq Present \cup {e} /\ Present \subseteq Sample
    BY <1>1, <1>4, WaitingIsSample DEF Present, IInv, Shape
  <1>8. NumbersDiffer'
    <2> SUFFICES ASSUME NEW x \in Present', NEW y \in Present', x.seq = y.seq, x.at < y.at
                 PROVE  \E t \in renumbered : x.at <= t /\ t < y.at
      BY <1>1 DEF NumbersDiffer
    <2>1. CASE x \in Present /\ y \in Present
      BY <2>1 DEF IInv, NumbersDiffer
    <2>2. CASE x \in Present /\ y = e
      <3>1. PICK t \in renumbered : x.at <= t
        <4>1. x.seq \in Nat /\ sequence \in Nat /\ x.seq = sequence + 1
          BY <1>6, <1>7, <2>2 DEF IInv, Shape, Sample
        <4>2. x.seq <= sequence \/ \E t \in renumbered : x.at <= t
          BY <2>2 DEF IInv, NumbersPassed
        <4> QED BY <4>1, <4>2
      <3> QED BY <1>6, <2>2, <3>1 DEF IInv, Shape
    <2>3. CASE x = e
      <3>1. y = e \/ y.at <= now
        BY <1>7 DEF IInv, NumbersPassed
      <3> QED BY <1>6, <1>7, <2>3, <3>1 DEF IInv, Shape, Sample
    <2> QED BY <1>7, <2>1, <2>2, <2>3
  <1>9. WaitingIsNew'
    BY <1>1, <1>4, <1>6 DEF IInv, Shape, WaitingIsNew
  <1>10. NumbersPassed'
    <2> SUFFICES ASSUME NEW x \in Present'
                 PROVE  /\ x.at <= now + 1
                        /\ x.seq <= sequence + 1 \/ \E t \in renumbered : x.at <= t
      BY <1>1 DEF NumbersPassed
    <2>1. CASE x = e
      BY <1>6, <2>1 DEF IInv, Shape
    <2>2. CASE x \in Present
      <3>1. x.seq \in Nat /\ x.at \in Nat /\ now \in Nat /\ sequence \in Nat
        BY <1>7, <2>2 DEF IInv, Shape, Sample
      <3>2. x.at <= now /\ (x.seq <= sequence \/ \E t \in renumbered : x.at <= t)
        BY <2>2 DEF IInv, NumbersPassed
      <3> QED BY <3>1, <3>2
    <2> QED BY <1>7, <2>1, <2>2
  <1>11. SamplesAreKept'
    BY <1>1, <1>4 DEF IInv, SamplesAreKept, Settled, Renumbered
  <1> QED BY <1>5, <1>8, <1>9, <1>10, <1>11 DEF IInv

-----------------------------------------------------------------------------
(* Commands.                                                               *)

\* The queue goes, and the numbers may start again: over no rows, or over
\* rows that all have an earlier instant than what follows.
LEMMA QueueGoes ==
    ASSUME IInv, queue' = <<>>, retryBatch' = <<>>, Waiting \subseteq lost',
           lost \subseteq lost', UNCHANGED <<now, stored, taken>>,
           \/ UNCHANGED <<sequence, records, renumbered>>
           \/ sequence' = 0 /\ records' = {} /\ renumbered' = renumbered
           \/ sequence' = 0 /\ records' = records /\ renumbered' = renumbered \cup {now}
    PROVE  IInv'
  <1>1. Waiting' = {}
    BY DEF Waiting, ToSet
  <1>2. Present' = records' /\ records' \subseteq Present /\ Present \subseteq Sample
    BY <1>1, WaitingIsSample DEF Present, IInv, Shape
  <1>3. Shape'
    <2>1. sequence' \in Nat /\ sequence' <= now
      BY DEF IInv, Shape
    <2>2. renumbered' \subseteq 0..now
      <3>1. now \in 0..now /\ renumbered \subseteq 0..now
        BY DEF IInv, Shape
      <3>2. renumbered' = renumbered \/ renumbered' = renumbered \cup {now}
        OBVIOUS
      <3> QED BY <3>1, <3>2
    <2>3. records' \subseteq stored
      BY DEF IInv, Shape
    <2> QED BY <2>1, <2>2, <2>3 DEF IInv, Shape
  <1>4. NumbersDiffer'
    BY <1>2 DEF IInv, NumbersDiffer
  <1>5. WaitingIsNew'
    BY <1>1 DEF WaitingIsNew
  <1>6. NumbersPassed'
    BY <1>2 DEF IInv, NumbersPassed
  <1>7. SamplesAreKept'
    BY KeptStays DEF Settled
  <1> QED BY <1>3, <1>4, <1>5, <1>6, <1>7 DEF IInv

LEMMA CommandsInv ==
    ASSUME IInv, WorkerEnds \/ TimesOut \/ Crash \/ Restart
    PROVE  IInv'
  <1>1. CASE WorkerEnds
    <2>1. Waiting = {}
      BY <1>1, EmptyWaits DEF WorkerEnds, Drained
    <2>2. \/ sequence' = sequence /\ UNCHANGED <<records, renumbered>>
          \/ sequence' = 0 /\ records' = {} /\ renumbered' = renumbered
          \/ sequence' = 0 /\ records' = records /\ renumbered' = renumbered \cup {now}
      BY <1>1 DEF WorkerEnds, StopReturns, Clear, KeepRows
    <2>3. queue' = <<>> /\ retryBatch' = <<>> /\ UNCHANGED <<now, stored, taken, lost>>
      BY <1>1 DEF WorkerEnds, StopReturns
    <2> QED BY <2>1, <2>2, <2>3, QueueGoes
  <1>2. CASE TimesOut
    <2>1. \/ sequence' = sequence /\ UNCHANGED <<records, renumbered>>
          \/ sequence' = 0 /\ records' = {} /\ renumbered' = renumbered
          \/ sequence' = 0 /\ records' = records /\ renumbered' = renumbered \cup {now}
      BY <1>2 DEF TimesOut, StopReturns, Clear, KeepRows
    <2>2. /\ queue' = <<>> /\ retryBatch' = <<>> /\ UNCHANGED <<now, stored, taken>>
          /\ lost' = lost \cup Waiting
      BY <1>2 DEF TimesOut, StopReturns
    <2> QED BY <2>1, <2>2, QueueGoes
  <1>3. CASE Crash
    BY <1>3, QueueGoes DEF Crash, table
  <1>4. CASE Restart
    <2>1. queue = <<>> /\ retryBatch = <<>>
      BY <1>4 DEF Restart, IInv, Shape
    <2>2. Waiting = {}
      BY <2>1, EmptyWaits
    <2>3. /\ sequence' = 0 /\ renumbered' = renumbered \cup {now}
          /\ UNCHANGED <<now, queue, retryBatch, records, stored, taken, lost>>
      BY <1>4 DEF Restart, table
    <2> QED BY <2>1, <2>2, <2>3, QueueGoes
  <1> QED BY <1>1, <1>2, <1>3, <1>4

-----------------------------------------------------------------------------

LEMMA InitInv == Init => IInv
  <1> SUFFICES ASSUME Init PROVE IInv
    OBVIOUS
  <1>1. Waiting = {}
    BY EmptyWaits DEF Init
  <1>2. Present = {}
    BY <1>1 DEF Init, Present
  <1>3. Shape
    BY RecordsAssumption DEF Init, Shape
  <1> QED BY <1>1, <1>2, <1>3 DEF Init, IInv, NumbersDiffer, WaitingIsNew, NumbersPassed,
             SamplesAreKept

LEMMA NextInv == IInv /\ [Next]_vars => IInv'
  <1> SUFFICES ASSUME IInv, [Next]_vars PROVE IInv'
    OBVIOUS
  <1>1. CASE Persist \/ PersistFails
    BY <1>1, PersistInv, PersistFailsInv
  <1>2. CASE Generate
    BY <1>2, GenerateInv
  <1>3. CASE WorkerEnds \/ TimesOut \/ Crash \/ Restart
    BY <1>3, CommandsInv
  <1>4. CASE Tick
    <2>1. now' \in Nat /\ now <= now' /\ now' <= MaxTime
      BY <1>4, RecordsAssumption DEF Tick, IInv, Shape
    <2> QED BY <1>4, <2>1, OtherInv DEF Tick, manager, table
  <1>5. CASE Resume \/ \E cmd \in {"pause", "reset", "restart", "shutdown"} : Stop(cmd)
    BY <1>5, OtherInv DEF Resume, Stop, table, IInv, Shape
  <1>6. CASE Retention \/ RunFails
    BY <1>6, OtherInv DEF Retention, RunOnce, Select, DeleteBatch, RunFails, manager, table,
       IInv, Shape
  <1>7. CASE UNCHANGED vars
    BY <1>7, OtherInv DEF vars, manager, table, IInv, Shape
  <1> QED BY <1>1, <1>2, <1>3, <1>4, <1>5, <1>6, <1>7 DEF Next

\* Whatever fails, is retried, drained, cleared or cut off, a queued sample
\* waits, had its row, went with its worker, or met a row that had its number
\* from before the numbers started again.
THEOREM SamplesAccountedFor == Spec => []SamplesAreKept
  <1>1. Init => IInv
    BY InitInv
  <1>2. IInv /\ [Next]_vars => IInv'
    BY NextInv
  <1>3. IInv => SamplesAreKept
    BY DEF IInv
  <1> QED BY <1>1, <1>2, <1>3, PTL DEF Spec

-----------------------------------------------------------------------------
(* last_seen_at.  What waits is in the order of its instants, none of it   *)
(* but a batch that is retried from before the host was last seen, and     *)
(* that one ends with an instant the host was not seen after.              *)

InTime(s) == \A i, j \in DOMAIN s : i <= j => s[i].at <= s[j].at

Latest(s) == s[Len(s)].at

SeenInTime ==
    /\ lastSeen \in Nat /\ lastSeen <= now
    /\ \A e \in records : e.at <= lastSeen
    /\ InTime(queue) /\ InTime(retryBatch)
    /\ \A x \in ToSet(retryBatch), y \in ToSet(queue) : x.at <= y.at
    /\ \A y \in ToSet(queue) : lastSeen <= y.at
    /\ retryBatch # <<>> => lastSeen <= Latest(retryBatch)

LEMMA SampleFacts ==
    ASSUME NEW s \in Seq(Sample)
    PROVE  /\ \A i \in DOMAIN s : s[i] \in Sample /\ s[i].at \in Nat
           /\ \A e \in ToSet(s) : \E i \in DOMAIN s : e = s[i]
           /\ \A i \in DOMAIN s : s[i] \in ToSet(s)
           /\ DOMAIN s = 1..Len(s) /\ Len(s) \in Nat
           /\ s # <<>> => Len(s) \in DOMAIN s /\ \A i \in DOMAIN s : i <= Len(s)
  <1>1. DOMAIN s = 1..Len(s) /\ Len(s) \in Nat /\ \A i \in 1..Len(s) : s[i] \in Sample
    OBVIOUS
  <1>2. \A e \in Sample : e.at \in Nat
    BY RecordsAssumption DEF Sample
  <1>3. s # <<>> => Len(s) # 0
    OBVIOUS
  <1>4. s # <<>> => Len(s) \in 1..Len(s) /\ \A i \in 1..Len(s) : i <= Len(s)
    BY <1>1, <1>3
  <1> QED BY <1>1, <1>2, <1>4 DEF ToSet

LEMMA MaxIsLatest ==
    ASSUME NEW s \in Seq(Sample), s # <<>>, InTime(s)
    PROVE  /\ Max({e.at : e \in ToSet(s)}) = Latest(s)
           /\ Latest(s) \in Nat
           /\ \A e \in ToSet(s) : e.at <= Latest(s)
           /\ \E e \in ToSet(s) : e.at = Latest(s)
  <1> DEFINE S == {e.at : e \in ToSet(s)}
  <1>1. /\ Latest(s) \in Nat /\ Latest(s) \in S /\ \E e \in ToSet(s) : e.at = Latest(s)
    BY SampleFacts DEF Latest
  <1>2. \A e \in ToSet(s) : e.at <= Latest(s) /\ e.at \in Nat
    BY SampleFacts DEF InTime, Latest
  <1>3. \A x \in S : x \in Nat /\ x <= Latest(s)
    BY <1>2
  <1> HIDE DEF S
  <1>4. \A x \in S : (\A y \in S : x >= y) => x = Latest(s)
    BY <1>1, <1>3
  <1>5. \A y \in S : Latest(s) >= y
    BY <1>1, <1>3
  <1>6. Max(S) = Latest(s)
    BY <1>1, <1>4, <1>5 DEF Max
  <1> QED BY <1>1, <1>2, <1>6 DEF S

\* The batch ends with what the host is seen at next, and all the rest of
\* the queue comes after it.
LEMMA BatchInTime ==
    ASSUME IInv, SeenInTime, Batch # <<>>
    PROVE  /\ InTime(Batch) /\ InTime(AfterBatch)
           /\ Max({e.at : e \in ToSet(Batch)}) = Latest(Batch)
           /\ Latest(Batch) \in Nat /\ lastSeen <= Latest(Batch) /\ Latest(Batch) <= now
           /\ \A e \in ToSet(Batch) : e.at <= Latest(Batch)
           /\ \A y \in ToSet(AfterBatch) : Latest(Batch) <= y.at /\ y.at \in Nat
  <1>1. /\ Batch \in Seq(Sample) /\ AfterBatch \in Seq(Sample)
        /\ Waiting = ToSet(Batch) \cup ToSet(AfterBatch)
    BY BatchSplits DEF IInv
  <1>2. /\ queue \in Seq(Sample) /\ retryBatch \in Seq(Sample) /\ now \in Nat
        /\ lastSeen \in Nat /\ InTime(queue)
    BY DEF IInv, Shape, SeenInTime
  <1>3. \A y \in ToSet(AfterBatch) : y.at \in Nat
    BY <1>1, SampleFacts
  <1>4. /\ InTime(Batch) /\ InTime(AfterBatch)
        /\ \A x \in ToSet(Batch), y \in ToSet(AfterBatch) : x.at <= y.at
        /\ lastSeen <= Latest(Batch)
    <2>1. CASE retryBatch # <<>>
      <3>1. Batch = retryBatch /\ AfterBatch = queue
        BY <2>1 DEF Batch, AfterBatch
      <3> QED BY <2>1, <3>1 DEF SeenInTime
    <2>2. CASE retryBatch = <<>>
      <3> DEFINE n == IF Len(queue) < BatchSize THEN Len(queue) ELSE BatchSize
      <3>1. n \in 0..Len(queue) /\ n \in Nat /\ Len(queue) \in Nat
        BY <1>2, RecordsAssumption
      <3>2. Batch = SubSeq(queue, 1, n) /\ AfterBatch = SubSeq(queue, Len(Batch) + 1, Len(queue))
        BY <2>2 DEF Batch, AfterBatch
      <3> HIDE DEF n
      <3>3. Len(Batch) = n /\ \A i \in 1..n : Batch[i] = queue[i]
        BY <1>2, <3>1, <3>2
      <3>4. /\ Len(AfterBatch) = Len(queue) - n
            /\ \A i \in 1..(Len(queue) - n) : AfterBatch[i] = queue[n + i]
        BY <1>2, <3>1, <3>2, <3>3
      <3>5. /\ DOMAIN Batch = 1..n /\ DOMAIN AfterBatch = 1..(Len(queue) - n)
            /\ DOMAIN queue = 1..Len(queue)
        BY <1>1, <1>2, <3>3, <3>4
      <3>6. \A i \in 1..n : i \in 1..Len(queue) /\ \A j \in 1..(Len(queue) - n) : i <= n + j
        BY <3>1
      <3>7. \A j \in 1..(Len(queue) - n) : /\ n + j \in 1..Len(queue)
                                          /\ \A k \in 1..(Len(queue) - n) : j <= k => n + j <= n + k
        BY <3>1
      <3>8. InTime(Batch)
        BY <1>2, <3>3, <3>5, <3>6 DEF InTime
      <3>9. InTime(AfterBatch)
        BY <1>2, <3>4, <3>5, <3>7 DEF InTime
      <3>10. ASSUME NEW x \in ToSet(Batch), NEW y \in ToSet(AfterBatch)
             PROVE  x.at <= y.at
        <4>1. PICK i \in 1..n : x = Batch[i]
          BY <1>1, <3>5, SampleFacts
        <4>2. PICK j \in 1..(Len(queue) - n) : y = AfterBatch[j]
          BY <1>1, <3>5, SampleFacts
        <4>3. x = queue[i] /\ y = queue[n + j]
          BY <3>3, <3>4, <4>1, <4>2
        <4>4. i \in DOMAIN queue /\ n + j \in DOMAIN queue /\ i <= n + j
          BY <3>5, <3>6, <3>7
        <4> QED BY <1>2, <4>3, <4>4 DEF InTime
      <3>11. lastSeen <= Latest(Batch)
        <4>1. Len(Batch) \in 1..n
          BY <1>1, <3>5, SampleFacts
        <4>2. Latest(Batch) = queue[Len(Batch)].at /\ Len(Batch) \in DOMAIN queue
          BY <3>3, <3>5, <3>6, <4>1 DEF Latest
        <4>3. queue[Len(Batch)] \in ToSet(queue)
          BY <1>2, <4>2, SampleFacts
        <4> QED BY <4>2, <4>3 DEF SeenInTime
      <3> QED BY <3>8, <3>9, <3>10, <3>11
    <2> QED BY <2>1, <2>2
  <1>5. /\ Max({e.at : e \in ToSet(Batch)}) = Latest(Batch)
        /\ Latest(Batch) \in Nat
        /\ \A e \in ToSet(Batch) : e.at <= Latest(Batch)
        /\ \E e \in ToSet(Batch) : e.at = Latest(Batch)
    BY <1>1, <1>4, MaxIsLatest
  <1>6. PICK e \in ToSet(Batch) : e.at = Latest(Batch)
    BY <1>5
  <1>7. Latest(Batch) <= now
    BY <1>1, <1>6 DEF IInv, NumbersPassed, Present
  <1>8. \A y \in ToSet(AfterBatch) : Latest(Batch) <= y.at
    BY <1>4, <1>6
  <1> QED BY <1>3, <1>4, <1>5, <1>7, <1>8

\* A step of the worker: the host is not seen to go back.
LEMMA StoreSeen ==
    ASSUME IInv, SeenInTime, Persist \/ PersistFails
    PROVE  SeenInTime' /\ lastSeen' >= lastSeen
  <1>1. /\ Batch # <<>> /\ now' = now /\ now \in Nat /\ lastSeen \in Nat /\ lastSeen <= now
        /\ queue' = AfterBatch /\ retryBatch' \in {<<>>, Batch}
        /\ \/ records' = records \cup New /\ lastSeen' = Max({e.at : e \in ToSet(Batch)})
           \/ records' = records /\ lastSeen' = lastSeen
    BY DEF Persist, PersistFails, Working, Retain, Store, table, IInv, Shape, SeenInTime
  <1>2. /\ InTime(Batch) /\ InTime(AfterBatch)
        /\ Max({e.at : e \in ToSet(Batch)}) = Latest(Batch)
        /\ Latest(Batch) \in Nat /\ lastSeen <= Latest(Batch) /\ Latest(Batch) <= now
        /\ \A e \in ToSet(Batch) : e.at <= Latest(Batch)
        /\ \A y \in ToSet(AfterBatch) : Latest(Batch) <= y.at /\ y.at \in Nat
    BY <1>1, BatchInTime
  <1>3. /\ Batch \in Seq(Sample) /\ \A e \in ToSet(Batch) : e.at \in Nat
        /\ \A e \in records : e.at \in Nat /\ e.at <= lastSeen
    <2>1. Batch \in Seq(Sample)
      BY BatchSplits DEF IInv
    <2>2. \A e \in records : e \in Sample
      BY DEF IInv, Shape
    <2>3. \A e \in ToSet(Batch) : e.at \in Nat
      BY <2>1, SampleFacts
    <2>4. \A e \in Sample : e.at \in Nat
      <3>1. \A e \in Sample : e.at \in 1..MaxTime
        BY DEF Sample
      <3> QED BY <3>1
    <2>5. \A e \in records : e.at <= lastSeen
      BY DEF SeenInTime
    <2> QED BY <2>1, <2>2, <2>3, <2>4, <2>5
  <1>4. /\ lastSeen' \in Nat /\ lastSeen' >= lastSeen /\ lastSeen' <= Latest(Batch)
        /\ lastSeen' <= now
    BY <1>1, <1>2
  <1>5. \A e \in records' : e.at <= lastSeen'
    <2>1. New \subseteq ToSet(Batch)
      BY DEF New
    <2> QED BY <1>1, <1>2, <1>3, <2>1
  <1>6. /\ ToSet(<<>>) = {} /\ InTime(<<>>)
    BY DEF ToSet, InTime
  <1>7. \A y \in ToSet(AfterBatch) : lastSeen' <= y.at
    BY <1>2, <1>4
  <1>8. \A x \in ToSet(Batch), y \in ToSet(AfterBatch) : x.at <= y.at
    BY <1>2, <1>3
  <1>9. InTime(queue') /\ InTime(retryBatch')
    BY <1>1, <1>2, <1>6
  <1>10. /\ \A x \in ToSet(retryBatch'), y \in ToSet(queue') : x.at <= y.at
         /\ \A y \in ToSet(queue') : lastSeen' <= y.at
         /\ retryBatch' # <<>> => lastSeen' <= Latest(retryBatch')
    BY <1>1, <1>4, <1>6, <1>7, <1>8
  <1> QED BY <1>1, <1>4, <1>5, <1>9, <1>10 DEF SeenInTime

LEMMA GenerateSeen ==
    ASSUME IInv, SeenInTime, Generate
    PROVE  SeenInTime' /\ lastSeen' = lastSeen
  <1> DEFINE e == [seq |-> sequence + 1, at |-> now + 1]
  <1>1. /\ now' = now + 1 /\ now < MaxTime /\ now \in Nat /\ sequence \in Nat
        /\ sequence <= now /\ queue \in Seq(Sample) /\ retryBatch \in Seq(Sample)
        /\ UNCHANGED <<retryBatch, records, lastSeen>>
        /\ queue' = Append(queue, e) \/ queue' = queue
    BY DEF Generate, Enqueue, table, IInv, Shape
  <1>2. e \in Sample /\ e.at = now + 1
    BY <1>1, RecordsAssumption DEF Sample
  <1> HIDE DEF e
  <1>3. lastSeen \in Nat /\ lastSeen <= now
    BY DEF SeenInTime
  <1>4. /\ \A x \in ToSet(queue) : x.at \in Nat /\ x.at <= now
        /\ \A x \in ToSet(retryBatch) : x.at \in Nat /\ x.at <= now
    BY <1>1, SampleFacts DEF IInv, NumbersPassed, Present, Waiting
  <1>5. CASE queue' = queue
    BY <1>1, <1>3, <1>5 DEF SeenInTime
  <1>6. CASE queue' = Append(queue, e)
    <2>1. ToSet(queue') = ToSet(queue) \cup {e}
      BY <1>1, <1>2, <1>6, AppendWaits
    <2>2. /\ Len(queue) \in Nat /\ DOMAIN queue = 1..Len(queue)
          /\ DOMAIN queue' = 1..(Len(queue) + 1)
          /\ \A i \in 1..Len(queue) : queue'[i] = queue[i]
          /\ queue'[Len(queue) + 1] = e
      BY <1>1, <1>2, <1>6
    <2>3. InTime(queue')
      <3> SUFFICES ASSUME NEW i \in DOMAIN queue', NEW j \in DOMAIN queue', i <= j
                   PROVE  queue'[i].at <= queue'[j].at
        BY DEF InTime
      <3>1. CASE j \in DOMAIN queue
        <4>1. i \in DOMAIN queue
          BY <2>2, <3>1
        <4> QED BY <2>2, <3>1, <4>1 DEF SeenInTime, InTime
      <3>2. CASE j \notin DOMAIN queue
        <4>1. j = Len(queue) + 1 /\ queue'[j].at = now + 1
          BY <1>2, <2>2, <3>2
        <4>2. CASE i = j
          BY <1>1, <4>1, <4>2
        <4>3. CASE i # j
          <5>1. i \in DOMAIN queue /\ queue'[i] = queue[i]
            BY <2>2, <4>1, <4>3
          <5>2. queue[i] \in ToSet(queue)
            BY <1>1, <5>1, SampleFacts
          <5> QED BY <1>1, <1>4, <4>1, <5>1, <5>2
        <4> QED BY <4>2, <4>3
      <3> QED BY <3>1, <3>2
    <2>4. /\ \A x \in ToSet(retryBatch), y \in ToSet(queue') : x.at <= y.at
          /\ \A y \in ToSet(queue') : lastSeen <= y.at
      BY <1>1, <1>2, <1>3, <1>4, <2>1 DEF SeenInTime
    <2> QED BY <1>1, <1>3, <2>3, <2>4 DEF SeenInTime
  <1> QED BY <1>1, <1>5, <1>6

LEMMA OtherSeen ==
    ASSUME IInv, SeenInTime, now' \in Nat, now <= now', records' \subseteq records,
           lastSeen' = lastSeen,
           \/ UNCHANGED <<queue, retryBatch>>
           \/ queue' = <<>> /\ retryBatch' = <<>>
    PROVE  SeenInTime' /\ lastSeen' = lastSeen
  <1>1. lastSeen \in Nat /\ now \in Nat /\ lastSeen <= now' /\ \A e \in records' : e.at <= lastSeen
    BY DEF IInv, Shape, SeenInTime
  <1>2. CASE UNCHANGED <<queue, retryBatch>>
    BY <1>1, <1>2 DEF SeenInTime
  <1>3. CASE queue' = <<>> /\ retryBatch' = <<>>
    BY <1>1, <1>3 DEF SeenInTime, InTime, ToSet
  <1> QED BY <1>2, <1>3

LEMMA NextSeen ==
    ASSUME IInv, SeenInTime, [Next]_vars
    PROVE  SeenInTime' /\ lastSeen' >= lastSeen
  <1>1. lastSeen \in Nat /\ now \in Nat
    BY DEF SeenInTime, IInv, Shape
  <1>2. CASE Persist \/ PersistFails
    BY <1>2, StoreSeen
  <1>3. CASE Generate
    BY <1>1, <1>3, GenerateSeen
  <1>4. CASE Tick
    BY <1>1, <1>4, OtherSeen DEF Tick, table
  <1>5. CASE WorkerEnds \/ TimesOut
    BY <1>1, <1>5, OtherSeen DEF WorkerEnds, TimesOut, StopReturns, Clear, KeepRows
  <1>6. CASE Crash \/ Restart \/ Resume
    BY <1>1, <1>6, OtherSeen DEF Crash, Restart, Resume, table
  <1>7. CASE \E cmd \in {"pause", "reset", "restart", "shutdown"} : Stop(cmd)
    BY <1>1, <1>7, OtherSeen DEF Stop, table
  <1>8. CASE Retention \/ RunFails
    BY <1>1, <1>8, OtherSeen DEF Retention, RunOnce, Select, DeleteBatch, RunFails, table
  <1>9. CASE UNCHANGED vars
    BY <1>1, <1>9, OtherSeen DEF vars, table
  <1> QED BY <1>2, <1>3, <1>4, <1>5, <1>6, <1>7, <1>8, <1>9 DEF Next

LEMMA SeenInvariance == Spec => [](IInv /\ SeenInTime)
  <1>1. Init => SeenInTime
    <2> SUFFICES ASSUME Init PROVE SeenInTime
      OBVIOUS
    <2>1. /\ lastSeen = 0 /\ now = 0 /\ records = {} /\ queue = <<>> /\ retryBatch = <<>>
      BY DEF Init
    <2> QED BY <2>1 DEF SeenInTime, InTime, ToSet
  <1>2. IInv /\ SeenInTime /\ [Next]_vars => SeenInTime'
    BY NextSeen
  <1> QED BY InitInv, NextInv, <1>1, <1>2, PTL DEF Spec

\* No row is newer than last_seen_at of the host, which never goes back,
\* through failed batches, retries, drains, resets and crashes (_persist).
THEOREM HostIsSeenForward == Spec => LastSeenIsRight
  <1>1. ASSUME IInv, SeenInTime, [Next]_vars
        PROVE  [/\ lastSeen' >= lastSeen
                /\ \A e \in records' : e.at <= lastSeen']_vars
    BY <1>1, NextSeen DEF SeenInTime
  <1> QED BY SeenInvariance, <1>1, PTL DEF Spec, LastSeenIsRight

-----------------------------------------------------------------------------
(* Retention.  A run selects below its cutoff, and the clock goes on.      *)

Runs == [at : {"off", "asleep", "selecting", "deleting"}, cutoff : Int, left : Nat,
         ids : SUBSET Sample]

RunInTime ==
    /\ run \in Runs
    /\ run.at \in {"selecting", "deleting"} => run.cutoff <= now - RetentionAge
    /\ \A e \in run.ids : e.at < run.cutoff

LEMMA NoRun == /\ Asleep \in Runs /\ Off \in Runs
               /\ Asleep.at = "asleep" /\ Off.at = "off" /\ Asleep.ids = {} /\ Off.ids = {}
  BY DEF Asleep, Off, Runs

LEMMA RunEndsInTime ==
    ASSUME run' \in {Asleep, Off}
    PROVE  RunInTime'
  BY NoRun DEF RunInTime

LEMMA RunStays ==
    ASSUME IInv, RunInTime, now' \in Nat, now <= now',
           run' = run \/ run' = [run EXCEPT !.left = 0]
    PROVE  RunInTime'
  <1>1. /\ run' \in Runs /\ run'.at = run.at /\ run'.cutoff = run.cutoff /\ run'.ids = run.ids
    BY DEF RunInTime, Runs
  <1>2. now \in Nat /\ run.cutoff \in Int /\ RetentionAge \in Nat
    BY RecordsAssumption DEF IInv, Shape, RunInTime, Runs
  <1>3. run.cutoff <= now - RetentionAge => run.cutoff <= now' - RetentionAge
    BY <1>2
  <1> QED BY <1>1, <1>3 DEF RunInTime

LEMMA RetentionInTime ==
    ASSUME IInv, RunInTime, Retention \/ RunFails
    PROVE  RunInTime'
  <1>1. /\ now' = now /\ now \in Nat /\ RetentionAge \in Nat
        /\ MaxBatches \in Nat
    BY RecordsAssumption DEF Retention, RunOnce, Select, DeleteBatch, RunFails, IInv, Shape
  <1>2. CASE run' \in {Asleep, Off}
    BY <1>2, RunEndsInTime
  <1>3. CASE RunOnce
    <2>1. PICK c \in Int : c = now - RetentionAge
      BY <1>1
    <2>2. run' \in Runs /\ run'.cutoff = c /\ run'.ids = {}
      <3>1. run' = [Asleep EXCEPT !.at = "selecting", !.cutoff = c, !.left = MaxBatches]
        BY <1>3, <2>1, Zenon DEF RunOnce
      <3>2. PICK l \in Nat : l = MaxBatches
        BY <1>1
      <3>3. PICK r \in Runs : r = Asleep
        BY NoRun
      <3>4. run' = [r EXCEPT !.at = "selecting", !.cutoff = c, !.left = l]
        BY <3>1, <3>2, <3>3, Zenon
      <3>5. r.ids = {}
        BY <3>3, NoRun
      <3> QED BY <3>4, <3>5, NoRun DEF Runs
    <2>3. now - RetentionAge <= now - RetentionAge
      BY <1>1
    <2> QED BY <1>1, <2>1, <2>2, <2>3 DEF RunInTime
  <1>4. CASE Select /\ run' = [run EXCEPT !.at = "deleting", !.ids = Selected]
    <2>1. Selected \subseteq Sample /\ \A e \in Selected : e.at < run.cutoff
      BY DEF Selected, IInv, Shape
    <2>2. run.at = "selecting"
      BY <1>4 DEF Select
    <2>3. /\ run' \in Runs /\ run'.cutoff = run.cutoff /\ run'.ids = Selected
      BY <1>4, <2>1 DEF RunInTime, Runs
    <2> QED BY <1>1, <2>1, <2>2, <2>3 DEF RunInTime
  <1>5. CASE /\ run.at = "deleting" /\ run.left > 1
             /\ run' = [run EXCEPT !.at = "selecting", !.left = @ - 1, !.ids = {}]
    <2>1. run' \in Runs /\ run'.cutoff = run.cutoff /\ run'.ids = {}
      <3>1. run \in Runs /\ run.left \in Nat
        BY DEF RunInTime, Runs
      <3>2. run.left - 1 \in Nat
        BY <1>5, <3>1
      <3> QED BY <1>5, <3>1, <3>2 DEF Runs
    <2> QED BY <1>1, <1>5, <2>1 DEF RunInTime
  <1> QED BY <1>2, <1>3, <1>4, <1>5 DEF Retention, Select, DeleteBatch, RunFails, RunEnds

LEMMA RunInvariance == Spec => [](IInv /\ RunInTime)
  <1>1. Init => RunInTime
    BY NoRun DEF Init, RunInTime
  <1>2. ASSUME IInv, RunInTime, [Next]_vars
        PROVE  RunInTime'
    <2>1. now \in Nat
      BY <1>2 DEF IInv, Shape
    <2>2. CASE Retention \/ RunFails
      BY <1>2, <2>2, RetentionInTime
    <2>3. CASE Crash \/ Restart
      BY <2>3, RunEndsInTime DEF Crash, Restart
    <2>4. CASE \E cmd \in {"pause", "reset", "restart", "shutdown"} : Stop(cmd)
      <3>1. now' = now /\ (run' = run \/ run' = Off \/ run' = [run EXCEPT !.left = 0])
        BY <2>4 DEF Stop
      <3> QED BY <1>2, <2>1, <3>1, RunEndsInTime, RunStays
    <2>5. CASE Persist \/ PersistFails \/ WorkerEnds \/ TimesOut \/ Resume
      <3>1. now' = now /\ run' = run
        BY <2>5 DEF Persist, PersistFails, WorkerEnds, TimesOut, StopReturns, Resume
      <3> QED BY <1>2, <2>1, <3>1, RunStays
    <2>6. CASE Tick \/ Generate
      <3>1. now' \in Nat /\ now <= now' /\ run' = run
        BY <2>1, <2>6 DEF Tick, Generate
      <3> QED BY <1>2, <3>1, RunStays
    <2>7. CASE UNCHANGED vars
      BY <1>2, <2>1, <2>7, RunStays DEF vars
    <2> QED BY <1>2, <2>2, <2>3, <2>4, <2>5, <2>6, <2>7 DEF Next
  <1> QED BY InitInv, NextInv, <1>1, <1>2, PTL DEF Spec

\* A row is deleted by a reset or when it is older than the retention, the
\* part of RowsComeAndGo that is about single steps: also by a thread whose
\* task was cancelled, and after a reset has numbered anew in the meantime.
THEOREM YoungRowsAreKept == Spec => YoungRowsStay
  <1>1. ASSUME IInv, RunInTime, [Next]_vars
        PROVE  [\A e \in records \ records' : \/ e.at < now - RetentionAge
                                              \/ Resets /\ command' = "none"]_vars
    <2> SUFFICES ASSUME Next, NEW e \in records \ records'
                 PROVE  e.at < now - RetentionAge \/ (Resets /\ command' = "none")
      BY <1>1
    <2>1. CASE DeleteBatch
      <3>1. e \in run.ids /\ run.at = "deleting"
        BY <2>1 DEF DeleteBatch
      <3>2. e.at < run.cutoff /\ run.cutoff <= now - RetentionAge
        BY <1>1, <3>1 DEF RunInTime
      <3>3. e.at \in Int /\ run.cutoff \in Int /\ now \in Int /\ RetentionAge \in Int
        BY <1>1, RecordsAssumption DEF IInv, Shape, Sample, RunInTime, Runs
      <3> QED BY <3>2, <3>3
    <2>2. CASE WorkerEnds \/ TimesOut
      BY <2>2 DEF WorkerEnds, TimesOut, StopReturns, Clear, KeepRows
    <2>3. CASE Tick \/ Generate \/ Crash \/ Restart \/ Resume \/ RunFails \/ RunOnce \/ Select
      BY <2>3 DEF Tick, Generate, Crash, Restart, Resume, RunFails, RunOnce, Select, table
    <2>4. CASE \E cmd \in {"pause", "reset", "restart", "shutdown"} : Stop(cmd)
      BY <2>4 DEF Stop, table
    <2>5. CASE Persist \/ PersistFails
      BY <2>5 DEF Persist, PersistFails, Store, table
    <2> QED BY <2>1, <2>2, <2>3, <2>4, <2>5 DEF Next, Retention
  <1> QED BY RunInvariance, <1>1, PTL DEF Spec, YoungRowsStay

=============================================================================
