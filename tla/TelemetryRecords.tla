-------------------------- MODULE TelemetryRecords --------------------------
(***************************************************************************)
(* The rows of the generated samples: the sequence the manager numbers     *)
(* them by, the queue and the worker that store them, commands that stop   *)
(* the worker or delete the rows, and the retention task that deletes old  *)
(* ones in batches on a thread.                                            *)
(*                                                                         *)
(* The worker takes a batch and writes it without a suspension in between. *)
(* Commands come one at a time (TelemetryRuntime has the others).  At each *)
(* instant at most one sample is generated, and clocks go forward.         *)
(***************************************************************************)
EXTENDS Integers, Sequences, FiniteSets, SequencesExt, FiniteSetsExt

CONSTANTS
    QueueSize,    \* max_queue_size
    BatchSize,    \* batch_size of the worker
    RetentionAge, \* retention_hours
    DeleteSize,   \* batch_size of the retention
    MaxBatches,   \* max_batches_per_run
    MaxTime,      \* bound on the clock
    MaxFaults,    \* bound on failed transactions, timeouts and crashes
    MaxCommands   \* bound on commands and new processes

ASSUME RecordsAssumption ==
    /\ {QueueSize, BatchSize, DeleteSize, MaxBatches} \subseteq Nat \ {0}
    /\ {RetentionAge, MaxTime, MaxFaults, MaxCommands} \subseteq Nat

VARIABLES
    now,        \* the clock
    mode,       \* what the manager does
    command,    \* the command that waits for the worker
    sequence,   \* _sequence
    queue,      \* _queue
    retryBatch, \* retry_batch
    records,    \* telemetry_records of the host
    lastSeen,   \* last_seen_at of the host
    run,        \* the retention task and its thread
    faults,     \* faults so far
    commands,   \* commands and new processes so far
    taken,      \* history: the samples that were queued
    stored,     \* history: the rows there have been
    lost,       \* history: the samples that went with a worker
    renumbered  \* history: when the numbers started again over rows

manager == <<mode, command, sequence, commands>>
table == <<records, lastSeen, stored>>
vars == <<now, manager, queue, retryBatch, table, run, faults, taken, lost, renumbered>>

Sample == [seq : 1..MaxTime, at : 1..MaxTime]

Asleep == [at |-> "asleep", cutoff |-> 0, left |-> 0, ids |-> {}]
Off == [Asleep EXCEPT !.at = "off"]

Waiting == ToSet(queue) \cup ToSet(retryBatch)

TypeOK ==
    /\ now \in 0..MaxTime
    /\ mode \in {"running", "draining", "paused", "down"}
    /\ command \in {"none", "pause", "reset", "restart", "shutdown"}
    /\ (mode = "draining") <=> (command # "none")
    /\ sequence \in 0..MaxTime
    /\ queue \in Seq(Sample) /\ retryBatch \in Seq(Sample)
    /\ Len(queue) <= QueueSize /\ Len(retryBatch) <= BatchSize
    /\ mode \in {"paused", "down"} => Waiting = {}
    /\ records \subseteq Sample /\ lastSeen \in 0..MaxTime
    /\ run.at \in {"off", "asleep", "selecting", "deleting"}
    /\ run.cutoff \in -RetentionAge..MaxTime /\ run.left \in 0..MaxBatches
    /\ run.ids \subseteq Sample /\ Cardinality(run.ids) <= DeleteSize
    /\ faults \in 0..MaxFaults /\ commands \in 0..MaxCommands

Init ==
    /\ now = 0
    /\ mode = "running" /\ command = "none"
    /\ sequence = 0
    /\ queue = <<>> /\ retryBatch = <<>>
    /\ records = {} /\ lastSeen = 0
    /\ run = Asleep
    /\ faults = 0 /\ commands = 0
    /\ taken = {} /\ stored = {} /\ lost = {} /\ renumbered = {}

Fault == faults < MaxFaults /\ faults' = faults + 1

-----------------------------------------------------------------------------
(* _generate_one and enqueue.                                              *)

Tick ==
    /\ now < MaxTime
    /\ now' = now + 1
    /\ UNCHANGED <<manager, queue, retryBatch, table, run, faults, taken, lost, renumbered>>

\* A full queue drops the new sample.
Enqueue(e) ==
    IF Len(queue) < QueueSize
    THEN queue' = Append(queue, e) /\ taken' = taken \cup {e}
    ELSE UNCHANGED <<queue, taken>>

Generate ==
    /\ mode = "running" /\ now < MaxTime
    /\ now' = now + 1
    /\ sequence' = sequence + 1
    /\ Enqueue([seq |-> sequence + 1, at |-> now + 1])
    /\ UNCHANGED <<mode, command, commands, retryBatch, table, run, faults, lost, renumbered>>

-----------------------------------------------------------------------------
(* The worker.                                                             *)

Batch ==
    IF retryBatch # <<>> THEN retryBatch
    ELSE SubSeq(queue, 1, IF Len(queue) < BatchSize THEN Len(queue) ELSE BatchSize)

AfterBatch ==
    IF retryBatch # <<>> THEN queue ELSE SubSeq(queue, Len(Batch) + 1, Len(queue))

\* What the insert adds: it does nothing for a number that has a row.
New == {e \in ToSet(Batch) : \A f \in records : f.seq # e.seq}

\* _persist: the rows and last_seen_at in one transaction.
Store ==
    /\ records' = records \cup New
    /\ lastSeen' = Max({e.at : e \in ToSet(Batch)})
    /\ stored' = stored \cup New

Working == mode \in {"running", "draining"} /\ Batch # <<>>

Persist ==
    /\ Working
    /\ Store
    /\ queue' = AfterBatch /\ retryBatch' = <<>>
    /\ UNCHANGED <<now, manager, run, faults, taken, lost, renumbered>>

\* Slip: a batch that failed goes behind the queue.
RetainBehind ==
    queue' = AfterBatch \o Batch /\ retryBatch' = <<>>

Retain ==
    queue' = AfterBatch /\ retryBatch' = Batch

\* An attempt that raises, before its commit or after it.
PersistFails ==
    /\ Working /\ Fault
    /\ Store \/ UNCHANGED table
    /\ Retain
    /\ UNCHANGED <<now, manager, run, taken, lost, renumbered>>

-----------------------------------------------------------------------------
(* Commands.                                                               *)

Command == commands < MaxCommands /\ commands' = commands + 1

\* stop() up to its wait for the worker, for a pause, a reset of a paused
\* manager or a running one, and the shutdown, which stops the retention
\* first: its task is cancelled, what runs on its thread goes on.
Stop(cmd) ==
    /\ \/ mode = "running" /\ cmd \in {"pause", "restart", "shutdown"}
       \/ mode = "paused" /\ cmd \in {"reset", "shutdown"}
    /\ Command
    /\ mode' = "draining" /\ command' = cmd
    /\ run' = IF cmd # "shutdown" THEN run
              ELSE IF run.at = "asleep" THEN Off ELSE [run EXCEPT !.left = 0]
    /\ UNCHANGED <<now, sequence, queue, retryBatch, table, faults, taken, lost, renumbered>>

\* Slip: a worker that is stopping looks at its queue only.
QueueIsEmpty == queue = <<>>

\* A worker that is stopping ends when it has nothing left.
Drained == queue = <<>> /\ retryBatch = <<>>

\* A reset deletes the rows of the host, or fails to and goes on.
Clear == records' = {} /\ UNCHANGED renumbered
KeepRows == UNCHANGED records /\ renumbered' = renumbered \cup {now}

Resets == command \in {"reset", "restart"}

\* stop() returns: the worker ended, or was cancelled after 10 seconds.  Its
\* queue goes with it; a manager that starts again gets a new one.
StopReturns ==
    /\ mode = "draining"
    /\ mode' = CASE command = "restart" -> "running"
                 [] command = "shutdown" -> "down"
                 [] OTHER -> "paused"
    /\ command' = "none"
    /\ queue' = <<>> /\ retryBatch' = <<>>
    /\ sequence' = IF Resets THEN 0 ELSE sequence
    /\ UNCHANGED <<now, commands, lastSeen, stored, run, taken>>

WorkerEnds ==
    /\ Drained
    /\ StopReturns
    /\ \/ ~Resets /\ UNCHANGED <<records, renumbered, faults>>
       \/ Resets /\ Clear /\ UNCHANGED faults
       \/ Resets /\ KeepRows /\ Fault
    /\ UNCHANGED lost

TimesOut ==
    /\ StopReturns
    /\ Fault
    /\ \/ ~Resets /\ UNCHANGED <<records, renumbered>>
       \/ Resets /\ (Clear \/ KeepRows)
    /\ lost' = lost \cup Waiting

Resume ==
    /\ mode = "paused"
    /\ Command
    /\ mode' = "running"
    /\ UNCHANGED <<now, command, sequence, queue, retryBatch, table, run, faults,
                   taken, lost, renumbered>>

Crash ==
    /\ mode # "down" /\ Fault
    /\ mode' = "down" /\ command' = "none"
    /\ queue' = <<>> /\ retryBatch' = <<>>
    /\ lost' = lost \cup Waiting
    /\ run' = Off
    /\ UNCHANGED <<now, sequence, commands, table, taken, renumbered>>

\* A new process, once the thread of the old one has ended.
Restart ==
    /\ mode = "down" /\ run = Off
    /\ Command
    /\ mode' = "running"
    /\ sequence' = 0
    /\ renumbered' = renumbered \cup {now}
    /\ run' = Asleep
    /\ UNCHANGED <<now, command, queue, retryBatch, table, faults, taken, lost>>

-----------------------------------------------------------------------------
(* Retention.                                                              *)

RunOnce ==
    /\ run.at = "asleep"
    /\ run' = [Asleep EXCEPT !.at = "selecting", !.cutoff = now - RetentionAge,
                             !.left = MaxBatches]
    /\ UNCHANGED <<now, manager, queue, retryBatch, table, faults, taken, lost, renumbered>>

\* The task sleeps again; a thread whose task was cancelled just ends.
RunEnds == run' = IF run.left = 0 THEN Off ELSE Asleep

\* The ids of the oldest rows that are older than the cutoff.
Selected == {e \in records : e.at < run.cutoff
    /\ Cardinality({f \in records : f.at < e.at}) < DeleteSize}

Select ==
    /\ run.at = "selecting"
    /\ IF Selected = {} THEN RunEnds
       ELSE run' = [run EXCEPT !.at = "deleting", !.ids = Selected]
    /\ UNCHANGED <<now, manager, queue, retryBatch, table, faults, taken, lost, renumbered>>

\* The rows that are still there are deleted; after a full batch the task
\* goes on with the next, up to the limit of the run.
DeleteBatch ==
    /\ run.at = "deleting"
    /\ records' = records \ run.ids
    /\ IF Cardinality(run.ids \cap records) = DeleteSize /\ run.left > 1
       THEN run' = [run EXCEPT !.at = "selecting", !.left = @ - 1, !.ids = {}]
       ELSE RunEnds
    /\ UNCHANGED <<now, manager, queue, retryBatch, lastSeen, stored, faults,
                   taken, lost, renumbered>>

\* Slip: a run that fails ends the task.
RunFailsForGood ==
    /\ run.at \in {"selecting", "deleting"} /\ Fault
    /\ run' = Off
    /\ UNCHANGED <<now, manager, queue, retryBatch, table, taken, lost, renumbered>>

RunFails ==
    /\ run.at \in {"selecting", "deleting"} /\ Fault
    /\ RunEnds
    /\ UNCHANGED <<now, manager, queue, retryBatch, table, taken, lost, renumbered>>

Retention == RunOnce \/ Select \/ DeleteBatch

Next ==
    \/ Tick \/ Generate
    \/ Persist \/ PersistFails
    \/ \E cmd \in {"pause", "reset", "restart", "shutdown"} : Stop(cmd)
    \/ WorkerEnds \/ TimesOut \/ Resume \/ Crash \/ Restart
    \/ Retention \/ RunFails

\* The worker, the retention task and its thread run, and not every attempt
\* fails.
Fairness == WF_vars(Persist) /\ WF_vars(WorkerEnds) /\ WF_vars(Retention)

Spec == Init /\ [][Next]_vars /\ Fairness

-----------------------------------------------------------------------------
(* Properties.                                                             *)

Settled == Waiting \cup stored \cup lost

\* A sample is skipped by the insert only if one that was stored before the
\* numbers last started again, over rows that stayed, has its number.
Renumbered(e) ==
    \E f \in stored, t \in renumbered : f.seq = e.seq /\ f.at <= t /\ t < e.at

\* "Persist queued events until shutdown is requested and the queue is empty":
\* whatever fails, is retried, drained or cleared, a queued sample waits, had
\* its row, went with a worker that was cut off, or was renumbered.
SamplesAreKept == \A e \in taken \ Settled : Renumbered(e)

\* No row is newer than the host's last_seen_at, and the host is never seen to
\* go back, although batches fail and are retried.
LastSeenIsRight ==
    [][/\ lastSeen' >= lastSeen
       /\ \A e \in records' : e.at <= lastSeen']_vars

\* A row is deleted by a reset or when it is older than the retention.
YoungRowsStay ==
    [][\A e \in records \ records' :
         \/ e.at < now - RetentionAge
         \/ Resets /\ command' = "none"]_vars

\* A row that is older than the retention is deleted, in however many runs,
\* unless the process ends.
OldRowsGo ==
    \A t \in 1..MaxTime :
        LET Held == t \in {e.at : e \in records}
        IN  (Held /\ t < now - RetentionAge) ~> (~Held \/ mode = "down")

\* A queued sample does not wait for ever.
WaitingIsSettled ==
    \A t \in 1..MaxTime :
        LET Waits == t \in {e.at : e \in Waiting} IN Waits ~> ~Waits

\* Every sample gets its row or is given up, and every row goes in its time
\* and not before.
RowsComeAndGo == WaitingIsSettled /\ OldRowsGo /\ YoungRowsStay

=============================================================================
