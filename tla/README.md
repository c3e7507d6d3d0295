# A TLA+ model of telemetry-backend

This directory is the formal model of the backend in `src/`: TLA+ modules for the
parts whose correctness depends on order, failure and concurrency, TLC configurations
that check them on small instances, and TLAPS proofs of what holds for every instance.
Paths below are relative to the repository.

## 1. The system

One asyncio process (FastAPI) owns all live state; PostgreSQL holds what survives it.
Two facts decide the grain of every action:

* Coroutines run on one event loop. What they do between two awaits that really suspend
  is atomic. Database sessions are synchronous, so a whole transaction (`_persist`,
  `start()`'s hydration) runs without suspending, and the bodies under
  `TelemetryManager._lock` do not suspend either.
* `def` endpoints run on threads of a pool (incident acknowledgement, manual delivery
  retry, channel, host, user, topology and rule-deletion endpoints). The loop may run
  between any two calls such a request makes. `async def` endpoints (alert
  acknowledgement, ingestion, simulation control, rule creation) run on the loop.

### Components

| Component | State | Operations | Talks to | Hard behaviour |
|---|---|---|---|---|
| Telemetry manager (`app/services/telemetry_manager.py`) | alerts, active-alert map, history, running flag, loop task, attached workers | process_event, synthetic check results, acknowledge, start, stop, pause, resume, reset | rule engine, anomaly detector, incident engine, persistence queues, dispatcher, event bus, WebSockets | commands that suspend half-way; hydration of a new process |
| Alert rule engine (`alert_rule_engine.py`) | rules, state per rule and host | load, hydrate, evaluate | called under its own lock by the manager | reload between evaluations, out-of-order samples |
| Anomaly detector (`anomaly_detector.py`) | sliding windows | update | manager | numeric only |
| Incident engine (`incident_engine.py`) | incidents, alert-to-incident map | alert created, alert resolved, acknowledge, hydrate | manager, request threads, its queue | two callers on two threads; late alerts and a window that moves |
| Alert / incident / telemetry persistence | bounded queue, retained item, worker | enqueue, worker loop, stop with drain or timeout | tables | retries, drops, foreign keys between the two queues' rows |
| Notification dispatcher (`notification_dispatcher.py`) | channel map, bounded queue, worker; table of deliveries | enqueue, deliver, retry, test, reload, restore | webhook receivers, request threads | retries racing the worker, crash around a request |
| Ingestion (`api/ingestion.py`, `telemetry_ingestion.py`) | unique rows per host and sequence | persist_batch, process events | agent, manager | commit before live processing |
| Host agent (`agent/telemetry_agent.py`) | buffer, last sequence | collect, flush with retries | ingestion | lost answers, growing buffer |
| Event bus (`postgres_event_bus.py`) | queue, two threads | publish, listen, start, stop | peers through NOTIFY | re-queueing, restart of threads |
| WebSocket manager and tokens | clients, tokens issued by this process | register, broadcast, consume | clients | sends to a copy of the set, waits for every client |
| Synthetic monitor (`synthetic_monitor.py`) | tasks, failure counts | sync, run_once | manager | overlapping runs, edits that cancel tasks, commits that fail |
| Retention (`telemetry_retention.py`) | task, and a batch of ids on a thread | run_once, delete a batch | telemetry rows | a cancelled task whose thread goes on; runs that fail |
| Service topology (`api/topology.py`) | services, dependencies | create, delete, add a dependency after a search for cycles | tables | read-then-write in overlapping requests |
| Users (`api/users.py`, `api/auth.py`) | accounts | sign up, create, update | tables | read-then-write in overlapping requests |
| SLOs, API keys, hosts, rate limits, audit, metrics, queries | rows, counters | request-local work | tables | little of their own |

What makes each of them correct, in a sentence: the tables never run ahead of memory and
catch up with it, across retries and restarts (persistence); one condition has one active
alert (manager); an incident is resolved exactly when its alerts are (incident engine);
a receiver can recognise repetitions, and the delivery table counts at least the requests
that went out (dispatcher); a running manager has one loop and live workers, and a stopped one nothing
(lifecycle); an alert of a rule is created when its condition has held for the duration,
and engine and manager agree on it (rules); what the agent lets go of is stored, and each
stored sample is evaluated once (ingestion); messages of one source arrive in order or not
at all (event bus); a failure streak is the one the history shows (synthetic monitor); a
queued sample gets its row and an old row goes (telemetry persistence, retention); an
incident holds the alerts that are near each other and no others (correlation);
dependencies have no cycle (topology); an administrator remains (users).

`PROJECT.json` lists every component with its status, and under `hazards` every place
where this code is hard to test, with the properties that cover it.

## 2. Modules

| Module | Role |
|---|---|
| `AlertLedger` | abstract specification: a truth in memory and a table that only follows it |
| `AlertPipeline` | the detailed alert path; implements `AlertLedger` |
| `AlertPipelineProofs` | TLAPS proofs about `AlertPipeline` |
| `AlertRules` | threshold rules: evaluation, edits, reload, the alerts they create and resolve |
| `SampleLedger` | abstract specification: samples stored once and processed at most once |
| `TelemetryIngestion` | the agent, its requests, the batch insert and live processing, with the rules of `AlertRules`; implements `SampleLedger` |
| `TelemetryIngestionProofs` | TLAPS proofs about `TelemetryIngestion` and `AlertRules` |
| `NotificationDispatcher` | webhook notifications |
| `NotificationDispatcherProofs` | TLAPS proofs about `NotificationDispatcher` |
| `EventBus` | the PostgreSQL event bus of several processes |
| `LiveFanout` | alerts on their way to the browsers: broadcasts, clients and tokens over `EventBus` |
| `LiveFanoutProofs` | TLAPS proofs about `LiveFanout` and `EventBus` |
| `TelemetryRuntime` | lifecycle of the telemetry manager |
| `SyntheticMonitor` | synthetic checks, their tasks and runs, their streaks and alerts |
| `Backend` | a process from boot to shutdown or crash: `TelemetryRuntime` with `SyntheticMonitor` |
| `BackendProofs` | TLAPS proofs about `Backend` |
| `TelemetryRecords` | the rows of generated samples: numbering, queue, worker, resets, retention |
| `TelemetryRecordsProofs` | TLAPS proofs about `TelemetryRecords` |
| `IncidentCorrelation` | which incident an alert goes to: window, severity, reopening, resolution |
| `IncidentCorrelationProofs` | TLAPS proofs about `IncidentCorrelation` |
| `ServiceTopology` | services and dependencies, the search for cycles |
| `Users` | accounts and overlapping requests that change them |
| `RegistriesProofs` | TLAPS proofs about `ServiceTopology` and `Users` |
| `MCAlertPipeline`, `MCTelemetryIngestion`, `MCNotificationDispatcher`, `MCLiveFanout`, `MCTelemetryRuntime`, `MCBackend`, `MCTelemetryRecords` | instances for TLC |
| `MCEngines`, `MCRegistries` | instances of `AlertRules` and `IncidentCorrelation`, and of `Users` and `ServiceTopology`: two modules that share no state, checked in one run in which either steps and the other stays where it began |

Operators introduced by a comment "Slip:" are not part of the specifications: each is a
definition the way a plausible programming error would have written it, kept to show that
the properties notice the difference. Variables marked "history" exist for properties
only; no guard reads them.

### 2.1 AlertPipeline

State: `alert` and `active` are the manager's `_alerts` and `_active_alerts`, `incident`
the engine's `_incidents` with `alert_ids` and `active_alert_ids`, `loaded` the rules the
engine evaluates; `alertQ`/`alertRetry` and `incidentQ`/`incidentRetry` the two queues
with the item a failed attempt retains; `alertRow`, `incidentRow`, `links`, `hosts` and
`rules` the tables; `acking` the snapshot a request thread has taken and not yet queued;
`phase` the process.

| Action | Code |
|---|---|
| `CreateAlert`, `ResolveAlert` | a transition in `process_event` or `process_synthetic_check_result`, with the incident update, the notification and both enqueues: all under the manager's lock, so one action |
| `AcknowledgeAlert` | `api/alerts.py` acknowledge: the row, then the manager's alert and its queue |
| `AcknowledgeIncident`, `EnqueueAcknowledged` | `IncidentEngine.acknowledge` on a thread, cut where the loop can run in between |
| `PersistAlert`, `PersistAlertFails` (and for incidents) | one iteration of a worker: one transaction, or an exception that retains the item |
| `DeleteHost`, `DeleteRule`, `ReloadRules` | administration, with `ON DELETE SET NULL` |
| `Shutdown`, `StopAlertPersistence`, `StopIncidentPersistence`, `Crash`, `Restart` | the lifespan: drains in order, each of which ends or times out, and `start()` of a new process |

Data that no property tells apart is left out: values, messages, severities, timestamps.
What depends on it is a choice. Whether an unresolved incident of the scope falls within
the correlation window is open in `Correlates` (`IncidentCorrelation` decides it); whether the webhook queue overflows in a
transition (the dispatcher then raises, and the alert never reaches its own queue) is open
in `NotifyAndEnqueue` under the constant `WebhooksOverflow`. That a condition is not
reported again while it has an active alert is a guard here; that the rule engine keeps to
it, and where it does not, is the subject of `EngineAgrees` in `AlertRules`.

`AlertLedger` states what this machinery is for: the table lags behind what the process
knows, it moves forward only, and a new process starts from its active rows. The
refinement maps `truth` to `alert` and `rows` to `alertRow`; every queue, retry, drop and
drain is a stutter.

### 2.2 NotificationDispatcher

State: the channel table, the dispatcher's channel map (`loaded`), the queue, the delivery
the worker is in the middle of, the delivery table, and where each manual retry stands.
A channel may also be created, and is then known to the dispatcher once it is reloaded;
until then a test of it (`Test`) queues nothing.
`TakeJob` is `_worker` and `_deliver` up to the first request: the row of the job, the
row of its event or a new one, a check for "delivered", the state written ahead with its
attempt counted. `Post` is the request that reaches the receiver, a step of its own: the
process may crash, or the connection fail, between the commit and the request, and then
the table counts an attempt that nobody saw. `Accepted`, `Refused`, `Unavailable` and
`NextAttempt` are the answers and the backoff; the last two also follow a request that
reached nobody. `Refused` also stands for an accepted request whose row could not be
updated: the code catches that exception with the network's and records a failure.
`TakeJobFails` and `DeliveryFails` are the exceptions `_worker` logs. `RetryReads`, `RetryWrites` and
`RetryQueues` are the steps of `retry_delivery` on its thread. `Start` restores unsettled
rows, oldest first and at most `RestoreLimit` (500 in the code).

### 2.3 TelemetryRuntime

State: the flag, the stop event, the task handle, the loop each start created, the workers
each start created and which of them are attached, and for each caller the command it is
in and what it waits for. `start()` never suspends and is part of one action. `stop()`
suspends on the loop and then on each worker that has not ended; `DrainFrom` is what it
does between two suspensions. A worker ends by draining or by the 10 second timeout,
which also cancels whoever else waits for it.

A command is not through with `stop()` or `start()`: pause and resume end with
`_broadcast_system`, a reset closes the clients (`ClientsClosed`), starts again if the
manager was running, and then tells those that came back (`Announced`). Both wait for
every client, and until they end the caller is in its command.

### 2.4 AlertRules

State: `table` and `loaded`, the rules in the database and in the engine; `state`, what
the engine keeps of each rule (since when the condition holds, the last alert, the active
one); `alerts`, `resolved` and `held`, the manager's side of it; `reload`, where the
request thread of a deletion stands; and what the alert table has of it: `persisting`
(`_alert_persistence` is there), `owed` (the active rows once all that was queued is
written) and `shown` (the sets of active rows it may have now, the queue being written in
its order). A sample that fired stands for its alert, so that
"since", "last fired" and "active alert" are indices of samples.

| Action | Code |
|---|---|
| `Evaluate` | `AlertRuleEngine.evaluate` and what `process_event` makes of its transitions, under the manager's lock |
| `EvaluateFails` | the same when the webhook queue overflows in one transition: that one is in memory and never queued for the table, the ones behind it are lost |
| `CreateRule`, `UpdateRule` | `async def` endpoints without a suspension: row, `load_rules` and `hydrate_active_alerts` in one action |
| `DeleteRule`, `ReadRules`, `LoadRules`, `ListAlerts`, `HydrateAlerts` | the deletion, on a thread: cut after its commit, its query, its `load_rules` and its walk over the manager's alerts |
| `PauseRules` | `stop()`: the alert queue is drained or cut off, and from then on nothing is queued |
| `ForgetRules` | `reset()`: alerts and states go; the rows go with them, or stay when the deletion fails or when they are of another host than the simulated one |
| `ResumeForgotten`, `ResumeRules` | `start()` again, with no alert in memory, which reads the rows, or with some, which does not |
| `RestartRules` | a new process: what was queued is lost, and every active row the table has by then is taken up |

`Step` keeps the order of the code: a sample older than the one the condition holds since
gives a negative duration, cooldowns are measured from the last alert, and a
state is forgotten when its rule is no longer loaded.

In each transition any part of what changes may fail to be queued, because a full queue
drops it, and nothing is queued after the transition that raised or during a pause in
which agents go on sending. So the table may be any number of transitions behind: a start
finds rows of alerts that were resolved long ago, several of one rule, ordered by time,
and `hydrate` takes them all up, the last one as the active alert (`RestoreRules`). What is
assumed of `start()` is that it finds its host and that its query succeeds. The histories `edited` and `torn`
name the rules the properties make an exception of, with the reason at the variable.

### 2.5 TelemetryIngestion

State: the agent (its buffer `pending`, its last number, the attempt it is at, whether it
is stopping), a few handlers in `Slots` with the batch each was sent and what it has still
to process, the table (`stored`), and the rules of `AlertRules`.

`Collect` is one round of the agent, `Post` and `PostFails` an attempt of `flush`,
`Receive` what each answer does to it, `SetBack` and `Reboot` a clock set back and a new process of the agent
(numbers come from the clock). On the server `Persist` is `persist_batch` in one
transaction, rows that exist skipped, and the first sample up to its broadcast;
`Continue` is the next one. `LimitRate`, `Reject`, `Invalidate` and `FailToStore` are the
refusals, `Lose` a request or an answer that gets lost. A handler keeps running after its
agent has given up on it. `CrashAndRestart` takes the server down with everything in
flight. `abandoned` is a history of what a failing or crashing handler gave up.

`SampleLedger` says what this is for: a set of samples that only grows, and each stored
one processed at most once. The order is not part of it, because the code does not keep
one: a retry may overtake the rest of an earlier batch. What the engine does with samples
in another order is in `AlertRules`.

### 2.6 EventBus and LiveFanout

`EventBus` has a publisher and a listener thread per start of a process. `TakeMessage`,
`Notify` and `NotifyFails` are the iterations of the one, `Listen`, `ReadNotification` and
`ListenerFails` those of the other; both end when they see the stop flag, which a later
start clears. `StopBus` and `StopReturns` are the two halves of `stop()`: the handles go
at once, the loop only when the threads have been joined, or after 3 seconds.

`LiveFanout` puts the broadcasts of `process_event` on top. An event suspends twice, once
for its telemetry and once for its alert, each time until every client it wrote to has
taken the frame or failed; the alert is dumped after the first suspension. `ProcessEvent`,
`TelemetrySent` and `AlertSent` are the three pieces. `Deliver` is a notification handed
to the loop and broadcast to the clients of the process, unless it is its own. Clients ask
for a token at any process and connect to their own; only the process that issued it
knows a token.

### 2.7 SyntheticMonitor and Backend

State of the monitor: rows of checks and runs, the task of each check, the requests that
run a check now, the streak in memory. A run is cut at its two suspensions, the HTTP
request and the broadcast; `Record` is what happens in between (count, commit, the
manager's verdict). `RunFails` is a run without a result,
because its row did not commit or its check is gone: nothing was counted. An edit calls
`sync()`, which restarts every task, or fails to after the edit was committed. The streak
of a check is unknown in a new process, and is then read from its last row. `Backend` adds the lifespan (`Boot`, `EndLifespan`,
`StopManager`) and lets the manager's commands, the tasks and the checks interleave. A
crash keeps the rows of `SyntheticMonitor` only.

### 2.8 TelemetryRecords

State: the manager's mode, the command that waits for the worker and `_sequence`; the queue
of `TelemetryPersistence` and its retained batch; the rows of the synthetic host and its
`last_seen_at`; where the retention stands (`run`: asleep, selecting, deleting, with its
cutoff, the batches it has left and the ids it selected). A sample is its number and its
time.

| Action | Code |
|---|---|
| `Generate` | `_generate_one` up to `enqueue`, which drops the sample at a full queue |
| `Persist`, `PersistFails` | an iteration of the worker: a batch in one transaction, which skips numbers that have a row and sets `last_seen_at`; or an exception, before the commit or after it, and the batch is retained |
| `Stop`, `WorkerEnds`, `TimesOut`, `Resume` | pause, reset and shutdown, cut at the wait for the worker; what comes after the wait, the deletion of a reset included, is one action with it |
| `Crash`, `Restart` | the end of a process and the next, which numbers from 1 again |
| `RunOnce`, `Select`, `DeleteBatch`, `RunFails` | a run of the retention; selection and deletion are two statements on a thread, and a cancelled task leaves its thread to finish the batch |

Time is a bounded counter that goes forward. The worker's batch is taken and written
without a suspension, so it is never between queue and table. `taken`, `stored`, `lost` and
`renumbered` are histories.

### 2.9 IncidentCorrelation

State: the alerts with their scope (host and service), time and severity, and the
incidents with theirs. `Create` is `on_alert_created` with `_candidate` (`InReach`): an
alert joins an unresolved incident of its scope whose `last_seen_at` is within the window
of it, before or after, and opens one otherwise. `Resolve` is `on_alert_resolved`, which
sets `last_seen_at` to the time of the resolved alert; `Acknowledge` is `acknowledge`. All run
in one step: the interleavings with a request thread are in `AlertPipeline`. Of several
incidents in reach the code takes the first of a dictionary, the model any.

### 2.10 ServiceTopology

State: services, dependencies, and for each request to add one where it is.
`AddDependency` is `add_dependency` up to the search, `ReadEdges` the query of
`_would_create_cycle`, `Search` one turn of its loop, and `Insert` the insert with its
commit, refused by the constraints if a service is gone or the dependency there. The other
requests commit once and are one action each. The stack is a set: the order of the search
and repeated entries change neither its answer nor its end.

### 2.11 Users

State: the role and activity of each account, and for each request to update one
(`update`) what it was sent and has read. `Authenticate` reads the caller, `ReadUser` the account (the session
does not read an account twice, so an administrator who names themselves gets the row read
before), `CountAdmins` counts and refuses, and `Commit` writes the fields that differ from
what was read. `SignUp` and `CreateUser` add accounts. Roles other than administrator are
all alike. A statement sees what was committed before it, which is PostgreSQL's default
and the isolation the code runs under.

## 3. Runs

`tlc -workers 2 -config <run>.cfg <module>`. Deadlock is checked in `RuntimeSerial`, where
a stopped process is always followed by another. The other runs end where their bounds
are used up or a process has stopped for good, and do not check it.

| Run | Module | Result |
|---|---|---|
| `AlertPipelineSafety` | MCAlertPipeline | holds: 7 properties, about 500,000 states |
| `AlertPipelineLive` | MCAlertPipeline | holds: 2 properties, about 65,000 states |
| `AlertPipelineAckRace`, `AlertPipelineStuckOpen` | MCAlertPipeline | each refutes one property |
| `DispatcherDelivery` | MCNotificationDispatcher | holds: 4 properties, about 630,000 states |
| `Engines` | MCEngines | holds: 5 properties, about 840,000 states |
| `IngestionFlow` | MCTelemetryIngestion | holds: 4 properties, about 1,740,000 states |
| `LiveFanout` | MCLiveFanout | holds: 5 properties, about 1,400,000 states |
| `RuntimeSerial` | MCBackend | holds: 7 properties, about 330,000 states |
| `RuntimePauseResume` | MCTelemetryRuntime | refutes one property |
| `Records` | MCTelemetryRecords | holds: 3 properties, about 81,000 states |
| `Registries` | MCRegistries | holds: 3 properties, about 2,000,000 states |

Several properties are conjunctions of named parts (`QueuesConverge`,
`TablesAreConsistent`, `TransitionsBecomeDurable`, `DispatcherInv`, `DeliveredIsKept`,
`RuntimeInv`, `IncidentsAreSound`, `RowsComeAndGo`); the parts are
named below where they matter.

What they show:

* **AlertPipelineSafety.** Two alerts of one rule, two incidents, queues of two (so that
  drops happen), a rule and a host that may be deleted, a webhook queue that may be full,
  an acknowledgement, a crash or shutdown at any point and one restart. The newest
  snapshot on its way agrees with memory unless it was dropped (`QueuesConverge`); neither the table nor a snapshot
  that still waits is ahead of memory, and none that waits would take a durable resolution
  back (`RowsNeverAhead`); the path implements `AlertLedger` (`RefinesLedger`); as long as nothing was dropped, no condition
  has two active rows and no incident row lacks an alert (`TablesAreConsistent`); a resolved incident stays resolved in the table
  (`IncidentRowsStayFinal`); a shutdown that drains loses nothing (`ShutdownKeepsAll`).
  Acknowledgement of incidents by threads is off here: it is what
  `AlertPipelineAckRace` is about.
* **AlertPipelineLive.** Fair workers, one rule key and one anomaly key of a host, threads
  that acknowledge, queues large enough for every event of the instance. Every resolution of
  an alert, and every status and link a queued snapshot of an incident carries, reaches
  the table unless the process ends (`TransitionsBecomeDurable`), and an
  incident is resolved exactly when no alert of it is active (`ResolvedIffQuiet`).
* **DispatcherDelivery.** One event emitted under two ids, a connectivity test, one manual
  retry, failing transactions, one channel that is created and tested and one that may be
  deleted, two attempts, connections that fail, a restore limit of one, a crash or shutdown
  between any two steps and one restart, under fairness.
  All requests for an event carry one id, the table counts at least the requests that
  went out, and what it calls delivered did go out (`DispatcherInv`); an unsettled row has an owner unless
  the process gave it up (`UnsettledIsOwned`); nothing delivered is sent again, or taken
  back but by a retry in flight (`DeliveredIsKept`); and what is unsettled settles, unless
  the process ends or gave it up (`DeliveriesSettle`).
* **Engines.** The rule engine: two rules, one of them created on the way; three samples that arrive in
  any order, each once; two edits, a deletion on its thread among them; transitions that
  raise or that a full queue drops; pauses with samples in them, resets that leave the rows
  or take them, resumes and restarts. In the same run the first rule alone, which nobody
  edits, has five samples: enough for an alert, a resolution the table never hears of, and
  a second alert. The engine and the manager agree on the active alert of every rule, of which
  there is one at most (`EngineAgrees`); outside a deletion the engine evaluates the rules
  of the table (`RulesAreCurrent`); an alert is created only at the end of a run of
  samples that meet the condition for its duration and after the cooldown
  (`FiresOnlyWhenDue`). The exceptions are part of the properties and of the code: a
  reconfigured rule keeps the beginning of a run under its old configuration, a deletion
  on a thread can hydrate from an alert resolved meanwhile, a transition that raises
  costs the rules behind it theirs, and a start from a table that was left behind can bring
  a rule several active alerts. The incident engine: three alerts, late or not, in two
  scopes. The alerts of an incident cannot be parted into two that are further apart than
  the window, an unresolved incident has the severity of the worst alert it ever had, and
  is one with an active alert (`IncidentsAreSound`); an alert within the window of the
  newest alert of an unresolved incident opens no second one beside it, unless that
  incident was set back (`GroupedUnlessSetBack`).
* **IngestionFlow.** One agent with batches of one that grow to two, two attempts per
  flush, two handlers, requests and answers that are lost, late or refused as often as may be,
  and two faults (a clock set back, a crash of the server, a new process of the agent), with
  a rule that has to hold for one unit of time. A sample leaves the buffer only once the table has its
  number (`ReleasedIsStored`); a stored sample is processed, in the hands of some running
  handler, or known to be given up (`UnprocessedIsInFlight`); that it is in no two pairs of
  hands is part of `RefinesLedger`: ingestion implements `SampleLedger`.
* **LiveFanout.** Two processes, a browser at each, an alert created and resolved in one.
  A browser sees the messages of its own process in their order and never a resolved alert
  active again (`LocalInOrder`); one that saw an alert and is still registered has seen its
  resolution when the events are through, whatever other clients do (`SeesResolution`);
  browsers of the other process see a subsequence of what was queued, unless a
  publish failed or a bus was once started over a stop or over threads of its previous run
  (`PeersInOrder`), and a started bus hands on what it reads, with the same exception
  (`NeverDeaf`). `PeersInOrder` is about the order of the queue: when the broadcast of a
  creation waits for a slow client, its message is queued after the resolution's, and peers
  end with an active alert. What the exceptions cover these two properties delimit and do
  not catch.
* **RuntimeSerial.** One process after another, commands one at a time, a check that is
  created, edited, deleted and run by its task and by two requests. While the flag is up
  the three workers are attached and live (`RunningIsPersisted`), there is one loop, whose
  handle is held, and no worker is left behind (`RuntimeInv`); `stop()` returns to the
  command that called it only when everything has ended (`StopIsComplete`), and it does
  return (`StopsReturn`), although the loop may be sending to a client that never
  answers. That the command itself returns is not so: it still waits for the clients. The streak of a check is the number of failures its history ends
  with (`StreakMatchesHistory`), its alert is held exactly from the threshold on
  (`AlertFollowsStreak`), and a result that opens or closes an alert of a running manager,
  or during the shutdown, still finds its persistence (`ResultsArePersisted`): that is what
  the order of the shutdown is for.
* **Records.** A queue of three and batches of two, a failing transaction, pauses,
  resets of a paused and of a running manager, shutdowns, a crash, and the retention
  deleting one row at a time, under fairness. A queued sample waits, had its row, went with
  a worker that was cut off, or met a row of the previous numbering (`SamplesAreKept`). No
  row is newer than `last_seen_at`, which never goes back although batches are retried
  (`LastSeenIsRight`): that is why a retained batch has to go before the queue. Rows within
  the retention are deleted by a reset only, older ones in a later run if not in this one,
  also after a run that failed, and no queued sample waits for ever (`RowsComeAndGo`).
* **Registries.** Services: two requests, three services, deletions. The answer of a search
  is right about the dependencies it read (`SearchIsRight`), and they have no cycle unless
  one was committed that a search had missed (`AcyclicUnlessRaced`). Accounts: two
  overlapping updates of three accounts. An active administrator remains unless an account
  changed between the last look of a request and its commit (`AdminUnlessRaced`).

The refuted properties are disagreements of the code with what its documents or tests
say; `PROJECT.json` quotes them under `findings`:

* `AlertPipelineAckRace`: an acknowledged snapshot, copied on a thread, is queued after a
  newer one of the loop; the table stays behind the engine.
* `AlertPipelineStuckOpen`: after a crash between the two workers an incident is restored
  open with no active alert; nothing can resolve it.
* `RuntimePauseResume`: a resume during the drains of a pause leaves the manager running
  without persistence and without its task handle.

Other properties that the documents or the endpoints promise hold only with an exception,
which is part of the property; without it TLC finds a behaviour of the code that breaks it:

* `UnsettledIsOwned` excepts what is stranded. `src/README.md` (line 292) says that failed
  deliveries can be requeued; a manual retry that meets a full queue raises `NameError` in
  the warning (`notification_dispatcher.py:235`) after "pending" was committed, and the
  delivery is in no queue and not retryable until a restart.
* `DeliveredIsKept` excepts a retry that read the row before: `retry_delivery` checks and
  writes without a condition on the row, so a delivered row can be taken back and sent
  again.
* `SamplesAreKept` excepts renumbered samples: a new process numbers from 1 again, as does
  a reset that could not delete the rows, and the insert silently skips numbers that have
  rows, while the host is seen.
* `EngineAgrees` excepts the rules that lost a transition and those that a start brought
  several active alerts. `src/README.md` (line 447) lists deduplicated active alerts. A
  resolution that never reached the alert queue, because the transition raised
  (`telemetry_manager.py:488`), the queue was full, or a pause in hybrid mode had detached
  it (line 491), leaves an active row; the next alert of the rule adds another, and a start
  takes both up (line 184). A return to normal then resolves the later one only, and the
  other stays active for good.
* `PeersInOrder` and `NeverDeaf` except what a failed publish queues again behind newer
  messages (`postgres_event_bus.py:170`) and what a bus started over running threads does.
* `GroupedUnlessSetBack`: `src/README.md` (line 454) says that transitions of a host inside
  the window are grouped; the resolution of an older alert moves `last_seen_at` back
  (`incident_engine.py:269`), and an alert close to the newest active one opens a second
  incident.
* `AcyclicUnlessRaced`: two overlapping additions each search before the other is
  committed and close a cycle, which `topology.py:195` means to refuse.
* `AdminUnlessRaced`: `src/README.md` (line 215) says that the last active administrator is
  protected; two who demote each other both count two (`users.py:141`), and none is left.

Three more limits of the code are visible in the models. An
alert dropped at a full queue never becomes durable, so that the incident worker, which
`src/README.md` (line 467) lets retry until the referenced alert is durable, retries that
incident for ever: `TransitionsBecomeDurable` is checked with queues that hold every event.
After failed flushes the agent sends more in one request than its `BATCH_SIZE`, the maximum according to
`src/agent/README.md` (line 55), and beyond
the 250 events a batch may have it is refused with 422 and ends (`Invalidate`). And a key
that is refused ends it as well (`Reject`). What it has buffered then goes with its process:
`ReleasedIsStored` is about the samples of the present process of the agent.

### Bounds

Sets are as small as each hazard allows. Two alerts of one key are needed for a second
creation after a resolution and a restart; two incidents for a second incident after a
final one; a queue of two for a retained item, one behind it and a drop. `MaxRestarts`
bounds restarts: one is enough to reach every state that mixes rows of an old process with
memory of a new one, and a second starts from the same tables. Incidents are symmetric in
the runs without liveness. In the dispatcher two ids of one event, plus one of another
event on another channel, cover repetition, order in the queue and a full queue; the
number of attempts of one job is bounded by `MaxAttempts`. `MCNext` lets the database fail
the worker once in each process, and draws the two ids, which are alike, in one order. No
channel is disabled there; the theorems of section 4.6 cover that too. `MaxStarts` bounds starts of
a process; each begins from a state with everything ended, so that a third only repeats
what two show, and a reset is taken only when the bound leaves it its restart.

`AlertRules`: rules share nothing but the order in which they fire and the list they are
loaded from, for which two are enough. Three samples make a run longer than the
duration, a return to normal and a second alert of a rule that has to hold for no time,
while one deletion and one edit meet in every order (`SamplesEdited`); five samples of the
rule that is not edited go through alert, resolution and second alert, within and after the
cooldown, and reach two active rows; a third row says no more than the second. `IngestionFlow`: two handlers show a retry
beside the request it repeats; three samples and batches of at most two show a batch that
was stored in part. `LiveFanout`: one process talks (`Talkers`) and both listen; a
queue of two, two starts and one failure or stop reach a requeued message behind a newer one
and a start over threads of the previous run; longer chains need the same ingredients
twice. In `Backend` checks meet only in `sync()`, which restarts the task of every check,
so one check with two requests beside its task shows every overlap; four runs
(`MaxRuns`) pass the threshold of two, return, and pass it again.

`TelemetryRecords`: four samples (`MaxTime`) over a queue of three and batches of two show a
drop, a retained batch with newer samples behind it, and numbers that meet again after a
restart; a retention of one and batches of one row make every run take more than one of
them. `MaxFaults` covers failed transactions, timeouts, failed runs and crashes together.
`IncidentCorrelation`: a window of one in a time of three has alerts
within reach of each other, out of it, and joined by one in between. `ServiceTopology`: a
cycle of two takes two overlapping requests, and one of three services a dependency that
was there before; the proofs cover longer ones, and `MaxDeletions` lets a service or a
dependency go before and during a search. `Users`: two requests are enough to miss each
other, and the third account is one that may come or be left. The runs of these two
modules use symmetry: of the names but the first one's, which is the first administrator,
and of the requests.

### Fairness

Weak fairness of `PersistAlert` and `PersistIncident`: the worker is a loop that never
gives up an item, so an attempt that can succeed is made again every second; it is assumed
that the database does not refuse the same valid transaction for ever. A transaction that
violates a foreign key is not enabled, so nothing is assumed of it. The drains of a
shutdown end by their timeouts. The dispatcher's worker takes jobs and backoffs end; every
attempt it has written goes out or fails to, and is answered or times out (`httpx`
timeout), without assuming which of these. Request
threads run on. In the runtime, tasks that are ready run, and the waits of `stop()` end by
timeout; neither a broadcast nor the closing of the clients is assumed to end, since both
wait for clients. `Backend` takes over that
fairness and adds none: the monitor stops by cancellation, so no command waits for a run
to end. In `TelemetryRecords` the worker persists and ends, and the retention task and its
thread run; an attempt may fail only as often as `MaxFaults` says.
Nothing is assumed of operators, conditions, crashes or restarts. The rules, ingestion, the fan-out, the
correlation, the topology and the accounts state safety only: whether a sample is stored depends on an operator who starts a stopped agent,
and whether a browser hears of a resolution on its connection.

## 4. Proofs

Eight modules of proofs, each about the specification TLC checks, for every value of its
constants. The assumptions are those the modules declare (`PipelineAssumption` and its
like: the types of the constants, and that markers such as `None` are none of the values);
TLC evaluates them for the instances. Every invariant and action property that a passing
run lists is stated by a theorem, some of them under a hypothesis that section 4.9 explains.

The names of a module's inductive invariant are given in each section. `IInv` contains as
much of the types as the steps need; where no run lists the type invariant by name
(`TelemetryRecords`, `IncidentCorrelation`, `ServiceTopology`, `Users`,
`NotificationDispatcher`, `TelemetryRuntime`), it is proved as a part of the inductive
invariant or of a property.

### 4.1 AlertPipelineProofs

For all sets of alerts, incidents, keys and hosts, all queue sizes and any number of
restarts:

* `TypeCorrect`: `Spec => []TypeOK`, the queue bounds included.
* `RowsLagBehind`: `Spec => []RowsNeverAhead`.
* `ImplementsLedger`: `Spec => RefinesLedger`.
* `AcceptedAlertsConverge`: `Spec => []AlertsConverge`, the alert half of `QueuesConverge`.
* `TablesStayConsistent`: `Spec => []TablesAreConsistent`.
* `QueuesDoConverge`, `ResolutionsAreFinal`, `ShutdownLosesNothing`:
  `QueuesConverge`, `IncidentRowsStayFinal` and `ShutdownKeepsAll`, if `~AckThreads`.
* `QuietUntilRestart`: `Spec => [](restarts = 0 => ResolvedIffQuiet)`.

The argument for the first three. `RowsNeverAhead` is not inductive: of what waits it says
that each snapshot is behind memory, and `PersistAlert` needs the order among them. The
invariant `IInv` adds

* `PendingInOrder`: for each alert, the states along row, retained item, queue and memory
  only move forward. Appending the newest state keeps it, taking the oldest
  keeps it, and an acknowledgement written straight to the row keeps it because the upsert
  ors the acknowledgement instead of overwriting it;
* `DownIsEmpty`: a stopped process has neither memory nor queues, so `Restart` has only
  the rows to agree with;
* `ActiveKnown`: what is in the active map is an alert the manager holds, so resolving it
  changes a known state.

`Precedes`, the order of the ledger, is shown to be reflexive and transitive, and each
action of `Next` has a lemma that it preserves `IInv`. For the refinement each action is
shown to be a step of `AlertLedger` or a stutter: creation and resolution are `Learn`,
`PersistAlert` is `Flush`, an acknowledgement of a durable alert is `Acknowledge`, the
end of a process is `Forget`, and `Restart` is `Recover`.

The tables (`RowsInv`) read the retained item and the queue as one log. `AlertsSettle`
says that the last entry of an alert in its log, or its row where there is none, is what
the manager holds: it is kept by the worker because a row is written from the oldest
entry, so that it never becomes the last word while a newer one waits. Uniqueness of the
active row needs more (`KeysInv`): no entry or row of a key makes its alert active
while an older alert of the key is still active before it in the log (`OldestFirst`), which
holds only as long as nothing was dropped, and the active map has every active alert under
its key (`ActiveIsIndexed`), so that `start()` finds it again. An incident row is founded
(`FoundedFirst`) by the link its first event commits with it, and every later event
of the incident stands behind that one.

The incidents (`EngineInv`) settle in the same way (`IncidentsSettle`), and their states
along row, log and engine stay resolved once they are (`ResolvedIsFinal`).
These two are kept because every change of an incident queues its snapshot in the same
step; an acknowledging thread does not, so `NotAcking` is part of the invariant.

### 4.2 TelemetryIngestionProofs

For all batch sizes, numbers of attempts and handlers, and any rules:

* `TypeCorrect`: `Spec => []TypeOK`.
* `LetGoIsStored`: `Spec => []ReleasedIsStored`.
* `StoredIsProcessed`: `Spec => []UnprocessedIsInFlight`.
* `ImplementsLedger`: `Spec => RefinesLedger`.
* `RulesStayAgreed`: `ArrivalSpec => []EngineAgrees`.
* `RulesStayCurrent`: `ArrivalSpec => []RulesAreCurrent`.
* `AlertsAreDue`: `ArrivalSpec => FiresOnlyWhenDue`.

The argument. That a sample leaves the buffer with an answer of 200 says nothing yet: the
answer is for the batch of that request, and the insert skipped what the table had by
number. The invariant adds `Awaited` (the request the agent waits for carries its whole
buffer), `Covered` (what a handler is past inserting has a row for each number of its
batch), and `Numbered` (the samples of one process of the agent have different numbers),
which together keep `ReleasedHasRow`. `ReleasedIsStored` follows: the row of that number
is the row of that sample, or one an earlier process of the agent left before its clock was
set back. For the ledger, `TodoIsNew` and
`TodosDisjoint` say that what handlers have still to process is stored, not processed, and
each in one pair of hands; a retry gets only what it inserted itself. `LogIsStored` then
makes every step of a handler one of `Process` and every insert one of `Store`, and the
rest stutters.

The rules (`RulesInv`) are proved rule by rule (`RuleInv`): `Evaluate` and the loads act on
each alone, but for the order in which they fire. Agreement alone is not inductive,
because hydration looks for the newest alert and a reload keeps what the engine had.
`Tabled` says of the table that all its rows are of samples that were evaluated, and that
whatever part of the queue is written, one row of the rule is active at most unless an old
one was left there (`Adrift`); a start from it then has nothing to choose.
`Agreed` adds that the unresolved alert is the last of its list, that the engine remembers
when that one fired, and that none fired later; `FromLog`, that all of them are samples
that were evaluated; `Current`, that the engine's rule is the table's or was just deleted;
`Blank`, that nothing is known of a rule not yet created, which a thread that read its list
before the creation would otherwise load. `RunKnown` says that from the sample the
condition holds since, all samples of the log met it; with it an alert is due when it
is created. The exceptions `torn` and `edited` enter at the lines the properties name.

### 4.3 BackendProofs

For all sets of checks, requests and callers, any threshold and any number of runs, edits,
resets and crashes:

* `StreaksAreTrue`: `BackendSpec => []StreakMatchesHistory`.
* `AlertsFollow`: `BackendSpec => []AlertFollowsStreak`.

And if commands come one at a time (`OneAtATime`, one caller):

* `RuntimeIsWhole`: `BackendSpec => []RuntimeInv`.
* `GeneratedIsPersisted`: `BackendSpec => []RunningIsPersisted`.
* `StopsCompletely`: `BackendSpec => StopIsComplete`.
* `ResultsReachPersistence`: `BackendSpec => ResultsArePersisted`.

The argument. The streak in memory is unknown in a new process and is then read from the
last row; so the invariant (`Counted`) says that memory and the last row agree where both
exist, and that the last row counts the runs since the last success. `AlertKnown` ties the alert to the streak from the first
result on that the manager was told of. `RequestsKnown` bounds which check a request in
flight can write to. Commands, the generation loop and the lifespan change none of it but
through `ForgetAlerts` and `ForgetAll`, which one lemma each covers.

For the runtime the invariant (`SerialInv`) says of a running manager that its task and
its three workers are live and that it is not told to stop (`RunsWhole`), and of a command
in the middle of `stop()` what it has dealt with and what it waits for (`Suspended`): at
the loop everything is still attached and the loop is ending; at a worker the loop is
gone, the workers before it have ended and are detached, and the ones after it are
attached. So a `stop()` that returns has passed each. That no step of `start()`
comes in between is what `OneAtATime` is for. `MonitorStopped` says that the monitor has
ended before the final stop begins; with it a result comes to workers that have not been
told to stop.

### 4.4 TelemetryRecordsProofs

For all sizes of queues and batches, and any number of faults, commands and processes:

* `SamplesAccountedFor`: `Spec => []SamplesAreKept`.
* `HostIsSeenForward`: `Spec => LastSeenIsRight`.
* `YoungRowsAreKept`: `Spec => YoungRowsStay`, the step part of `RowsComeAndGo`.

The argument. A sample leaves the queue with a batch, and the insert gives it a row unless
its number has one. The invariant says of any two samples that wait or have a row that
they share a number only if the numbers started again in between (`NumbersDiffer`), that
what waits is newer than the last such start (`WaitingIsNew`), and that `_sequence` is past
the numbers used since (`NumbersPassed`). Drains keep it because a reset that succeeds
takes the rows with it, and one that fails, like a restart, is an entry in `renumbered`.

`_persist` assigns `last_seen_at` the newest time of its batch without a look at the old
one. That this never goes back (`SeenInTime`) takes the order of all that waits: retained
batch, then queue, each sorted by time, and nothing in them older than `last_seen_at`; the
newest of a batch is then its last (`MaxIsLatest`). A commit whose answer was lost
leaves its batch to be written again with the same result. For the retention (`RunInTime`):
the ids a run has selected are older than its cutoff, and the cutoff only falls further
behind the clock, so a thread that deletes late deletes nothing young.

### 4.5 IncidentCorrelationProofs

For any alerts, incidents, scopes and window:

* `IncidentsHoldTogether`: `Spec => []IncidentsAreSound`.
* `NearAlertsAreGrouped`: `Spec => GroupedUnlessSetBack`.

The argument. What makes an incident a chain is not that `last_seen_at` is the newest time,
which it is not, but that it is always the time of one of its alerts (`SeenAtAnAlert`):
whatever is within the window of it is within the window of an alert (`ChainGrows`). That
each alert is in one incident (`OneIncidentEach`) keeps a resolution from closing another.
Until it is set back, `last_seen_at` is the time of the newest alert
(`SeenAtNewest`); an alert near that one is in reach of the incident and joins it
or another.

### 4.6 NotificationDispatcherProofs

For any channels, jobs, finite set of deliveries, numbers of attempts, retries and faults:

* `RequestsAreCovered`: `Spec => []DispatcherInv`.
* `UnsettledHaveOwners`: `Spec => []UnsettledIsOwned`.
* `DeliveredStays`: `Spec => DeliveredIsKept`.

The argument. Two of the parts of `DispatcherInv` are about requests already sent, and the
row, the job and the worker each know a part of them. `TableInv` ties them together: an
event of a channel has one row (`OneRowPerEvent`), a request is sent only after its row was
written (`PostsHaveRows`) and the worker is at a row that counts the attempts before
this job and those of this job and is not delivered, and has one to spare while the request
of the attempt it wrote is still to go out (`WorkerIsRecorded`). So the attempts
of a row cover the requests sent for it (`AttemptsCoverPosts`), also when a manual retry has
set it back under the worker, or a crash or a failed connection came between the two, and
a second job of the event finds the row and takes its id.
For the owners, a retry that has read or written is counted as one until it has queued, and
a stopped process has none (`DownHasNoRetries`). The deliveries are finite because a
restoration takes the first `RestoreLimit` of them in an order.

### 4.7 LiveFanoutProofs

For any number of processes, threads, clients, alerts and messages:

* `TypeCorrect`: `Spec => []TypeOK`.
* `LocalOrder`: `Spec => []LocalInOrder`.
* `ResolutionIsSeen`: `Spec => []SeesResolution`.
* `PeersKeepOrder`: `Spec => []PeersInOrder`.
* `StartedBusHears`: `Spec => []NeverDeaf`.

The argument. In its own process a client gets a message in the step that dumps it, so
what it saw is a sequence of growing numbers and each true when dumped (`SaidIsTrue`);
`Told` is the hard part of `SeesResolution`: a broadcast asks a copy of the set of clients,
and one that registered in between was told of the alert by another broadcast or not at
all. Over the bus a message passes queue, publisher, the notifications of each connection
and the clients. `InOrder` says of every two neighbouring stages, and so of any two, that
what is in the later one was submitted before what is in the earlier one, and that each
stage is sorted. That needs one publisher and one listener per process: `OneStart` says of
a process that was not started over its own threads (`hasty`) that only the threads
of its last start run. A message that was queued again (`requeued`) breaks the order
for good, and the property with it.

### 4.8 RegistriesProofs

For any services, requests and deletions:

* `SearchesAreRight`: `Spec => []SearchIsRight`.
* `OnlyRacesCloseCycles`: `Spec => []AcyclicUnlessRaced`.

The argument. `SearchInv` is the invariant of the loop: the target was visited or is on
the stack, the source was not visited, what a visited service depends on was visited or is
on the stack, and all of the stack can be reached. An empty stack makes the visited services
a closed set without the source. An insert that missed nothing then closes no cycle
(`AddedIsAcyclic`), and deletions close none.

For any accounts and requests:

* `OnlyRacesTakeTheLast`: `UsersSpec => []AdminUnlessRaced`.

The argument (`UpdateInv`). A request that is ready to commit and missed nothing since its
last look either takes no administrator away, because it writes over the account it read,
or has counted two: then another one is there.

### 4.9 The hypotheses, and what is only model-checked

A hypothesis stands only where the statement without it is false, and a run shows that:

* `~AckThreads` in `AlertPipelineProofs`. With threads that acknowledge incidents an older
  snapshot is queued behind a newer one (run `AlertPipelineAckRace`). The hypothesis takes
  away all acknowledgements of incidents, those that meet nothing included. The alert half
  of `QueuesConverge`, the consistency of the tables and the first process of
  `ResolvedIffQuiet` are proved with these threads.
* `restarts = 0` in `QuietUntilRestart`: a restored incident may have no alert that could
  resolve it (run `AlertPipelineStuckOpen`).
* `OneAtATime` in `BackendProofs`: with two callers a resume during a pause leaves a manager
  without persistence (run `RuntimePauseResume`).

Only model-checked are the liveness properties, since fairness and `ENABLED` are out of the
prover's reach: `TransitionsBecomeDurable`, `DeliveriesSettle`, `StopsReturn`, and
of `RowsComeAndGo` that waiting samples get their row and old rows go.

## 5. Not modelled

Arithmetic and wording (anomaly detection, generator, SLO evaluation, aggregation,
evidence), read-only endpoints, login with passwords and tokens, configuration,
migrations, deployment.

Request-local work on one row: API keys, hosts but for their deletion, the names of services.

In the modelled parts:

* alerts and incidents: messages and values; in `AlertPipeline` also severities and
  timestamps, which `IncidentCorrelation` has; pausing and resetting, whose effect on the
  workers is in `TelemetryRuntime` and on the rules in `AlertRules`; an alert whose rule is
  deleted while it is active stays active in the models as in the code, and nothing says
  what should become of it;
* telemetry rows: several hosts, whose rows share nothing, and the batches of agents, which
  `TelemetryIngestion` has; a clock that goes back; two samples of one instant;
* rules: several hosts, whose states share nothing; `upsert_rule`, `remove_rule` and
  `clear_host`, which nothing calls;
* ingestion: the window of the rate limiter (a refusal may come at any time), what samples
  measure, edits of rules and commands of the manager between them, the synthetic producer,
  whose sequence numbers restart with its process;
* dispatcher: URL validation, signatures, edits of a channel's filters;
* bus and fan-out: what clients send, the wording of messages, the time a token expires at
  (a token may be refused at any time);
* runtime: agent mode's start, a start that finds no persistence host or no database;
* monitor: what a run requests; several processes that each run the same checks, whose
  streaks are each their own.

A notification that is queued when the process ends is lost in the model as in the code:
its row is written when the worker takes the job.

## 6. State of the plan

Done: the alert path with its ledger, the dispatcher and the runtime; the rules; agent,
ingestion and rules together with their ledger; the event bus with the WebSocket managers;
the synthetic monitor with the runtime as one backend; the rows of telemetry with their
retention; the correlation of incidents; topology and users; the proofs of section 4.

Worth doing next, in this order: acknowledgements of incidents that no step of the loop
overtakes, as a history in `AlertPipeline`, so that the convergence of incidents is stated
and proved with them in place of `~AckThreads`; the same for commands that do not overlap
with several callers, in place of `OneAtATime`; the bus as an implementation of a channel
that loses messages and keeps their order, of which `PeersInOrder` is then a consequence;
what a restart restores, as theorems about `Restart` of `AlertPipeline` and of the
dispatcher.
