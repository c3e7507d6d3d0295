------------------------- MODULE TelemetryIngestion -------------------------
(***************************************************************************)
(* Telemetry of one host from its agent to its rules: the agent's buffer   *)
(* and its retries, requests that are slow, lost or refused, the batch     *)
(* insert with its unique constraint, and the live processing of what was  *)
(* inserted, one sample at a time.                                         *)
(*                                                                         *)
(* A handler suspends after each sample, when it broadcasts it.  It goes   *)
(* on when the agent has given up waiting, so that a retry, or a later     *)
(* batch, may overtake it.  Rules are not edited here: AlertRules has      *)
(* edits between samples that arrive in any order.                         *)
(***************************************************************************)
EXTENDS AlertRules

CONSTANTS
    Slots,          \* bound on the requests in flight
    BatchSize,      \* batch_size of the agent
    MaxBatch,       \* events the API accepts in a batch
    MaxAttempts,    \* attempts of a flush
    MaxFaults       \* bound on setbacks of the clock, reboots and crashes

ASSUME IngestionAssumption ==
    /\ {BatchSize, MaxBatch, MaxAttempts} \subseteq Nat \ {0}
    /\ MaxFaults \in Nat
    /\ Slots \cap {"collecting", "flushing", "ended"} = {}

VARIABLES
    clock,      \* the wall clock of the host
    agent,      \* the agent's loop
    pending,    \* its buffer
    boot,       \* history: the first sample of its present process
    request,    \* the requests that reached the server, and their handlers
    stored,     \* telemetry_records
    abandoned,  \* history: rows whose live processing was given up
    faults      \* faults so far

agentVars == <<sample, clock, agent, pending, boot>>
serverVars == <<request, stored, abandoned>>
vars == <<sample, ruleVars, clock, agent, pending, boot, request, stored,
          abandoned, faults>>

Free == [at |-> "free", batch |-> {}, todo |-> {}]
Booted == [at |-> "collecting", attempt |-> 1, last |-> 0, stopping |-> FALSE,
           final |-> FALSE]

TypeOK ==
    LET Samples == 1..Len(sample)
    IN  /\ RulesTypeOK
        /\ sample \in Seq([seq : Nat, time : Nat, value : Values])
        /\ Len(sample) <= MaxSamples
        /\ clock \in Nat
        /\ agent.at \in {"collecting", "flushing", "ended"} \cup Slots
        /\ agent.attempt \in 1..MaxAttempts
        /\ agent.last \in Nat
        /\ {agent.stopping, agent.final} \subseteq BOOLEAN
        /\ pending \subseteq Samples /\ boot \in 1..(MaxSamples + 1)
        /\ \A s \in Slots :
             /\ request[s].at \in {"free", "sent", "processing"}
             /\ request[s].todo \subseteq request[s].batch
             /\ request[s].batch \subseteq Samples
        /\ stored \subseteq Samples /\ abandoned \subseteq stored
        /\ faults \in 0..MaxFaults

Init ==
    /\ RulesInit
    /\ sample = <<>>
    /\ clock = 0
    /\ agent = Booted
    /\ pending = {}
    /\ boot = 1
    /\ request = [s \in Slots |-> Free]
    /\ stored = {}
    /\ abandoned = {}
    /\ faults = 0

-----------------------------------------------------------------------------
(* The agent.                                                              *)

Faulty == faults < MaxFaults /\ faults' = faults + 1

Larger(a, b) == IF a > b THEN a ELSE b

\* Slip: the clock alone numbers the samples.
ClockSequence(now) == now

\* In milliseconds of the clock, but always beyond the last one.
NextSequence(now) == Larger(agent.last + 1, now)

Collect(v) ==
    /\ agent.at = "collecting" /\ ~agent.stopping
    /\ Len(sample) < MaxSamples
    /\ clock' = clock + 1
    /\ sample' = Append(sample, [seq |-> NextSequence(clock'), time |-> clock', value |-> v])
    /\ pending' = pending \cup {Len(sample')}
    /\ agent' = [agent EXCEPT
          !.last = NextSequence(clock'),
          !.at = IF Cardinality(pending') >= BatchSize THEN "flushing" ELSE @]
    /\ UNCHANGED <<ruleVars, boot, serverVars, faults>>

\* SIGTERM sets an event; what is buffered is flushed once more.
Signal ==
    /\ agent.at # "ended" /\ ~agent.stopping
    /\ agent' = [agent EXCEPT !.stopping = TRUE]
    /\ UNCHANGED <<sample, ruleVars, clock, pending, boot, serverVars, faults>>

FinalFlush ==
    /\ agent.at = "collecting" /\ agent.stopping
    /\ agent' = [agent EXCEPT !.at = IF pending = {} THEN "ended" ELSE "flushing",
                              !.final = TRUE]
    /\ UNCHANGED <<sample, ruleVars, clock, pending, boot, serverVars, faults>>

\* _flush returns; the loop goes on, or ends after the last one.
Returned(a) == [a EXCEPT !.attempt = 1, !.at = IF a.final THEN "ended" ELSE "collecting"]

\* Slip: one attempt more than there are.
RetriedOnce(a) ==
    IF a.attempt > MaxAttempts THEN Returned(a)
    ELSE [a EXCEPT !.attempt = @ + 1, !.at = "flushing"]

\* A failed attempt is followed by the next one, after a delay, or ends the
\* flush with the buffer as it was.
Retried(a) ==
    IF a.attempt = MaxAttempts THEN Returned(a)
    ELSE [a EXCEPT !.attempt = @ + 1, !.at = "flushing"]

Post(s) ==
    /\ agent.at = "flushing" /\ request[s].at = "free"
    /\ request' = [request EXCEPT ![s] = [at |-> "sent", batch |-> pending, todo |-> {}]]
    /\ agent' = [agent EXCEPT !.at = s]
    /\ UNCHANGED <<sample, ruleVars, clock, pending, boot, stored, abandoned, faults>>

\* No connection, or no answer in time: the request may be lost or late.
PostFails ==
    /\ agent.at \in {"flushing"} \cup Slots
    /\ agent' = Retried(agent)
    /\ UNCHANGED <<sample, ruleVars, clock, pending, boot, serverVars, faults>>

\* The clock is set back.
SetBack(t) ==
    /\ Faulty
    /\ clock' = t
    /\ UNCHANGED <<sample, ruleVars, agent, pending, boot, serverVars>>

\* A new process of the agent, whether the last one ended or died.
Reboot ==
    /\ Faulty
    /\ agent' = Booted
    /\ pending' = {}
    /\ boot' = Len(sample) + 1
    /\ UNCHANGED <<sample, ruleVars, clock, serverVars>>

\* What an answer does to an agent that still waits for it.  A rejected key
\* (401) and a refused batch (422) raise out of its loop.
Receive(s, code) ==
    IF agent.at # s THEN UNCHANGED <<agent, pending>>
    ELSE /\ agent' = CASE code = 200 -> Returned(agent)
                       [] code \in {429, 500} -> Retried(agent)
                       [] code \in {401, 422} -> [agent EXCEPT !.at = "ended"]
         /\ pending' = IF code = 200 THEN {} ELSE pending

-----------------------------------------------------------------------------
(* The server.                                                             *)

Respond(s, code) ==
    /\ request' = [request EXCEPT ![s] = Free]
    /\ Receive(s, code)

Refuse(s, code) ==
    /\ request[s].at = "sent"
    /\ Respond(s, code)
    /\ UNCHANGED <<sample, ruleVars, clock, boot, stored, abandoned, faults>>

\* The window of the key is full.  What fills it is not modelled.
LimitRate(s) == Refuse(s, 429)

\* The key is revoked or its host not active, for the moment or for good.
Reject(s) == Refuse(s, 401)

\* The batch has more events than the API takes.
Invalidate(s) ==
    /\ Cardinality(request[s].batch) > MaxBatch
    /\ Refuse(s, 422)

\* The database fails before the commit.
FailToStore(s) == Refuse(s, 500)

Refused(s) == LimitRate(s) \/ Reject(s) \/ Invalidate(s) \/ FailToStore(s)

\* A request that got lost on the way.
Lose(s) ==
    /\ request[s].at = "sent" /\ agent.at # s
    /\ request' = [request EXCEPT ![s] = Free]
    /\ UNCHANGED <<agentVars, ruleVars, stored, abandoned, faults>>

First(todo) == CHOOSE i \in todo : \A j \in todo : i <= j

\* process_event for the first of the samples: it is evaluated, and the
\* handler suspends; or a transition raises; or the stage before the rules
\* does.
ProcessFirst(s, todo) ==
    LET i == First(todo)
    IN  \/ /\ Evaluate(i)
           /\ request' = [request EXCEPT ![s].at = "processing", ![s].todo = todo \ {i}]
           /\ UNCHANGED <<agent, pending, abandoned>>
        \/ /\ EvaluateFails(i)
           /\ abandoned' = abandoned \cup (todo \ {i})
           /\ Respond(s, 500)
        \/ /\ abandoned' = abandoned \cup todo
           /\ Respond(s, 500)
           /\ UNCHANGED ruleVars

\* Slip: the whole batch is taken for inserted.
FreshAll(batch) == batch

\* The samples of a batch whose sequence number has no row yet.
Fresh(batch) ==
    {i \in batch : \A j \in stored : sample[j].seq # sample[i].seq}

\* ingest_telemetry from the insert to its first suspension.  The second
\* commit, of the key's last use, may fail on its own.
Persist(s) ==
    /\ request[s].at = "sent"
    /\ Cardinality(request[s].batch) <= MaxBatch
    /\ LET new == Fresh(request[s].batch)
       IN  /\ stored' = stored \cup new
           /\ \/ /\ new # {}
                 /\ ProcessFirst(s, new)
              \/ /\ new = {}
                 /\ Respond(s, 200)
                 /\ UNCHANGED <<ruleVars, abandoned>>
    /\ UNCHANGED <<sample, clock, boot, faults>>

\* Slip: a handler whose client is gone is forgotten.
ContinueIfAwaited(s) ==
    /\ request[s].at = "processing"
    /\ IF request[s].todo # {} /\ agent.at = s
       THEN ProcessFirst(s, request[s].todo)
       ELSE Respond(s, 200) /\ UNCHANGED <<ruleVars, abandoned>>
    /\ UNCHANGED <<sample, clock, boot, stored, faults>>

\* The broadcasts of a sample are done: the next one, or the answer.
Continue(s) ==
    /\ request[s].at = "processing"
    /\ \/ /\ request[s].todo # {}
          /\ ProcessFirst(s, request[s].todo)
       \/ /\ request[s].todo = {}
          /\ Respond(s, 200)
          /\ UNCHANGED <<ruleVars, abandoned>>
    /\ UNCHANGED <<sample, clock, boot, stored, faults>>

\* The server dies and starts again; its clients lose their connections.
CrashAndRestart ==
    /\ Faulty
    /\ request' = [s \in Slots |-> Free]
    /\ abandoned' = abandoned \cup UNION {request[s].todo : s \in Slots}
    /\ agent' = IF agent.at \in Slots THEN Retried(agent) ELSE agent
    /\ RestartRules
    /\ UNCHANGED <<sample, clock, pending, boot, stored>>

Next ==
    \/ \E v \in Values : Collect(v)
    \/ Signal \/ FinalFlush \/ PostFails \/ Reboot
    \/ \E t \in 0..(clock - 1) : SetBack(t)
    \/ \E s \in Slots :
         \/ Post(s) \/ Refused(s) \/ Lose(s) \/ Persist(s) \/ Continue(s)
    \/ CrashAndRestart

Spec == Init /\ [][Next]_vars

-----------------------------------------------------------------------------
(* Properties.                                                             *)

\* What the agent has let go of is stored: a sample leaves the buffer of a
\* running agent only once a row has its sequence number, through timeouts,
\* refusals, overtaken requests and crashes of the server.  That row is its
\* own or one of an earlier process of the agent, before its clock was set
\* back; never another sample of the same process.
ReleasedIsStored ==
    \A i \in boot..Len(sample) :
        i \in pending \/ i \in stored
        \/ \E j \in stored : j < boot /\ sample[j].seq = sample[i].seq

\* A row is processed, waits for it in a handler, or was given up by one that
\* failed or crashed: no retry, timeout or overlap of handlers forgets it.
UnprocessedIsInFlight ==
    \A i \in stored :
        \/ \E n \in DOMAIN log : log[n] = i
        \/ i \in abandoned
        \/ \E s \in Slots : i \in request[s].todo

\* Ingestion implements the ledger of samples: the table only grows, and each
\* stored sample is evaluated at most once.
Ledger == INSTANCE SampleLedger WITH
    Sample <- 1..MaxSamples, stored <- stored, processed <- log

RefinesLedger == Ledger!Spec

=============================================================================
