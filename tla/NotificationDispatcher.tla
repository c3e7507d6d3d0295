----------------------- MODULE NotificationDispatcher -----------------------
(***************************************************************************)
(* Signed webhook notifications: the bounded queue the alert transitions   *)
(* fill, the one worker that delivers, the delivery table it writes ahead  *)
(* of every request, the manual retry of a failed delivery, and what a new *)
(* process restores.                                                       *)
(*                                                                         *)
(* The worker and the transitions run on the event loop: what they do      *)
(* between two awaits is one action.  Retries, tests and the administration *)
(* of channels are `def` endpoints on threads of the pool: a step of theirs *)
(* is one database transaction or one call of the dispatcher.              *)
(***************************************************************************)
EXTENDS Naturals, Sequences, FiniteSets

CONSTANTS
    Deliveries,       \* delivery ids (uuid4: each is drawn once)
    Events,           \* (event_type, event_id) of what is notified
    TestEvents,       \* those of connectivity tests, sent on demand
    ChannelOrder,     \* the channels, in the order of their names
    ChannelOf,        \* the channel and the event an id is drawn for
    EventOf,
    Wanted,           \* events the filters of a channel let through
    FirstChannels,    \* the channels in the table at the beginning
    MayBecome,        \* what administrators may make of each channel
    Retries,          \* requests to retry a failed delivery
    QueueSize,        \* webhook_queue_size
    MaxAttempts,      \* webhook_max_attempts
    RestoreLimit,     \* the 500 rows a start restores at most
    DatabaseFails,    \* TRUE when a transaction of the worker may fail
    MaxRestarts,      \* bound on the restarts of a behaviour
    None              \* no row, no job, no request

Channels == {ChannelOrder[n] : n \in DOMAIN ChannelOrder}

Statuses == {"pending", "delivering", "delivered", "failed"}

\* A row of the delivery table, and what the worker knows in the middle of one.
DeliveryRow == [status : Statuses, attempts : Nat]
Work == [row : Deliveries, previous : Nat, attempt : 1..MaxAttempts,
         at : {"written", "posted", "backoff"}]

ASSUME DispatcherAssumption ==
    /\ IsFiniteSet(Deliveries)
    /\ ChannelOrder \in Seq(Channels)
    /\ TestEvents \subseteq Events
    /\ ChannelOf \in [Deliveries -> Channels]
    /\ EventOf \in [Deliveries -> Events]
    /\ Wanted \in [Channels -> SUBSET (Events \ TestEvents)]
    /\ FirstChannels \subseteq Channels
    /\ MayBecome \in [Channels -> SUBSET {"enabled", "disabled", "deleted"}]
    /\ QueueSize \in Nat \ {0} /\ MaxAttempts \in Nat \ {0}
    /\ RestoreLimit \in Nat \ {0}
    /\ DatabaseFails \in BOOLEAN
    /\ MaxRestarts \in Nat
    /\ None \notin Deliveries
    /\ None \notin DeliveryRow \cup Work

VARIABLES
    phase,      \* "up", "stopping" or "down"
    channel,    \* table notification_channels
    loaded,     \* _channels: the enabled channels as of the last reload
    queue,      \* _queue, each job named by its delivery id
    worker,     \* the delivery the worker is in the middle of
    delivery,   \* table notification_deliveries
    retry,      \* where each retry request is
    drawn,      \* ids drawn so far
    restarts,   \* restarts so far
    posts,      \* history: requests that reached the receiver
    stranded    \* history: deliveries this process gave up on or never knew

vars == <<phase, channel, loaded, queue, worker, delivery, retry, drawn,
          restarts, posts, stranded>>

TypeOK ==
    /\ phase \in {"up", "stopping", "down"}
    /\ channel \in [Channels -> {"absent", "enabled", "disabled", "deleted"}]
    /\ loaded \subseteq Channels
    /\ queue \in Seq(Deliveries) /\ Len(queue) <= QueueSize
    /\ worker \in Work \cup {None}
    /\ delivery \in [Deliveries -> DeliveryRow \cup {None}]
    /\ retry \in [Retries -> [at : {"new", "read", "written", "done"},
                             row : Deliveries \cup {None}]]
    /\ drawn \subseteq Deliveries
    /\ restarts \in 0..MaxRestarts
    /\ posts \in [Deliveries -> Nat]
    /\ stranded \subseteq Deliveries

Enabled == {c \in Channels : channel[c] = "enabled"}

Init ==
    /\ phase = "up"
    /\ channel = [c \in Channels |-> IF c \in FirstChannels THEN "enabled" ELSE "absent"]
    /\ loaded = FirstChannels
    /\ queue = <<>>
    /\ worker = None
    /\ delivery = [d \in Deliveries |-> None]
    /\ retry = [r \in Retries |-> [at |-> "new", row |-> None]]
    /\ drawn = {}
    /\ restarts = 0
    /\ posts = [d \in Deliveries |-> 0]
    /\ stranded = {}

-----------------------------------------------------------------------------
(* Enqueueing.                                                             *)

Room == QueueSize - Len(queue)

Fitting(jobs) == IF Len(jobs) <= Room THEN jobs ELSE SubSeq(jobs, 1, Room)

Before(c, d) ==
    \E m, n \in DOMAIN ChannelOrder :
        m < n /\ ChannelOrder[m] = c /\ ChannelOrder[n] = d

\* _enqueue draws an id for each channel that wants the event and queues the
\* job.  The one that meets a full queue raises (the warning names a variable
\* that does not exist): the channels after it are never tried.
Notify(e) ==
    LET targets == {c \in loaded : e \in Wanted[c]} IN
    /\ phase = "up"
    /\ targets # {}
    /\ \E id \in [1..Cardinality(targets) -> Deliveries \ drawn] :
         /\ {ChannelOf[id[n]] : n \in DOMAIN id} = targets
         /\ \A n \in DOMAIN id : EventOf[id[n]] = e
         /\ \A m, n \in DOMAIN id : m < n => Before(ChannelOf[id[m]], ChannelOf[id[n]])
         /\ queue' = queue \o Fitting(id)
         /\ drawn' = drawn \cup {id[n] : n \in DOMAIN id}
    /\ UNCHANGED <<phase, channel, loaded, worker, delivery, retry, restarts,
                   posts, stranded>>

\* The same for the one channel that a test names, whatever its filters.
EnqueueTest(d) ==
    /\ d \notin drawn
    /\ ChannelOf[d] \in loaded
    /\ queue' = queue \o Fitting(<<d>>)
    /\ drawn' = drawn \cup {d}

\* test_channel: an administrator tests a channel that is enabled.
Test(d) ==
    /\ phase = "up"
    /\ EventOf[d] \in TestEvents
    /\ ChannelOf[d] \in Enabled
    /\ EnqueueTest(d)
    /\ UNCHANGED <<phase, channel, loaded, worker, delivery, retry, restarts,
                   posts, stranded>>

-----------------------------------------------------------------------------
(* The worker.                                                             *)

SameEvent(d, e) == ChannelOf[d] = ChannelOf[e] /\ EventOf[d] = EventOf[e]

\* Slip: an event that already has a row is not looked for.
RowOfId(job) ==
    IF delivery[job] # None \/ channel[ChannelOf[job]] # "deleted" THEN job ELSE None

\* _ensure_delivery_row: the row of the job, else the row of its event, else
\* the row it inserts, which needs the channel to exist.
RowOf(job) ==
    LET known == {d \in Deliveries : delivery[d] # None /\ SameEvent(d, job)}
    IN  IF delivery[job] # None THEN job
        ELSE IF known # {} THEN CHOOSE d \in known : TRUE
        ELSE IF channel[ChannelOf[job]] # "deleted" THEN job
        ELSE None

Attempts(d) == IF delivery[d] = None THEN 0 ELSE delivery[d].attempts

\* The attempt goes to the table before its request goes out; the update of a
\* row that is gone changes nothing, and the attempt is made all the same.
WriteAhead(d, previous, attempt, exists) ==
    /\ delivery' = IF exists
                   THEN [delivery EXCEPT ![d] =
                            [status |-> "delivering", attempts |-> previous + attempt]]
                   ELSE delivery
    /\ worker' = [row |-> d, previous |-> previous, attempt |-> attempt, at |-> "written"]

TakeJob ==
    LET row == RowOf(Head(queue)) IN
    /\ phase # "down"
    /\ worker = None
    /\ queue # <<>>
    /\ queue' = Tail(queue)
    /\ IF row = None \/ (delivery[row] # None /\ delivery[row].status = "delivered")
       THEN UNCHANGED <<delivery, worker>>
       ELSE WriteAhead(row, Attempts(row), 1, TRUE)
    /\ UNCHANGED <<phase, channel, loaded, retry, drawn, restarts, posts, stranded>>

\* Slip: the row is written back to "pending" whatever it says.
TakeJobResets ==
    LET row == RowOf(Head(queue)) IN
    /\ DatabaseFails
    /\ phase # "down"
    /\ worker = None
    /\ queue # <<>> /\ row # None
    /\ queue' = Tail(queue)
    /\ delivery' = [delivery EXCEPT ![row] = [status |-> "pending", attempts |-> Attempts(row)]]
    /\ stranded' = stranded \cup {row}
    /\ UNCHANGED <<phase, channel, loaded, worker, retry, drawn, restarts, posts>>

\* An exception of the database ends the delivery before or after the row is
\* inserted; the worker logs it and goes on with the next job.
TakeJobFails ==
    LET row == RowOf(Head(queue)) IN
    /\ DatabaseFails
    /\ phase # "down"
    /\ worker = None
    /\ queue # <<>>
    /\ queue' = Tail(queue)
    /\ \/ UNCHANGED delivery
       \/ /\ row # None
          /\ delivery[row] = None
          /\ delivery' = [delivery EXCEPT ![row] = [status |-> "pending", attempts |-> 0]]
    /\ stranded' = IF row = None THEN stranded ELSE stranded \cup {row}
    /\ UNCHANGED <<phase, channel, loaded, worker, retry, drawn, restarts, posts>>

Settle(status) ==
    /\ delivery' = IF delivery[worker.row] = None THEN delivery
                   ELSE [delivery EXCEPT ![worker.row] =
                            [status |-> status,
                             attempts |-> worker.previous + worker.attempt]]
    /\ worker' = None

Attempting(at) == phase # "down" /\ worker # None /\ worker.at \in at

\* The request reaches the receiver.
Post ==
    /\ Attempting({"written"})
    /\ worker' = [worker EXCEPT !.at = "posted"]
    /\ posts' = [posts EXCEPT ![worker.row] = @ + 1]
    /\ UNCHANGED <<phase, channel, loaded, queue, delivery, retry, drawn, restarts,
                   stranded>>

Accepted ==
    /\ Attempting({"posted"})
    /\ Settle("delivered")
    /\ UNCHANGED <<phase, channel, loaded, queue, retry, drawn, restarts, posts,
                   stranded>>

\* Slip: a refusal ends the delivery without a word in the table.
RefusedSilently ==
    /\ Attempting({"posted"})
    /\ worker' = None
    /\ UNCHANGED <<phase, channel, loaded, queue, delivery, retry, drawn, restarts,
                   posts, stranded>>

\* A 4xx that is not worth a retry fails the delivery at once, a transient
\* refusal, a lost answer or a connection that fails before the request has
\* reached anyone only once the attempts are used up.
Refused ==
    /\ Attempting({"written", "posted"})
    /\ worker.at = "posted" \/ worker.attempt = MaxAttempts
    /\ Settle("failed")
    /\ UNCHANGED <<phase, channel, loaded, queue, retry, drawn, restarts, posts,
                   stranded>>

Unavailable ==
    /\ Attempting({"written", "posted"})
    /\ worker.attempt < MaxAttempts
    /\ worker' = [worker EXCEPT !.at = "backoff"]
    /\ UNCHANGED <<phase, channel, loaded, queue, delivery, retry, drawn,
                   restarts, posts, stranded>>

NextAttempt ==
    /\ Attempting({"backoff"})
    /\ WriteAhead(worker.row, worker.previous, worker.attempt + 1,
                  delivery[worker.row] # None)
    /\ UNCHANGED <<phase, channel, loaded, queue, retry, drawn, restarts, posts,
                   stranded>>

\* The state of an attempt cannot be written: the row keeps what it had.
DeliveryFails ==
    /\ DatabaseFails
    /\ phase # "down"
    /\ worker # None
    /\ stranded' = stranded \cup {worker.row}
    /\ worker' = None
    /\ UNCHANGED <<phase, channel, loaded, queue, delivery, retry, drawn,
                   restarts, posts>>

-----------------------------------------------------------------------------
(* Administration, on threads.                                             *)

\* A request commits a new channel ...
CreateChannel(c) ==
    /\ phase = "up"
    /\ channel[c] = "absent"
    /\ channel' = [channel EXCEPT ![c] = "enabled"]
    /\ UNCHANGED <<phase, loaded, queue, worker, delivery, retry, drawn, restarts,
                   posts, stranded>>

\* ... or the change of a channel, or its deletion, and its deliveries go with it.
ChangeChannel(c, to) ==
    /\ phase = "up"
    /\ to \in MayBecome[c]
    /\ channel[c] \notin {to, "absent", "deleted"}
    /\ channel' = [channel EXCEPT ![c] = to]
    /\ delivery' = [d \in Deliveries |->
          IF to = "deleted" /\ ChannelOf[d] = c THEN None ELSE delivery[d]]
    /\ UNCHANGED <<phase, loaded, queue, worker, retry, drawn, restarts, posts,
                   stranded>>

\* ... and then reload() reads the table and replaces the map.
Reload ==
    /\ phase = "up"
    /\ loaded # Enabled
    /\ loaded' = Enabled
    /\ UNCHANGED <<phase, channel, queue, worker, delivery, retry, drawn,
                   restarts, posts, stranded>>

\* retry_delivery in three steps: it reads a failed row ...
RetryReads(r, d) ==
    /\ phase = "up"
    /\ retry[r].at = "new"
    /\ delivery[d] # None /\ delivery[d].status = "failed"
    /\ ChannelOf[d] \in loaded
    /\ retry' = [retry EXCEPT ![r] = [at |-> "read", row |-> d]]
    /\ UNCHANGED <<phase, channel, loaded, queue, worker, delivery, drawn,
                   restarts, posts, stranded>>

\* ... commits "pending" (which fails if the row has gone) ...
RetryWrites(r) ==
    /\ retry[r].at = "read"
    /\ LET d == retry[r].row IN
       IF delivery[d] = None
       THEN /\ retry' = [retry EXCEPT ![r].at = "done"]
            /\ UNCHANGED delivery
       ELSE /\ retry' = [retry EXCEPT ![r].at = "written"]
            /\ delivery' = [delivery EXCEPT ![d].status = "pending"]
    /\ UNCHANGED <<phase, channel, loaded, queue, worker, drawn, restarts, posts,
                   stranded>>

\* Slip: the retry is recorded and never queued.
RetryRecorded(r) ==
    /\ retry[r].at = "written"
    /\ retry' = [retry EXCEPT ![r].at = "done"]
    /\ UNCHANGED <<phase, channel, loaded, queue, worker, delivery, drawn, restarts,
                   posts, stranded>>

\* ... and queues the job.  A full queue raises before the step that would
\* have set the row back to "failed".
RetryQueues(r) ==
    /\ retry[r].at = "written"
    /\ queue' = queue \o Fitting(<<retry[r].row>>)
    /\ retry' = [retry EXCEPT ![r].at = "done"]
    /\ stranded' = IF Room > 0 THEN stranded ELSE stranded \cup {retry[r].row}
    /\ UNCHANGED <<phase, channel, loaded, worker, delivery, drawn, restarts, posts>>

-----------------------------------------------------------------------------
(* The process.                                                            *)

InRequest == {r \in Retries : retry[r].at \in {"read", "written"}}

Shutdown ==
    /\ phase = "up"
    /\ InRequest = {}
    /\ phase' = "stopping"
    /\ UNCHANGED <<channel, loaded, queue, worker, delivery, retry, drawn,
                   restarts, posts, stranded>>

Stopped ==
    /\ phase' = "down"
    /\ loaded' = {}
    /\ queue' = <<>>
    /\ worker' = None
    /\ retry' = [r \in Retries |->
          IF r \in InRequest THEN [retry[r] EXCEPT !.at = "done"] ELSE retry[r]]
    /\ stranded' = {}
    /\ UNCHANGED <<channel, delivery, drawn, restarts, posts>>

\* stop() waits for the queue to empty, and cancels the worker after 15 s.
Stop == phase = "stopping" /\ Stopped

Crash == phase # "down" /\ Stopped

Unsettled ==
    {d \in Deliveries : delivery[d] # None
                        /\ delivery[d].status \in {"pending", "delivering"}}

Orders(S) ==
    {f \in [1..Cardinality(S) -> S] : \A m, n \in DOMAIN f : f[m] = f[n] => m = n}

\* start(): the oldest unsettled rows, up to the limit, whose channel is
\* enabled; a full queue ends the restoration.
Start ==
    /\ phase = "down"
    /\ restarts < MaxRestarts
    /\ phase' = "up"
    /\ restarts' = restarts + 1
    /\ loaded' = Enabled
    /\ \E oldest \in SUBSET Unsettled :
         /\ \/ oldest = Unsettled /\ Cardinality(oldest) <= RestoreLimit
            \/ Cardinality(oldest) = RestoreLimit
         /\ \E order \in Orders({d \in oldest : ChannelOf[d] \in Enabled}) :
              /\ queue' = Fitting(order)
              /\ stranded' = Unsettled \ {Fitting(order)[n] : n \in DOMAIN Fitting(order)}
    /\ UNCHANGED <<channel, worker, delivery, retry, drawn, posts>>

Next ==
    \/ \E e \in Events : Notify(e)
    \/ \E d \in Deliveries : Test(d)
    \/ TakeJob \/ TakeJobFails
    \/ Post \/ Accepted \/ Refused \/ Unavailable \/ NextAttempt \/ DeliveryFails
    \/ \E c \in Channels :
         CreateChannel(c) \/ \E to \in MayBecome[c] : ChangeChannel(c, to)
    \/ Reload
    \/ \E r \in Retries, d \in Deliveries : RetryReads(r, d)
    \/ \E r \in Retries : RetryWrites(r) \/ RetryQueues(r)
    \/ Shutdown \/ Stop \/ Crash \/ Start

Spec == Init /\ [][Next]_vars

\* The worker is a task of the loop: it takes the next job, every request goes
\* out or fails and is answered or times out, and every backoff ends.  Request
\* threads run on.
Fairness ==
    /\ WF_vars(TakeJob) /\ WF_vars(NextAttempt)
    /\ WF_vars(Post \/ Accepted \/ Refused \/ Unavailable)
    /\ \A r \in Retries : WF_vars(RetryWrites(r)) /\ WF_vars(RetryQueues(r))
    /\ WF_vars(Stop)

FairSpec == Spec /\ Fairness

-----------------------------------------------------------------------------
(* Properties.                                                             *)

Queued == {queue[n] : n \in DOMAIN queue}

\* A receiver can recognise a repetition: whatever is emitted, lost, retried
\* or restored, all requests for an event of a channel carry one delivery id.
OneDeliveryIdPerEvent ==
    \A d, e \in Deliveries :
        posts[d] > 0 /\ posts[e] > 0 /\ SameEvent(d, e) => d = e

\* The table never counts fewer requests than went out: an attempt is written
\* before its request, and one after a retry or a restart adds to the count.  A
\* crash or a failed connection in between leaves an attempt without a request.
\* What the table calls delivered did go out.
AttemptsCoverPosts ==
    \A d \in Deliveries :
        delivery[d] # None =>
            /\ posts[d] <= delivery[d].attempts
            /\ delivery[d].status = "delivered" => posts[d] > 0

\* The delivery table bounds how often each event went out, and tells under
\* which id, although rows, jobs and requests are written and lost apart.
DispatcherInv == TypeOK /\ OneDeliveryIdPerEvent /\ AttemptsCoverPosts

\* A delivery the table calls pending or delivering is about to be attempted,
\* unless this process has given it up or never restored it.
UnsettledIsOwned ==
    phase # "down" =>
        \A d \in Unsettled \ stranded :
            \/ d \in Queued
            \/ worker # None /\ worker.row = d
            \/ \E r \in Retries : retry[r].at = "written" /\ retry[r].row = d

\* The worker never attempts a delivery that was delivered, and never one of
\* an event already delivered under another id.
NoPostAfterDelivered ==
    [][\A d, e \in Deliveries :
         posts'[d] > posts[d] /\ SameEvent(d, e) /\ delivery[e] # None
            => delivery[e].status # "delivered"]_vars

\* Only a retry that read the row before takes back a settled delivery.
OnlyRetriesReopen ==
    [][\A d \in Deliveries :
         (delivery[d] # None /\ delivery'[d] # None
            /\ delivery[d].status = "delivered" /\ delivery'[d].status # "delivered")
            => \E r \in Retries : retry[r].at = "read" /\ retry[r].row = d]_vars

\* A delivered notification stays so: nothing sends it again, unless a retry
\* that read the row before it was delivered takes it back.
DeliveredIsKept == NoPostAfterDelivered /\ OnlyRetriesReopen

\* An unsettled delivery is settled, unless the process ends or gives it up.
DeliveriesSettle ==
    \A d \in Deliveries :
        (d \in Unsettled) ~>
            (phase = "down" \/ d \in stranded \/ d \notin Unsettled)

=============================================================================
