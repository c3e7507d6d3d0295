-------------------- MODULE NotificationDispatcherProofs --------------------
(***************************************************************************)
(* Proofs about NotificationDispatcher: what the delivery table says of    *)
(* the requests that went out, who answers for an unsettled delivery, and  *)
(* that a delivered notification is not sent again.                        *)
(***************************************************************************)
EXTENDS NotificationDispatcher, FiniteSetTheorems, TLAPS

\* A retry request in the middle names the row it read.
RetriesNameRows ==
    \A r \in Retries : retry[r].at \in {"read", "written"} => retry[r].row \in Deliveries

\* A worker that waits has an attempt left.
BackoffHasNext == worker # None /\ worker.at = "backoff" => worker.attempt < MaxAttempts

\* The part of the invariant the types need.
TypeInv == TypeOK /\ RetriesNameRows /\ BackoffHasNext

\* The unique index of the table: an event of a channel has one row.
OneRowPerEvent ==
    \A d, e \in Deliveries :
        delivery[d] # None /\ delivery[e] # None /\ SameEvent(d, e) => d = e

\* The deliveries of a channel are deleted with it.
DeletedHasNoRows ==
    \A d \in Deliveries : channel[ChannelOf[d]] = "deleted" => delivery[d] = None

\* The row is written before the request goes out, and only a deletion of the
\* channel removes it.
PostsHaveRows ==
    \A d \in Deliveries :
        delivery[d] = None /\ channel[ChannelOf[d]] # "deleted" => posts[d] = 0

\* The worker is in the middle of a row that says how far it is, and has not
\* counted the request of an attempt it has only written; nothing else went
\* out for the event.
WorkerIsRecorded ==
    worker # None =>
        /\ \A d \in Deliveries : SameEvent(d, worker.row) /\ posts[d] > 0 => d = worker.row
        /\ worker.at = "posted" => posts[worker.row] > 0
        /\ delivery[worker.row] = None => channel[ChannelOf[worker.row]] = "deleted"
        /\ delivery[worker.row] # None =>
             /\ delivery[worker.row].attempts = worker.previous + worker.attempt
             /\ delivery[worker.row].status # "delivered"
             /\ worker.at = "written" => posts[worker.row] < delivery[worker.row].attempts

\* What the tables and the worker say of the requests that went out.
TableInv ==
    /\ OneRowPerEvent
    /\ DeletedHasNoRows
    /\ PostsHaveRows
    /\ WorkerIsRecorded
    /\ OneDeliveryIdPerEvent
    /\ AttemptsCoverPosts

\* The inductive invariant.
IInv == TypeInv /\ TableInv

-----------------------------------------------------------------------------
(* Operators.                                                              *)

\* Neither a row nor the work in hand is mistaken for its absence.
LEMMA NoneIsNeither ==
    /\ None \notin Deliveries
    /\ \A x \in DeliveryRow \cup Work : x # None
  BY DispatcherAssumption

\* The jobs that fit leave the queue within its capacity.
LEMMA FittingTypes ==
    ASSUME TypeOK, NEW jobs \in Seq(Deliveries)
    PROVE  /\ Fitting(jobs) \in Seq(Deliveries) /\ Len(Fitting(jobs)) <= QueueSize
           /\ queue \o Fitting(jobs) \in Seq(Deliveries)
           /\ Len(queue \o Fitting(jobs)) <= QueueSize
           /\ \A n \in DOMAIN queue :
                n \in DOMAIN (queue \o Fitting(jobs)) /\ (queue \o Fitting(jobs))[n] = queue[n]
<1>1. /\ QueueSize \in Nat /\ queue \in Seq(Deliveries) /\ Len(queue) <= QueueSize
      /\ Room \in Nat /\ Room = QueueSize - Len(queue)
  BY DispatcherAssumption DEF TypeOK, Room
<1>2. Fitting(jobs) \in Seq(Deliveries) /\ Len(Fitting(jobs)) <= Room
  <2>1. CASE Len(jobs) <= Room
    BY <2>1 DEF Fitting
  <2>2. CASE ~(Len(jobs) <= Room)
    <3>1. /\ SubSeq(jobs, 1, Room) \in Seq(Deliveries)
          /\ Len(SubSeq(jobs, 1, Room)) = Room
      BY <1>1, <2>2
    <3> QED
      BY <1>1, <2>2, <3>1 DEF Fitting
  <2> QED
    BY <2>1, <2>2
<1> HIDE DEF Fitting
<1>3. /\ queue \o Fitting(jobs) \in Seq(Deliveries)
      /\ Len(queue \o Fitting(jobs)) = Len(queue) + Len(Fitting(jobs))
      /\ \A n \in 1..Len(queue) : (queue \o Fitting(jobs))[n] = queue[n]
  BY <1>1, <1>2
<1> QED
  BY <1>1, <1>2, <1>3

\* What _ensure_delivery_row finds or inserts.
LEMMA RowOfFacts ==
    ASSUME TypeOK, NEW job \in Deliveries, RowOf(job) # None
    PROVE  /\ RowOf(job) \in Deliveries
           /\ SameEvent(RowOf(job), job)
           /\ delivery[job] # None => RowOf(job) = job
           /\ delivery[RowOf(job)] = None =>
                /\ RowOf(job) = job
                /\ channel[ChannelOf[job]] # "deleted"
                /\ \A d \in Deliveries : delivery[d] # None => ~SameEvent(d, job)
<1> DEFINE known == {d \in Deliveries : delivery[d] # None /\ SameEvent(d, job)}
<1>1. CASE delivery[job] # None
  BY <1>1 DEF RowOf, SameEvent
<1>2. CASE delivery[job] = None /\ known # {}
  <2>1. RowOf(job) = CHOOSE d \in known : TRUE
    BY <1>2 DEF RowOf
  <2>2. RowOf(job) \in known
    BY <1>2, <2>1
  <2> QED
    BY <1>2, <2>2
<1>3. CASE delivery[job] = None /\ known = {}
  <2>1. RowOf(job) = job /\ channel[ChannelOf[job]] # "deleted"
    BY <1>3 DEF RowOf
  <2> QED
    BY <1>3, <2>1 DEF SameEvent
<1> QED
  BY <1>1, <1>2, <1>3

\* The head of the queue names a delivery.
LEMMA HeadIsDelivery ==
    ASSUME TypeOK, queue # <<>>
    PROVE  /\ Head(queue) \in Deliveries
           /\ Tail(queue) \in Seq(Deliveries) /\ Len(Tail(queue)) <= QueueSize
           /\ \A n \in DOMAIN queue :
                n # 1 => n - 1 \in DOMAIN Tail(queue) /\ Tail(queue)[n - 1] = queue[n]
           /\ Head(queue) = queue[1]
<1>1. queue \in Seq(Deliveries) /\ Len(queue) <= QueueSize /\ QueueSize \in Nat
  BY DispatcherAssumption DEF TypeOK
<1>2. /\ Len(queue) \in Nat \ {0} /\ Len(Tail(queue)) = Len(queue) - 1
      /\ Tail(queue) \in Seq(Deliveries) /\ Head(queue) = queue[1]
      /\ \A n \in 1..Len(Tail(queue)) : Tail(queue)[n] = queue[n + 1]
      /\ DOMAIN queue = 1..Len(queue) /\ DOMAIN Tail(queue) = 1..Len(Tail(queue))
  BY <1>1
<1>3. \A n \in 1..Len(queue) :
        n # 1 => n - 1 \in 1..Len(Tail(queue)) /\ (n - 1) + 1 = n
  BY <1>2
<1> QED
  BY <1>1, <1>2, <1>3

\* The attempts of a row are counted from nought.
LEMMA AttemptsType ==
    ASSUME TypeOK, NEW d \in Deliveries
    PROVE  Attempts(d) \in Nat
  BY DEF TypeOK, Attempts, DeliveryRow

\* The sets the notifications and the restoration count are finite.
LEMMA CountsAreNumbers ==
    /\ \A S \in SUBSET Channels : Cardinality(S) \in Nat
    /\ \A S \in SUBSET Deliveries : Cardinality(S) \in Nat
<1>1. IsFiniteSet(Channels)
  <2>1. ChannelOrder \in Seq(Channels) /\ Len(ChannelOrder) \in Nat
        /\ DOMAIN ChannelOrder = 1..Len(ChannelOrder)
    BY DispatcherAssumption
  <2>2. ChannelOrder \in [1..Len(ChannelOrder) -> Channels]
    BY <2>1
  <2>3. \A c \in Channels : \E n \in 1..Len(ChannelOrder) : ChannelOrder[n] = c
    BY <2>1 DEF Channels
  <2>4. ChannelOrder \in Surjection(1..Len(ChannelOrder), Channels)
    BY <2>2, <2>3 DEF Surjection
  <2>5. IsFiniteSet(1..Len(ChannelOrder))
    BY <2>1, FS_Interval
  <2> QED
    BY <2>4, <2>5, FS_Surjection
<1> QED
  BY <1>1, FS_Subset, FS_CardinalityType, DispatcherAssumption

\* A function on 1..n is a sequence.
LEMMA NumberedIsSequence ==
    ASSUME NEW S, NEW n \in Nat, NEW f \in [1..n -> S]
    PROVE  f \in Seq(S)
  OBVIOUS

-----------------------------------------------------------------------------
(* Types.                                                                  *)

\* At first nothing was drawn and nothing is in hand.
LEMMA InitTypes == Init => TypeInv
<1> SUFFICES ASSUME Init PROVE TypeInv
  OBVIOUS
<1>1. TypeOK
  BY DispatcherAssumption DEF Init, TypeOK
<1>2. RetriesNameRows /\ BackoffHasNext
  BY DEF Init, RetriesNameRows, BackoffHasNext
<1> QED
  BY <1>1, <1>2 DEF TypeInv

\* Emitting an event or a test adds jobs to the queue.
LEMMA EnqueueKeepsTypes ==
    ASSUME TypeInv, (\E e \in Events : Notify(e)) \/ (\E d \in Deliveries : Test(d))
    PROVE  /\ TypeInv'
           /\ \E jobs \in Seq(Deliveries) : queue' = queue \o Fitting(jobs)
           /\ UNCHANGED <<phase, channel, worker, delivery, retry, posts, stranded>>
<1>1. TypeOK
  BY DEF TypeInv
<1>2. UNCHANGED <<phase, channel, loaded, worker, delivery, retry, restarts, posts,
                  stranded>>
  BY DEF Notify, Test
<1>3. ASSUME NEW e \in Events, Notify(e)
      PROVE  /\ \E jobs \in Seq(Deliveries) : queue' = queue \o Fitting(jobs)
             /\ drawn' \subseteq Deliveries
  <2> DEFINE targets == {c \in loaded : e \in Wanted[c]}
  <2>1. Cardinality(targets) \in Nat
    BY <1>1, CountsAreNumbers DEF TypeOK
  <2>2. PICK id \in [1..Cardinality(targets) -> Deliveries \ drawn] :
          /\ queue' = queue \o Fitting(id)
          /\ drawn' = drawn \cup {id[n] : n \in DOMAIN id}
    BY <1>3 DEF Notify
  <2> HIDE DEF targets
  <2>3. id \in [1..Cardinality(targets) -> Deliveries]
    OBVIOUS
  <2>4. id \in Seq(Deliveries)
    BY <2>1, <2>3, NumberedIsSequence
  <2> QED
    BY <1>1, <2>2, <2>3, <2>4 DEF TypeOK
<1>4. ASSUME NEW d \in Deliveries, Test(d)
      PROVE  /\ \E jobs \in Seq(Deliveries) : queue' = queue \o Fitting(jobs)
             /\ drawn' \subseteq Deliveries
  <2>1. queue' = queue \o Fitting(<<d>>) /\ drawn' = drawn \cup {d}
    BY <1>4 DEF Test, EnqueueTest
  <2>2. <<d>> \in Seq(Deliveries)
    OBVIOUS
  <2> QED
    BY <1>1, <2>1, <2>2 DEF TypeOK
<1>5. PICK jobs \in Seq(Deliveries) :
        queue' = queue \o Fitting(jobs) /\ drawn' \subseteq Deliveries
  BY <1>3, <1>4
<1>6. TypeOK'
  BY <1>1, <1>2, <1>5, FittingTypes DEF TypeOK
<1>7. RetriesNameRows' /\ BackoffHasNext'
  BY <1>2 DEF TypeInv, RetriesNameRows, BackoffHasNext
<1> QED
  BY <1>2, <1>5, <1>6, <1>7 DEF TypeInv

\* An attempt written ahead leaves the table and the worker well typed.
LEMMA WriteAheadTypes ==
    ASSUME TypeOK, NEW d \in Deliveries, NEW previous \in Nat,
           NEW attempt \in 1..MaxAttempts, NEW exists \in BOOLEAN,
           WriteAhead(d, previous, attempt, exists)
    PROVE  /\ delivery' \in [Deliveries -> DeliveryRow \cup {None}]
           /\ worker' \in Work /\ worker' # None
           /\ worker'.row = d /\ worker'.previous = previous /\ worker'.attempt = attempt
           /\ worker'.at = "written"
           /\ \A e \in Deliveries \ {d} : delivery'[e] = delivery[e]
           /\ exists => /\ delivery'[d] # None
                        /\ delivery'[d].status = "delivering"
                        /\ delivery'[d].attempts = previous + attempt
           /\ ~exists => delivery' = delivery
<1>1. MaxAttempts \in Nat
  BY DispatcherAssumption
<1>2. worker' = [row |-> d, previous |-> previous, attempt |-> attempt, at |-> "written"]
  BY DEF WriteAhead
<1>3. worker' \in Work
  BY <1>1, <1>2 DEF Work
<1>4. [status |-> "delivering", attempts |-> previous + attempt] \in DeliveryRow
  BY <1>1 DEF DeliveryRow, Statuses
<1>5. CASE exists
  <2>1. /\ delivery' \in [Deliveries -> DeliveryRow \cup {None}]
        /\ delivery'[d] = [status |-> "delivering", attempts |-> previous + attempt]
        /\ \A e \in Deliveries \ {d} : delivery'[e] = delivery[e]
    BY <1>4, <1>5 DEF WriteAhead, TypeOK
  <2> QED
    BY <1>2, <1>3, <1>4, <1>5, <2>1, NoneIsNeither
<1>6. CASE ~exists
  BY <1>2, <1>3, <1>6, NoneIsNeither DEF WriteAhead, TypeOK
<1> QED
  BY <1>5, <1>6

\* A request goes out for the attempt in hand.
LEMMA PostTypes ==
    ASSUME TypeInv, Post
    PROVE  /\ TypeInv' /\ worker # None /\ worker.row \in Deliveries
           /\ worker.at = "written"
           /\ worker' # None /\ worker'.at = "posted" /\ worker'.row = worker.row
           /\ worker'.previous = worker.previous /\ worker'.attempt = worker.attempt
           /\ posts'[worker.row] = posts[worker.row] + 1
           /\ \A d \in Deliveries \ {worker.row} : posts'[d] = posts[d]
           /\ UNCHANGED <<phase, channel, queue, delivery, retry, stranded>>
<1>1. /\ TypeOK /\ worker \in Work /\ worker # None
      /\ worker' = [worker EXCEPT !.at = "posted"]
      /\ posts' = [posts EXCEPT ![worker.row] = @ + 1]
      /\ worker.at = "written"
  BY DEF Post, Attempting, TypeInv, TypeOK
<1>2. /\ worker' \in Work /\ worker'.at = "posted" /\ worker'.row = worker.row
      /\ worker'.previous = worker.previous /\ worker'.attempt = worker.attempt
      /\ worker.row \in Deliveries
  BY <1>1 DEF Work
<1>3. /\ posts' \in [Deliveries -> Nat] /\ posts'[worker.row] = posts[worker.row] + 1
      /\ \A d \in Deliveries \ {worker.row} : posts'[d] = posts[d]
  BY <1>1, <1>2 DEF TypeOK
<1>4. UNCHANGED <<phase, channel, loaded, queue, delivery, retry, drawn, restarts, stranded>>
  BY DEF Post
<1>5. TypeOK'
  BY <1>1, <1>2, <1>3, <1>4 DEF TypeOK
<1>6. RetriesNameRows' /\ BackoffHasNext'
  BY <1>2, <1>4 DEF TypeInv, RetriesNameRows, BackoffHasNext
<1>7. worker' # None
  BY <1>2, NoneIsNeither
<1> QED
  BY <1>1, <1>2, <1>3, <1>4, <1>5, <1>6, <1>7 DEF TypeInv

\* The worker takes a job that names a delivery.
LEMMA TakeJobTypes ==
    ASSUME TypeInv, TakeJob
    PROVE  TypeInv'
<1> DEFINE row == RowOf(Head(queue))
<1>1. /\ TypeOK /\ worker = None /\ queue # <<>> /\ queue' = Tail(queue)
      /\ UNCHANGED <<phase, channel, loaded, retry, drawn, restarts, posts, stranded>>
  BY DEF TypeInv, TakeJob
<1>2. /\ Head(queue) \in Deliveries
      /\ queue' \in Seq(Deliveries) /\ Len(queue') <= QueueSize
  BY <1>1, HeadIsDelivery
<1>3. CASE UNCHANGED <<delivery, worker>>
  <2>1. TypeOK'
    BY <1>1, <1>2, <1>3 DEF TypeOK
  <2> QED
    BY <1>1, <1>3, <2>1 DEF TypeInv, RetriesNameRows, BackoffHasNext
<1>4. CASE row # None /\ WriteAhead(row, Attempts(row), 1, TRUE)
  <2>1. row \in Deliveries
    BY <1>1, <1>2, <1>4, RowOfFacts
  <2>2. Attempts(row) \in Nat /\ 1 \in 1..MaxAttempts
    BY <1>1, <2>1, AttemptsType, DispatcherAssumption
  <2> HIDE DEF row
  <2>3. /\ delivery' \in [Deliveries -> DeliveryRow \cup {None}]
        /\ worker' \in Work /\ worker'.at = "written"
    BY <1>1, <1>4, <2>1, <2>2, WriteAheadTypes
  <2>4. TypeOK'
    BY <1>1, <1>2, <2>3 DEF TypeOK
  <2> QED
    BY <1>1, <2>3, <2>4 DEF TypeInv, RetriesNameRows, BackoffHasNext
<1> QED
  BY <1>3, <1>4 DEF TakeJob

\* A failed delivery leaves at most a new row.
LEMMA TakeJobFailsTypes ==
    ASSUME TypeInv, TakeJobFails
    PROVE  /\ TypeInv'
           /\ \/ UNCHANGED delivery
              \/ LET row == RowOf(Head(queue)) IN
                 /\ row \in Deliveries /\ delivery[row] = None
                 /\ delivery' = [delivery EXCEPT ![row] = [status |-> "pending", attempts |-> 0]]
<1> DEFINE row == RowOf(Head(queue))
<1>1. /\ TypeOK /\ queue # <<>> /\ queue' = Tail(queue)
      /\ UNCHANGED <<phase, channel, loaded, worker, retry, drawn, restarts, posts>>
      /\ stranded' = IF row = None THEN stranded ELSE stranded \cup {row}
  BY DEF TypeInv, TakeJobFails
<1>2. /\ Head(queue) \in Deliveries
      /\ queue' \in Seq(Deliveries) /\ Len(queue') <= QueueSize
  BY <1>1, HeadIsDelivery
<1>3. row # None => row \in Deliveries
  BY <1>1, <1>2, RowOfFacts
<1>4. \/ UNCHANGED delivery
      \/ /\ row \in Deliveries /\ delivery[row] = None
         /\ delivery' = [delivery EXCEPT ![row] = [status |-> "pending", attempts |-> 0]]
  BY <1>3 DEF TakeJobFails
<1> HIDE DEF row
<1>5. delivery' \in [Deliveries -> DeliveryRow \cup {None}]
  <2>1. [status |-> "pending", attempts |-> 0] \in DeliveryRow
    BY DEF DeliveryRow, Statuses
  <2> QED
    BY <1>1, <1>4, <2>1 DEF TypeOK
<1>6. TypeOK'
  BY <1>1, <1>2, <1>3, <1>5 DEF TypeOK
<1>7. RetriesNameRows' /\ BackoffHasNext'
  BY <1>1 DEF TypeInv, RetriesNameRows, BackoffHasNext
<1> QED
  BY <1>4, <1>6, <1>7 DEF TypeInv, row

\* The worker settles the row it is in the middle of, when it is still there.
LEMMA SettleTypes ==
    ASSUME TypeInv, worker # None, NEW status \in {"delivered", "failed"}, Settle(status)
    PROVE  /\ delivery' \in [Deliveries -> DeliveryRow \cup {None}]
           /\ worker' = None /\ worker.row \in Deliveries
           /\ \A d \in Deliveries : delivery'[d] = None <=> delivery[d] = None
           /\ \A d \in Deliveries \ {worker.row} : delivery'[d] = delivery[d]
           /\ delivery[worker.row] # None =>
                /\ delivery'[worker.row].status = status
                /\ delivery'[worker.row].attempts = worker.previous + worker.attempt
<1>1. worker \in Work /\ worker.row \in Deliveries /\ MaxAttempts \in Nat
  BY DispatcherAssumption DEF TypeInv, TypeOK, Work
<1> DEFINE new == [status |-> status, attempts |-> worker.previous + worker.attempt]
<1>2. new \in DeliveryRow
  BY <1>1 DEF Work, DeliveryRow, Statuses
<1>3. worker' = None /\ delivery \in [Deliveries -> DeliveryRow \cup {None}]
  BY DEF Settle, TypeInv, TypeOK
<1>4. CASE delivery[worker.row] = None
  BY <1>1, <1>3, <1>4 DEF Settle
<1>5. CASE delivery[worker.row] # None
  <2>1. delivery' = [delivery EXCEPT ![worker.row] = new]
    BY <1>5 DEF Settle
  <2>2. new # None /\ new.status = status /\ new.attempts = worker.previous + worker.attempt
    BY <1>2, NoneIsNeither
  <2> HIDE DEF new
  <2> QED
    BY <1>1, <1>2, <1>3, <1>5, <2>1, <2>2
<1> QED
  BY <1>4, <1>5

\* The steps of the worker in the middle of a delivery.
LEMMA WorkerTypes ==
    ASSUME TypeInv,
           Accepted \/ Refused \/ Unavailable \/ NextAttempt \/ DeliveryFails
    PROVE  TypeInv'
<1>1. /\ TypeOK /\ worker # None /\ worker \in Work /\ worker.row \in Deliveries
      /\ MaxAttempts \in Nat /\ worker.attempt \in 1..MaxAttempts
      /\ worker.previous \in Nat
  BY DispatcherAssumption
     DEF TypeInv, TypeOK, Accepted, Refused, Unavailable, NextAttempt, DeliveryFails,
         Attempting, Work
<1>2. /\ UNCHANGED <<phase, channel, loaded, queue, retry, drawn, restarts, posts>>
      /\ RetriesNameRows'
  BY DEF TypeInv, RetriesNameRows, Accepted, Refused, Unavailable, NextAttempt,
         DeliveryFails
<1>3. CASE Accepted \/ Refused
  <2>1. /\ delivery' \in [Deliveries -> DeliveryRow \cup {None}]
        /\ worker' = None
    BY <1>1, <1>3, SettleTypes DEF Accepted, Refused
  <2>2. stranded' = stranded
    BY <1>3 DEF Accepted, Refused
  <2>3. TypeOK'
    BY <1>1, <1>2, <2>1, <2>2 DEF TypeOK
  <2> QED
    BY <1>2, <2>1, <2>3 DEF TypeInv, BackoffHasNext
<1>4. CASE Unavailable
  <2>1. worker' = [worker EXCEPT !.at = "backoff"] /\ worker.attempt < MaxAttempts
    BY <1>4 DEF Unavailable
  <2>2. worker' \in Work /\ worker'.attempt = worker.attempt
    BY <1>1, <2>1 DEF Work
  <2>3. TypeOK'
    BY <1>1, <1>2, <1>4, <2>2 DEF Unavailable, TypeOK
  <2> QED
    BY <1>2, <2>1, <2>2, <2>3 DEF TypeInv, BackoffHasNext
<1>5. CASE NextAttempt
  <2> DEFINE exists == delivery[worker.row] # None
             next == worker.attempt + 1
  <2>1. WriteAhead(worker.row, worker.previous, next, exists)
    BY <1>5 DEF NextAttempt
  <2>2. next \in 1..MaxAttempts /\ exists \in BOOLEAN
    BY <1>1, <1>5 DEF NextAttempt, Attempting, TypeInv, BackoffHasNext
  <2> HIDE DEF next, exists
  <2>3. /\ delivery' \in [Deliveries -> DeliveryRow \cup {None}]
        /\ worker' \in Work /\ worker'.at = "written"
    BY <1>1, <2>1, <2>2, WriteAheadTypes
  <2>4. TypeOK'
    BY <1>1, <1>2, <1>5, <2>3 DEF NextAttempt, TypeOK
  <2> QED
    BY <1>2, <2>3, <2>4 DEF TypeInv, BackoffHasNext
<1>6. CASE DeliveryFails
  <2>1. TypeOK'
    BY <1>1, <1>2, <1>6 DEF DeliveryFails, TypeOK
  <2> QED
    BY <1>2, <1>6, <2>1 DEF DeliveryFails, TypeInv, BackoffHasNext
<1> QED
  BY <1>3, <1>4, <1>5, <1>6

\* The administration of channels.
LEMMA ChannelTypes ==
    ASSUME TypeInv,
           \/ \E c \in Channels : CreateChannel(c)
           \/ \E c \in Channels : \E to \in MayBecome[c] : ChangeChannel(c, to)
           \/ Reload
    PROVE  TypeInv'
<1>1. TypeOK
  BY DEF TypeInv
<1>2. RetriesNameRows' /\ BackoffHasNext'
  BY DEF TypeInv, RetriesNameRows, BackoffHasNext, CreateChannel, ChangeChannel, Reload
<1>3. CASE \E c \in Channels : CreateChannel(c)
  BY <1>1, <1>2, <1>3 DEF CreateChannel, TypeInv, TypeOK
<1>4. ASSUME NEW c \in Channels, NEW to \in MayBecome[c], ChangeChannel(c, to)
      PROVE  TypeInv'
  <2>1. to \in {"enabled", "disabled", "deleted"}
    BY DispatcherAssumption
  <2>2. channel' \in [Channels -> {"absent", "enabled", "disabled", "deleted"}]
    BY <1>1, <1>4, <2>1 DEF ChangeChannel, TypeOK
  <2>3. delivery' \in [Deliveries -> DeliveryRow \cup {None}]
    BY <1>1, <1>4 DEF ChangeChannel, TypeOK
  <2>4. TypeOK'
    BY <1>1, <1>4, <2>2, <2>3 DEF ChangeChannel, TypeOK
  <2> QED
    BY <1>2, <2>4 DEF TypeInv
<1>5. CASE Reload
  BY <1>1, <1>2, <1>5 DEF Reload, Enabled, TypeInv, TypeOK
<1> QED
  BY <1>3, <1>4, <1>5

\* A row set back to pending keeps its attempts.
LEMMA RetryWritesTypes ==
    ASSUME TypeInv, NEW r \in Retries, RetryWrites(r)
    PROVE  /\ TypeInv' /\ retry[r].at = "read" /\ retry[r].row \in Deliveries
           /\ \A s \in Retries \ {r} : retry'[s] = retry[s]
           /\ retry'[r].row = retry[r].row
           /\ \A d \in Deliveries \ {retry[r].row} : delivery'[d] = delivery[d]
           /\ delivery[retry[r].row] = None => delivery' = delivery
           /\ delivery[retry[r].row] # None =>
                /\ retry'[r].at = "written"
                /\ delivery'[retry[r].row] # None
                /\ delivery'[retry[r].row].status = "pending"
                /\ delivery'[retry[r].row].attempts = delivery[retry[r].row].attempts
<1> DEFINE d == retry[r].row
<1>1. /\ TypeOK /\ retry[r].at = "read" /\ d \in Deliveries
      /\ UNCHANGED <<phase, channel, loaded, queue, worker, drawn, restarts, posts, stranded>>
  BY DEF TypeInv, RetriesNameRows, RetryWrites
<1>2. CASE delivery[d] = None
  <2>1. retry' = [retry EXCEPT ![r].at = "done"] /\ delivery' = delivery
    BY <1>2 DEF RetryWrites
  <2>2. /\ retry' \in [Retries -> [at : {"new", "read", "written", "done"},
                                  row : Deliveries \cup {None}]]
        /\ retry'[r].row = d /\ retry'[r].at = "done"
        /\ \A s \in Retries \ {r} : retry'[s] = retry[s]
    BY <1>1, <2>1 DEF TypeOK
  <2>3. TypeOK'
    BY <1>1, <2>1, <2>2 DEF TypeOK
  <2>4. RetriesNameRows' /\ BackoffHasNext'
    BY <1>1, <2>2 DEF TypeInv, RetriesNameRows, BackoffHasNext
  <2> QED
    BY <1>1, <1>2, <2>1, <2>2, <2>3, <2>4 DEF TypeInv
<1>3. CASE delivery[d] # None
  <2>1. /\ retry' = [retry EXCEPT ![r].at = "written"]
        /\ delivery' = [delivery EXCEPT ![d].status = "pending"]
    BY <1>3 DEF RetryWrites
  <2>2. /\ retry' \in [Retries -> [at : {"new", "read", "written", "done"},
                                  row : Deliveries \cup {None}]]
        /\ retry'[r].row = d /\ retry'[r].at = "written"
        /\ \A s \in Retries \ {r} : retry'[s] = retry[s]
    BY <1>1, <2>1 DEF TypeOK
  <2>3. delivery[d] \in DeliveryRow
    BY <1>1, <1>3 DEF TypeOK
  <2> DEFINE new == [delivery[d] EXCEPT !.status = "pending"]
  <2>4. /\ new \in DeliveryRow /\ new.status = "pending"
        /\ new.attempts = delivery[d].attempts
    BY <2>3 DEF DeliveryRow, Statuses
  <2>5. new # None
    BY <2>4, NoneIsNeither
  <2>6. delivery' = [delivery EXCEPT ![d] = new]
    BY <2>1
  <2> HIDE DEF new
  <2>7. /\ delivery' \in [Deliveries -> DeliveryRow \cup {None}]
        /\ delivery'[d] = new
        /\ \A e \in Deliveries \ {d} : delivery'[e] = delivery[e]
    BY <1>1, <2>4, <2>6 DEF TypeOK
  <2>8. TypeOK'
    BY <1>1, <2>2, <2>7 DEF TypeOK
  <2>9. RetriesNameRows' /\ BackoffHasNext'
    BY <1>1, <2>2 DEF TypeInv, RetriesNameRows, BackoffHasNext
  <2> QED
    BY <1>1, <1>3, <2>2, <2>4, <2>5, <2>7, <2>8, <2>9 DEF TypeInv
<1> QED
  BY <1>2, <1>3

\* A retry is read, and queued.
LEMMA RetryTypes ==
    ASSUME TypeInv,
           \/ \E r \in Retries, d \in Deliveries : RetryReads(r, d)
           \/ \E r \in Retries : RetryQueues(r)
    PROVE  TypeInv'
<1>1. TypeOK
  BY DEF TypeInv
<1>2. ASSUME NEW r \in Retries, NEW d \in Deliveries, RetryReads(r, d) PROVE TypeInv'
  <2>1. /\ retry' \in [Retries -> [at : {"new", "read", "written", "done"},
                                  row : Deliveries \cup {None}]]
        /\ retry'[r].row = d
        /\ \A s \in Retries \ {r} : retry'[s] = retry[s]
    BY <1>1, <1>2 DEF RetryReads, TypeOK
  <2>2. TypeOK'
    BY <1>1, <1>2, <2>1 DEF RetryReads, TypeOK
  <2>3. RetriesNameRows' /\ BackoffHasNext'
    BY <1>2, <2>1 DEF TypeInv, RetriesNameRows, BackoffHasNext, RetryReads
  <2> QED
    BY <2>2, <2>3 DEF TypeInv
<1>3. ASSUME NEW r \in Retries, RetryQueues(r) PROVE TypeInv'
  <2>1. retry[r].row \in Deliveries /\ queue' = queue \o Fitting(<<retry[r].row>>)
    BY <1>3 DEF RetryQueues, TypeInv, RetriesNameRows
  <2>2. queue' \in Seq(Deliveries) /\ Len(queue') <= QueueSize
    <3>1. <<retry[r].row>> \in Seq(Deliveries)
      BY <2>1
    <3> QED
      BY <1>1, <2>1, <3>1, FittingTypes
  <2>3. /\ retry' \in [Retries -> [at : {"new", "read", "written", "done"},
                                  row : Deliveries \cup {None}]]
        /\ retry'[r].at = "done"
        /\ \A s \in Retries \ {r} : retry'[s] = retry[s]
    BY <1>1, <1>3 DEF RetryQueues, TypeOK
  <2>4. stranded' \subseteq Deliveries
    BY <1>1, <1>3, <2>1 DEF RetryQueues, TypeOK
  <2>5. TypeOK'
    BY <1>1, <1>3, <2>2, <2>3, <2>4 DEF RetryQueues, TypeOK
  <2>6. RetriesNameRows' /\ BackoffHasNext'
    BY <1>3, <2>3 DEF TypeInv, RetriesNameRows, BackoffHasNext, RetryQueues
  <2> QED
    BY <2>5, <2>6 DEF TypeInv
<1> QED
  BY <1>2, <1>3

\* A process ends, and the next one restores what it finds.
LEMMA ProcessTypes ==
    ASSUME TypeInv, Shutdown \/ Stopped \/ Start
    PROVE  TypeInv'
<1>1. TypeOK
  BY DEF TypeInv
<1>2. CASE Shutdown
  BY <1>1, <1>2 DEF Shutdown, TypeInv, TypeOK, RetriesNameRows, BackoffHasNext
<1>3. CASE Stopped
  <2>1. /\ retry' \in [Retries -> [at : {"new", "read", "written", "done"},
                                  row : Deliveries \cup {None}]]
        /\ \A r \in Retries : retry'[r].at \notin {"read", "written"}
    BY <1>1, <1>3 DEF Stopped, InRequest, TypeOK
  <2>2. queue' \in Seq(Deliveries) /\ Len(queue') <= QueueSize
    BY <1>3, DispatcherAssumption DEF Stopped
  <2>3. TypeOK'
    BY <1>1, <1>3, <2>1, <2>2 DEF Stopped, TypeOK
  <2> QED
    BY <1>3, <2>1, <2>3 DEF Stopped, TypeInv, RetriesNameRows, BackoffHasNext
<1>4. CASE Start
  <2>1. PICK oldest \in SUBSET Unsettled :
          \E order \in Orders({d \in oldest : ChannelOf[d] \in Enabled}) :
            /\ queue' = Fitting(order)
            /\ stranded' = Unsettled \ {Fitting(order)[n] : n \in DOMAIN Fitting(order)}
    BY <1>4 DEF Start
  <2> DEFINE S == {d \in oldest : ChannelOf[d] \in Enabled}
  <2>2. PICK order \in Orders(S) : /\ queue' = Fitting(order)
                                   /\ stranded' \subseteq Unsettled
    BY <2>1
  <2>3. S \subseteq Deliveries /\ Unsettled \subseteq Deliveries
    BY DEF Unsettled
  <2>4. Cardinality(S) \in Nat
    BY <2>3, CountsAreNumbers
  <2>5. order \in [1..Cardinality(S) -> S]
    BY DEF Orders
  <2> HIDE DEF S
  <2>6. order \in [1..Cardinality(S) -> Deliveries]
    BY <2>3, <2>5
  <2>7. order \in Seq(Deliveries)
    BY <2>4, <2>6, NumberedIsSequence
  <2>8. queue' \in Seq(Deliveries) /\ Len(queue') <= QueueSize
    BY <1>1, <2>2, <2>7, FittingTypes
  <2>9. restarts' \in 0..MaxRestarts
    BY <1>1, <1>4, DispatcherAssumption DEF Start, TypeOK
  <2>10. TypeOK'
    BY <1>1, <1>4, <2>2, <2>3, <2>8, <2>9 DEF Start, TypeOK, Enabled
  <2> QED
    BY <1>4, <2>10 DEF Start, TypeInv, RetriesNameRows, BackoffHasNext
<1> QED
  BY <1>2, <1>3, <1>4

\* Each step keeps the types.
LEMMA TypesAreInductive == TypeInv /\ [Next]_vars => TypeInv'
<1> SUFFICES ASSUME TypeInv, [Next]_vars PROVE TypeInv'
  OBVIOUS
<1>1. CASE UNCHANGED vars
  BY <1>1 DEF vars, TypeInv, TypeOK, RetriesNameRows, BackoffHasNext
<1> QED
  BY <1>1, EnqueueKeepsTypes, TakeJobTypes, TakeJobFailsTypes, PostTypes, WorkerTypes, ChannelTypes,
     RetryWritesTypes, RetryTypes, ProcessTypes DEF Next, Stop, Crash

-----------------------------------------------------------------------------
(* The table and the requests.                                             *)

\* The worker sends nothing for an event that was delivered.
NoRepeat ==
    \A d, e \in Deliveries :
        posts'[d] > posts[d] /\ SameEvent(d, e) /\ delivery[e] # None
            => delivery[e].status # "delivered"

\* Only a retry that read it before takes a delivered row back.
Reopened ==
    \A d \in Deliveries :
        (delivery[d] # None /\ delivery'[d] # None
           /\ delivery[d].status = "delivered" /\ delivery'[d].status # "delivered")
           => \E r \in Retries : retry[r].at = "read" /\ retry[r].row = d

\* What each step is shown to keep.
Kept == TableInv' /\ NoRepeat /\ Reopened

\* A step that leaves the table and the requests, and takes the delivery in
\* hand no further than a backoff.
LEMMA OtherSteps ==
    ASSUME TypeInv, TableInv, UNCHANGED <<delivery, posts>>,
           \A c \in Channels : channel'[c] = "deleted" <=> channel[c] = "deleted",
           worker' # None => /\ worker # None /\ worker'.row = worker.row
                             /\ worker'.previous = worker.previous
                             /\ worker'.attempt = worker.attempt
                             /\ worker'.at \in {worker.at, "backoff"}
    PROVE  Kept
<1>1. \A d \in Deliveries : ChannelOf[d] \in Channels /\ posts[d] \in Nat
  BY DispatcherAssumption DEF TypeInv, TypeOK
<1>2. OneRowPerEvent' /\ OneDeliveryIdPerEvent' /\ AttemptsCoverPosts'
  BY DEF TableInv, OneRowPerEvent, OneDeliveryIdPerEvent, AttemptsCoverPosts, SameEvent
<1>3. DeletedHasNoRows' /\ PostsHaveRows'
  BY <1>1 DEF TableInv, DeletedHasNoRows, PostsHaveRows
<1>4. WorkerIsRecorded'
  <2>1. worker # None => worker.row \in Deliveries
    BY DEF TypeInv, TypeOK, Work
  <2> QED
    BY <1>1, <2>1 DEF TableInv, WorkerIsRecorded, SameEvent
<1>5. NoRepeat /\ Reopened
  BY <1>1 DEF NoRepeat, Reopened
<1> QED
  BY <1>2, <1>3, <1>4, <1>5 DEF Kept, TableInv

\* An attempt is written for d: its row was not delivered and covers the
\* requests so far, or the channel is deleted; nothing else went out for the
\* event.
LEMMA WriteAheadKept ==
    ASSUME TypeInv, TableInv, NEW d \in Deliveries, NEW previous \in Nat,
           NEW attempt \in 1..MaxAttempts, NEW exists \in BOOLEAN,
           WriteAhead(d, previous, attempt, exists), UNCHANGED <<channel, posts>>,
           \A e \in Deliveries : SameEvent(e, d) /\ posts[e] > 0 => e = d,
           exists => /\ \A e \in Deliveries : delivery[e] # None /\ SameEvent(d, e) => e = d
                     /\ posts[d] < previous + attempt
                     /\ delivery[d] # None => delivery[d].status # "delivered"
                     /\ channel[ChannelOf[d]] # "deleted",
           ~exists => delivery[d] = None /\ channel[ChannelOf[d]] = "deleted"
    PROVE  Kept
<1>1. TypeOK /\ MaxAttempts \in Nat
  BY DispatcherAssumption DEF TypeInv
<1>2. /\ worker' # None /\ worker'.at = "written"
      /\ worker'.row = d /\ worker'.previous = previous /\ worker'.attempt = attempt
      /\ \A e \in Deliveries \ {d} : delivery'[e] = delivery[e]
      /\ exists => /\ delivery'[d] # None
                   /\ delivery'[d].status = "delivering"
                   /\ delivery'[d].attempts = previous + attempt
      /\ ~exists => delivery' = delivery
  BY <1>1, WriteAheadTypes
<1>3. \A e \in Deliveries : posts[e] \in Nat /\ ChannelOf[e] \in Channels
  BY <1>1, DispatcherAssumption DEF TypeOK
<1>4. OneRowPerEvent' /\ OneDeliveryIdPerEvent'
  BY <1>2 DEF TableInv, OneRowPerEvent, OneDeliveryIdPerEvent, SameEvent
<1>5. DeletedHasNoRows'
  BY <1>2 DEF TableInv, DeletedHasNoRows
<1>6. PostsHaveRows'
  BY <1>2 DEF TableInv, PostsHaveRows
<1>7. WorkerIsRecorded'
  BY <1>2, <1>3 DEF WorkerIsRecorded, SameEvent
<1>8. AttemptsCoverPosts'
  BY <1>2, <1>3 DEF TableInv, AttemptsCoverPosts
<1>9. NoRepeat /\ Reopened
  BY <1>2, <1>3 DEF NoRepeat, Reopened
<1> QED
  BY <1>4, <1>5, <1>6, <1>7, <1>8, <1>9 DEF Kept, TableInv

\* A request goes out: the row in hand counts it and was not delivered, and
\* no other request went out for the event.
LEMMA PostKept ==
    ASSUME TypeInv, TableInv, Post
    PROVE  Kept
<1> PICK w : w = worker.row
  OBVIOUS
<1>1. /\ worker # None /\ w \in Deliveries /\ worker.at = "written"
      /\ worker' # None /\ worker'.at = "posted" /\ worker'.row = w
      /\ worker'.previous = worker.previous /\ worker'.attempt = worker.attempt
      /\ posts'[w] = posts[w] + 1
      /\ \A d \in Deliveries \ {w} : posts'[d] = posts[d]
      /\ UNCHANGED <<delivery, channel>>
  BY PostTypes
<1>2. \A d \in Deliveries :
        /\ posts[d] \in Nat /\ ChannelOf[d] \in Channels
        /\ delivery[d] # None => delivery[d].attempts \in Nat
  BY DispatcherAssumption DEF TypeInv, TypeOK, DeliveryRow
<1>3. /\ \A d \in Deliveries : SameEvent(d, w) /\ posts[d] > 0 => d = w
      /\ delivery[w] = None => channel[ChannelOf[w]] = "deleted"
      /\ delivery[w] # None =>
           /\ delivery[w].attempts = worker.previous + worker.attempt
           /\ delivery[w].status # "delivered"
           /\ posts[w] < delivery[w].attempts
  BY <1>1 DEF TableInv, WorkerIsRecorded
<1>4. \A d \in Deliveries : posts'[d] > 0 => d = w \/ posts[d] > 0
  BY <1>1
<1>5. OneRowPerEvent' /\ DeletedHasNoRows'
  BY <1>1 DEF TableInv, OneRowPerEvent, DeletedHasNoRows, SameEvent
<1>6. PostsHaveRows'
  BY <1>1, <1>3 DEF TableInv, PostsHaveRows
<1>7. WorkerIsRecorded'
  BY <1>1, <1>2, <1>3, <1>4 DEF WorkerIsRecorded, SameEvent
<1>8. OneDeliveryIdPerEvent'
  BY <1>1, <1>3, <1>4 DEF TableInv, OneDeliveryIdPerEvent, SameEvent
<1>9. AttemptsCoverPosts'
  BY <1>1, <1>2, <1>3 DEF TableInv, AttemptsCoverPosts
<1>10. NoRepeat
  <2> SUFFICES ASSUME NEW a \in Deliveries, NEW e \in Deliveries, posts'[a] > posts[a],
                      SameEvent(a, e), delivery[e] # None
               PROVE  delivery[e].status # "delivered"
    BY DEF NoRepeat
  <2>1. a = w
    BY <1>1, <1>2
  <2>2. channel[ChannelOf[e]] # "deleted" /\ ChannelOf[e] = ChannelOf[w]
    BY <2>1 DEF TableInv, DeletedHasNoRows, SameEvent
  <2>3. delivery[w] # None
    BY <1>3, <2>2
  <2>4. e = w
    BY <1>1, <2>1, <2>3 DEF TableInv, OneRowPerEvent
  <2> QED
    BY <1>3, <2>3, <2>4
<1>11. Reopened
  BY <1>1 DEF Reopened
<1> QED
  BY <1>5, <1>6, <1>7, <1>8, <1>9, <1>10, <1>11 DEF Kept, TableInv

\* The worker takes a job.
LEMMA TakeJobKept ==
    ASSUME TypeInv, TableInv, TakeJob
    PROVE  Kept
<1> DEFINE row == RowOf(Head(queue))
<1>1. /\ TypeOK /\ worker = None /\ queue # <<>> /\ UNCHANGED <<channel, posts>>
  BY DEF TypeInv, TakeJob
<1>2. Head(queue) \in Deliveries
  BY <1>1, HeadIsDelivery
<1>3. CASE UNCHANGED <<delivery, worker>>
  BY <1>1, <1>3, OtherSteps
<1>4. CASE /\ row # None
           /\ ~(delivery[row] # None /\ delivery[row].status = "delivered")
           /\ WriteAhead(row, Attempts(row), 1, TRUE)
  <2>1. /\ row \in Deliveries /\ SameEvent(row, Head(queue))
        /\ delivery[row] = None =>
             /\ row = Head(queue)
             /\ channel[ChannelOf[Head(queue)]] # "deleted"
             /\ \A d \in Deliveries : delivery[d] # None => ~SameEvent(d, Head(queue))
    BY <1>1, <1>2, <1>4, RowOfFacts
  <2> HIDE DEF row
  <2>2. Attempts(row) \in Nat /\ 1 \in 1..MaxAttempts
    BY <1>1, <2>1, AttemptsType, DispatcherAssumption
  <2>3. /\ \A e \in Deliveries : delivery[e] # None /\ SameEvent(row, e) => e = row
        /\ posts[row] < Attempts(row) + 1
        /\ delivery[row] # None => delivery[row].status # "delivered"
        /\ channel[ChannelOf[row]] # "deleted"
    <3>1. CASE delivery[row] = None
      BY <1>4, <2>1, <3>1 DEF TableInv, PostsHaveRows, Attempts, SameEvent
    <3>2. CASE delivery[row] # None
      <4>1. posts[row] \in Nat /\ posts[row] <= Attempts(row)
        BY <1>1, <2>1, <3>2 DEF TableInv, AttemptsCoverPosts, Attempts, TypeOK
      <4>2. posts[row] < Attempts(row) + 1
        BY <2>2, <4>1
      <4> QED
        BY <1>4, <2>1, <3>2, <4>2 DEF TableInv, OneRowPerEvent, DeletedHasNoRows
    <3> QED
      BY <3>1, <3>2
  <2>4. \A e \in Deliveries : SameEvent(e, row) /\ posts[e] > 0 => e = row
    <3> SUFFICES ASSUME NEW e \in Deliveries, SameEvent(e, row), posts[e] > 0
                 PROVE  e = row
      OBVIOUS
    <3>1. delivery[e] # None
      BY <2>3 DEF TableInv, PostsHaveRows, SameEvent
    <3> QED
      BY <2>3, <3>1 DEF SameEvent
  <2> QED
    BY <1>1, <1>4, <2>1, <2>2, <2>3, <2>4, WriteAheadKept
<1> QED
  BY <1>3, <1>4 DEF TakeJob

\* A failed delivery may have inserted its row before it failed.
LEMMA TakeJobFailsKept ==
    ASSUME TypeInv, TableInv, TakeJobFails
    PROVE  Kept
<1> DEFINE row == RowOf(Head(queue))
           new == [status |-> "pending", attempts |-> 0]
<1>1. /\ TypeOK /\ queue # <<>> /\ UNCHANGED <<channel, posts, worker>> /\ worker = None
  BY DEF TypeInv, TakeJobFails
<1>2. Head(queue) \in Deliveries
  BY <1>1, HeadIsDelivery
<1>3. CASE UNCHANGED delivery
  BY <1>1, <1>3, OtherSteps
<1>4. CASE row \in Deliveries /\ delivery[row] = None
           /\ delivery' = [delivery EXCEPT ![row] = new]
  <2>1. row # None
    BY <1>4, NoneIsNeither
  <2>2. /\ row = Head(queue) /\ channel[ChannelOf[row]] # "deleted"
        /\ \A d \in Deliveries : delivery[d] # None => ~SameEvent(d, row)
    BY <1>1, <1>2, <1>4, <2>1, RowOfFacts
  <2>3. new \in DeliveryRow /\ new.attempts = 0 /\ new.status # "delivered"
    BY DEF DeliveryRow, Statuses
  <2>4. new # None
    BY <2>3, NoneIsNeither
  <2> HIDE DEF row, new
  <2>5. /\ delivery'[row] = new
        /\ \A d \in Deliveries \ {row} : delivery'[d] = delivery[d]
    BY <1>1, <1>4 DEF TypeOK
  <2>6. posts[row] = 0
    BY <1>4, <2>2 DEF TableInv, PostsHaveRows
  <2>7. \A d, e \in Deliveries :
          delivery'[d] # None /\ delivery'[e] # None /\ SameEvent(d, e) => d = e
    BY <2>2, <2>5 DEF TableInv, OneRowPerEvent, SameEvent
  <2>8. OneRowPerEvent' /\ OneDeliveryIdPerEvent'
    BY <1>1, <2>7 DEF TableInv, OneRowPerEvent, OneDeliveryIdPerEvent, SameEvent
  <2>9. DeletedHasNoRows' /\ PostsHaveRows' /\ WorkerIsRecorded'
    BY <1>1, <2>2, <2>4, <2>5
       DEF TableInv, DeletedHasNoRows, PostsHaveRows, WorkerIsRecorded
  <2>10. AttemptsCoverPosts'
    BY <1>1, <2>3, <2>5, <2>6 DEF TableInv, AttemptsCoverPosts
  <2>11. NoRepeat /\ Reopened
    BY <1>1, <1>4, <2>5 DEF NoRepeat, Reopened, TypeOK
  <2> QED
    BY <2>8, <2>9, <2>10, <2>11 DEF Kept, TableInv
<1> QED
  BY <1>3, <1>4, TakeJobFailsTypes

\* The next attempt of the delivery in hand.
LEMMA NextAttemptKept ==
    ASSUME TypeInv, TableInv, NextAttempt
    PROVE  Kept
<1> DEFINE exists == delivery[worker.row] # None
           next == worker.attempt + 1
<1>1. /\ TypeOK /\ worker \in Work /\ worker # None /\ MaxAttempts \in Nat
      /\ UNCHANGED <<channel, posts>>
  BY DispatcherAssumption DEF TypeInv, TypeOK, NextAttempt, Attempting
<1>2. /\ worker.row \in Deliveries /\ worker.previous \in Nat
      /\ worker.attempt \in 1..MaxAttempts
  BY <1>1 DEF Work
<1>3. next \in 1..MaxAttempts /\ exists \in BOOLEAN
  BY <1>1, <1>2 DEF NextAttempt, Attempting, TypeInv, BackoffHasNext
<1>4. WriteAhead(worker.row, worker.previous, next, exists)
  BY DEF NextAttempt
<1>5. /\ \A e \in Deliveries : SameEvent(e, worker.row) /\ posts[e] > 0 => e = worker.row
      /\ ~exists => delivery[worker.row] = None
                    /\ channel[ChannelOf[worker.row]] = "deleted"
  BY <1>1 DEF TableInv, WorkerIsRecorded
<1>6. ASSUME exists
      PROVE  /\ \A e \in Deliveries :
                  delivery[e] # None /\ SameEvent(worker.row, e) => e = worker.row
             /\ posts[worker.row] < worker.previous + next
             /\ delivery[worker.row].status # "delivered"
             /\ channel[ChannelOf[worker.row]] # "deleted"
  <2>1. /\ delivery[worker.row].attempts = worker.previous + worker.attempt
        /\ delivery[worker.row].status # "delivered"
    BY <1>1, <1>6 DEF TableInv, WorkerIsRecorded
  <2>2. /\ posts[worker.row] <= worker.previous + worker.attempt
        /\ posts[worker.row] \in Nat
    BY <1>1, <1>2, <1>6, <2>1 DEF TableInv, AttemptsCoverPosts, TypeOK
  <2>3. posts[worker.row] < worker.previous + next
    BY <1>2, <2>2
  <2>4. \A e \in Deliveries :
          delivery[e] # None /\ SameEvent(worker.row, e) => e = worker.row
    BY <1>2, <1>6 DEF TableInv, OneRowPerEvent
  <2>5. channel[ChannelOf[worker.row]] # "deleted"
    BY <1>2, <1>6 DEF TableInv, DeletedHasNoRows
  <2> QED
    BY <2>1, <2>3, <2>4, <2>5
<1> HIDE DEF exists, next
<1> QED
  BY <1>1, <1>2, <1>3, <1>4, <1>5, <1>6, WriteAheadKept

\* An answer settles the row in hand, which was not delivered.
LEMMA SettleKept ==
    ASSUME TypeInv, TableInv, Accepted \/ Refused
    PROVE  Kept
<1>1. PICK status \in {"delivered", "failed"} :
        Settle(status) /\ (status = "delivered" => worker.at = "posted")
  BY DEF Accepted, Refused, Attempting
<1>2. worker # None /\ UNCHANGED <<channel, posts>>
  BY DEF Accepted, Refused, Attempting
<1> DEFINE w == worker.row
<1>3. /\ worker' = None /\ w \in Deliveries
      /\ \A d \in Deliveries : delivery'[d] = None <=> delivery[d] = None
      /\ \A d \in Deliveries \ {w} : delivery'[d] = delivery[d]
      /\ delivery[w] # None =>
           /\ delivery'[w].status = status
           /\ delivery'[w].attempts = worker.previous + worker.attempt
  BY <1>1, <1>2, SettleTypes
<1>4. delivery[w] # None =>
        /\ delivery[w].attempts = worker.previous + worker.attempt
        /\ delivery[w].status # "delivered"
        /\ status = "delivered" => posts[w] > 0
  BY <1>1, <1>2 DEF TableInv, WorkerIsRecorded
<1>5. \A d \in Deliveries : posts[d] \in Nat
  BY DEF TypeInv, TypeOK
<1> HIDE DEF w
<1>6. OneRowPerEvent' /\ OneDeliveryIdPerEvent'
  BY <1>2, <1>3 DEF TableInv, OneRowPerEvent, OneDeliveryIdPerEvent, SameEvent
<1>7. DeletedHasNoRows' /\ PostsHaveRows' /\ WorkerIsRecorded'
  BY <1>2, <1>3 DEF TableInv, DeletedHasNoRows, PostsHaveRows, WorkerIsRecorded
<1>8. AttemptsCoverPosts'
  <2>1. \A d \in Deliveries : delivery'[d] # None =>
          /\ delivery[d] # None /\ delivery'[d].attempts = delivery[d].attempts
          /\ delivery'[d].status = "delivered" =>
               delivery[d].status = "delivered" \/ posts[d] > 0
    BY <1>3, <1>4
  <2> QED
    BY <1>2, <2>1 DEF TableInv, AttemptsCoverPosts
<1>9. NoRepeat /\ Reopened
  BY <1>2, <1>3, <1>4, <1>5 DEF NoRepeat, Reopened
<1> QED
  BY <1>6, <1>7, <1>8, <1>9 DEF Kept, TableInv

\* A channel goes, and its deliveries with it.
LEMMA ChangeChannelKept ==
    ASSUME TypeInv, TableInv, NEW c \in Channels, NEW to \in MayBecome[c],
           ChangeChannel(c, to)
    PROVE  Kept
<1>1. TypeOK /\ UNCHANGED <<posts, worker, retry>>
  BY DEF TypeInv, ChangeChannel
<1>2. /\ channel'[c] = to /\ channel[c] # "deleted"
      /\ \A b \in Channels \ {c} : channel'[b] = channel[b]
  BY <1>1 DEF ChangeChannel, TypeOK
<1>3. \A d \in Deliveries :
        /\ delivery'[d] = IF to = "deleted" /\ ChannelOf[d] = c THEN None ELSE delivery[d]
        /\ ChannelOf[d] \in Channels /\ posts[d] \in Nat
  BY <1>1, DispatcherAssumption DEF ChangeChannel, TypeOK
<1>4. worker # None => worker.row \in Deliveries
  BY <1>1 DEF TypeOK, Work
<1>5. OneRowPerEvent' /\ OneDeliveryIdPerEvent'
  BY <1>1, <1>3 DEF TableInv, OneRowPerEvent, OneDeliveryIdPerEvent, SameEvent
<1>6. DeletedHasNoRows' /\ PostsHaveRows'
  BY <1>1, <1>2, <1>3 DEF TableInv, DeletedHasNoRows, PostsHaveRows
<1>7. AttemptsCoverPosts'
  BY <1>1, <1>3 DEF TableInv, AttemptsCoverPosts
<1>8. WorkerIsRecorded'
  BY <1>1, <1>2, <1>3, <1>4 DEF TableInv, WorkerIsRecorded, SameEvent
<1>9. NoRepeat /\ Reopened
  BY <1>1, <1>3 DEF NoRepeat, Reopened
<1> QED
  BY <1>5, <1>6, <1>7, <1>8, <1>9 DEF Kept, TableInv

\* A retry sets the row it read back to pending.
LEMMA RetryWritesKept ==
    ASSUME TypeInv, TableInv, NEW r \in Retries, RetryWrites(r)
    PROVE  Kept
<1> DEFINE w == retry[r].row
<1>1. /\ retry[r].at = "read" /\ w \in Deliveries
      /\ \A d \in Deliveries \ {w} : delivery'[d] = delivery[d]
      /\ delivery[w] = None => delivery' = delivery
      /\ delivery[w] # None => /\ delivery'[w] # None
                               /\ delivery'[w].status = "pending"
                               /\ delivery'[w].attempts = delivery[w].attempts
  BY RetryWritesTypes
<1>2. UNCHANGED <<channel, posts, worker>>
  BY DEF RetryWrites
<1>3. \A d \in Deliveries : posts[d] \in Nat
  BY DEF TypeInv, TypeOK
<1> HIDE DEF w
<1>4. \A d \in Deliveries :
        /\ delivery'[d] = None <=> delivery[d] = None
        /\ delivery[d] # None =>
             /\ delivery'[d].attempts = delivery[d].attempts
             /\ delivery'[d].status = "delivered" => delivery[d].status = "delivered"
  BY <1>1
<1>5. worker # None => worker.row \in Deliveries
  BY DEF TypeInv, TypeOK, Work
<1>6. OneRowPerEvent' /\ OneDeliveryIdPerEvent'
  BY <1>2, <1>4 DEF TableInv, OneRowPerEvent, OneDeliveryIdPerEvent, SameEvent
<1>7. DeletedHasNoRows' /\ PostsHaveRows' /\ AttemptsCoverPosts'
  BY <1>2, <1>4 DEF TableInv, DeletedHasNoRows, PostsHaveRows, AttemptsCoverPosts
<1>8. WorkerIsRecorded'
  BY <1>2, <1>4, <1>5 DEF TableInv, WorkerIsRecorded, SameEvent
<1>9. NoRepeat
  BY <1>2, <1>3 DEF NoRepeat
<1>10. Reopened
  BY <1>1 DEF Reopened, w
<1> QED
  BY <1>6, <1>7, <1>8, <1>9, <1>10 DEF Kept, TableInv

\* Each step keeps what the table says of the requests.
LEMMA NextKept == IInv /\ [Next]_vars => Kept
<1> SUFFICES ASSUME TypeInv, TableInv, [Next]_vars PROVE Kept
  BY DEF IInv
<1>1. CASE \/ UNCHANGED vars
           \/ \E e \in Events : Notify(e)
           \/ \E d \in Deliveries : Test(d)
           \/ Unavailable \/ DeliveryFails \/ Reload
           \/ \E r \in Retries, d \in Deliveries : RetryReads(r, d)
           \/ \E r \in Retries : RetryQueues(r)
           \/ Shutdown \/ Stopped \/ Start
  <2>1. UNCHANGED <<delivery, posts, channel>>
    BY <1>1 DEF vars, Notify, Test, Unavailable, DeliveryFails, Reload, RetryReads,
                RetryQueues, Shutdown, Stopped, Start
  <2>2. worker' # None => /\ worker # None /\ worker'.row = worker.row
                          /\ worker'.previous = worker.previous
                          /\ worker'.attempt = worker.attempt
                          /\ worker'.at \in {worker.at, "backoff"}
    <3>1. CASE Unavailable
      <4>1. worker \in Work /\ worker # None
        BY <3>1 DEF Unavailable, Attempting, TypeInv, TypeOK
      <4>2. worker' = [worker EXCEPT !.at = "backoff"]
        BY <3>1 DEF Unavailable
      <4> QED
        BY <4>1, <4>2 DEF Work
    <3>2. CASE ~Unavailable
      BY <1>1, <3>2 DEF vars, Notify, Test, DeliveryFails, Reload, RetryReads,
                        RetryQueues, Shutdown, Stopped, Start
    <3> QED
      BY <3>1, <3>2
  <2> QED
    BY <2>1, <2>2, OtherSteps
<1>2. ASSUME NEW c \in Channels, CreateChannel(c) PROVE Kept
  <2>1. /\ UNCHANGED <<delivery, posts, worker>>
        /\ channel[c] = "absent" /\ channel' = [channel EXCEPT ![c] = "enabled"]
        /\ channel \in [Channels -> {"absent", "enabled", "disabled", "deleted"}]
    BY <1>2 DEF CreateChannel, TypeInv, TypeOK
  <2>2. \A b \in Channels : channel'[b] = "deleted" <=> channel[b] = "deleted"
    BY <2>1
  <2> QED
    BY <2>1, <2>2, OtherSteps
<1> QED
  BY <1>1, <1>2, TakeJobKept, TakeJobFailsKept, PostKept, NextAttemptKept, SettleKept,
     ChangeChannelKept, RetryWritesKept DEF Next, Stop, Crash

\* At first no request went out.
LEMMA InitKept == Init => IInv
<1> SUFFICES ASSUME Init PROVE IInv
  OBVIOUS
<1>1. /\ \A d \in Deliveries : delivery[d] = None /\ posts[d] = 0
      /\ worker = None
  BY DEF Init
<1>2. TableInv
  BY <1>1 DEF TableInv, OneRowPerEvent, DeletedHasNoRows, PostsHaveRows, WorkerIsRecorded,
              OneDeliveryIdPerEvent, AttemptsCoverPosts
<1> QED
  BY <1>2, InitTypes DEF IInv

\* The invariant is inductive.
LEMMA IInvIsInductive == IInv /\ [Next]_vars => IInv'
  BY TypesAreInductive, NextKept DEF IInv, Kept

\* The delivery table never counts fewer requests than went out, and all
\* requests for an event of a channel carry one delivery id, although rows,
\* jobs and requests are written and lost apart.
THEOREM RequestsAreCovered == Spec => []DispatcherInv
<1>1. IInv => DispatcherInv
  BY DEF IInv, TypeInv, TableInv, DispatcherInv
<1> QED
  BY <1>1, InitKept, IInvIsInductive, PTL DEF Spec

\* Nothing is sent again once it was delivered, and only a retry that read
\* the row before takes a delivered notification back.
THEOREM DeliveredStays == Spec => DeliveredIsKept
<1>1. IInv /\ [Next]_vars => [NoRepeat]_vars /\ [Reopened]_vars
  BY NextKept DEF Kept
<1> QED
  BY <1>1, InitKept, IInvIsInductive, PTL
     DEF Spec, DeliveredIsKept, NoPostAfterDelivered, OnlyRetriesReopen, NoRepeat, Reopened

-----------------------------------------------------------------------------
(* Who answers for an unsettled delivery.                                  *)

\* Delivery d is about to be attempted.
Owned(d) ==
    \/ d \in Queued
    \/ worker # None /\ worker.row = d
    \/ \E r \in Retries : retry[r].at = "written" /\ retry[r].row = d

\* The table calls delivery d pending or delivering.
Open(d) == delivery[d] # None /\ delivery[d].status \in {"pending", "delivering"}

\* A step may leave fewer unsettled deliveries and more owners.
LEMMA OwnersRemain ==
    ASSUME UnsettledIsOwned, phase # "down",
           \A d \in Deliveries :
             /\ Open(d)' /\ d \notin stranded'
                  => (Open(d) /\ d \notin stranded) \/ Owned(d)'
             /\ Owned(d) => Owned(d)' \/ ~Open(d)' \/ d \in stranded'
    PROVE  UnsettledIsOwned'
<1>1. \A d \in Deliveries : d \in Unsettled <=> Open(d)
  BY DEF Unsettled, Open
<1>2. \A d \in Deliveries : Open(d) /\ d \notin stranded => Owned(d)
  BY <1>1 DEF UnsettledIsOwned, Owned
<1>3. \A d \in Deliveries : (d \in Unsettled)' <=> Open(d)'
  BY DEF Unsettled, Open
<1>4. \A d \in Deliveries : Open(d)' /\ d \notin stranded' => Owned(d)'
  BY <1>2
<1> QED
  BY <1>3, <1>4 DEF UnsettledIsOwned, Owned, Unsettled

\* The jobs of a queue that grows are still queued.
LEMMA QueueGrows ==
    ASSUME TypeOK, NEW jobs \in Seq(Deliveries), queue' = queue \o Fitting(jobs)
    PROVE  /\ Queued \subseteq Queued'
           /\ Len(jobs) = 1 /\ Room > 0 => jobs[1] \in Queued'
<1>1. /\ Fitting(jobs) \in Seq(Deliveries)
      /\ queue' \in Seq(Deliveries) /\ queue \in Seq(Deliveries)
      /\ \A n \in DOMAIN queue : n \in DOMAIN queue' /\ queue'[n] = queue[n]
  BY FittingTypes DEF TypeOK
<1>2. ASSUME Len(jobs) = 1, Room > 0 PROVE jobs[1] \in Queued'
  <2>1. Fitting(jobs) = jobs
    <3>1. Room \in Int
      BY DispatcherAssumption DEF TypeOK, Room
    <3> QED
      BY <1>2, <3>1 DEF Fitting
  <2>2. /\ Len(queue) + 1 \in DOMAIN queue'
        /\ queue'[Len(queue) + 1] = jobs[1]
    BY <1>1, <1>2, <2>1
  <2> QED
    BY <2>2 DEF Queued
<1> QED
  BY <1>1, <1>2 DEF Queued

\* The worker takes the head of the queue and owns its row, or the row is
\* settled or given up.
LEMMA TakenIsOwned ==
    ASSUME TypeInv, UnsettledIsOwned, TakeJob \/ TakeJobFails
    PROVE  UnsettledIsOwned'
<1> PICK job : job = Head(queue)
  OBVIOUS
<1> PICK row : row = RowOf(job)
  OBVIOUS
<1>1. /\ TypeOK /\ queue # <<>> /\ queue' = Tail(queue) /\ phase # "down"
      /\ worker = None /\ UNCHANGED retry
  BY DEF TypeInv, TakeJob, TakeJobFails
<1>2. /\ job \in Deliveries
      /\ \A n \in DOMAIN queue :
           n # 1 => n - 1 \in DOMAIN Tail(queue) /\ Tail(queue)[n - 1] = queue[n]
      /\ job = queue[1]
  BY <1>1, HeadIsDelivery
<1>3. \A d \in Deliveries : Owned(d) => Owned(d)' \/ d = job
  <2>1. \A d \in Queued : d = job \/ d \in Queued'
    BY <1>1, <1>2 DEF Queued
  <2> QED
    BY <1>1, <2>1 DEF Owned
<1>4. /\ row # None => row \in Deliveries
      /\ delivery[job] # None => row = job
  <2>1. delivery[job] # None => row # None
    BY <1>2, NoneIsNeither DEF RowOf
  <2> QED
    BY <1>1, <1>2, <2>1, RowOfFacts
<1>5. CASE TakeJob
  <2>1. stranded' = stranded
    BY <1>5 DEF TakeJob
  <2>2. CASE /\ row = None \/ (delivery[row] # None /\ delivery[row].status = "delivered")
             /\ UNCHANGED <<delivery, worker>>
    <3>1. ~Open(job)
      BY <1>2, <1>4, <2>2, NoneIsNeither DEF Open
    <3>2. \A d \in Deliveries : Open(d)' <=> Open(d)
      BY <2>2 DEF Open
    <3> QED
      BY <1>1, <1>2, <1>3, <2>1, <3>1, <3>2, OwnersRemain
  <2>3. CASE row # None /\ WriteAhead(row, Attempts(row), 1, TRUE)
    <3>1. row \in Deliveries /\ Attempts(row) \in Nat /\ 1 \in 1..MaxAttempts
      BY <1>1, <1>4, <2>3, AttemptsType, DispatcherAssumption
    <3>2. /\ worker' # None /\ worker'.row = row
          /\ \A e \in Deliveries \ {row} : delivery'[e] = delivery[e]
      BY <1>1, <2>3, <3>1, WriteAheadTypes
    <3>3. Owned(row)'
      BY <3>2 DEF Owned
    <3>4. \A d \in Deliveries \ {row} : Open(d)' <=> Open(d)
      BY <3>2 DEF Open
    <3>5. job # row => ~Open(job)
      BY <1>4 DEF Open
    <3> QED
      BY <1>1, <1>2, <1>3, <2>1, <3>3, <3>4, <3>5, OwnersRemain
  <2> QED
    BY <1>5, <2>2, <2>3 DEF TakeJob
<1>6. CASE TakeJobFails
  <2>1. stranded' = IF row = None THEN stranded ELSE stranded \cup {row}
    BY <1>6 DEF TakeJobFails
  <2>2. \A d \in Deliveries \ {row} : delivery'[d] = delivery[d]
    <3>1. \/ UNCHANGED delivery
          \/ delivery' = [delivery EXCEPT ![row] = [status |-> "pending", attempts |-> 0]]
      BY <1>6 DEF TakeJobFails
    <3>2. delivery \in [Deliveries -> DeliveryRow \cup {None}]
      BY <1>1 DEF TypeOK
    <3> QED
      BY <3>1, <3>2
  <2>3. row = None => ~Open(job) /\ delivery' = delivery
    BY <1>2, <1>4, <1>6, NoneIsNeither DEF Open, TakeJobFails
  <2>4. job # row => ~Open(job)
    BY <1>4 DEF Open
  <2>5. \A d \in Deliveries \ {row} : Open(d)' <=> Open(d)
    BY <2>2 DEF Open
  <2>6. \A d \in Deliveries : row # d \/ d \in stranded'
    BY <2>1, NoneIsNeither
  <2> QED
    BY <1>1, <1>2, <1>3, <2>1, <2>4, <2>5, <2>6, OwnersRemain
<1> QED
  BY <1>5, <1>6

\* The worker lets go of a delivery only when it settles it or gives it up.
LEMMA WorkedIsOwned ==
    ASSUME TypeInv, UnsettledIsOwned,
           Accepted \/ Refused \/ Unavailable \/ NextAttempt \/ DeliveryFails
    PROVE  UnsettledIsOwned'
<1>1. /\ TypeOK /\ phase # "down" /\ UNCHANGED <<queue, retry>>
      /\ worker # None /\ worker \in Work /\ worker.row \in Deliveries
      /\ MaxAttempts \in Nat /\ worker.attempt \in 1..MaxAttempts
      /\ worker.previous \in Nat
  BY DispatcherAssumption
     DEF TypeInv, TypeOK, Work, Accepted, Refused, Unavailable, NextAttempt,
         DeliveryFails, Attempting
<1> PICK w \in Deliveries : w = worker.row
  BY <1>1
<1>2. \A d \in Deliveries \ {w} : Owned(d) => Owned(d)'
  BY <1>1 DEF Owned, Queued
<1>3. CASE Accepted \/ Refused
  <2>1. PICK status \in {"delivered", "failed"} : Settle(status)
    BY <1>3 DEF Accepted, Refused
  <2>2. /\ \A d \in Deliveries : delivery'[d] = None <=> delivery[d] = None
        /\ \A d \in Deliveries \ {w} : delivery'[d] = delivery[d]
        /\ delivery[w] # None => delivery'[w].status = status
    BY <1>1, <2>1, SettleTypes
  <2>3. stranded' = stranded
    BY <1>3 DEF Accepted, Refused
  <2>4. ~Open(w)' /\ \A d \in Deliveries \ {w} : Open(d)' <=> Open(d)
    BY <1>1, <2>2 DEF Open
  <2> QED
    BY <1>1, <1>2, <2>3, <2>4, OwnersRemain
<1>4. CASE Unavailable
  <2>1. /\ UNCHANGED <<delivery, stranded>>
        /\ worker' = [worker EXCEPT !.at = "backoff"]
    BY <1>4 DEF Unavailable
  <2>2. worker' \in Work /\ worker'.row = w
    BY <1>1, <2>1 DEF Work
  <2>3. Owned(w)'
    BY <2>2, NoneIsNeither DEF Owned
  <2>4. \A d \in Deliveries : Open(d)' <=> Open(d)
    BY <2>1 DEF Open
  <2> QED
    BY <1>1, <1>2, <2>1, <2>3, <2>4, OwnersRemain
<1>5. CASE NextAttempt
  <2> DEFINE exists == delivery[w] # None
             next == worker.attempt + 1
  <2>1. WriteAhead(w, worker.previous, next, exists) /\ stranded' = stranded
    BY <1>5 DEF NextAttempt
  <2>2. next \in 1..MaxAttempts /\ exists \in BOOLEAN
    BY <1>1, <1>5 DEF NextAttempt, Attempting, TypeInv, BackoffHasNext
  <2> HIDE DEF exists, next
  <2>3. /\ worker' # None /\ worker'.row = w
        /\ \A e \in Deliveries \ {w} : delivery'[e] = delivery[e]
    BY <1>1, <2>1, <2>2, WriteAheadTypes
  <2>4. Owned(w)' /\ \A d \in Deliveries \ {w} : Open(d)' <=> Open(d)
    BY <2>3 DEF Owned, Open
  <2> QED
    BY <1>1, <1>2, <2>1, <2>4, OwnersRemain
<1>6. CASE DeliveryFails
  <2>1. delivery' = delivery /\ stranded' = stranded \cup {w}
    BY <1>6 DEF DeliveryFails
  <2>2. \A d \in Deliveries : Open(d)' <=> Open(d)
    BY <2>1 DEF Open
  <2> QED
    BY <1>1, <1>2, <2>1, <2>2, OwnersRemain
<1> QED
  BY <1>3, <1>4, <1>5, <1>6

\* A retry owns the row it has set to pending, until its job is queued.
LEMMA RetriedIsOwned ==
    ASSUME TypeInv, UnsettledIsOwned, phase # "down", NEW r \in Retries,
           \/ \E d \in Deliveries : RetryReads(r, d)
           \/ RetryWrites(r) \/ RetryQueues(r)
    PROVE  UnsettledIsOwned'
<1> PICK w : w = retry[r].row
  OBVIOUS
<1>1. TypeOK /\ worker' = worker
  BY DEF TypeInv, RetryReads, RetryWrites, RetryQueues
<1>2. CASE \E d \in Deliveries : RetryReads(r, d)
  <2>1. /\ UNCHANGED <<queue, delivery, stranded>>
        /\ retry[r].at = "new" /\ \A s \in Retries \ {r} : retry'[s] = retry[s]
    BY <1>1, <1>2 DEF RetryReads, TypeOK
  <2>2. \A d \in Deliveries : (Open(d)' <=> Open(d)) /\ (Owned(d) => Owned(d)')
    BY <1>1, <2>1 DEF Open, Owned, Queued
  <2> QED
    BY <2>1, <2>2, OwnersRemain
<1>3. CASE RetryWrites(r)
  <2>1. /\ retry[r].at = "read" /\ w \in Deliveries
        /\ \A s \in Retries \ {r} : retry'[s] = retry[s]
        /\ retry'[r].row = w
        /\ \A d \in Deliveries \ {w} : delivery'[d] = delivery[d]
        /\ delivery[w] = None => delivery' = delivery
        /\ delivery[w] # None => retry'[r].at = "written"
    BY <1>3, RetryWritesTypes
  <2>2. UNCHANGED <<queue, stranded>>
    BY <1>3 DEF RetryWrites
  <2>3. \A d \in Deliveries : Owned(d) => Owned(d)'
    BY <1>1, <2>1, <2>2 DEF Owned, Queued
  <2>4. \A d \in Deliveries \ {w} : Open(d)' <=> Open(d)
    BY <2>1 DEF Open
  <2>5. Open(w)' => Owned(w)'
    BY <2>1 DEF Open, Owned
  <2> QED
    BY <2>2, <2>3, <2>4, <2>5, OwnersRemain
<1>4. CASE RetryQueues(r)
  <2>1. /\ UNCHANGED delivery
        /\ retry[r].at = "written" /\ w \in Deliveries
        /\ queue' = queue \o Fitting(<<w>>)
        /\ \A s \in Retries \ {r} : retry'[s] = retry[s]
        /\ stranded' = IF Room > 0 THEN stranded ELSE stranded \cup {w}
    BY <1>1, <1>4 DEF RetryQueues, TypeInv, RetriesNameRows, TypeOK
  <2>2. <<w>> \in Seq(Deliveries) /\ Len(<<w>>) = 1 /\ <<w>>[1] = w
    BY <2>1
  <2>3. Queued \subseteq Queued' /\ (Room > 0 => w \in Queued')
    BY <1>1, <2>1, <2>2, QueueGrows
  <2>4. \A d \in Deliveries \ {w} : Owned(d) => Owned(d)'
    BY <1>1, <2>1, <2>3 DEF Owned
  <2>5. Owned(w)' \/ w \in stranded'
    BY <2>1, <2>3 DEF Owned
  <2>6. \A d \in Deliveries : Open(d)' <=> Open(d)
    BY <2>1 DEF Open
  <2>7. stranded \subseteq stranded'
    BY <2>1
  <2> QED
    BY <2>4, <2>5, <2>6, <2>7, OwnersRemain
<1> QED
  BY <1>2, <1>3, <1>4

\* A new process strands what it does not restore.
LEMMA RestoredIsOwned ==
    ASSUME Start
    PROVE  UnsettledIsOwned'
<1>1. PICK oldest \in SUBSET Unsettled :
        \E order \in Orders({d \in oldest : ChannelOf[d] \in Enabled}) :
          /\ queue' = Fitting(order)
          /\ stranded' = Unsettled \ {Fitting(order)[n] : n \in DOMAIN Fitting(order)}
  BY DEF Start
<1>2. stranded' = Unsettled \ Queued'
  BY <1>1 DEF Queued
<1>3. Unsettled' = Unsettled
  BY DEF Start, Unsettled
<1> QED
  BY <1>2, <1>3 DEF UnsettledIsOwned

\* Each step leaves an owner to every delivery that is not stranded.
LEMMA OwnersKept ==
    ASSUME TypeInv, UnsettledIsOwned, [Next]_vars,
           phase = "down" => \A r \in Retries : retry[r].at \notin {"read", "written"}
    PROVE  UnsettledIsOwned'
<1>1. CASE \/ \E e \in Events : Notify(e)
           \/ \E d \in Deliveries : Test(d)
  <2>1. phase # "down" /\ TypeOK
    BY <1>1 DEF Notify, Test, TypeInv
  <2>2. /\ \E jobs \in Seq(Deliveries) : queue' = queue \o Fitting(jobs)
        /\ UNCHANGED <<worker, delivery, retry, stranded>>
    BY <1>1, EnqueueKeepsTypes
  <2>3. Queued \subseteq Queued'
    BY <2>1, <2>2, QueueGrows
  <2>4. \A d \in Deliveries : (Open(d)' <=> Open(d)) /\ (Owned(d) => Owned(d)')
    BY <2>2, <2>3 DEF Open, Owned
  <2> QED
    BY <2>1, <2>2, <2>4, OwnersRemain
<1>2. CASE \/ UNCHANGED vars
           \/ \E c \in Channels : CreateChannel(c)
           \/ Reload \/ Shutdown
  <2>1. /\ UNCHANGED <<queue, worker, delivery, retry, stranded>>
        /\ phase # "down" <=> phase' # "down"
    BY <1>2 DEF vars, CreateChannel, Reload, Shutdown
  <2> QED
    BY <2>1 DEF UnsettledIsOwned, Unsettled, Queued
<1>3. ASSUME NEW c \in Channels, NEW to \in MayBecome[c], ChangeChannel(c, to)
      PROVE  UnsettledIsOwned'
  <2>1. /\ phase # "down" /\ UNCHANGED <<queue, worker, retry, stranded>>
        /\ \A d \in Deliveries : delivery'[d] # None => delivery'[d] = delivery[d]
    BY <1>3 DEF ChangeChannel, TypeInv, TypeOK
  <2>2. \A d \in Deliveries : (Open(d)' => Open(d)) /\ (Owned(d) => Owned(d)')
    BY <2>1 DEF Open, Owned, Queued
  <2> QED
    BY <2>1, <2>2, OwnersRemain
<1>4. CASE TakeJob \/ TakeJobFails
  BY <1>4, TakenIsOwned
<1>5. CASE Accepted \/ Refused \/ Unavailable \/ NextAttempt \/ DeliveryFails
  BY <1>5, WorkedIsOwned
<1>6. CASE Post
  <2>1. /\ phase # "down" /\ worker # None /\ worker' # None /\ worker'.row = worker.row
        /\ UNCHANGED <<queue, delivery, retry, stranded>>
    BY <1>6, PostTypes DEF Post, Attempting
  <2>2. \A d \in Deliveries : (Open(d)' <=> Open(d)) /\ (Owned(d) => Owned(d)')
    BY <2>1 DEF Open, Owned, Queued
  <2> QED
    BY <2>1, <2>2, OwnersRemain
<1>7. CASE \/ \E r \in Retries, d \in Deliveries : RetryReads(r, d)
           \/ \E r \in Retries : RetryWrites(r) \/ RetryQueues(r)
  <2>1. phase # "down"
    BY <1>7 DEF RetryReads, RetryWrites, RetryQueues
  <2> QED
    BY <1>7, <2>1, RetriedIsOwned
<1>8. CASE Stopped
  BY <1>8 DEF Stopped, UnsettledIsOwned
<1>9. CASE Start
  BY <1>9, RestoredIsOwned
<1> QED
  BY <1>1, <1>2, <1>3, <1>4, <1>5, <1>6, <1>7, <1>8, <1>9 DEF Next, Stop, Crash

\* No request survives the process that runs it.
DownHasNoRetries ==
    phase = "down" => \A r \in Retries : retry[r].at \notin {"read", "written"}

\* Only the end of a process leads there, and it drops the requests.
LEMMA DownHasNoRetriesKept ==
    ASSUME TypeInv, DownHasNoRetries, [Next]_vars
    PROVE  DownHasNoRetries'
<1>1. CASE Stopped
  BY <1>1 DEF Stopped, InRequest, DownHasNoRetries, TypeInv, TypeOK
<1>2. CASE ~Stopped
  <2>1. phase' = "down" => phase = "down"
    BY <1>2 DEF Next, vars, Notify, Test, TakeJob, TakeJobFails, Post, Accepted, Refused,
                Unavailable, NextAttempt, DeliveryFails, CreateChannel, ChangeChannel,
                Reload, RetryReads, RetryWrites, RetryQueues, Shutdown, Stop, Crash, Start
  <2>2. phase = "down" => UNCHANGED retry
    BY <1>2 DEF DownHasNoRetries, Next, vars, Notify, Test, TakeJob, TakeJobFails,
                Post, Accepted, Refused, Unavailable, NextAttempt, DeliveryFails, CreateChannel,
                ChangeChannel, Reload, RetryReads, RetryWrites, RetryQueues, Shutdown,
                Stop, Crash, Start
  <2> QED
    BY <2>1, <2>2 DEF DownHasNoRetries
<1> QED
  BY <1>1, <1>2

\* A delivery the table calls pending or delivering is queued, in the hands
\* of the worker or of a retry, or was given up or never restored.
THEOREM UnsettledHaveOwners == Spec => []UnsettledIsOwned
<1> DEFINE Inv == TypeInv /\ DownHasNoRetries /\ UnsettledIsOwned
<1>1. Init => Inv
  <2>1. Init => DownHasNoRetries /\ UnsettledIsOwned
    BY DEF Init, DownHasNoRetries, UnsettledIsOwned, Unsettled
  <2> QED
    BY <2>1, InitTypes
<1>2. Inv /\ [Next]_vars => Inv'
  <2>1. Inv /\ [Next]_vars => UnsettledIsOwned'
    BY OwnersKept DEF DownHasNoRetries
  <2> QED
    BY <2>1, TypesAreInductive, DownHasNoRetriesKept
<1>3. Inv => UnsettledIsOwned
  OBVIOUS
<1> HIDE DEF Inv
<1> QED
  BY <1>1, <1>2, <1>3, PTL DEF Spec

=============================================================================
