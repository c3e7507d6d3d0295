------------------------------ MODULE EventBus ------------------------------
(***************************************************************************)
(* The PostgreSQL event bus: in each process a queue, a publisher thread   *)
(* and a listener thread with a connection each, started and stopped with  *)
(* the manager.  NOTIFY reaches every connection that listens when it is   *)
(* committed, in one order; what a message says is left to the modules     *)
(* that use the bus.                                                       *)
(*                                                                         *)
(* A message too large for NOTIFY is dropped like one that meets a full    *)
(* queue.  A thread looks at the stop flag between two operations; one     *)
(* that connects may do so for longer than stop() waits for it.            *)
(***************************************************************************)
EXTENDS Naturals, Sequences, FiniteSets

CONSTANTS
    Procs,          \* processes of the application
    Talkers,        \* those that publish; the publisher threads of the others
                    \* have nothing to do and are left out
    QueueSize,      \* max_queue_size
    MaxStarts,      \* bound on the starts of a process
    MaxFailures     \* bound on the connections that fail, and on stops

ASSUME BusAssumption ==
    /\ Talkers \subseteq Procs
    /\ QueueSize \in Nat \ {0} /\ MaxStarts \in Nat \ {0} /\ MaxFailures \in Nat

Threads == Procs \X (1..MaxStarts)

VARIABLES
    starts,     \* starts of each process so far
    handles,    \* _publisher and _listener: the start they are from, or 0
    stopFlag,   \* _stop
    loop,       \* whether _loop is set
    joining,    \* the start whose threads a stop() waits for, or 0
    queue,      \* _queue
    publisher,  \* each publisher thread, and the message it has taken
    listener,   \* each listener thread
    notified,   \* the notifications each listening connection has not read
    failures,   \* failures and stops so far
    requeued,   \* history: a publish failed
    hasty       \* history: the processes that started over a stop() or over
                \* threads of an earlier start

busVars == <<starts, handles, stopFlag, loop, joining, queue, publisher, listener,
             notified, failures, requeued, hasty>>

BusTypeOK ==
    /\ starts \in [Procs -> 0..MaxStarts]
    /\ handles \in [Procs -> 0..MaxStarts] /\ joining \in [Procs -> 0..MaxStarts]
    /\ {stopFlag[p] : p \in Procs} \cup {loop[p] : p \in Procs} \subseteq BOOLEAN
    /\ \A p \in Procs : Len(queue[p]) <= QueueSize
    /\ \A t \in Threads :
         /\ publisher[t].at \in {"none", "connecting", "ready", "publishing", "ended"}
         /\ listener[t] \in {"none", "connecting", "listening", "ended"}
         /\ notified[t] # <<>> => listener[t] = "listening"
    /\ failures \in 0..MaxFailures /\ requeued \in BOOLEAN /\ hasty \subseteq Procs

Unstarted == [at |-> "none", hand |-> 0]

\* The manager has started the bus, and its threads have connected, before
\* there is anything to publish.
BusInit ==
    /\ starts = [p \in Procs |-> 1]
    /\ handles = [p \in Procs |-> 1]
    /\ stopFlag = [p \in Procs |-> FALSE]
    /\ loop = [p \in Procs |-> TRUE]
    /\ joining = [p \in Procs |-> 0]
    /\ queue = [p \in Procs |-> <<>>]
    /\ publisher = [t \in Threads |->
           IF t[2] = 1 /\ t[1] \in Talkers THEN [Unstarted EXCEPT !.at = "ready"]
           ELSE Unstarted]
    /\ listener = [t \in Threads |-> IF t[2] = 1 THEN "listening" ELSE "none"]
    /\ notified = [t \in Threads |-> <<>>]
    /\ failures = 0
    /\ requeued = FALSE
    /\ hasty = {}

-----------------------------------------------------------------------------
(* start, stop, publish: on the event loop of the process.                 *)

Running(t) ==
    publisher[t].at \notin {"none", "ended"} \/ listener[t] \notin {"none", "ended"}

\* Slip: the stop flag is left as it was.
StartBusStopped(p) ==
    /\ handles[p] = 0 /\ starts[p] < MaxStarts
    /\ LET n == starts[p] + 1
       IN  /\ starts' = [starts EXCEPT ![p] = n]
           /\ handles' = [handles EXCEPT ![p] = n]
           /\ publisher' = [publisher EXCEPT ![<<p, n>>].at =
                  IF p \in Talkers THEN "connecting" ELSE @]
           /\ listener' = [listener EXCEPT ![<<p, n>>] = "connecting"]
    /\ loop' = [loop EXCEPT ![p] = TRUE]
    /\ hasty' = IF joining[p] # 0 \/ \E n \in 1..MaxStarts : Running(<<p, n>>)
                THEN hasty \cup {p} ELSE hasty
    /\ UNCHANGED <<stopFlag, joining, queue, notified, failures, requeued>>

\* A start while there are handles does nothing.
StartBus(p) ==
    /\ handles[p] = 0 /\ starts[p] < MaxStarts
    /\ LET n == starts[p] + 1
       IN  /\ starts' = [starts EXCEPT ![p] = n]
           /\ handles' = [handles EXCEPT ![p] = n]
           /\ publisher' = [publisher EXCEPT ![<<p, n>>].at =
                  IF p \in Talkers THEN "connecting" ELSE @]
           /\ listener' = [listener EXCEPT ![<<p, n>>] = "connecting"]
    /\ loop' = [loop EXCEPT ![p] = TRUE]
    /\ stopFlag' = [stopFlag EXCEPT ![p] = FALSE]
    /\ hasty' = IF joining[p] # 0 \/ \E n \in 1..MaxStarts : Running(<<p, n>>)
                THEN hasty \cup {p} ELSE hasty
    /\ UNCHANGED <<joining, queue, notified, failures, requeued>>

Fail == failures < MaxFailures /\ failures' = failures + 1

\* stop() gives up the handles and waits for their threads on another thread.
StopBus(p) ==
    /\ handles[p] # 0 /\ joining[p] = 0
    /\ Fail
    /\ joining' = [joining EXCEPT ![p] = handles[p]]
    /\ handles' = [handles EXCEPT ![p] = 0]
    /\ stopFlag' = [stopFlag EXCEPT ![p] = TRUE]
    /\ UNCHANGED <<starts, loop, queue, publisher, listener, notified, requeued,
                   hasty>>

\* They have ended, or 3 seconds have passed.
StopReturns(p) ==
    /\ joining[p] # 0
    /\ joining' = [joining EXCEPT ![p] = 0]
    /\ loop' = [loop EXCEPT ![p] = FALSE]
    /\ UNCHANGED <<starts, handles, stopFlag, queue, publisher, listener, notified,
                   failures, requeued, hasty>>

\* Slip: the queue is a stack.
PublishFirst(p, m) ==
    queue' = [queue EXCEPT ![p] = IF handles[p] # 0 THEN <<m>> \o @ ELSE @]

\* publish: dropped without handles and on a full queue, which the telemetry
\* that is not modelled shares.
Publish(p, m) ==
    \/ /\ handles[p] # 0 /\ Len(queue[p]) < QueueSize
       /\ queue' = [queue EXCEPT ![p] = Append(@, m)]
    \/ queue' = queue

-----------------------------------------------------------------------------
(* The publisher thread.                                                   *)

\* The loop of either thread ends at the flag, whatever it was about to do.
PublisherEnds(t) ==
    /\ publisher[t].at \in {"connecting", "ready"} /\ stopFlag[t[1]]
    /\ publisher' = [publisher EXCEPT ![t].at = "ended"]
    /\ UNCHANGED <<starts, handles, stopFlag, loop, joining, queue, listener, notified,
                   failures, requeued, hasty>>

\* (A connection attempt that fails is repeated: nothing changes.)
PublisherConnects(t) ==
    /\ publisher[t].at = "connecting"
    /\ publisher' = [publisher EXCEPT ![t].at = "ready"]
    /\ UNCHANGED <<starts, handles, stopFlag, loop, joining, queue, listener, notified,
                   failures, requeued, hasty>>

\* Taken by a thread that looked at the flag before it was set, or not.
TakeMessage(t) ==
    /\ publisher[t].at = "ready" /\ queue[t[1]] # <<>>
    /\ publisher' = [publisher EXCEPT ![t] =
           [at |-> "publishing", hand |-> Head(queue[t[1]])]]
    /\ queue' = [queue EXCEPT ![t[1]] = Tail(@)]
    /\ UNCHANGED <<starts, handles, stopFlag, loop, joining, listener, notified,
                   failures, requeued, hasty>>

Notified(m) ==
    [t \in Threads |-> IF listener[t] = "listening" THEN Append(notified[t], m)
                       ELSE notified[t]]

Notify(t) ==
    /\ publisher[t].at = "publishing"
    /\ notified' = Notified(publisher[t].hand)
    /\ publisher' = [publisher EXCEPT ![t] = [at |-> "ready", hand |-> 0]]
    /\ UNCHANGED <<starts, handles, stopFlag, loop, joining, queue, listener, failures,
                   requeued, hasty>>

\* The connection breaks, before the notification was committed or after:
\* the message goes to the end of the queue, or is dropped if that is full.
NotifyFails(t) ==
    /\ publisher[t].at = "publishing"
    /\ Fail
    /\ notified' \in {notified, Notified(publisher[t].hand)}
    /\ queue' = [queue EXCEPT ![t[1]] =
           IF Len(@) < QueueSize THEN Append(@, publisher[t].hand) ELSE @]
    /\ publisher' = [publisher EXCEPT ![t] = [at |-> "connecting", hand |-> 0]]
    /\ requeued' = TRUE
    /\ UNCHANGED <<starts, handles, stopFlag, loop, joining, listener, hasty>>

-----------------------------------------------------------------------------
(* The listener thread.                                                    *)

ListenerEnds(t) ==
    /\ listener[t] \in {"connecting", "listening"} /\ stopFlag[t[1]]
    /\ listener' = [listener EXCEPT ![t] = "ended"]
    /\ notified' = [notified EXCEPT ![t] = <<>>]
    /\ UNCHANGED <<starts, handles, stopFlag, loop, joining, queue, publisher, failures,
                   requeued, hasty>>

Listen(t) ==
    /\ listener[t] = "connecting"
    /\ listener' = [listener EXCEPT ![t] = "listening"]
    /\ UNCHANGED <<starts, handles, stopFlag, loop, joining, queue, publisher, notified,
                   failures, requeued, hasty>>

\* Slip: what the connection has not read outlives it.
ListenerFailsKeeping(t) ==
    /\ listener[t] = "listening"
    /\ Fail
    /\ listener' = [listener EXCEPT ![t] = "connecting"]
    /\ UNCHANGED <<starts, handles, stopFlag, loop, joining, queue, publisher, notified,
                   requeued, hasty>>

\* The connection breaks: what it has not read is lost.
ListenerFails(t) ==
    /\ listener[t] = "listening"
    /\ Fail
    /\ listener' = [listener EXCEPT ![t] = "connecting"]
    /\ notified' = [notified EXCEPT ![t] = <<>>]
    /\ UNCHANGED <<starts, handles, stopFlag, loop, joining, queue, publisher, requeued,
                   hasty>>

\* A notification is read; what becomes of it is the user's.
ReadNotification(t) ==
    /\ listener[t] = "listening" /\ notified[t] # <<>>
    /\ notified' = [notified EXCEPT ![t] = Tail(@)]
    /\ UNCHANGED <<starts, handles, stopFlag, loop, joining, queue, publisher, listener,
                   failures, requeued, hasty>>

BusNext ==
    \/ \E p \in Procs : StartBus(p) \/ StopBus(p) \/ StopReturns(p)
    \/ \E t \in Threads :
         \/ PublisherEnds(t) \/ PublisherConnects(t) \/ TakeMessage(t)
         \/ Notify(t) \/ NotifyFails(t)
         \/ ListenerEnds(t) \/ Listen(t) \/ ListenerFails(t)

=============================================================================
