-------------------------- MODULE TelemetryRuntime --------------------------
(***************************************************************************)
(* The lifecycle of the telemetry manager in a mode with simulation: start *)
(* and resume, pause, reset and the final stop, the generation loop they   *)
(* create and cancel, and the three persistence workers they attach, drain *)
(* and detach.                                                             *)
(*                                                                         *)
(* All of it runs on the event loop, so what a coroutine does between two  *)
(* suspensions is one action.  start() never suspends.  stop() suspends on *)
(* the generation loop and then on each worker in turn.  The persistence   *)
(* host exists and the database answers when start() looks for it; the     *)
(* event bus is off, its default.                                          *)
(***************************************************************************)
EXTENDS Naturals

CONSTANTS
    Callers,    \* requests (and the lifespan) that command the manager
    MaxStarts   \* bound on the starts of a behaviour

ASSUME RuntimeAssumption == MaxStarts \in Nat \ {0}

Starts == 1..MaxStarts

\* The workers in the order stop() drains them.
Telemetry == 1
AlertRows == 2
IncidentRows == 3
Kinds == 1..3

VARIABLES
    running,    \* _running
    stopEvent,  \* _stop_event.is_set()
    task,       \* _task: the start whose loop it holds, 0 for None
    loop,       \* the generation loop each start created
    attached,   \* _persistence, _alert_persistence and the one of the
                \* incident engine, by the start that created it, 0 for None
    worker,     \* the worker of each kind each start created
    op,         \* the command of each caller and where it is suspended
    starts      \* starts so far

vars == <<running, stopEvent, task, loop, attached, worker, op, starts>>

Idle == [cmd |-> "none", at |-> "idle", kind |-> 0, on |-> 0, again |-> FALSE]

TypeOK ==
    /\ running \in BOOLEAN /\ stopEvent \in BOOLEAN
    /\ task \in 0..MaxStarts
    /\ loop \in [Starts -> {"none", "new", "sending", "waiting", "ending", "done"}]
    /\ attached \in [Kinds -> 0..MaxStarts]
    /\ worker \in [Kinds -> [Starts -> {"none", "live", "stopping", "ended"}]]
    /\ op \in [Callers -> [cmd : {"none", "pause", "resume", "reset", "stop"},
                           at : {"idle", "loop", "worker", "clients", "broadcast"},
                           kind : 0..3, on : 0..MaxStarts, again : BOOLEAN]]
    /\ \A c \in Callers : op[c].at = "worker" <=> op[c].kind # 0
    /\ starts \in 0..MaxStarts

Init ==
    /\ running = FALSE
    /\ stopEvent = FALSE
    /\ task = 0
    /\ loop = [n \in Starts |-> "none"]
    /\ attached = [k \in Kinds |-> 0]
    /\ worker = [k \in Kinds |-> [n \in Starts |-> "none"]]
    /\ op = [c \in Callers |-> Idle]
    /\ starts = 0

\* The application takes commands until its lifespan ends.
Serving == \A c \in Callers : op[c].cmd # "stop"

-----------------------------------------------------------------------------
(* start, resume.                                                          *)

\* Slip: the worker of the incident engine, which stop() leaves in place,
\* is taken for all three.
AttachUnlessIncidents ==
    IF attached[IncidentRows] # 0
    THEN UNCHANGED <<attached, worker>>
    ELSE /\ attached' = [k \in Kinds |-> starts + 1]
         /\ worker' = [k \in Kinds |-> [worker[k] EXCEPT ![starts + 1] = "live"]]

\* _ensure_persistence: new workers unless both of the manager's own are
\* there; what it had of the incident engine is replaced in either case.
Attach ==
    IF attached[Telemetry] # 0 /\ attached[AlertRows] # 0
    THEN UNCHANGED <<attached, worker>>
    ELSE /\ attached' = [k \in Kinds |-> starts + 1]
         /\ worker' = [k \in Kinds |-> [worker[k] EXCEPT ![starts + 1] = "live"]]

StartRuntime ==
    IF running
    THEN UNCHANGED <<running, stopEvent, task, loop, attached, worker, starts>>
    ELSE /\ starts < MaxStarts
         /\ running' = TRUE
         /\ stopEvent' = FALSE
         /\ Attach
         /\ loop' = [loop EXCEPT ![starts + 1] = "new"]
         /\ task' = starts + 1
         /\ starts' = starts + 1

Start(c) ==
    /\ Serving
    /\ op[c] = Idle
    /\ ~running
    /\ StartRuntime
    /\ UNCHANGED op

\* A resume starts the manager and tells the clients.
Resume(c) ==
    /\ Serving
    /\ op[c] = Idle
    /\ ~running
    /\ StartRuntime
    /\ op' = [op EXCEPT ![c] = [Idle EXCEPT !.cmd = "resume", !.at = "broadcast"]]

-----------------------------------------------------------------------------
(* stop, within pause, reset and the end of the lifespan.                  *)

\* The workers from kind k on that stop() has to wait for.
Undrained(k) ==
    {j \in k..3 : attached[j] # 0 /\ worker[j][attached[j]] # "ended"}

\* What follows stop(): a pause tells the clients; a reset clears the state,
\* replaces the incident engine and closes the clients.
AfterStop(o) ==
    IF o.cmd = "stop" THEN [Idle EXCEPT !.cmd = "stop"]
    ELSE [o EXCEPT !.at = IF o.cmd = "reset" THEN "clients" ELSE "broadcast",
                   !.kind = 0, !.on = 0]

\* stop() from kind k on, up to its next suspension.  What is there is told
\* to stop and waited for; what has ended, or was waited for, is let go, but
\* for the worker of the incident engine.
DrainFrom(c, k, o) ==
    IF Undrained(k) = {}
    THEN /\ attached' = [j \in Kinds |->
                IF (j >= k - 1 /\ j # IncidentRows) \/ o.cmd = "reset"
                THEN 0 ELSE attached[j]]
         /\ op' = [op EXCEPT ![c] = AfterStop(o)]
         /\ UNCHANGED worker
    ELSE LET next == CHOOSE j \in Undrained(k) : \A i \in Undrained(k) : j <= i
         IN  /\ attached' = [j \in Kinds |->
                    IF j >= k - 1 /\ j < next THEN 0 ELSE attached[j]]
             /\ worker' = [worker EXCEPT ![next][attached[next]] = "stopping"]
             /\ op' = [op EXCEPT ![c] =
                    [o EXCEPT !.at = "worker", !.kind = next, !.on = attached[next]]]

\* Slip: the loop is not cancelled, only the event is set.
Awakened(n) == IF loop[n] = "waiting" THEN "ending" ELSE loop[n]

\* The loops that wait for the stop event wake up; the one the manager holds
\* is cancelled wherever it is.
Interrupted(n) ==
    IF loop[n] = "waiting" \/ (n = task /\ loop[n] \in {"new", "sending"})
    THEN "ending" ELSE loop[n]

\* Slips: the loop is cancelled and not waited for; the flag stays up.
BeginStopAtOnce(c, o) ==
    /\ running' = FALSE
    /\ stopEvent' = TRUE
    /\ loop' = [n \in Starts |-> Interrupted(n)]
    /\ task' = 0
    /\ DrainFrom(c, 1, o)
    /\ UNCHANGED starts

BeginStopFlagUp(c, o) ==
    /\ stopEvent' = TRUE
    /\ loop' = [n \in Starts |-> Interrupted(n)]
    /\ op' = [op EXCEPT ![c] = [o EXCEPT !.at = "loop", !.on = task]]
    /\ task # 0
    /\ UNCHANGED <<running, task, attached, worker, starts>>

BeginStop(c, o) ==
    /\ running' = FALSE
    /\ stopEvent' = TRUE
    /\ loop' = [n \in Starts |-> Interrupted(n)]
    /\ IF task # 0 /\ loop[task] # "done"
       THEN /\ op' = [op EXCEPT ![c] = [o EXCEPT !.at = "loop", !.on = task]]
            /\ UNCHANGED <<task, attached, worker>>
       ELSE /\ task' = 0
            /\ DrainFrom(c, 1, o)
    /\ UNCHANGED starts

Pause(c) ==
    /\ Serving /\ op[c] = Idle
    /\ running
    /\ BeginStop(c, [Idle EXCEPT !.cmd = "pause"])

\* (The bound leaves a start for the end of the reset.)
Reset(c) ==
    /\ Serving /\ op[c] = Idle
    /\ running => starts < MaxStarts
    /\ BeginStop(c, [Idle EXCEPT !.cmd = "reset", !.again = running])

\* The lifespan ends when no request is in flight.
Shutdown(c) ==
    /\ Serving /\ op = [d \in Callers |-> Idle]
    /\ BeginStop(c, [Idle EXCEPT !.cmd = "stop"])

LoopEnded(c) ==
    /\ op[c].at = "loop"
    /\ loop[op[c].on] = "done"
    /\ task' = 0
    /\ DrainFrom(c, 1, op[c])
    /\ UNCHANGED <<running, stopEvent, loop, starts>>

WorkerEnded(c) ==
    /\ op[c].at = "worker"
    /\ worker[op[c].kind][op[c].on] = "ended"
    /\ DrainFrom(c, op[c].kind + 1, op[c])
    /\ UNCHANGED <<running, stopEvent, task, loop, starts>>

\* The clients are closed; a reset of a running manager starts it again and
\* tells those that came back.
ClientsClosed(c) ==
    /\ op[c].at = "clients"
    /\ op' = [op EXCEPT ![c].at = "broadcast"]
    /\ IF op[c].again THEN StartRuntime
       ELSE UNCHANGED <<running, stopEvent, task, loop, attached, worker, starts>>

\* Every client was told, and the command returns.
Announced(c) ==
    /\ op[c].at = "broadcast"
    /\ op' = [op EXCEPT ![c] = Idle]
    /\ UNCHANGED <<running, stopEvent, task, loop, attached, worker, starts>>

-----------------------------------------------------------------------------
(* The tasks.                                                              *)

\* _generation_loop: a new task, or one whose interval has passed, looks at
\* the flag and the event, and generates or ends.
Iterate(n) ==
    /\ loop[n] \in {"new", "waiting"}
    /\ loop' = [loop EXCEPT ![n] = IF running /\ ~stopEvent THEN "sending" ELSE "done"]
    /\ UNCHANGED <<running, stopEvent, task, attached, worker, op, starts>>

\* The broadcasts of the event are done: the loop waits, or sees the event.
Sent(n) ==
    /\ loop[n] = "sending"
    /\ loop' = [loop EXCEPT ![n] = IF stopEvent THEN "done" ELSE "waiting"]
    /\ UNCHANGED <<running, stopEvent, task, attached, worker, op, starts>>

Ends(n) ==
    /\ loop[n] = "ending"
    /\ loop' = [loop EXCEPT ![n] = "done"]
    /\ UNCHANGED <<running, stopEvent, task, attached, worker, op, starts>>

\* A worker that is told to stop ends once its queue is empty ...
Drained(k, n) ==
    /\ worker[k][n] = "stopping"
    /\ worker' = [worker EXCEPT ![k][n] = "ended"]
    /\ UNCHANGED <<running, stopEvent, task, loop, attached, op, starts>>

\* ... or is cancelled after 10 seconds, which also cancels any other caller
\* that waits for it.
TimesOut(c) ==
    /\ op[c].at = "worker"
    /\ worker[op[c].kind][op[c].on] = "stopping"
    /\ worker' = [worker EXCEPT ![op[c].kind][op[c].on] = "ended"]
    /\ op' = [d \in Callers |->
          IF d # c /\ op[d].at = "worker" /\ op[d].kind = op[c].kind
             /\ op[d].on = op[c].on
          THEN Idle ELSE op[d]]
    /\ UNCHANGED <<running, stopEvent, task, loop, attached, starts>>

Next ==
    \/ \E c \in Callers :
         \/ Start(c) \/ Resume(c) \/ Pause(c) \/ Reset(c) \/ Shutdown(c)
         \/ LoopEnded(c) \/ WorkerEnded(c) \/ TimesOut(c)
         \/ ClientsClosed(c) \/ Announced(c)
    \/ \E n \in Starts : Iterate(n) \/ Sent(n) \/ Ends(n)
    \/ \E k \in Kinds, n \in Starts : Drained(k, n)

Spec == Init /\ [][Next]_vars

\* A task that can run does run, and no wait of stop() outlasts its timeout.
\* A broadcast, of an event or at the end of a command, and the closing of the
\* clients may take for ever: they wait for the clients.
Fairness ==
    /\ \A n \in Starts : WF_vars(Iterate(n)) /\ WF_vars(Ends(n))
    /\ \A c \in Callers :
         WF_vars(LoopEnded(c)) /\ WF_vars(WorkerEnded(c)) /\ WF_vars(TimesOut(c))

FairSpec == Spec /\ Fairness

-----------------------------------------------------------------------------
(* Properties.                                                             *)

Alive(n) == loop[n] \notin {"none", "done"}

Taking(k) == attached[k] # 0 /\ worker[k][attached[k]] = "live"

\* Whenever the manager generates, all three workers are attached and will
\* still take what they are given: no event or alert transition of a running
\* manager goes to nobody, however pauses, resumes and resets alternate.
RunningIsPersisted == running => \A k \in Kinds : Taking(k)

\* A command is within stop().
Stops(c) == op[c].at \in {"loop", "worker"}

\* A resume restores what a pause took away: a manager that runs while nothing
\* is being stopped has its workers.
ResumeRestoresPersistence ==
    running /\ (\A c \in Callers : ~Stops(c)) => \A k \in Kinds : Taking(k)

\* There is one generation loop, and the manager holds it: a resume does not
\* start a second one beside the loop a pause has still to end.
OneLoop ==
    \A n \in Starts : Alive(n) => task = n

\* No worker runs on unattached, where nothing would ever stop it.
NoWorkerLeaks ==
    \A k \in Kinds, n \in Starts :
        worker[k][n] \in {"live", "stopping"} => attached[k] = n

\* When stop() returns to a pause, a reset or the end of the lifespan,
\* everything has ended.
StopIsComplete ==
    [][\A c \in Callers : Stops(c) /\ ~Stops(c)' =>
            /\ ~running'
            /\ \A n \in Starts : ~Alive(n)'
            /\ \A k \in Kinds, n \in Starts : worker'[k][n] \in {"none", "ended"}]_vars

\* stop() returns, although the loop it waits for may be sending to a client
\* that never answers and a worker may never drain.  The command around it
\* still waits for the clients, perhaps for ever.
StopsReturn == \A c \in Callers : Stops(c) ~> ~Stops(c)

=============================================================================
