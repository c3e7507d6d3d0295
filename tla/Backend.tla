------------------------------ MODULE Backend -------------------------------
(***************************************************************************)
(* One process of the backend from its lifespan's start to its end, or to  *)
(* a crash, and the next one: the telemetry manager of TelemetryRuntime    *)
(* with the synthetic monitor whose results it takes.  What is in the      *)
(* database survives.                                                      *)
(***************************************************************************)
EXTENDS TelemetryRuntime, SyntheticMonitor

VARIABLE
    lifespan   \* where lifespan() is: "down", "up", "ending"

backendVars == <<vars, monitorVars, lifespan>>

BackendTypeOK ==
    /\ TypeOK
    /\ MonitorTypeOK
    /\ lifespan \in {"down", "up", "ending"}

BackendInit ==
    /\ Init
    /\ MonitorInit
    /\ lifespan = "down"

\* The manager starts, then the monitor, before any request is taken.
Boot(c) ==
    /\ lifespan = "down"
    /\ Start(c)
    /\ StartMonitor
    /\ lifespan' = "up"

\* When the last request has returned, the monitor stops ...
EndLifespan ==
    /\ lifespan = "up"
    /\ \A c \in Callers : op[c] = Idle
    /\ \A q \in Requests : manual[q] = NoRequest
    /\ StopMonitor
    /\ lifespan' = "ending"
    /\ UNCHANGED vars

\* Slip: the manager is stopped first.
StopManagerAhead(c) ==
    /\ lifespan = "up"
    /\ \A q \in Requests : manual[q] = NoRequest
    /\ Shutdown(c)
    /\ UNCHANGED <<monitorVars, lifespan>>

\* ... and then the manager.
StopManager(c) ==
    /\ lifespan = "ending"
    /\ Shutdown(c)
    /\ UNCHANGED <<monitorVars, lifespan>>

Command(c) ==
    /\ lifespan = "up"
    /\ Resume(c) \/ Pause(c)
    /\ UNCHANGED <<monitorVars, lifespan>>

\* A reset forgets the alerts as soon as stop() returns.
Forgetting(c) ==
    IF op'[c].at = "clients" THEN ForgetAlerts ELSE UNCHANGED monitorVars

CommandReset(c) ==
    /\ lifespan = "up"
    /\ Reset(c)
    /\ Forgetting(c)
    /\ UNCHANGED lifespan

Stopping(c) ==
    /\ LoopEnded(c) \/ WorkerEnded(c)
    /\ Forgetting(c)
    /\ UNCHANGED lifespan

Unwinding(c) ==
    /\ TimesOut(c) \/ ClientsClosed(c) \/ Announced(c)
    /\ UNCHANGED <<monitorVars, lifespan>>

TasksRun ==
    /\ \/ \E n \in Starts : Iterate(n) \/ Sent(n) \/ Ends(n)
       \/ \E k \in Kinds, n \in Starts : Drained(k, n)
    /\ UNCHANGED <<monitorVars, lifespan>>

\* The requests that edit or run checks, and the tasks of the monitor.
MonitorSteps ==
    /\ \/ /\ lifespan = "up"
          /\ \E c \in Checks :
               \/ \E s \in {"enabled", "disabled"} : CreateCheck(c, s) \/ UpdateCheck(c, s)
               \/ DeleteCheck(c)
               \/ \E q \in Requests : RunNow(q, c)
       \/ \E c \in Checks :
            \/ BeginRun(c) \/ RunFails(c) \/ RunTold(c)
            \/ \E s \in BOOLEAN : EndRun(c, s)
       \/ \E q \in Requests :
            \/ RunNowFails(q) \/ RunNowTold(q)
            \/ \E s \in BOOLEAN : EndRunNow(q, s)
    /\ UNCHANGED <<vars, lifespan>>

\* The process ends, wherever it is, and another takes its place.
CrashAndRestart ==
    /\ lifespan # "down"
    /\ running' = FALSE
    /\ stopEvent' = FALSE
    /\ task' = 0
    /\ loop' = [n \in Starts |-> "none"]
    /\ attached' = [k \in Kinds |-> 0]
    /\ worker' = [k \in Kinds |-> [n \in Starts |-> "none"]]
    /\ op' = [c \in Callers |-> Idle]
    /\ starts' = 0
    /\ ForgetAll
    /\ lifespan' = "down"

BackendNext ==
    \/ \E c \in Callers :
         \/ Boot(c) \/ StopManager(c) \/ Command(c) \/ CommandReset(c)
         \/ Stopping(c) \/ Unwinding(c)
    \/ EndLifespan \/ TasksRun \/ MonitorSteps \/ CrashAndRestart

BackendSpec == BackendInit /\ [][BackendNext]_backendVars /\ Fairness

-----------------------------------------------------------------------------
(* Properties.                                                             *)

\* One generation loop, which the manager holds, and no worker but those it
\* holds: what a command cuts short leaves nothing running on its own.
RuntimeInv == BackendTypeOK /\ OneLoop /\ NoWorkerLeaks

\* An alert that a result of a check opens or closes while the manager runs,
\* or while the lifespan ends, is given to alert and incident persistence
\* that will still write it: a pause or a reset may leave results without
\* persistence, the order of the shutdown never does.
ResultsArePersisted ==
    [][\A c \in Checks :
         runs'[c] # runs[c] /\ held'[c] # held[c] /\ (running \/ ~Serving) =>
            Taking(AlertRows) /\ Taking(IncidentRows)]_backendVars

=============================================================================
