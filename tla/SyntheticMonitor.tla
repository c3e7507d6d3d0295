-------------------------- MODULE SyntheticMonitor --------------------------
(***************************************************************************)
(* The synthetic monitor: the table of checks and of their runs, the task  *)
(* of each scheduled check, the runs operators ask for, and what the       *)
(* telemetry manager makes of each result.                                 *)
(*                                                                         *)
(* Everything runs on the event loop.  run_once() suspends on the HTTP     *)
(* request and on the broadcast of the alert; between the two it counts,   *)
(* commits and hands over in one go, for nobody holds the manager's lock   *)
(* over a suspension.  A cancelled task does nothing more but unwind, so   *)
(* it is gone at once.                                                     *)
(***************************************************************************)
EXTENDS Naturals, Sequences

CONSTANTS
    Checks,     \* rows of synthetic_checks that may come to exist
    Requests,   \* requests to run a check now
    Threshold,  \* synthetic_failure_threshold
    Unknown,    \* stands for no entry in a dict
    MaxRuns     \* bound on the runs recorded for a check

ASSUME MonitorAssumption ==
    Threshold \in Nat \ {0} /\ MaxRuns \in Nat /\ Unknown \notin Nat

VARIABLES
    row,      \* the row of each check
    runs,     \* its rows of synthetic_check_runs, in the order of their time
    tasks,    \* _tasks: the task of each check _checks has, and where it is
    manual,   \* the check a request runs and where it is
    streak,   \* _consecutive_failures, Unknown where it has no entry
    held,     \* the manager holds an active alert of the check
    told      \* a result came since the manager last forgot its alerts

tableVars == <<row, runs>>
resultVars == <<runs, streak, held, told>>
monitorVars == <<row, runs, tasks, manual, streak, held, told>>

NoRequest == [check |-> "none", at |-> "idle"]

Exists(c) == row[c] \in {"enabled", "disabled"}
Scheduled == {c \in Checks : tasks[c] # "none"}

MonitorTypeOK ==
    /\ row \in [Checks -> {"new", "enabled", "disabled", "deleted"}]
    /\ \A c \in Checks :
         /\ Len(runs[c]) <= MaxRuns
         /\ runs[c] \in Seq([success : BOOLEAN, failures : 0..MaxRuns])
         /\ runs[c] # <<>> => Exists(c)
    /\ tasks \in [Checks -> {"none", "new", "request", "broadcast", "sleep"}]
    /\ \A q \in Requests :
         manual[q] = NoRequest
         \/ manual[q] \in [check : Checks, at : {"request", "broadcast"}]
    /\ streak \in [Checks -> 0..MaxRuns \cup {Unknown}]
    /\ held \in [Checks -> BOOLEAN] /\ told \in [Checks -> BOOLEAN]

MonitorInit ==
    /\ row = [c \in Checks |-> "new"]
    /\ runs = [c \in Checks |-> <<>>]
    /\ tasks = [c \in Checks |-> "none"]
    /\ manual = [q \in Requests |-> NoRequest]
    /\ streak = [c \in Checks |-> Unknown]
    /\ held = [c \in Checks |-> FALSE]
    /\ told = [c \in Checks |-> FALSE]

-----------------------------------------------------------------------------
(* The scheduler.                                                          *)

\* sync(): every task is cancelled, every enabled check gets a new one.
Sync == tasks' = [c \in Checks |-> IF row'[c] = "enabled" THEN "new" ELSE "none"]

\* The row is committed before sync() reads the table, which may fail.
ChangeCheck(c, state) ==
    /\ row' = [row EXCEPT ![c] = state]
    /\ Sync \/ UNCHANGED tasks
    /\ UNCHANGED <<manual, streak, held, told>>

CreateCheck(c, state) == row[c] = "new" /\ ChangeCheck(c, state) /\ UNCHANGED runs

UpdateCheck(c, state) == Exists(c) /\ ChangeCheck(c, state) /\ UNCHANGED runs

\* The runs go with their check; what is in memory of it stays.
DeleteCheck(c) ==
    /\ Exists(c)
    /\ ChangeCheck(c, "deleted")
    /\ runs' = [runs EXCEPT ![c] = <<>>]

StartMonitor ==
    /\ UNCHANGED <<row, runs, manual, streak, held, told>>
    /\ Sync

StopMonitor ==
    /\ tasks' = [c \in Checks |-> "none"]
    /\ UNCHANGED <<row, runs, manual, streak, held, told>>

-----------------------------------------------------------------------------
(* process_synthetic_check_result.                                         *)

\* Slip: an alert is opened when the streak reaches the threshold, no later.
OpensAtThreshold(failures) == failures = Threshold

Opens(failures) == failures >= Threshold

Broadcasts(c, success, failures) == IF success THEN held[c] ELSE Opens(failures)

ProcessResult(c, success, failures) ==
    /\ held' = [held EXCEPT ![c] = ~success /\ (@ \/ Opens(failures))]
    /\ told' = [told EXCEPT ![c] = TRUE]

\* The manager forgets its alerts.
ForgetAlerts ==
    /\ held' = [c \in Checks |-> FALSE]
    /\ told' = [c \in Checks |-> FALSE]
    /\ UNCHANGED <<row, runs, tasks, manual, streak>>

-----------------------------------------------------------------------------
(* run_once.                                                               *)

\* The streak a run adds to: the one in memory, or the last row's.
Previous(c) ==
    IF streak[c] # Unknown THEN streak[c]
    ELSE IF runs[c] = <<>> THEN 0 ELSE runs[c][Len(runs[c])].failures

Failures(c, success) == IF success THEN 0 ELSE Previous(c) + 1

\* What a run does once the target has answered, or has failed to.
Record(c, success) ==
    /\ Exists(c)
    /\ Len(runs[c]) < MaxRuns
    /\ runs' = [runs EXCEPT ![c] =
          Append(@, [success |-> success, failures |-> Failures(c, success)])]
    /\ streak' = [streak EXCEPT ![c] = Failures(c, success)]
    /\ ProcessResult(c, success, Failures(c, success))

\* Slip: the failure is counted before the row is committed.
CountedUnsaved(c) ==
    /\ Previous(c) < MaxRuns
    /\ streak' = [streak EXCEPT ![c] = Previous(c) + 1]
    /\ UNCHANGED <<runs, held, told>>

\* The run ends without a result: its check is gone, or the row did not
\* commit, or the request could not be made.
Unsaved(c) == UNCHANGED resultVars

\* A new task, or one whose interval has passed, makes its request.
BeginRun(c) ==
    /\ tasks[c] \in {"new", "sleep"}
    /\ tasks' = [tasks EXCEPT ![c] = "request"]
    /\ UNCHANGED <<row, manual, resultVars>>

EndRun(c, success) ==
    /\ tasks[c] = "request"
    /\ Record(c, success)
    /\ tasks' = [tasks EXCEPT ![c] =
          IF Broadcasts(c, success, Failures(c, success)) THEN "broadcast" ELSE "sleep"]
    /\ UNCHANGED <<row, manual>>

RunFails(c) ==
    /\ tasks[c] = "request"
    /\ Unsaved(c)
    /\ tasks' = [tasks EXCEPT ![c] = "sleep"]
    /\ UNCHANGED <<row, manual>>

RunTold(c) ==
    /\ tasks[c] = "broadcast"
    /\ tasks' = [tasks EXCEPT ![c] = "sleep"]
    /\ UNCHANGED <<row, manual, resultVars>>

\* POST /{check_id}/run, for a check that is scheduled or has a row.
RunNow(q, c) ==
    /\ manual[q] = NoRequest
    /\ c \in Scheduled \/ Exists(c)
    /\ manual' = [manual EXCEPT ![q] = [check |-> c, at |-> "request"]]
    /\ UNCHANGED <<row, tasks, resultVars>>

EndRunNow(q, success) ==
    LET c == manual[q].check
    IN  /\ manual[q].at = "request"
        /\ Record(c, success)
        /\ manual' = [manual EXCEPT ![q] =
              IF Broadcasts(c, success, Failures(c, success))
              THEN [@ EXCEPT !.at = "broadcast"] ELSE NoRequest]
        /\ UNCHANGED <<row, tasks>>

RunNowFails(q) ==
    /\ manual[q].at = "request"
    /\ Unsaved(manual[q].check)
    /\ manual' = [manual EXCEPT ![q] = NoRequest]
    /\ UNCHANGED <<row, tasks>>

RunNowTold(q) ==
    /\ manual[q].at = "broadcast"
    /\ manual' = [manual EXCEPT ![q] = NoRequest]
    /\ UNCHANGED <<row, tasks, resultVars>>

\* The process ends: what is in memory goes.
ForgetAll ==
    /\ tasks' = [c \in Checks |-> "none"]
    /\ manual' = [q \in Requests |-> NoRequest]
    /\ streak' = [c \in Checks |-> Unknown]
    /\ held' = [c \in Checks |-> FALSE]
    /\ told' = [c \in Checks |-> FALSE]
    /\ UNCHANGED tableVars

-----------------------------------------------------------------------------
(* Properties.                                                             *)

\* The failed runs at the end of a sequence of runs.
Trailing(s) ==
    Len(s) - (CHOOSE n \in 0..Len(s) :
                 /\ n = 0 \/ s[n].success
                 /\ \A m \in n + 1..Len(s) : ~s[m].success)

\* The streak a check is judged by, in memory and in its last row, is the
\* number of failed runs its history ends with: no run is counted twice or
\* lost between overlapping runs, failed commits, edits and restarts.
StreakMatchesHistory ==
    \A c \in Checks : runs[c] # <<>> => Previous(c) = Trailing(runs[c])

\* Once a result has come in since the manager forgot its alerts (at a reset
\* or a restart), it holds an alert of the check exactly when the streak has
\* reached the threshold: the alert a reset took away comes back with the
\* next failure, and none outlives a success.
AlertFollowsStreak ==
    \A c \in Checks : told[c] => (held[c] <=> streak[c] >= Threshold)

=============================================================================
