--------------------------- MODULE BackendProofs ----------------------------
(***************************************************************************)
(* Proofs about Backend: the streak a synthetic check is judged by is the  *)
(* one its history ends with, and its alert follows that streak, whatever  *)
(* the manager goes through meanwhile; and the manager, as long as its     *)
(* commands come one at a time, holds the loop and the workers that run.   *)
(***************************************************************************)
EXTENDS Backend, TLAPS

Runs == [success : BOOLEAN, failures : Nat]

MonitorShape ==
    /\ row \in [Checks -> {"new", "enabled", "disabled", "deleted"}]
    /\ runs \in [Checks -> Seq(Runs)]
    /\ streak \in [Checks -> Nat \cup {Unknown}]
    /\ held \in [Checks -> BOOLEAN]
    /\ told \in [Checks -> BOOLEAN]

\* The last successful run of a sequence is its n-th; there is none if n = 0.
LastSuccess(s, n) ==
    /\ n \in 0..Len(s)
    /\ n = 0 \/ s[n].success
    /\ \A m \in n + 1..Len(s) : ~s[m].success

\* What is known of a check: its last row and its memory say how many runs
\* failed since the last success.
Counted(c) ==
    /\ runs[c] = <<>> => streak[c] = Unknown \/ row[c] = "deleted"
    /\ runs[c] # <<>> =>
          /\ streak[c] = Unknown \/ streak[c] = runs[c][Len(runs[c])].failures
          /\ \E n \in 0..Len(runs[c]) :
                /\ LastSuccess(runs[c], n)
                /\ runs[c][Len(runs[c])].failures = Len(runs[c]) - n

AlertKnown(c) ==
    /\ told[c] => streak[c] \in Nat /\ (held[c] <=> streak[c] >= Threshold)
    /\ held[c] => told[c]

StreaksKnown == MonitorShape /\ \A c \in Checks : Counted(c) /\ AlertKnown(c)

RequestsKnown ==
    manual \in [Requests -> {NoRequest} \cup [check : Checks, at : {"request", "broadcast"}]]

\* The inductive invariant.
IInv == StreaksKnown /\ RequestsKnown

-----------------------------------------------------------------------------
(* The length of a streak.                                                 *)

LEMMA TrailingIsUnique ==
    ASSUME NEW s \in Seq(Runs), NEW n, LastSuccess(s, n)
    PROVE  Trailing(s) = Len(s) - n
<1>1. Len(s) \in Nat /\ n \in 0..Len(s)
  BY DEF LastSuccess
<1>2. ASSUME NEW m \in 0..Len(s), LastSuccess(s, m)
      PROVE  m = n
  <2>1. CASE m < n
    BY <1>1, <1>2, <2>1 DEF LastSuccess
  <2>2. CASE n < m
    BY <1>1, <1>2, <2>2 DEF LastSuccess
  <2> QED
    BY <1>1, <2>1, <2>2
<1>3. n = CHOOSE m \in 0..Len(s) :
             /\ m = 0 \/ s[m].success
             /\ \A k \in m + 1..Len(s) : ~s[k].success
  BY <1>1, <1>2 DEF LastSuccess
<1> QED
  BY <1>3 DEF Trailing

\* One more run either starts a streak afresh or lengthens it.
LEMMA RunCounts ==
    ASSUME MonitorShape, NEW c \in Checks, Counted(c), Exists(c), NEW success \in BOOLEAN
    PROVE  LET r == [success |-> success, failures |-> Failures(c, success)]
               s == Append(runs[c], r)
           IN  /\ r \in Runs /\ s \in Seq(Runs) /\ s # <<>> /\ s[Len(s)] = r
               /\ \E n \in 0..Len(s) : LastSuccess(s, n) /\ r.failures = Len(s) - n
<1> DEFINE q == runs[c]
           r == [success |-> success, failures |-> Failures(c, success)]
           s == Append(q, r)
<1>0. q \in Seq(Runs) /\ Len(q) \in Nat
  BY DEF MonitorShape
<1>1. \E n \in 0..Len(q) : LastSuccess(q, n) /\ Previous(c) = Len(q) - n
  <2>1. CASE q = <<>>
    <3>1. Previous(c) = 0
      BY <2>1 DEF Counted, Previous, Exists
    <3>2. Len(q) = 0
      BY <2>1
    <3>3. LastSuccess(q, 0)
      BY <3>2 DEF LastSuccess
    <3>4. 0 \in 0..Len(q) /\ Previous(c) = Len(q) - 0
      BY <3>1, <3>2
    <3> QED
      BY <3>3, <3>4
  <2>2. CASE q # <<>>
    BY <2>2 DEF Counted, Previous
  <2> QED
    BY <2>1, <2>2
<1>2. PICK n \in 0..Len(q) : LastSuccess(q, n) /\ Previous(c) = Len(q) - n
  BY <1>1
<1>3. Failures(c, success) \in Nat
  BY <1>0, <1>2 DEF Failures
<1>4. r \in Runs /\ r.success = success /\ r.failures = Failures(c, success)
  BY <1>3 DEF Runs
<1> HIDE DEF q, r
<1>5. /\ s \in Seq(Runs) /\ Len(s) = Len(q) + 1 /\ s[Len(s)] = r
      /\ \A m \in 1..Len(q) : s[m] = q[m]
  BY <1>0, <1>4
<1> HIDE DEF s
<1>6. ASSUME success
      PROVE  \E k \in 0..Len(s) : LastSuccess(s, k) /\ r.failures = Len(s) - k
  <2>0. Len(s) \in Nat /\ s[Len(s)] = r /\ r.success = success
    BY <1>0, <1>4, <1>5
  <2>1. s[Len(s)].success /\ r.failures = 0 /\ Len(s) \in Nat
    BY <1>4, <1>6, <2>0, Zenon DEF Failures
  <2>2. LastSuccess(s, Len(s))
    BY <2>1 DEF LastSuccess
  <2> QED
    BY <2>1, <2>2
<1>7. ASSUME ~success
      PROVE  \E k \in 0..Len(s) : LastSuccess(s, k) /\ r.failures = Len(s) - k
  <2>1. n \in 0..Len(s) /\ (n = 0 \/ s[n].success)
    BY <1>0, <1>2, <1>5 DEF LastSuccess
  <2>2. \A m \in n + 1..Len(s) : ~s[m].success
    <3> SUFFICES ASSUME NEW m \in n + 1..Len(s) PROVE ~s[m].success
      OBVIOUS
    <3>1. (m \in 1..Len(q) /\ m \in n + 1..Len(q)) \/ m = Len(s)
      BY <1>0, <1>2, <1>5
    <3>2. CASE m = Len(s)
      BY <1>4, <1>5, <1>7, <3>2
    <3>3. CASE m \in 1..Len(q) /\ m \in n + 1..Len(q)
      BY <1>2, <1>5, <3>3 DEF LastSuccess
    <3> QED
      BY <3>1, <3>2, <3>3
  <2>3. r.failures = Len(s) - n
    BY <1>0, <1>2, <1>4, <1>5, <1>7 DEF Failures
  <2> QED
    BY <2>1, <2>2, <2>3 DEF LastSuccess
<1>8. s # <<>>
  BY <1>0, <1>5
<1>9. /\ r \in Runs /\ s \in Seq(Runs) /\ s # <<>> /\ s[Len(s)] = r
      /\ \E k \in 0..Len(s) : LastSuccess(s, k) /\ r.failures = Len(s) - k
  BY <1>4, <1>5, <1>6, <1>7, <1>8
<1> QED
  BY <1>9, Zenon DEF s, r, q

-----------------------------------------------------------------------------
(* The steps.                                                              *)

\* A check of which nothing changes.
LEMMA SameKept ==
    ASSUME NEW k \in Checks, Counted(k), AlertKnown(k),
           runs'[k] = runs[k], streak'[k] = streak[k], row'[k] = row[k],
           held'[k] = held[k], told'[k] = told[k]
    PROVE  Counted(k)' /\ AlertKnown(k)'
<1>1. Counted(k)'
  BY DEF Counted, LastSuccess
<1>2. AlertKnown(k)'
  BY DEF AlertKnown
<1> QED
  BY <1>1, <1>2

\* The result of a run, whoever asked for it.
LEMMA RecordKept ==
    ASSUME StreaksKnown, NEW c \in Checks, NEW success \in BOOLEAN, Record(c, success),
           UNCHANGED row
    PROVE  StreaksKnown'
<1> DEFINE r == [success |-> success, failures |-> Failures(c, success)]
           s == Append(runs[c], r)
<1>0. MonitorShape /\ Counted(c) /\ AlertKnown(c) /\ Exists(c)
  BY DEF StreaksKnown, Record
<1>1. /\ r \in Runs /\ s \in Seq(Runs) /\ s # <<>> /\ s[Len(s)] = r
      /\ \E n \in 0..Len(s) : LastSuccess(s, n) /\ r.failures = Len(s) - n
  BY <1>0, RunCounts
<1>2. /\ runs' = [runs EXCEPT ![c] = s]
      /\ streak' = [streak EXCEPT ![c] = r.failures]
      /\ held' = [held EXCEPT ![c] = ~success /\ (@ \/ Opens(r.failures))]
      /\ told' = [told EXCEPT ![c] = TRUE]
  BY DEF Record, ProcessResult
<1>3. r.failures \in Nat /\ (success => r.failures = 0)
  BY <1>1 DEF Runs, Failures
<1>4. ~success => r.failures = Previous(c) + 1
  BY DEF Failures
<1> HIDE DEF r, s
<1>5. MonitorShape'
  <2>1. (~success /\ (held[c] \/ Opens(r.failures))) \in BOOLEAN
    OBVIOUS
  <2> QED
    BY <1>0, <1>1, <1>2, <1>3, <2>1 DEF MonitorShape
<1>6. /\ runs'[c] = s /\ streak'[c] = r.failures /\ told'[c] = TRUE
      /\ held'[c] = (~success /\ (held[c] \/ Opens(r.failures)))
      /\ \A k \in Checks : k # c =>
            /\ runs'[k] = runs[k] /\ streak'[k] = streak[k]
            /\ held'[k] = held[k] /\ told'[k] = told[k]
  BY <1>0, <1>2 DEF MonitorShape
<1>7. ASSUME NEW k \in Checks, k # c
      PROVE  Counted(k)' /\ AlertKnown(k)'
  <2>1. /\ runs'[k] = runs[k] /\ streak'[k] = streak[k] /\ row'[k] = row[k]
        /\ held'[k] = held[k] /\ told'[k] = told[k]
    BY <1>6, <1>7
  <2>2. Counted(k) /\ AlertKnown(k)
    BY DEF StreaksKnown
  <2> QED
    BY <2>1, <2>2, SameKept
<1>8. Counted(c)'
  BY <1>1, <1>6 DEF Counted, LastSuccess
<1>9. AlertKnown(c)'
  <2>1. CASE success
    <3>1. held'[c] = FALSE /\ streak'[c] = 0 /\ told'[c] = TRUE
      BY <1>3, <1>6, <2>1
    <3> QED
      BY <3>1, MonitorAssumption DEF AlertKnown
  <2>2. CASE ~success
    <3>1. held'[c] = (held[c] \/ r.failures >= Threshold)
      BY <1>6, <2>2 DEF Opens
    <3>2. held[c] => r.failures >= Threshold
      <4>1. held[c] => streak[c] \in Nat /\ streak[c] >= Threshold
        BY <1>0 DEF AlertKnown
      <4>2. streak[c] \in Nat => r.failures = streak[c] + 1
        BY <1>4, <2>2, MonitorAssumption DEF Previous
      <4> QED
        BY <4>1, <4>2, MonitorAssumption
    <3>3. held'[c] <=> r.failures >= Threshold
      BY <3>1, <3>2
    <3> QED
      BY <1>3, <1>6, <3>3 DEF AlertKnown
  <2> QED
    BY <2>1, <2>2
<1> QED
  BY <1>5, <1>7, <1>8, <1>9 DEF StreaksKnown

\* Edits of the checks.
LEMMA EditKept ==
    ASSUME StreaksKnown, NEW c \in Checks,
           \/ \E state \in {"enabled", "disabled"} : CreateCheck(c, state) \/ UpdateCheck(c, state)
           \/ DeleteCheck(c)
    PROVE  StreaksKnown'
<1>0. MonitorShape
  BY DEF StreaksKnown
<1>1. /\ UNCHANGED <<streak, held, told>>
      /\ \E state \in {"enabled", "disabled", "deleted"} : row' = [row EXCEPT ![c] = state]
      /\ \/ UNCHANGED runs
         \/ runs' = [runs EXCEPT ![c] = <<>>] /\ row' = [row EXCEPT ![c] = "deleted"]
      /\ row[c] # "deleted"
  <2>1. CASE \E state \in {"enabled", "disabled"} : CreateCheck(c, state) \/ UpdateCheck(c, state)
    BY <2>1 DEF CreateCheck, UpdateCheck, ChangeCheck, Exists
  <2>2. CASE DeleteCheck(c)
    BY <2>2 DEF DeleteCheck, ChangeCheck, Exists
  <2> QED
    BY <2>1, <2>2
<1>2. \A k \in Checks : k # c => row'[k] = row[k] /\ runs'[k] = runs[k]
  BY <1>0, <1>1 DEF MonitorShape
<1>3. runs'[c] = runs[c] \/ (runs'[c] = <<>> /\ row'[c] = "deleted")
  BY <1>0, <1>1 DEF MonitorShape
<1>4. MonitorShape'
  <2>1. row' \in [Checks -> {"new", "enabled", "disabled", "deleted"}]
    BY <1>0, <1>1 DEF MonitorShape
  <2>2. <<>> \in Seq(Runs)
    OBVIOUS
  <2>3. runs' \in [Checks -> Seq(Runs)]
    BY <1>0, <1>1, <2>2 DEF MonitorShape
  <2> QED
    BY <1>0, <1>1, <2>1, <2>3 DEF MonitorShape
<1>5. ASSUME NEW k \in Checks
      PROVE  Counted(k)' /\ AlertKnown(k)'
  <2>0. Counted(k) /\ AlertKnown(k)
    BY DEF StreaksKnown
  <2>1. CASE k # c
    BY <1>1, <1>2, <2>0, <2>1, SameKept
  <2>2. CASE k = c
    <3>1. AlertKnown(c)'
      BY <1>1, <2>0, <2>2 DEF AlertKnown
    <3>2. CASE runs'[c] = runs[c]
      <4>1. runs[c] = <<>> => streak[c] = Unknown
        BY <1>1, <2>0, <2>2 DEF Counted
      <4> QED
        BY <1>1, <2>0, <2>2, <3>1, <3>2, <4>1 DEF Counted, LastSuccess
    <3>3. CASE runs'[c] = <<>> /\ row'[c] = "deleted"
      BY <2>2, <3>1, <3>3 DEF Counted
    <3> QED
      BY <1>3, <3>2, <3>3
  <2> QED
    BY <2>1, <2>2
<1> QED
  BY <1>4, <1>5 DEF StreaksKnown

\* The manager, or the process, forgets.
LEMMA ForgetKept ==
    ASSUME StreaksKnown, ForgetAlerts \/ ForgetAll
    PROVE  StreaksKnown'
<1>0. MonitorShape
  BY DEF StreaksKnown
<1>1. /\ UNCHANGED <<row, runs>>
      /\ held' = [c \in Checks |-> FALSE] /\ told' = [c \in Checks |-> FALSE]
      /\ streak' = streak \/ streak' = [c \in Checks |-> Unknown]
  BY DEF ForgetAlerts, ForgetAll, tableVars
<1>2. MonitorShape'
  BY <1>0, <1>1 DEF MonitorShape
<1>3. ASSUME NEW k \in Checks
      PROVE  Counted(k)' /\ AlertKnown(k)'
  <2>1. Counted(k)
    BY DEF StreaksKnown
  <2>2. held'[k] = FALSE /\ told'[k] = FALSE /\ (streak'[k] = streak[k] \/ streak'[k] = Unknown)
    BY <1>1
  <2>3. AlertKnown(k)'
    BY <2>2 DEF AlertKnown
  <2>4. Counted(k)'
    BY <1>1, <2>1, <2>2 DEF Counted, LastSuccess
  <2> QED
    BY <2>3, <2>4
<1> QED
  BY <1>2, <1>3 DEF StreaksKnown

\* Whatever leaves the tables, the streaks and the alerts alone.
LEMMA UnchangedKept ==
    ASSUME StreaksKnown, UNCHANGED <<row, runs, streak, held, told>>
    PROVE  StreaksKnown'
<1>1. MonitorShape'
  BY DEF StreaksKnown, MonitorShape
<1>2. ASSUME NEW k \in Checks
      PROVE  Counted(k)' /\ AlertKnown(k)'
  BY SameKept DEF StreaksKnown
<1> QED
  BY <1>1, <1>2 DEF StreaksKnown

LEMMA MonitorStepsKept ==
    ASSUME StreaksKnown, RequestsKnown, MonitorSteps
    PROVE  StreaksKnown'
<1>1. CASE \E c \in Checks :
             \/ \E s \in {"enabled", "disabled"} : CreateCheck(c, s) \/ UpdateCheck(c, s)
             \/ DeleteCheck(c)
  BY <1>1, EditKept
<1>2. CASE \E c \in Checks, q \in Requests : RunNow(q, c)
  BY <1>2, UnchangedKept DEF RunNow, resultVars
<1>3. CASE \E c \in Checks : BeginRun(c) \/ RunFails(c) \/ RunTold(c)
  BY <1>3, UnchangedKept DEF BeginRun, RunFails, RunTold, Unsaved, resultVars
<1>4. CASE \E c \in Checks, s \in BOOLEAN : EndRun(c, s)
  BY <1>4, RecordKept DEF EndRun
<1>5. CASE \E q \in Requests : RunNowFails(q) \/ RunNowTold(q)
  BY <1>5, UnchangedKept DEF RunNowFails, RunNowTold, Unsaved, resultVars
<1>6. CASE \E q \in Requests, s \in BOOLEAN : EndRunNow(q, s)
  <2>1. PICK q \in Requests, s \in BOOLEAN : EndRunNow(q, s)
    BY <1>6
  <2>2. manual[q].check \in Checks
    BY <2>1 DEF EndRunNow, RequestsKnown, NoRequest
  <2> QED
    BY <2>1, <2>2, RecordKept DEF EndRunNow
<1> QED
  BY <1>1, <1>2, <1>3, <1>4, <1>5, <1>6 DEF MonitorSteps

\* Every step of the backend.
LEMMA StreaksKept ==
    ASSUME StreaksKnown, RequestsKnown, BackendNext
    PROVE  StreaksKnown'
<1>1. CASE \E c \in Callers : Boot(c) \/ StopManager(c) \/ Command(c) \/ Unwinding(c)
  BY <1>1, UnchangedKept
     DEF Boot, StartMonitor, StopManager, Command, Unwinding, monitorVars
<1>2. CASE \E c \in Callers : CommandReset(c) \/ Stopping(c)
  <2>1. ForgetAlerts \/ UNCHANGED monitorVars
    BY <1>2 DEF CommandReset, Stopping, Forgetting
  <2>2. CASE ForgetAlerts
    BY <2>2, ForgetKept
  <2>3. CASE UNCHANGED monitorVars
    BY <2>3, UnchangedKept DEF monitorVars
  <2> QED
    BY <2>1, <2>2, <2>3
<1>3. CASE EndLifespan \/ TasksRun
  BY <1>3, UnchangedKept DEF EndLifespan, TasksRun, StopMonitor, monitorVars
<1>4. CASE MonitorSteps
  BY <1>4, MonitorStepsKept
<1>5. CASE CrashAndRestart
  BY <1>5, ForgetKept DEF CrashAndRestart
<1> QED
  BY <1>1, <1>2, <1>3, <1>4, <1>5 DEF BackendNext

LEMMA RequestsKept ==
    ASSUME RequestsKnown, BackendNext
    PROVE  RequestsKnown'
<1>1. CASE manual' = manual
  BY <1>1 DEF RequestsKnown
<1>2. CASE manual' = [q \in Requests |-> NoRequest]
  BY <1>2 DEF RequestsKnown
<1>3. CASE \E q \in Requests : manual' = [manual EXCEPT ![q] = NoRequest]
  BY <1>3 DEF RequestsKnown
<1>4. CASE \E q \in Requests, c \in Checks : RunNow(q, c)
  BY <1>4 DEF RunNow, RequestsKnown
<1>5. CASE \E q \in Requests, success \in BOOLEAN : EndRunNow(q, success)
  <2>1. PICK q \in Requests, success \in BOOLEAN : EndRunNow(q, success)
    BY <1>5
  <2>2. manual[q] \in [check : Checks, at : {"request", "broadcast"}]
    BY <2>1 DEF EndRunNow, RequestsKnown, NoRequest
  <2>3. \/ manual' = [manual EXCEPT ![q] = [manual[q] EXCEPT !.at = "broadcast"]]
        \/ manual' = [manual EXCEPT ![q] = NoRequest]
    BY <2>1 DEF EndRunNow
  <2>4. [manual[q] EXCEPT !.at = "broadcast"] \in [check : Checks, at : {"request", "broadcast"}]
    BY <2>2
  <2> QED
    BY <2>3, <2>4 DEF RequestsKnown
<1>6. CASE \E c \in Callers :
             \/ Boot(c) \/ StopManager(c) \/ Command(c)
             \/ CommandReset(c) \/ Stopping(c) \/ Unwinding(c)
  BY <1>1, <1>6
     DEF Boot, StartMonitor, StopManager, Command, CommandReset, Stopping, Unwinding,
         Forgetting, ForgetAlerts, monitorVars
<1>7. CASE EndLifespan \/ TasksRun
  BY <1>1, <1>7 DEF EndLifespan, TasksRun, StopMonitor, monitorVars
<1>8. CASE CrashAndRestart
  BY <1>2, <1>8 DEF CrashAndRestart, ForgetAll
<1>9. CASE MonitorSteps
  <2>1. CASE \E c \in Checks :
               \/ \E s \in {"enabled", "disabled"} : CreateCheck(c, s) \/ UpdateCheck(c, s)
               \/ DeleteCheck(c)
    BY <1>1, <2>1 DEF CreateCheck, UpdateCheck, DeleteCheck, ChangeCheck
  <2>2. CASE \E c \in Checks :
               \/ BeginRun(c) \/ RunFails(c) \/ RunTold(c)
               \/ \E s \in BOOLEAN : EndRun(c, s)
    BY <1>1, <2>2 DEF BeginRun, RunFails, RunTold, EndRun
  <2>3. CASE \E q \in Requests : RunNowFails(q) \/ RunNowTold(q)
    BY <1>3, <2>3 DEF RunNowFails, RunNowTold
  <2> QED
    BY <1>4, <1>5, <1>9, <2>1, <2>2, <2>3 DEF MonitorSteps
<1> QED
  BY <1>6, <1>7, <1>8, <1>9 DEF BackendNext

-----------------------------------------------------------------------------
(* The invariant and what follows from it.                                 *)

LEMMA InitKnown == BackendInit => IInv
<1> SUFFICES ASSUME BackendInit PROVE IInv
  OBVIOUS
<1>1. MonitorShape
  BY DEF BackendInit, MonitorInit, MonitorShape
<1>2. ASSUME NEW c \in Checks
      PROVE  Counted(c) /\ AlertKnown(c)
  BY DEF BackendInit, MonitorInit, Counted, AlertKnown
<1>3. RequestsKnown
  BY DEF BackendInit, MonitorInit, RequestsKnown
<1> QED
  BY <1>1, <1>2, <1>3 DEF IInv, StreaksKnown

LEMMA NextKeeps == IInv /\ [BackendNext]_backendVars => IInv'
<1> SUFFICES ASSUME IInv, [BackendNext]_backendVars PROVE IInv'
  OBVIOUS
<1>1. CASE BackendNext
  BY <1>1, StreaksKept, RequestsKept DEF IInv
<1>2. CASE UNCHANGED backendVars
  <2>1. StreaksKnown'
    BY <1>2, UnchangedKept DEF IInv, backendVars, monitorVars
  <2>2. RequestsKnown'
    BY <1>2 DEF IInv, backendVars, monitorVars, RequestsKnown
  <2> QED
    BY <2>1, <2>2 DEF IInv
<1> QED
  BY <1>1, <1>2

LEMMA Invariance == BackendSpec => []IInv
  BY InitKnown, NextKeeps, PTL DEF BackendSpec

LEMMA KnownCounts == IInv => StreakMatchesHistory
<1> SUFFICES ASSUME IInv, NEW c \in Checks, runs[c] # <<>>
             PROVE  Previous(c) = Trailing(runs[c])
  BY DEF StreakMatchesHistory
<1>1. Counted(c) /\ runs[c] \in Seq(Runs)
  BY DEF IInv, StreaksKnown, MonitorShape
<1>2. PICK n \in 0..Len(runs[c]) :
        LastSuccess(runs[c], n) /\ runs[c][Len(runs[c])].failures = Len(runs[c]) - n
  BY <1>1 DEF Counted
<1>3. Trailing(runs[c]) = Len(runs[c]) - n
  BY <1>1, <1>2, TrailingIsUnique
<1>4. Previous(c) = runs[c][Len(runs[c])].failures
  BY <1>1 DEF Counted, Previous
<1> QED
  BY <1>2, <1>3, <1>4

\* Whatever the thresholds and however many checks and requests there are,
\* the streak run_once() goes on from is the one the recorded runs end with.
THEOREM StreaksAreTrue == BackendSpec => []StreakMatchesHistory
  BY Invariance, KnownCounts, PTL

\* And the alert process_synthetic_check_result() keeps of a check is the one
\* its streak calls for.
THEOREM AlertsFollow == BackendSpec => []AlertFollowsStreak
<1>1. IInv => AlertFollowsStreak
  BY DEF IInv, StreaksKnown, AlertKnown, AlertFollowsStreak
<1> QED
  BY <1>1, Invariance, PTL

-----------------------------------------------------------------------------
(* The manager, when its commands come one at a time.                      *)

\* No two callers command the manager: a pause has told the clients and
\* returned before a resume or a reset is asked for.
OneAtATime == \A c, d \in Callers : c = d

Commands == [cmd : {"none", "pause", "resume", "reset", "stop"},
             at : {"idle", "loop", "worker", "clients", "broadcast"},
             kind : 0..3, on : 0..MaxStarts, again : BOOLEAN]

\* A manager that runs holds its loop and its workers, and nobody stops it.
RunsWhole ==
    running =>
        /\ ~stopEvent /\ task # 0 /\ loop[task] \in {"new", "sending", "waiting"}
        /\ \A k \in Kinds : Taking(k)
        /\ \A c \in Callers : op[c].at \in {"idle", "broadcast"}

AllDrained == \A k \in Kinds, n \in Starts : worker[k][n] \in {"none", "ended"}

\* What a command has done by each of the places where it is suspended.
Suspended(c) ==
    /\ op[c].at = "idle" => op[c] \in {Idle, [Idle EXCEPT !.cmd = "stop"]}
    /\ op[c].at \in {"loop", "worker", "clients"} =>
         ~running /\ op[c].cmd \in {"pause", "reset", "stop"}
    /\ op[c].at \in {"idle", "broadcast"} /\ ~running =>
         task = 0 /\ attached[Telemetry] = 0 /\ attached[AlertRows] = 0 /\ AllDrained
    /\ op[c].at = "loop" =>
         task # 0 /\ op[c].on = task /\ loop[task] \in {"ending", "done"}
    /\ op[c].at = "worker" =>
         /\ task = 0
         /\ op[c].on # 0 /\ attached[op[c].kind] = op[c].on
         /\ worker[op[c].kind][op[c].on] \in {"stopping", "ended"}
         /\ \A j \in Kinds : j < op[c].kind => attached[j] = 0
    /\ op[c].at = "clients" =>
         task = 0 /\ op[c].cmd = "reset" /\ \A k \in Kinds : attached[k] = 0

ManagerInv ==
    /\ OneAtATime
    /\ TypeOK /\ OneLoop /\ NoWorkerLeaks
    /\ RunsWhole
    /\ \A c \in Callers : Suspended(c)

LEMMA TypeFromParts ==
    TypeOK' <=>
      /\ running' \in BOOLEAN /\ stopEvent' \in BOOLEAN
      /\ task' \in 0..MaxStarts
      /\ loop' \in [Starts -> {"none", "new", "sending", "waiting", "ending", "done"}]
      /\ attached' \in [Kinds -> 0..MaxStarts]
      /\ worker' \in [Kinds -> [Starts -> {"none", "live", "stopping", "ended"}]]
      /\ op' \in [Callers -> Commands]
      /\ \A c \in Callers : op'[c].at = "worker" <=> op'[c].kind # 0
      /\ starts' \in 0..MaxStarts
  BY Zenon DEF TypeOK, Commands

\* The worker stop() waits for next is the first of those it has to.
LEMMA FirstUndrained ==
    ASSUME NEW k \in 1..4, Undrained(k) # {}
    PROVE  LET next == CHOOSE j \in Undrained(k) : \A i \in Undrained(k) : j <= i
           IN  next \in Undrained(k) /\ \A i \in Undrained(k) : next <= i
<1>1. \A j \in Undrained(k) : j \in {1, 2, 3}
  BY DEF Undrained
<1>2. \E j \in Undrained(k) : \A i \in Undrained(k) : j <= i
  <2>1. CASE 1 \in Undrained(k)
    BY <1>1, <2>1
  <2>2. CASE 1 \notin Undrained(k) /\ 2 \in Undrained(k)
    BY <1>1, <2>2
  <2>3. CASE 1 \notin Undrained(k) /\ 2 \notin Undrained(k)
    BY <1>1, <2>3
  <2> QED
    BY <2>1, <2>2, <2>3
<1> QED
  BY <1>2, Zenon

\* stop() from one worker on, once the loop has ended and the workers before
\* that one are let go.
LEMMA DrainKept ==
    ASSUME ManagerInv, NEW c \in Callers, NEW k \in 1..4, NEW o \in Commands,
           DrainFrom(c, k, o), o.cmd \in {"pause", "reset", "stop"},
           \A j \in Kinds : j < k - 1 => attached[j] = 0,
           k > 1 => attached[k - 1] # 0 /\ worker[k - 1][attached[k - 1]] = "ended",
           running' \in BOOLEAN, ~running', task' = 0, stopEvent' \in BOOLEAN,
           starts' = starts,
           loop' \in [Starts -> {"none", "new", "sending", "waiting", "ending", "done"}],
           \A n \in Starts : loop'[n] \in {"none", "done"}
    PROVE  ManagerInv'
<1>0. /\ TypeOK /\ NoWorkerLeaks /\ OneAtATime /\ MaxStarts \in Nat
      /\ op \in [Callers -> Commands]
      /\ \A d \in Callers : d = c
  BY RuntimeAssumption DEF ManagerInv, TypeOK, Commands, OneAtATime
<1>1. OneLoop' /\ RunsWhole' /\ OneAtATime'
  BY <1>0 DEF OneLoop, Alive, RunsWhole, OneAtATime
<1>2. CASE Undrained(k) = {}
  <2>1. /\ attached' = [j \in Kinds |->
               IF (j >= k - 1 /\ j # IncidentRows) \/ o.cmd = "reset"
               THEN 0 ELSE attached[j]]
        /\ op' = [op EXCEPT ![c] = AfterStop(o)]
        /\ worker' = worker
    BY <1>2 DEF DrainFrom
  <2>2. \A j \in Kinds : attached[j] # 0 => worker[j][attached[j]] = "ended"
    <3> SUFFICES ASSUME NEW j \in Kinds, attached[j] # 0
                 PROVE  worker[j][attached[j]] = "ended"
      OBVIOUS
    <3>1. CASE j >= k
      BY <1>2, <3>1 DEF Undrained, Kinds
    <3>2. CASE j < k
      <4>1. j = k - 1 /\ k > 1
        BY <3>2 DEF Kinds
      <4> QED
        BY <4>1
    <3> QED
      BY <3>1, <3>2 DEF Kinds
  <2>3. AllDrained
    BY <1>0, <2>2 DEF AllDrained, NoWorkerLeaks, TypeOK, Starts
  <2>4. /\ AllDrained' /\ NoWorkerLeaks'
        /\ \A j \in Kinds : attached'[j] \in {0, attached[j]}
        /\ \A j \in Kinds : j # IncidentRows \/ o.cmd = "reset" => attached'[j] = 0
    BY <2>1, <2>3 DEF AllDrained, NoWorkerLeaks, Kinds, IncidentRows
  <2>5. 0 \in 0..MaxStarts /\ 0 \in 0..3
    BY <1>0
  <2>6. /\ AfterStop(o) \in Commands /\ AfterStop(o).kind = 0
        /\ AfterStop(o).at \in {"idle", "clients", "broadcast"}
        /\ AfterStop(o).at = "idle" => AfterStop(o) = [Idle EXCEPT !.cmd = "stop"]
        /\ AfterStop(o).at = "clients" => AfterStop(o).cmd = "reset" /\ o.cmd = "reset"
    <3>1. CASE o.cmd = "reset"
      <4>1. AfterStop(o) = [o EXCEPT !.at = "clients", !.kind = 0, !.on = 0]
        BY <3>1 DEF AfterStop
      <4> QED
        BY <3>1, <4>1, <2>5 DEF Commands
    <3>2. CASE o.cmd = "stop"
      <4>1. AfterStop(o) = [Idle EXCEPT !.cmd = "stop"]
        BY <3>2 DEF AfterStop
      <4>2. AfterStop(o) = [cmd |-> "stop", at |-> "idle", kind |-> 0, on |-> 0, again |-> FALSE]
        BY <4>1 DEF Idle
      <4>3. AfterStop(o) \in Commands
        BY <2>5, <4>2 DEF Commands
      <4>4. AfterStop(o).at = "idle" /\ AfterStop(o).kind = 0
        BY <4>2
      <4> QED
        BY <4>1, <4>3, <4>4
    <3>3. CASE o.cmd = "pause"
      <4>1. AfterStop(o) = [o EXCEPT !.at = "broadcast", !.kind = 0, !.on = 0]
        BY <3>3 DEF AfterStop
      <4> QED
        BY <3>3, <4>1, <2>5 DEF Commands
    <3> QED
      BY <3>1, <3>2, <3>3
  <2>7. op'[c] = AfterStop(o) /\ op' \in [Callers -> Commands]
    BY <1>0, <2>1, <2>6
  <2>8. TypeOK'
    <3>1. attached' \in [Kinds -> 0..MaxStarts]
      BY <1>0, <2>1 DEF TypeOK
    <3>2. \A d \in Callers : op'[d].at = "worker" <=> op'[d].kind # 0
      BY <1>0, <2>6, <2>7
    <3> QED
      <4>1. running' \in BOOLEAN /\ task' \in 0..MaxStarts /\ starts' \in 0..MaxStarts
        BY <1>0 DEF TypeOK
      <4>2. worker' \in [Kinds -> [Starts -> {"none", "live", "stopping", "ended"}]]
        BY <1>0, <2>1, <2>7 DEF TypeOK
      <4> QED
        BY <2>1, <2>7, <3>1, <3>2, <4>1, <4>2, TypeFromParts
  <2>9. Suspended(c)'
    BY <2>4, <2>6, <2>7 DEF Suspended, Telemetry, AlertRows, IncidentRows, Kinds
  <2> QED
    BY <1>0, <1>1, <2>4, <2>8, <2>9 DEF ManagerInv
<1>3. CASE Undrained(k) # {}
  <2>1. PICK next : /\ next \in Undrained(k) /\ \A i \in Undrained(k) : next <= i
                    /\ attached' = [j \in Kinds |->
                           IF j >= k - 1 /\ j < next THEN 0 ELSE attached[j]]
                    /\ worker' = [worker EXCEPT ![next][attached[next]] = "stopping"]
                    /\ op' = [op EXCEPT ![c] =
                           [o EXCEPT !.at = "worker", !.kind = next, !.on = attached[next]]]
    BY <1>3, FirstUndrained, Zenon DEF DrainFrom
  <2>2. /\ next \in Kinds /\ next >= k /\ next # 0 /\ next \in 0..3
        /\ attached[next] # 0 /\ attached[next] \in Starts
    BY <1>0, <2>1 DEF Undrained, Kinds, TypeOK, Starts
  <2>3. \A j \in Kinds : j < next /\ attached[j] # 0 => worker[j][attached[j]] = "ended"
    <3> SUFFICES ASSUME NEW j \in Kinds, j < next, attached[j] # 0
                 PROVE  worker[j][attached[j]] = "ended"
      OBVIOUS
    <3>1. CASE j >= k
      BY <2>1, <2>2, <3>1 DEF Undrained, Kinds
    <3>2. CASE j < k
      <4>1. j = k - 1 /\ k > 1
        BY <3>2 DEF Kinds
      <4> QED
        BY <4>1
    <3> QED
      BY <3>1, <3>2 DEF Kinds
  <2>4. /\ \A j \in Kinds : attached'[j] = IF j < next THEN 0 ELSE attached[j]
        /\ attached'[next] = attached[next]
    BY <2>1, <2>2 DEF Kinds
  <2>5. /\ worker'[next][attached[next]] = "stopping"
        /\ \A j \in Kinds, n \in Starts :
              j # next \/ n # attached[next] => worker'[j][n] = worker[j][n]
        /\ worker' \in [Kinds -> [Starts -> {"none", "live", "stopping", "ended"}]]
    BY <1>0, <2>1, <2>2 DEF TypeOK
  <2>6. NoWorkerLeaks'
    <3> SUFFICES ASSUME NEW j \in Kinds, NEW n \in Starts,
                        worker'[j][n] \in {"live", "stopping"}
                 PROVE  attached'[j] = n
      BY DEF NoWorkerLeaks
    <3>1. CASE j = next /\ n = attached[next]
      BY <2>4, <3>1
    <3>2. CASE j # next \/ n # attached[next]
      <4>1. worker[j][n] \in {"live", "stopping"} /\ attached[j] = n
        BY <1>0, <2>5, <3>2 DEF NoWorkerLeaks
      <4>2. attached[j] # 0
        BY <4>1 DEF Starts
      <4>3. ~(j < next)
        BY <2>3, <4>1, <4>2
      <4> QED
        BY <2>4, <4>1, <4>3
    <3> QED
      BY <3>1, <3>2
  <2>7. LET r == [o EXCEPT !.at = "worker", !.kind = next, !.on = attached[next]]
        IN  /\ r \in Commands /\ r.at = "worker" /\ r.kind = next /\ r.on = attached[next]
            /\ r.cmd = o.cmd
    <3> DEFINE r == [o EXCEPT !.at = "worker", !.kind = next, !.on = attached[next]]
    <3>1. attached[next] \in 0..MaxStarts /\ next \in 0..3
      BY <1>0, <2>2 DEF TypeOK
    <3>2. r.at = "worker" /\ r.kind = next /\ r.on = attached[next] /\ r.cmd = o.cmd
      BY DEF Commands
    <3>3. r \in Commands
      BY <3>1 DEF Commands
    <3> QED
      BY <3>2, <3>3
  <2>8. /\ op'[c].at = "worker" /\ op'[c].kind = next /\ op'[c].on = attached[next]
        /\ op'[c].cmd = o.cmd /\ op' \in [Callers -> Commands]
    BY <1>0, <2>1, <2>7
  <2>9. TypeOK'
    <3>1. attached' \in [Kinds -> 0..MaxStarts]
      BY <1>0, <2>1 DEF TypeOK
    <3>2. \A d \in Callers : op'[d].at = "worker" <=> op'[d].kind # 0
      BY <1>0, <2>2, <2>8
    <3> QED
      <4>1. running' \in BOOLEAN /\ task' \in 0..MaxStarts /\ starts' \in 0..MaxStarts
        BY <1>0 DEF TypeOK
      <4>2. worker' \in [Kinds -> [Starts -> {"none", "live", "stopping", "ended"}]]
        BY <1>0, <2>5, <2>8 DEF TypeOK
      <4> QED
        BY <2>5, <2>8, <3>1, <3>2, <4>1, <4>2, TypeFromParts
  <2>10. Suspended(c)'
    BY <2>2, <2>4, <2>5, <2>8 DEF Suspended
  <2> QED
    BY <1>0, <1>1, <2>6, <2>8, <2>9, <2>10 DEF ManagerInv
<1> QED
  BY <1>2, <1>3

\* The beginning of stop().
LEMMA BeginStopKept ==
    ASSUME ManagerInv, NEW c \in Callers, op[c] = Idle, NEW o \in Commands,
           BeginStop(c, o), o.kind = 0, o.cmd \in {"pause", "reset", "stop"}
    PROVE  ManagerInv'
<1>0. /\ TypeOK /\ OneLoop /\ NoWorkerLeaks /\ RunsWhole /\ OneAtATime /\ Suspended(c)
      /\ MaxStarts \in Nat /\ op \in [Callers -> Commands]
      /\ \A d \in Callers : d = c
  BY RuntimeAssumption DEF ManagerInv, TypeOK, Commands, OneAtATime
<1>1. /\ running' = FALSE /\ stopEvent' = TRUE /\ starts' = starts
      /\ loop' = [n \in Starts |-> Interrupted(n)]
  BY DEF BeginStop
<1>2. running' \in BOOLEAN /\ ~running' /\ stopEvent' \in BOOLEAN /\ stopEvent'
  BY <1>1, Zenon
<1>3. loop' \in [Starts -> {"none", "new", "sending", "waiting", "ending", "done"}]
  BY <1>0, <1>1 DEF TypeOK, Interrupted
<1>4. \A n \in Starts :
         \/ loop'[n] \in {"none", "done"} /\ loop'[n] = loop[n]
         \/ n = task /\ loop'[n] = "ending"
  <2> SUFFICES ASSUME NEW n \in Starts, loop'[n] \notin {"none", "done"} \/ loop'[n] # loop[n]
               PROVE  n = task /\ loop'[n] = "ending"
    OBVIOUS
  <2>1. loop'[n] = Interrupted(n) /\ loop[n] \in {"none", "new", "sending", "waiting", "ending", "done"}
    BY <1>0, <1>1 DEF TypeOK
  <2>2. Alive(n)
    BY <2>1 DEF Interrupted, Alive
  <2>3. task = n
    BY <1>0, <2>2 DEF OneLoop
  <2> QED
    BY <2>1, <2>2, <2>3 DEF Interrupted, Alive
<1>5. CASE task # 0 /\ loop[task] # "done"
  <2>1. /\ op' = [op EXCEPT ![c] = [o EXCEPT !.at = "loop", !.on = task]]
        /\ task' = task /\ attached' = attached /\ worker' = worker
    BY <1>5 DEF BeginStop
  <2>2. task \in Starts /\ task \in 0..MaxStarts
    BY <1>0, <1>5 DEF TypeOK, Starts
  <2>3. running /\ loop'[task] = "ending"
    <3>1. op[c].at = "idle"
      BY DEF Idle
    <3>2. running
      BY <1>0, <1>5, <3>1 DEF Suspended
    <3> QED
      BY <1>0, <1>4, <2>2, <3>2 DEF RunsWhole
  <2>4. LET r == [o EXCEPT !.at = "loop", !.on = task]
        IN  r \in Commands /\ r.at = "loop" /\ r.on = task /\ r.kind = 0 /\ r.cmd = o.cmd
    BY <2>2 DEF Commands
  <2>5. /\ op' \in [Callers -> Commands] /\ op'[c].at = "loop" /\ op'[c].on = task
        /\ op'[c].kind = 0 /\ op'[c].cmd = o.cmd
    BY <1>0, <2>1, <2>4
  <2>6. TypeOK'
    <3>1. task' \in 0..MaxStarts /\ starts' \in 0..MaxStarts
          /\ attached' \in [Kinds -> 0..MaxStarts]
          /\ worker' \in [Kinds -> [Starts -> {"none", "live", "stopping", "ended"}]]
      BY <1>0, <1>1, <2>1 DEF TypeOK
    <3>2. \A d \in Callers : op'[d].at = "worker" <=> op'[d].kind # 0
      BY <1>0, <2>5
    <3> QED
      BY <1>2, <1>3, <2>5, <3>1, <3>2, TypeFromParts
  <2>7. OneLoop' /\ NoWorkerLeaks' /\ RunsWhole' /\ OneAtATime'
    BY <1>0, <1>2, <1>4, <2>1 DEF OneLoop, Alive, NoWorkerLeaks, RunsWhole, OneAtATime
  <2>8. Suspended(c)'
    BY <1>2, <2>1, <2>2, <2>3, <2>5, <1>5 DEF Suspended
  <2> QED
    BY <1>0, <2>5, <2>6, <2>7, <2>8 DEF ManagerInv
<1>6. CASE task = 0 \/ loop[task] = "done"
  <2>1. task' = 0 /\ DrainFrom(c, 1, o)
    BY <1>6 DEF BeginStop
  <2>2. \A n \in Starts : loop'[n] \in {"none", "done"}
    <3>1. \A n \in Starts : n = task => loop[n] = "done"
      BY <1>6 DEF Starts
    <3>2. \A n \in Starts : n = task => loop'[n] = "done"
      BY <1>1, <3>1 DEF Interrupted
    <3> QED
      BY <1>4, <3>2
  <2>3. 1 \in 1..4 /\ \A j \in Kinds : ~(j < 1 - 1)
    BY DEF Kinds
  <2> QED
    BY <1>1, <1>2, <1>3, <2>1, <2>2, <2>3, DrainKept
<1> QED
  BY <1>5, <1>6

\* start(), which has nothing to replace but ended workers.
LEMMA StartKept ==
    ASSUME ManagerInv, StartRuntime, ~running, task = 0, AllDrained,
           attached[Telemetry] = 0, attached[AlertRows] = 0,
           op' \in [Callers -> Commands],
           \A c \in Callers : /\ op'[c].at \in {"idle", "broadcast"} /\ op'[c].kind = 0
                              /\ op'[c].at = "idle" => op'[c] = Idle
    PROVE  ManagerInv'
<1>0. TypeOK /\ OneLoop /\ OneAtATime /\ MaxStarts \in Nat
  BY RuntimeAssumption DEF ManagerInv
<1>1. /\ running' = TRUE /\ stopEvent' = FALSE
      /\ task' = starts + 1 /\ starts' = starts + 1 /\ starts < MaxStarts
      /\ loop' = [loop EXCEPT ![starts + 1] = "new"]
      /\ attached' = [k \in Kinds |-> starts + 1]
      /\ worker' = [k \in Kinds |-> [worker[k] EXCEPT ![starts + 1] = "live"]]
  BY DEF StartRuntime, Attach
<1>2. running' \in BOOLEAN /\ stopEvent' \in BOOLEAN /\ ~stopEvent'
  BY <1>1, Zenon
<1>3. /\ starts + 1 \in Starts /\ starts + 1 \in 0..MaxStarts /\ starts + 1 # 0
      /\ task' \in 0..MaxStarts /\ starts' \in 0..MaxStarts
  BY <1>0, <1>1 DEF TypeOK, Starts
<1>4. /\ loop' \in [Starts -> {"none", "new", "sending", "waiting", "ending", "done"}]
      /\ loop'[starts + 1] = "new"
      /\ \A n \in Starts : n # starts + 1 => loop'[n] = loop[n]
  BY <1>0, <1>1, <1>3 DEF TypeOK
<1>5. /\ worker' \in [Kinds -> [Starts -> {"none", "live", "stopping", "ended"}]]
      /\ \A k \in Kinds : worker'[k][starts + 1] = "live"
      /\ \A k \in Kinds, n \in Starts : n # starts + 1 => worker'[k][n] = worker[k][n]
  BY <1>0, <1>1, <1>3 DEF TypeOK
<1>6. attached' \in [Kinds -> 0..MaxStarts] /\ \A k \in Kinds : attached'[k] = starts + 1
  BY <1>1, <1>3
<1>9. TypeOK'
  <2>1. \A c \in Callers : op'[c].at = "worker" <=> op'[c].kind # 0
    OBVIOUS
  <2> QED
    BY <1>2, <1>3, <1>4, <1>5, <1>6, <2>1, TypeFromParts
<1>10. OneLoop'
  <2>1. \A n \in Starts : loop[n] \in {"none", "done"}
    BY <1>0 DEF OneLoop, Alive, Starts
  <2> QED
    BY <1>1, <1>4, <2>1 DEF OneLoop, Alive
<1>11. NoWorkerLeaks'
  BY <1>5, <1>6 DEF NoWorkerLeaks, AllDrained
<1>12. RunsWhole'
  <2>1. \A k \in Kinds : Taking(k)'
    BY <1>3, <1>5, <1>6 DEF Taking
  <2> QED
    BY <1>1, <1>2, <1>3, <1>4, <2>1 DEF RunsWhole
<1>13. ASSUME NEW c \in Callers PROVE Suspended(c)'
  <2>1. op'[c].at \in {"idle", "broadcast"} /\ (op'[c].at = "idle" => op'[c] = Idle)
    OBVIOUS
  <2>2. running'
    BY <1>1
  <2> QED
    BY <2>1, <2>2 DEF Suspended
<1> QED
  BY <1>0, <1>9, <1>10, <1>11, <1>12, <1>13 DEF ManagerInv, OneAtATime

\* The generation loop.
LEMMA LoopStepKept ==
    ASSUME ManagerInv, NEW n \in Starts, Iterate(n) \/ Sent(n) \/ Ends(n)
    PROVE  ManagerInv'
<1>0. TypeOK /\ OneLoop /\ NoWorkerLeaks /\ RunsWhole /\ OneAtATime
  BY DEF ManagerInv
<1>1. UNCHANGED <<running, stopEvent, task, attached, worker, op, starts>>
  BY DEF Iterate, Sent, Ends
<1>2. Alive(n) /\ task = n
  BY <1>0 DEF Iterate, Sent, Ends, Alive, OneLoop
<1>3. /\ loop' = [loop EXCEPT ![n] = loop'[n]]
      /\ loop'[n] \in {"sending", "waiting", "done"}
      /\ running => loop'[n] \in {"sending", "waiting"}
      /\ ~running => loop'[n] = "done" \/ loop[n] = "sending"
  <2>1. CASE Iterate(n)
    BY <1>0, <2>1 DEF Iterate, TypeOK, RunsWhole
  <2>2. CASE Sent(n)
    BY <1>0, <2>2 DEF Sent, TypeOK, RunsWhole
  <2>3. CASE Ends(n)
    BY <1>0, <1>2, <2>3 DEF Ends, TypeOK, RunsWhole
  <2> QED
    BY <2>1, <2>2, <2>3
<1>4. /\ loop' \in [Starts -> {"none", "new", "sending", "waiting", "ending", "done"}]
      /\ \A m \in Starts : m # n => loop'[m] = loop[m]
  <2>1. loop \in [Starts -> {"none", "new", "sending", "waiting", "ending", "done"}]
    BY <1>0 DEF TypeOK
  <2> QED
    BY <1>3, <2>1
<1>5. TypeOK'
  BY <1>0, <1>1, <1>4 DEF TypeOK
<1>6. OneLoop' /\ NoWorkerLeaks'
  BY <1>0, <1>1, <1>2, <1>4 DEF OneLoop, Alive, NoWorkerLeaks
<1>7. RunsWhole'
  BY <1>0, <1>1, <1>2, <1>3 DEF RunsWhole, Taking
<1>8. ASSUME NEW c \in Callers PROVE Suspended(c)'
  <2>0. Suspended(c)
    BY DEF ManagerInv
  <2>1. task # 0
    BY <1>2 DEF Starts
  <2>2. CASE running
    <3>1. op[c].at \in {"idle", "broadcast"}
      BY <1>0, <2>2 DEF RunsWhole
    <3> QED
      BY <1>1, <2>0, <2>2, <3>1 DEF Suspended
  <2>3. CASE ~running
    <3>1. op[c].at = "loop" /\ loop[n] = "ending" /\ loop'[n] = "done"
      <4>1. op[c].at \in {"idle", "loop", "worker", "clients", "broadcast"}
        BY <1>0 DEF TypeOK
      <4>2. op[c].at = "loop"
        BY <2>0, <2>1, <2>3, <4>1 DEF Suspended
      <4> QED
        BY <1>2, <1>3, <2>0, <2>3, <4>2 DEF Suspended, Alive
    <3> QED
      BY <1>1, <1>2, <2>0, <2>3, <3>1 DEF Suspended
  <2> QED
    BY <2>2, <2>3
<1> QED
  BY <1>0, <1>1, <1>5, <1>6, <1>7, <1>8 DEF ManagerInv, OneAtATime

\* A worker ends, drained or out of time.
LEMMA WorkerEndKept ==
    ASSUME ManagerInv, NEW k \in Kinds, NEW n \in Starts, worker[k][n] = "stopping",
           worker' = [worker EXCEPT ![k][n] = "ended"],
           UNCHANGED <<running, stopEvent, task, loop, attached, op, starts>>
    PROVE  ManagerInv'
<1>0. TypeOK /\ OneLoop /\ NoWorkerLeaks /\ RunsWhole /\ OneAtATime
  BY DEF ManagerInv
<1>1. /\ worker' \in [Kinds -> [Starts -> {"none", "live", "stopping", "ended"}]]
      /\ worker'[k][n] = "ended"
      /\ \A j \in Kinds, m \in Starts : j # k \/ m # n => worker'[j][m] = worker[j][m]
  BY <1>0 DEF TypeOK
<1>2. TypeOK' /\ OneLoop' /\ OneAtATime'
  BY <1>0, <1>1 DEF TypeOK, OneLoop, Alive, OneAtATime
<1>3. NoWorkerLeaks'
  <2> SUFFICES ASSUME NEW j \in Kinds, NEW m \in Starts, worker'[j][m] \in {"live", "stopping"}
               PROVE  attached'[j] = m
    BY DEF NoWorkerLeaks
  <2>1. worker'[j][m] = worker[j][m]
    BY <1>1
  <2> QED
    BY <1>0, <2>1 DEF NoWorkerLeaks
<1>4. attached[k] = n /\ n # 0
  BY <1>0 DEF NoWorkerLeaks, Starts
<1>5. ~running
  BY <1>0, <1>4 DEF RunsWhole, Taking
<1>6. ASSUME NEW c \in Callers PROVE Suspended(c)'
  <2>0. Suspended(c) /\ op[c].at \in {"idle", "loop", "worker", "clients", "broadcast"}
        /\ op[c].kind \in 0..3 /\ op[c].on \in 0..MaxStarts
        /\ (op[c].at = "worker" <=> op[c].kind # 0)
    BY <1>0 DEF ManagerInv, TypeOK
  <2>1. CASE op[c].at \in {"idle", "broadcast"}
    <3>1. AllDrained
      BY <1>5, <2>0, <2>1 DEF Suspended
    <3> QED
      BY <3>1 DEF AllDrained
  <2>2. CASE op[c].at = "loop"
    BY <2>0, <2>2 DEF Suspended
  <2>3. CASE op[c].at = "worker"
    <3>1. op[c].kind \in Kinds /\ op[c].on \in Starts
      BY <2>0, <2>3, RuntimeAssumption DEF Suspended, Kinds, Starts
    <3>2. worker'[op[c].kind][op[c].on] \in {"stopping", "ended"}
      <4>1. worker[op[c].kind][op[c].on] \in {"stopping", "ended"}
        BY <2>0, <2>3 DEF Suspended
      <4> QED
        BY <1>1, <3>1, <4>1
    <3> QED
      BY <2>0, <2>3, <3>2 DEF Suspended
  <2>4. CASE op[c].at = "clients"
    BY <2>0, <2>4 DEF Suspended
  <2> QED
    BY <2>0, <2>1, <2>2, <2>3, <2>4
<1> QED
  BY <1>2, <1>3, <1>5, <1>6 DEF ManagerInv, RunsWhole

\* The rest of stop(), where it is suspended, and of the commands.
LEMMA LoopEndedKept ==
    ASSUME ManagerInv, NEW c \in Callers, LoopEnded(c)
    PROVE  ManagerInv'
<1>0. /\ TypeOK /\ OneLoop /\ Suspended(c) /\ op[c] \in Commands /\ op[c].at = "loop"
      /\ ~running /\ op[c].cmd \in {"pause", "reset", "stop"}
  <2>1. op \in [Callers -> Commands]
    BY DEF ManagerInv, TypeOK, Commands
  <2> QED
    BY <2>1 DEF ManagerInv, LoopEnded, Suspended
<1>1. /\ loop[task] = "done" /\ task' = 0 /\ DrainFrom(c, 1, op[c])
      /\ UNCHANGED <<running, stopEvent, loop, starts>>
  BY <1>0 DEF LoopEnded, Suspended
<1>2. /\ running' \in BOOLEAN /\ ~running' /\ stopEvent' \in BOOLEAN
      /\ loop' \in [Starts -> {"none", "new", "sending", "waiting", "ending", "done"}]
  BY <1>0, <1>1 DEF TypeOK
<1>3. \A n \in Starts : loop'[n] \in {"none", "done"}
  BY <1>0, <1>1 DEF OneLoop, Alive
<1>4. 1 \in 1..4 /\ \A j \in Kinds : ~(j < 1 - 1)
  BY DEF Kinds
<1> QED
  BY <1>0, <1>1, <1>2, <1>3, <1>4, DrainKept

LEMMA WorkerEndedKept ==
    ASSUME ManagerInv, NEW c \in Callers, WorkerEnded(c)
    PROVE  ManagerInv'
<1>0. /\ TypeOK /\ OneLoop /\ Suspended(c) /\ op[c] \in Commands /\ op[c].at = "worker"
      /\ ~running /\ op[c].cmd \in {"pause", "reset", "stop"}
  <2>1. op \in [Callers -> Commands]
    BY DEF ManagerInv, TypeOK, Commands
  <2> QED
    BY <2>1 DEF ManagerInv, WorkerEnded, Suspended
<1>1. op[c].kind \in 0..3 /\ op[c].kind # 0 /\ op[c].on # 0
  BY <1>0 DEF TypeOK, Suspended
<1>2. PICK k \in 2..4 : k = op[c].kind + 1
  BY <1>1
<1>3. /\ task' = 0 /\ DrainFrom(c, k, op[c]) /\ op[c].kind = k - 1 /\ k \in 1..4
      /\ UNCHANGED <<running, stopEvent, loop, starts, task>>
      /\ task = 0 /\ attached[k - 1] # 0 /\ worker[k - 1][attached[k - 1]] = "ended"
      /\ \A j \in Kinds : j < k - 1 => attached[j] = 0
  <2>1. op[c].kind = k - 1
    BY <1>1, <1>2
  <2>2. task = 0 /\ attached[op[c].kind] = op[c].on
        /\ \A j \in Kinds : j < op[c].kind => attached[j] = 0
    BY <1>0 DEF Suspended
  <2>3. /\ worker[op[c].kind][op[c].on] = "ended" /\ DrainFrom(c, op[c].kind + 1, op[c])
        /\ UNCHANGED <<running, stopEvent, loop, starts, task>>
    BY DEF WorkerEnded
  <2> QED
    BY <1>1, <1>2, <2>1, <2>2, <2>3
<1>4. /\ running' \in BOOLEAN /\ ~running' /\ stopEvent' \in BOOLEAN
      /\ loop' \in [Starts -> {"none", "new", "sending", "waiting", "ending", "done"}]
  BY <1>0, <1>3 DEF TypeOK
<1>5. \A n \in Starts : loop'[n] \in {"none", "done"}
  BY <1>0, <1>3 DEF OneLoop, Alive, Starts
<1> QED
  BY <1>0, <1>3, <1>4, <1>5, DrainKept

LEMMA TimesOutKept ==
    ASSUME ManagerInv, NEW c \in Callers, TimesOut(c)
    PROVE  ManagerInv' /\ op' = op
<1>0. TypeOK /\ OneAtATime /\ Suspended(c) /\ op[c].at = "worker"
  BY DEF ManagerInv, TimesOut
<1>1. op[c].kind \in Kinds /\ op[c].on \in Starts
  BY <1>0, RuntimeAssumption DEF TypeOK, Suspended, Kinds, Starts
<1>2. op' = op
  <2>1. op' = [d \in Callers |-> op[d]]
    BY <1>0 DEF TimesOut, OneAtATime
  <2> QED
    BY <1>0, <2>1 DEF TypeOK
<1> QED
  BY <1>1, <1>2, WorkerEndKept DEF TimesOut

LEMMA ClientsClosedKept ==
    ASSUME ManagerInv, NEW c \in Callers, ClientsClosed(c)
    PROVE  ManagerInv'
<1>0. /\ TypeOK /\ OneLoop /\ NoWorkerLeaks /\ OneAtATime /\ Suspended(c) /\ op[c].at = "clients"
      /\ MaxStarts \in Nat /\ op \in [Callers -> Commands] /\ op[c].kind = 0
      /\ \A d \in Callers : d = c
  BY RuntimeAssumption DEF ManagerInv, ClientsClosed, TypeOK, Commands, OneAtATime
<1>1. /\ ~running /\ task = 0 /\ \A k \in Kinds : attached[k] = 0
  BY <1>0 DEF Suspended
<1>2. AllDrained
  BY <1>0, <1>1 DEF TypeOK, NoWorkerLeaks, AllDrained, Starts
<1>3. attached[Telemetry] = 0 /\ attached[AlertRows] = 0
  BY <1>1 DEF Telemetry, AlertRows, Kinds
<1>4. /\ op' \in [Callers -> Commands]
      /\ \A d \in Callers : op'[d].at = "broadcast" /\ op'[d].kind = 0
  <2>1. op' = [op EXCEPT ![c] = [op[c] EXCEPT !.at = "broadcast"]]
    BY DEF ClientsClosed
  <2>2. PICK o \in Commands : o = op[c]
    BY <1>0
  <2>3. [o EXCEPT !.at = "broadcast"] \in Commands
    BY DEF Commands
  <2>4. [o EXCEPT !.at = "broadcast"].at = "broadcast" /\ [o EXCEPT !.at = "broadcast"].kind = o.kind
    BY DEF Commands
  <2> QED
    BY <1>0, <2>1, <2>2, <2>3, <2>4
<1>5. CASE op[c].again
  BY <1>1, <1>2, <1>3, <1>4, <1>5, StartKept DEF ClientsClosed
<1>6. CASE ~op[c].again
  <2>1. UNCHANGED <<running, stopEvent, task, loop, attached, worker, starts>>
    BY <1>6 DEF ClientsClosed
  <2>2. TypeOK'
    BY <1>0, <1>4, <2>1 DEF TypeOK, Commands
  <2>3. ASSUME NEW d \in Callers PROVE Suspended(d)'
    <3>1. op'[d].at = "broadcast"
      BY <1>4
    <3>2. AllDrained'
      BY <1>2, <2>1 DEF AllDrained
    <3> QED
      BY <1>1, <1>3, <2>1, <3>1, <3>2 DEF Suspended
  <2> QED
    BY <1>0, <1>1, <2>1, <2>2, <2>3 DEF ManagerInv, OneLoop, Alive, NoWorkerLeaks, RunsWhole, OneAtATime
<1> QED
  BY <1>5, <1>6

LEMMA AnnouncedKept ==
    ASSUME ManagerInv, NEW c \in Callers, Announced(c)
    PROVE  ManagerInv'
<1>0. /\ TypeOK /\ OneLoop /\ NoWorkerLeaks /\ RunsWhole /\ OneAtATime
      /\ Suspended(c) /\ op[c].at = "broadcast"
      /\ MaxStarts \in Nat /\ op \in [Callers -> Commands]
      /\ \A d \in Callers : d = c
  BY RuntimeAssumption DEF ManagerInv, Announced, TypeOK, Commands, OneAtATime
<1>1. UNCHANGED <<running, stopEvent, task, loop, attached, worker, starts>>
  BY DEF Announced
<1>2. Idle \in Commands /\ Idle.at = "idle" /\ Idle.kind = 0
  <2>1. 0 \in 0..MaxStarts /\ 0 \in 0..3
    BY <1>0
  <2> QED
    BY <2>1 DEF Idle, Commands
<1>3. op' \in [Callers -> Commands] /\ \A d \in Callers : op'[d] = Idle
  BY <1>0, <1>2 DEF Announced
<1>4. TypeOK'
  <2>1. \A d \in Callers : op'[d].at = "worker" <=> op'[d].kind # 0
    BY <1>2, <1>3
  <2> QED
    BY <1>0, <1>1, <1>3, <2>1 DEF TypeOK, Commands
<1>5. OneLoop' /\ NoWorkerLeaks' /\ OneAtATime'
  BY <1>0, <1>1 DEF OneLoop, Alive, NoWorkerLeaks, OneAtATime
<1>6. RunsWhole'
  BY <1>0, <1>1, <1>2, <1>3 DEF RunsWhole, Taking
<1>7. ASSUME NEW d \in Callers PROVE Suspended(d)'
  BY <1>0, <1>1, <1>2, <1>3 DEF Suspended, AllDrained
<1> QED
  BY <1>4, <1>5, <1>6, <1>7 DEF ManagerInv

LEMMA StartsKept ==
    ASSUME ManagerInv, NEW c \in Callers, Start(c) \/ Resume(c)
    PROVE  ManagerInv'
<1>0. /\ TypeOK /\ OneAtATime /\ Suspended(c) /\ op[c] = Idle /\ op[c].at = "idle" /\ ~running
      /\ MaxStarts \in Nat /\ op \in [Callers -> Commands]
      /\ \A d \in Callers : d = c
  BY RuntimeAssumption DEF ManagerInv, Start, Resume, Idle, OneAtATime, TypeOK, Commands
<1>1. task = 0 /\ attached[Telemetry] = 0 /\ attached[AlertRows] = 0 /\ AllDrained
  BY <1>0 DEF Suspended
<1>2. CASE Start(c)
  <2>1. \A d \in Callers : op'[d] = Idle
    BY <1>0, <1>2 DEF Start
  <2>2. Idle.at = "idle" /\ Idle.kind = 0
    BY DEF Idle
  <2> QED
    BY <1>0, <1>1, <1>2, <2>1, <2>2, StartKept DEF Start
<1>3. CASE Resume(c)
  <2> DEFINE o == [Idle EXCEPT !.cmd = "resume", !.at = "broadcast"]
  <2>1. o \in Commands /\ o.at = "broadcast" /\ o.kind = 0
    <3>1. 0 \in 0..MaxStarts /\ 0 \in 0..3
      BY <1>0
    <3> QED
      BY <3>1 DEF Idle, Commands
  <2>2. op' = [op EXCEPT ![c] = o]
    BY <1>3 DEF Resume
  <2> HIDE DEF o
  <2>3. op' \in [Callers -> Commands] /\ \A d \in Callers : op'[d] = o
    BY <1>0, <2>1, <2>2
  <2> QED
    BY <1>0, <1>1, <1>3, <2>1, <2>3, StartKept DEF Resume
<1> QED
  BY <1>2, <1>3

LEMMA CommandsKept ==
    ASSUME ManagerInv, NEW c \in Callers, Pause(c) \/ Reset(c) \/ Shutdown(c)
    PROVE  ManagerInv'
<1>0. op[c] = Idle /\ MaxStarts \in Nat /\ running \in BOOLEAN
  BY RuntimeAssumption DEF Pause, Reset, Shutdown, ManagerInv, TypeOK
<1>1. PICK o : /\ o \in {[Idle EXCEPT !.cmd = "pause"], [Idle EXCEPT !.cmd = "stop"],
                         [Idle EXCEPT !.cmd = "reset", !.again = running]}
               /\ BeginStop(c, o)
  BY DEF Pause, Reset, Shutdown
<1>2. o.kind = 0 /\ o.cmd \in {"pause", "reset", "stop"}
  BY <1>1 DEF Idle
<1>3. o \in Commands
  <2>1. 0 \in 0..MaxStarts /\ 0 \in 0..3
    BY <1>0
  <2> QED
    BY <1>0, <1>1, <2>1 DEF Idle, Commands
<1> QED
  BY <1>0, <1>1, <1>2, <1>3, BeginStopKept

\* The next process begins with nothing.
Fresh ==
    /\ running = FALSE /\ stopEvent = FALSE /\ task = 0
    /\ loop = [n \in Starts |-> "none"]
    /\ attached = [k \in Kinds |-> 0]
    /\ worker = [k \in Kinds |-> [n \in Starts |-> "none"]]
    /\ op = [c \in Callers |-> Idle]
    /\ starts = 0

LEMMA FreshManager == OneAtATime /\ Fresh => ManagerInv
<1> SUFFICES ASSUME OneAtATime, Fresh PROVE ManagerInv
  OBVIOUS
<1>0. MaxStarts \in Nat
  BY RuntimeAssumption
<1>1. Idle \in Commands /\ Idle.at = "idle" /\ Idle.kind = 0
  <2>1. 0 \in 0..MaxStarts /\ 0 \in 0..3
    BY <1>0
  <2> QED
    BY <2>1 DEF Idle, Commands
<1>2. op \in [Callers -> Commands] /\ \A c \in Callers : op[c].at = "worker" <=> op[c].kind # 0
  BY <1>1 DEF Fresh
<1>3. running \in BOOLEAN /\ stopEvent \in BOOLEAN /\ ~running
  BY Zenon DEF Fresh
<1>4. TypeOK
  <2>1. /\ task \in 0..MaxStarts /\ starts \in 0..MaxStarts
        /\ loop \in [Starts -> {"none", "new", "sending", "waiting", "ending", "done"}]
        /\ attached \in [Kinds -> 0..MaxStarts]
        /\ worker \in [Kinds -> [Starts -> {"none", "live", "stopping", "ended"}]]
    BY <1>0 DEF Fresh
  <2> QED
    BY <1>2, <1>3, <2>1 DEF TypeOK, Commands
<1>5. OneLoop /\ NoWorkerLeaks /\ RunsWhole /\ AllDrained
  BY DEF Fresh, OneLoop, Alive, NoWorkerLeaks, RunsWhole, AllDrained
<1>6. ASSUME NEW c \in Callers PROVE Suspended(c)
  BY <1>1, <1>5 DEF Fresh, Suspended, Telemetry, AlertRows, Kinds
<1> QED
  BY <1>4, <1>5, <1>6 DEF ManagerInv

LEMMA ManagerKept ==
    ASSUME ManagerInv, BackendNext
    PROVE  ManagerInv'
<1>1. ASSUME NEW c \in Callers, Boot(c) \/ StopManager(c) \/ Command(c) \/ CommandReset(c)
      PROVE  ManagerInv'
  BY <1>1, StartsKept, CommandsKept DEF Boot, StopManager, Command, CommandReset
<1>2. ASSUME NEW c \in Callers, Stopping(c) \/ Unwinding(c)
      PROVE  ManagerInv'
  BY <1>2, LoopEndedKept, WorkerEndedKept, TimesOutKept, ClientsClosedKept,
     AnnouncedKept DEF Stopping, Unwinding
<1>3. CASE TasksRun
  <2>1. CASE \E n \in Starts : Iterate(n) \/ Sent(n) \/ Ends(n)
    BY <2>1, LoopStepKept
  <2>2. CASE \E k \in Kinds, n \in Starts : Drained(k, n)
    BY <2>2, WorkerEndKept DEF Drained
  <2> QED
    BY <1>3, <2>1, <2>2 DEF TasksRun
<1>4. CASE UNCHANGED vars
  BY <1>4 DEF ManagerInv, TypeOK, OneLoop, Alive, NoWorkerLeaks, RunsWhole, Taking,
              Suspended, AllDrained, OneAtATime, vars
<1>5. CASE EndLifespan \/ MonitorSteps
  BY <1>4, <1>5 DEF EndLifespan, MonitorSteps
<1>6. CASE CrashAndRestart
  <2>1. Fresh' /\ OneAtATime'
    BY <1>6 DEF CrashAndRestart, Fresh, ManagerInv, OneAtATime, Starts
  <2>2. (OneAtATime /\ Fresh => ManagerInv)'
    BY FreshManager, PTL
  <2> QED
    BY <2>1, <2>2
<1> QED
  BY <1>1, <1>2, <1>3, <1>5, <1>6 DEF BackendNext

-----------------------------------------------------------------------------
(* The bounds of the monitor, and its end before that of the manager.      *)

CheckBounded(c) ==
    /\ Len(runs[c]) <= MaxRuns
    /\ runs[c] \in Seq([success : BOOLEAN, failures : 0..MaxRuns])
    /\ runs[c] # <<>> => Exists(c)
    /\ streak[c] \in 0..MaxRuns \cup {Unknown}

MonitorBounded ==
    /\ tasks \in [Checks -> {"none", "new", "request", "broadcast", "sleep"}]
    /\ \A c \in Checks : CheckBounded(c)

\* The last phase of the lifespan: the manager stops after the monitor has.
MonitorStopped ==
    /\ lifespan \in {"down", "up", "ending"}
    /\ ~Serving => lifespan = "ending"
    /\ lifespan = "ending" =>
         /\ \A c \in Checks : tasks[c] = "none"
         /\ \A q \in Requests : manual[q] = NoRequest

LEMMA RecordBounded ==
    ASSUME StreaksKnown, NEW c \in Checks, NEW success \in BOOLEAN, Record(c, success),
           row' = row, NEW k \in Checks, CheckBounded(k)
    PROVE  CheckBounded(k)'
<1>0. MonitorShape /\ Counted(c) /\ Exists(c) /\ Len(runs[c]) < MaxRuns
  BY DEF StreaksKnown, Record
<1>1. k # c => runs'[k] = runs[k] /\ streak'[k] = streak[k]
  BY <1>0 DEF Record, MonitorShape
<1>2. CASE k # c
  BY <1>1, <1>2 DEF CheckBounded, Exists
<1>3. CASE k = c
  <2> DEFINE r == [success |-> success, failures |-> Failures(c, success)]
             q == runs[c]
             s == Append(q, r)
  <2>1. /\ r \in Runs /\ s \in Seq(Runs) /\ s # <<>> /\ s[Len(s)] = r
        /\ \E n \in 0..Len(s) : LastSuccess(s, n) /\ r.failures = Len(s) - n
    BY <1>0, RunCounts
  <2>2. runs'[c] = s /\ streak'[c] = Failures(c, success)
    BY <1>0 DEF Record, MonitorShape
  <2>3. /\ q \in Seq([success : BOOLEAN, failures : 0..MaxRuns]) /\ q \in Seq(Runs)
        /\ Len(q) < MaxRuns
    BY <1>0, <1>3 DEF CheckBounded, MonitorShape
  <2>4. Len(s) = Len(q) + 1 /\ Len(q) \in Nat
    BY <2>1, <2>3
  <2>5. r.failures = Failures(c, success) /\ r.failures \in Nat
    BY <2>1 DEF Runs
  <2>6. r.failures <= Len(s)
    <3> HIDE DEF r, s
    <3>1. PICK n \in 0..Len(s) : r.failures = Len(s) - n
      BY <2>1
    <3> QED
      BY <2>3, <2>4, <3>1
  <2>7. Failures(c, success) \in 0..MaxRuns
    <3> HIDE DEF r, s, q
    <3> QED
      BY <2>3, <2>4, <2>5, <2>6, MonitorAssumption
  <2>8. r \in [success : BOOLEAN, failures : 0..MaxRuns]
    BY <2>7
  <2>9. s \in Seq([success : BOOLEAN, failures : 0..MaxRuns]) /\ Len(s) <= MaxRuns
    <3> HIDE DEF r, q
    <3> QED
      BY <2>3, <2>4, <2>8, MonitorAssumption
  <2> HIDE DEF r, q, s
  <2> QED
    BY <1>0, <1>3, <2>2, <2>7, <2>9 DEF CheckBounded, Exists
<1> QED
  BY <1>2, <1>3

LEMMA ChecksBounded ==
    ASSUME StreaksKnown, RequestsKnown, BackendNext, NEW k \in Checks, CheckBounded(k)
    PROVE  CheckBounded(k)'
<1>1. CASE UNCHANGED <<row, runs>> /\ (streak' = streak \/ streak' = [c \in Checks |-> Unknown])
  BY <1>1 DEF CheckBounded, Exists
<1>2. ASSUME NEW c \in Callers,
             \/ Boot(c) \/ StopManager(c) \/ Command(c)
             \/ CommandReset(c) \/ Stopping(c) \/ Unwinding(c)
      PROVE  CheckBounded(k)'
  BY <1>1, <1>2
     DEF Boot, StartMonitor, StopManager, Command, CommandReset, Stopping, Unwinding,
         Forgetting, ForgetAlerts, monitorVars
<1>3. CASE EndLifespan \/ TasksRun \/ CrashAndRestart
  BY <1>1, <1>3
     DEF EndLifespan, StopMonitor, TasksRun, CrashAndRestart, ForgetAll, tableVars, monitorVars
<1>4. CASE MonitorSteps
  <2>0. MonitorShape
    BY DEF StreaksKnown
  <2>1. ASSUME NEW c \in Checks, NEW s \in {"enabled", "disabled"},
               CreateCheck(c, s) \/ UpdateCheck(c, s)
        PROVE  CheckBounded(k)'
    <3>1. runs' = runs /\ streak' = streak /\ (Exists(k) => Exists(k)')
      BY <2>0, <2>1 DEF CreateCheck, UpdateCheck, ChangeCheck, Exists, MonitorShape
    <3> QED
      BY <3>1 DEF CheckBounded
  <2>2. ASSUME NEW c \in Checks, DeleteCheck(c)
        PROVE  CheckBounded(k)'
    <3>1. /\ streak' = streak
          /\ k = c => runs'[k] = <<>>
          /\ k # c => runs'[k] = runs[k] /\ row'[k] = row[k]
      BY <2>0, <2>2 DEF DeleteCheck, ChangeCheck, MonitorShape
    <3>2. CASE k = c
      <4>1. runs'[k] = <<>> /\ Len(<<>>) = 0
        BY <3>1, <3>2
      <4>2. <<>> \in Seq([success : BOOLEAN, failures : 0..MaxRuns])
        OBVIOUS
      <4> QED
        BY <3>1, <4>1, <4>2, MonitorAssumption DEF CheckBounded
    <3>3. CASE k # c
      BY <3>1, <3>3 DEF CheckBounded, Exists
    <3> QED
      BY <3>2, <3>3
  <2>3. ASSUME NEW c \in Checks, BeginRun(c) \/ RunFails(c) \/ RunTold(c)
        PROVE  CheckBounded(k)'
    BY <1>1, <2>3 DEF BeginRun, RunFails, RunTold, Unsaved, resultVars
  <2>4. ASSUME NEW c \in Checks, NEW s \in BOOLEAN, EndRun(c, s)
        PROVE  CheckBounded(k)'
    BY <2>4, RecordBounded DEF EndRun
  <2>5. ASSUME NEW q \in Requests, RunNowFails(q) \/ RunNowTold(q) \/ \E c \in Checks : RunNow(q, c)
        PROVE  CheckBounded(k)'
    BY <1>1, <2>5 DEF RunNow, RunNowFails, RunNowTold, Unsaved, resultVars
  <2>6. ASSUME NEW q \in Requests, NEW s \in BOOLEAN, EndRunNow(q, s)
        PROVE  CheckBounded(k)'
    <3>1. manual[q].check \in Checks
      BY <2>6 DEF EndRunNow, RequestsKnown, NoRequest
    <3> QED
      BY <2>6, <3>1, RecordBounded DEF EndRunNow
  <2> QED
    BY <1>4, <2>1, <2>2, <2>3, <2>4, <2>5, <2>6 DEF MonitorSteps
<1> QED
  BY <1>2, <1>3, <1>4 DEF BackendNext

LEMMA TasksBounded ==
    ASSUME tasks \in [Checks -> {"none", "new", "request", "broadcast", "sleep"}], BackendNext
    PROVE  tasks' \in [Checks -> {"none", "new", "request", "broadcast", "sleep"}]
<1>1. ASSUME NEW c \in Callers,
             \/ Boot(c) \/ StopManager(c) \/ Command(c)
             \/ CommandReset(c) \/ Stopping(c) \/ Unwinding(c)
      PROVE  tasks' = tasks \/ Sync
  BY <1>1
     DEF Boot, StartMonitor, StopManager, Command, CommandReset, Stopping, Unwinding,
         Forgetting, ForgetAlerts, monitorVars
<1>2. CASE EndLifespan \/ TasksRun \/ CrashAndRestart
  BY <1>2 DEF EndLifespan, StopMonitor, TasksRun, CrashAndRestart, ForgetAll, monitorVars
<1>3. CASE MonitorSteps
  BY <1>3 DEF MonitorSteps, CreateCheck, UpdateCheck, DeleteCheck, ChangeCheck, Sync,
              BeginRun, RunFails, RunTold, EndRun, RunNow, RunNowFails, RunNowTold, EndRunNow
<1> QED
  BY <1>1, <1>2, <1>3 DEF BackendNext, Sync

\* A command stays the one it is, and only Shutdown() begins the final stop.
LEMMA DrainSame ==
    ASSUME op \in [Callers -> Commands], NEW d \in Callers, NEW k, NEW o \in Commands,
           DrainFrom(d, k, o)
    PROVE  /\ op'[d].cmd = "stop" => o.cmd = "stop"
           /\ \A c \in Callers : c # d => op'[c] = op[c]
<1>1. CASE Undrained(k) = {}
  <2>1. op' = [op EXCEPT ![d] = AfterStop(o)]
    BY <1>1 DEF DrainFrom
  <2>2. AfterStop(o).cmd = "stop" => o.cmd = "stop"
    BY DEF AfterStop, Idle, Commands
  <2> QED
    BY <2>1, <2>2
<1>2. CASE Undrained(k) # {}
  <2>1. PICK next : op' = [op EXCEPT ![d] =
                             [o EXCEPT !.at = "worker", !.kind = next, !.on = attached[next]]]
    BY <1>2, Zenon DEF DrainFrom
  <2>2. [o EXCEPT !.at = "worker", !.kind = next, !.on = attached[next]].cmd = o.cmd
    BY DEF Commands
  <2> QED
    BY <2>1, <2>2
<1> QED
  BY <1>1, <1>2

LEMMA BeginSame ==
    ASSUME op \in [Callers -> Commands], NEW d \in Callers, NEW o \in Commands, BeginStop(d, o)
    PROVE  /\ op'[d].cmd = "stop" => o.cmd = "stop"
           /\ \A c \in Callers : c # d => op'[c] = op[c]
<1>1. CASE task # 0 /\ loop[task] # "done"
  <2>1. op' = [op EXCEPT ![d] = [o EXCEPT !.at = "loop", !.on = task]]
    BY <1>1 DEF BeginStop
  <2>2. [o EXCEPT !.at = "loop", !.on = task].cmd = o.cmd
    BY DEF Commands
  <2> QED
    BY <2>1, <2>2
<1>2. CASE ~(task # 0 /\ loop[task] # "done")
  BY <1>2, DrainSame DEF BeginStop
<1> QED
  BY <1>1, <1>2

LEMMA StopComesLast ==
    ASSUME TypeOK, BackendNext, ~Serving'
    PROVE  ~Serving \/ (lifespan = "ending" /\ lifespan' = "ending")
<1>1. PICK c \in Callers : op'[c].cmd = "stop"
  BY DEF Serving
<1>2. SUFFICES ASSUME op[c].cmd # "stop", ~(lifespan = "ending" /\ lifespan' = "ending")
               PROVE  FALSE
  BY DEF Serving
<1>0. op \in [Callers -> Commands] /\ running \in BOOLEAN
  BY DEF TypeOK, Commands
<1>3. op' # op
  BY <1>1, <1>2
<1>4. ASSUME NEW d \in Callers, Start(d) \/ Resume(d) PROVE FALSE
  <2>1. op'[c].cmd \in {op[c].cmd, "resume"}
    BY <1>0, <1>4 DEF Start, Resume, Idle
  <2> QED
    BY <1>1, <1>2, <2>1
<1>5. ASSUME NEW d \in Callers, Pause(d) \/ Reset(d) PROVE FALSE
  <2>1. PICK o \in {[Idle EXCEPT !.cmd = "pause"], [Idle EXCEPT !.cmd = "reset", !.again = running]} :
          BeginStop(d, o)
    BY <1>5 DEF Pause, Reset
  <2>2. o.cmd # "stop"
    BY DEF Idle
  <2>3. o \in Commands
    <3>1. 0 \in 0..MaxStarts /\ 0 \in 0..3
      BY RuntimeAssumption
    <3> QED
      BY <1>0, <3>1 DEF Idle, Commands
  <2>4. /\ op'[d].cmd = "stop" => o.cmd = "stop"
        /\ \A e \in Callers : e # d => op'[e] = op[e]
    BY <1>0, <2>1, <2>3, BeginSame
  <2> QED
    BY <1>1, <1>2, <2>2, <2>4
<1>6. ASSUME NEW d \in Callers, LoopEnded(d) \/ WorkerEnded(d) PROVE FALSE
  <2>1. \E k : DrainFrom(d, k, op[d])
    BY <1>6 DEF LoopEnded, WorkerEnded
  <2>2. /\ op'[d].cmd = "stop" => op[d].cmd = "stop"
        /\ \A e \in Callers : e # d => op'[e] = op[e]
    BY <1>0, <2>1, DrainSame
  <2> QED
    BY <1>1, <1>2, <2>2
<1>7. ASSUME NEW d \in Callers, TimesOut(d) \/ ClientsClosed(d) \/ Announced(d) PROVE FALSE
  <2>1. op'[c].cmd \in {Idle.cmd, op[c].cmd}
    BY <1>0, <1>7 DEF TimesOut, ClientsClosed, Announced, Commands
  <2> QED
    BY <1>1, <1>2, <2>1 DEF Idle
<1>8. ASSUME NEW d \in Callers, StopManager(d) PROVE FALSE
  BY <1>2, <1>8 DEF StopManager
<1>9. CASE EndLifespan \/ TasksRun \/ MonitorSteps
  BY <1>3, <1>9 DEF EndLifespan, TasksRun, MonitorSteps, vars,
                    Iterate, Sent, Ends, Drained
<1>10. CASE CrashAndRestart
  <2>1. op'[c] = Idle
    BY <1>10 DEF CrashAndRestart
  <2> QED
    BY <1>1, <2>1 DEF Idle
<1> QED
  BY <1>4, <1>5, <1>6, <1>7, <1>8, <1>9, <1>10
     DEF BackendNext, Boot, Command, CommandReset, Stopping, Unwinding

LEMMA StoppedKept ==
    ASSUME TypeOK, MonitorStopped, BackendNext
    PROVE  MonitorStopped'
<1>1. lifespan' \in {"down", "up", "ending"}
  BY DEF MonitorStopped, BackendNext, Boot, StopManager, Command, CommandReset, Stopping,
         Unwinding, EndLifespan, TasksRun, MonitorSteps, CrashAndRestart
<1>2. lifespan' = lifespan \/ EndLifespan \/ lifespan' \in {"down", "up"}
  BY DEF BackendNext, Boot, StopManager, Command, CommandReset, Stopping,
         Unwinding, TasksRun, MonitorSteps, CrashAndRestart
<1>3. ~Serving' => lifespan' = "ending"
  <2> SUFFICES ASSUME ~Serving', lifespan' # "ending" PROVE FALSE
    OBVIOUS
  <2>1. ~Serving /\ lifespan = "ending"
    BY StopComesLast DEF MonitorStopped
  <2>2. CrashAndRestart
    BY <2>1 DEF BackendNext, Boot, StopManager, Command, CommandReset, Stopping,
                Unwinding, EndLifespan, TasksRun, MonitorSteps
  <2>3. \A c \in Callers : op'[c] = Idle
    BY <2>2 DEF CrashAndRestart
  <2> QED
    BY <2>3 DEF Serving, Idle
<1>4. ASSUME lifespan' = "ending"
      PROVE  /\ \A c \in Checks : tasks'[c] = "none"
             /\ \A q \in Requests : manual'[q] = NoRequest
  <2>1. CASE EndLifespan
    BY <2>1 DEF EndLifespan, StopMonitor
  <2>2. CASE lifespan = "ending" /\ ~EndLifespan
    <3>0. /\ \A c \in Checks : tasks[c] = "none"
          /\ \A q \in Requests : manual[q] = NoRequest
      BY <2>2 DEF MonitorStopped
    <3>1. ASSUME MonitorSteps PROVE FALSE
      <4>1. \A q \in Requests : manual[q].at = "idle"
        BY <3>0 DEF NoRequest
      <4> QED
        BY <2>2, <3>0, <3>1, <4>1
           DEF MonitorSteps, BeginRun, RunFails, RunTold, EndRun,
               RunNowFails, RunNowTold, EndRunNow
    <3>2. UNCHANGED <<tasks, manual>>
      <4>1. CASE \E c \in Callers : StopManager(c) \/ CommandReset(c) \/ Stopping(c) \/ Unwinding(c)
        BY <4>1 DEF StopManager, CommandReset, Stopping, Unwinding, Forgetting,
                    ForgetAlerts, monitorVars
      <4>2. ~CrashAndRestart /\ \A c \in Callers : ~Boot(c) /\ ~Command(c)
        BY <1>4, <2>2 DEF CrashAndRestart, Boot, Command
      <4> QED
        BY <2>2, <3>1, <4>1, <4>2 DEF BackendNext, TasksRun, monitorVars
    <3> QED
      BY <3>0, <3>2
  <2> QED
    BY <1>2, <1>4, <2>1, <2>2
<1> QED
  BY <1>1, <1>3, <1>4 DEF MonitorStopped

-----------------------------------------------------------------------------
(* The backend, when its commands come one at a time.                      *)

SerialInv == IInv /\ ManagerInv /\ MonitorBounded /\ MonitorStopped

LEMMA InitSerial == OneAtATime /\ BackendInit => SerialInv
<1> SUFFICES ASSUME OneAtATime, BackendInit PROVE SerialInv
  OBVIOUS
<1>1. IInv
  BY InitKnown
<1>2. ManagerInv
  BY FreshManager DEF Fresh, BackendInit, Init
<1>3. MonitorBounded
  <2>1. /\ runs = [c \in Checks |-> <<>>] /\ tasks = [c \in Checks |-> "none"]
        /\ streak = [c \in Checks |-> Unknown]
    BY DEF BackendInit, MonitorInit
  <2>2. <<>> \in Seq([success : BOOLEAN, failures : 0..MaxRuns]) /\ Len(<<>>) = 0
    OBVIOUS
  <2>3. ASSUME NEW c \in Checks PROVE CheckBounded(c)
    <3>1. runs[c] = <<>> /\ streak[c] = Unknown
      BY <2>1
    <3> QED
      BY <2>2, <3>1, MonitorAssumption DEF CheckBounded
  <2> QED
    BY <2>1, <2>3 DEF MonitorBounded
<1>4. MonitorStopped
  <2>1. op = [c \in Callers |-> Idle] /\ lifespan = "down"
    BY DEF BackendInit, Init
  <2>2. Serving
    BY <2>1 DEF Serving, Idle
  <2> QED
    BY <2>1, <2>2 DEF MonitorStopped
<1> QED
  BY <1>1, <1>2, <1>3, <1>4 DEF SerialInv

LEMMA NextSerial == SerialInv /\ [BackendNext]_backendVars => SerialInv'
<1> SUFFICES ASSUME SerialInv, [BackendNext]_backendVars PROVE SerialInv'
  OBVIOUS
<1>1. IInv'
  BY NextKeeps DEF SerialInv
<1>2. CASE BackendNext
  <2>1. ManagerInv'
    BY <1>2, ManagerKept DEF SerialInv
  <2>2. MonitorBounded'
    BY <1>2, TasksBounded, ChecksBounded DEF SerialInv, IInv, MonitorBounded
  <2>3. MonitorStopped'
    BY <1>2, StoppedKept DEF SerialInv, ManagerInv
  <2> QED
    BY <1>1, <2>1, <2>2, <2>3 DEF SerialInv
<1>3. CASE UNCHANGED backendVars
  <2>1. UNCHANGED vars /\ UNCHANGED monitorVars /\ lifespan' = lifespan
    BY <1>3 DEF backendVars
  <2>2. ManagerInv'
    BY <2>1 DEF SerialInv, ManagerInv, TypeOK, OneLoop, Alive, NoWorkerLeaks, RunsWhole,
                Taking, Suspended, AllDrained, OneAtATime, vars
  <2>3. MonitorBounded'
    BY <2>1 DEF SerialInv, MonitorBounded, CheckBounded, Exists, monitorVars
  <2>4. MonitorStopped'
    BY <2>1 DEF SerialInv, MonitorStopped, Serving, monitorVars, vars
  <2> QED
    BY <1>1, <2>2, <2>3, <2>4 DEF SerialInv
<1> QED
  BY <1>2, <1>3

LEMMA SerialInvariance == OneAtATime => (BackendSpec => []SerialInv)
<1> SUFFICES ASSUME OneAtATime PROVE BackendSpec => []SerialInv
  OBVIOUS
<1>1. BackendInit => SerialInv
  BY InitSerial
<1> QED
  BY <1>1, NextSerial, PTL DEF BackendSpec

\* However pauses, resumes, resets and crashes alternate, as long as commands
\* do not overlap, _generation_loop() runs once, no persistence worker runs
\* on unattached, and every variable of manager and monitor has its type.
THEOREM RuntimeIsWhole == OneAtATime => (BackendSpec => []RuntimeInv)
<1>1. SerialInv => RuntimeInv
  <2> SUFFICES ASSUME SerialInv PROVE RuntimeInv
    OBVIOUS
  <2>1. TypeOK /\ OneLoop /\ NoWorkerLeaks
    BY DEF SerialInv, ManagerInv
  <2>2. MonitorTypeOK
    <3>1. /\ row \in [Checks -> {"new", "enabled", "disabled", "deleted"}]
          /\ held \in [Checks -> BOOLEAN] /\ told \in [Checks -> BOOLEAN]
          /\ streak \in [Checks -> Nat \cup {Unknown}]
      BY DEF SerialInv, IInv, StreaksKnown, MonitorShape
    <3>2. streak \in [Checks -> 0..MaxRuns \cup {Unknown}]
      BY <3>1 DEF SerialInv, MonitorBounded, CheckBounded
    <3>3. \A q \in Requests : \/ manual[q] = NoRequest
                              \/ manual[q] \in [check : Checks, at : {"request", "broadcast"}]
      BY DEF SerialInv, IInv, RequestsKnown
    <3>4. /\ tasks \in [Checks -> {"none", "new", "request", "broadcast", "sleep"}]
          /\ \A c \in Checks :
                /\ Len(runs[c]) <= MaxRuns
                /\ runs[c] \in Seq([success : BOOLEAN, failures : 0..MaxRuns])
                /\ runs[c] # <<>> => Exists(c)
      BY DEF SerialInv, MonitorBounded, CheckBounded
    <3> QED
      BY <3>1, <3>2, <3>3, <3>4, Zenon DEF MonitorTypeOK
  <2> QED
    BY <2>1, <2>2 DEF RuntimeInv, BackendTypeOK, SerialInv, MonitorStopped
<1> QED
  BY <1>1, SerialInvariance, PTL

\* A manager whose _running is up has its three workers attached and live, so
\* no event or alert transition is given to nobody.
THEOREM GeneratedIsPersisted == OneAtATime => (BackendSpec => []RunningIsPersisted)
<1>1. SerialInv => RunningIsPersisted
  BY DEF SerialInv, ManagerInv, RunsWhole, RunningIsPersisted
<1> QED
  BY <1>1, SerialInvariance, PTL

\* When stop() returns to a pause, a reset or the end of the lifespan, the
\* loop and every worker have ended.
THEOREM StopsCompletely == OneAtATime => (BackendSpec => StopIsComplete)
<1> DEFINE Act ==
      \A c \in Callers : Stops(c) /\ ~Stops(c)' =>
            /\ ~running'
            /\ \A n \in Starts : ~Alive(n)'
            /\ \A k \in Kinds, n \in Starts : worker'[k][n] \in {"none", "ended"}
<1>1. SerialInv /\ SerialInv' /\ [BackendNext]_backendVars => [Act]_vars
  <2> SUFFICES ASSUME SerialInv, SerialInv', BackendNext, NEW c \in Callers,
                      Stops(c), ~Stops(c)'
               PROVE  /\ ~running'
                      /\ \A n \in Starts : ~Alive(n)'
                      /\ \A k \in Kinds, n \in Starts : worker'[k][n] \in {"none", "ended"}
    BY DEF backendVars, vars, Stops
  <2>1. /\ OneLoop' /\ NoWorkerLeaks' /\ TypeOK' /\ Suspended(c)' /\ Suspended(c) /\ ~running
        /\ op[c].at \in {"loop", "worker"} /\ op'[c].at \in {"idle", "clients", "broadcast"}
        /\ \A d \in Callers : d = c
    BY DEF SerialInv, ManagerInv, Suspended, OneAtATime, Stops, TypeOK
  <2>2. ~running'
    <3> SUFFICES ASSUME running' PROVE FALSE
      OBVIOUS
    <3>1. ASSUME NEW d \in Callers, Start(d) \/ Resume(d) PROVE FALSE
      BY <2>1, <3>1 DEF Start, Resume, Idle
    <3>2. ASSUME NEW d \in Callers, Pause(d) \/ Reset(d) \/ Shutdown(d) PROVE FALSE
      BY <3>2 DEF Pause, Reset, Shutdown, BeginStop
    <3>3. ASSUME NEW d \in Callers, LoopEnded(d) \/ WorkerEnded(d) \/ TimesOut(d) PROVE FALSE
      BY <2>1, <3>3 DEF LoopEnded, WorkerEnded, TimesOut
    <3>4. ASSUME NEW d \in Callers, ClientsClosed(d) \/ Announced(d) PROVE FALSE
      BY <2>1, <3>4 DEF ClientsClosed, Announced
    <3>5. ~(EndLifespan \/ TasksRun \/ MonitorSteps \/ CrashAndRestart)
      BY <2>1 DEF EndLifespan, TasksRun, MonitorSteps, CrashAndRestart, vars,
                  Iterate, Sent, Ends, Drained
    <3> QED
      BY <3>1, <3>2, <3>3, <3>4, <3>5
         DEF BackendNext, Boot, StopManager, Command, CommandReset, Stopping, Unwinding
  <2>3. task' = 0
    BY <2>1, <2>2 DEF Suspended
  <2>4. \A k \in Kinds, n \in Starts : worker'[k][n] \in {"none", "ended"}
    <3>1. CASE op'[c].at \in {"idle", "broadcast"}
      BY <2>1, <2>2, <3>1 DEF Suspended, AllDrained
    <3>2. CASE op'[c].at = "clients"
      <4>1. /\ \A k \in Kinds : attached'[k] = 0
            /\ worker' \in [Kinds -> [Starts -> {"none", "live", "stopping", "ended"}]]
        BY <2>1, <3>2 DEF Suspended, TypeOK
      <4> SUFFICES ASSUME NEW k \in Kinds, NEW n \in Starts, worker'[k][n] \notin {"none", "ended"}
                   PROVE  FALSE
        OBVIOUS
      <4>2. worker'[k][n] \in {"live", "stopping"}
        BY <4>1
      <4>3. attached'[k] = n
        BY <2>1, <4>2 DEF NoWorkerLeaks
      <4> QED
        BY <4>1, <4>3 DEF Starts
    <3> QED
      BY <2>1, <3>1, <3>2
  <2> QED
    BY <2>1, <2>2, <2>3, <2>4 DEF OneLoop, Starts
<1>2. OneAtATime => (BackendSpec => [][Act]_vars)
  <2> HIDE DEF Act
  <2> SUFFICES ASSUME OneAtATime PROVE BackendSpec => [][Act]_vars
    OBVIOUS
  <2>1. BackendSpec => []SerialInv
    BY SerialInvariance
  <2> QED
    BY <1>1, <2>1, PTL DEF BackendSpec
<1> QED
  BY <1>2 DEF StopIsComplete

\* What process_synthetic_check_result() opens or closes while the manager
\* runs, or once the final stop has begun, is given to workers that will
\* still write it.
THEOREM ResultsReachPersistence == OneAtATime => (BackendSpec => ResultsArePersisted)
<1> DEFINE Act ==
      \A c \in Checks :
         runs'[c] # runs[c] /\ held'[c] # held[c] /\ (running \/ ~Serving) =>
            Taking(AlertRows) /\ Taking(IncidentRows)
<1>1. SerialInv /\ [BackendNext]_backendVars => [Act]_backendVars
  <2> SUFFICES ASSUME SerialInv, BackendNext, NEW c \in Checks, runs'[c] # runs[c],
                      held'[c] # held[c], running \/ ~Serving
               PROVE  Taking(AlertRows) /\ Taking(IncidentRows)
    OBVIOUS
  <2>1. CASE running
    BY <2>1 DEF SerialInv, ManagerInv, RunsWhole, AlertRows, IncidentRows, Kinds
  <2>2. CASE ~Serving
    <3>1. /\ lifespan = "ending"
          /\ \A d \in Checks : tasks[d] = "none"
          /\ \A q \in Requests : manual[q] = NoRequest
      BY <2>2 DEF SerialInv, MonitorStopped
    <3>2. runs' = runs
      <4>1. ASSUME MonitorSteps PROVE FALSE
        <5>1. \A q \in Requests : manual[q].at = "idle"
          BY <3>1 DEF NoRequest
        <5> QED
          BY <3>1, <4>1, <5>1
             DEF MonitorSteps, BeginRun, RunFails, RunTold, EndRun,
                 RunNowFails, RunNowTold, EndRunNow
      <4> QED
        BY <4>1 DEF BackendNext, Boot, StartMonitor, StopManager, Command, CommandReset,
                    Stopping, Unwinding, Forgetting, ForgetAlerts, monitorVars,
                    EndLifespan, StopMonitor, TasksRun, CrashAndRestart, ForgetAll, tableVars
    <3> QED
      BY <3>2
  <2> QED
    BY <2>1, <2>2
<1>2. OneAtATime => (BackendSpec => [][Act]_backendVars)
  <2> HIDE DEF Act
  <2> SUFFICES ASSUME OneAtATime PROVE BackendSpec => [][Act]_backendVars
    OBVIOUS
  <2>1. BackendSpec => []SerialInv
    BY SerialInvariance
  <2> QED
    BY <1>1, <2>1, PTL DEF BackendSpec
<1> QED
  BY <1>2 DEF ResultsArePersisted

=============================================================================
