--------------------------- MODULE AlertPipeline ---------------------------
(***************************************************************************)
(* The life of an alert from the transition that creates it to its durable *)
(* rows: the active-alert map and the incident engine of the telemetry     *)
(* manager, the two bounded persistence queues with their workers, the     *)
(* database tables, and the process that runs them, with its shutdown,     *)
(* crash and restart.                                                      *)
(*                                                                         *)
(* Everything that runs on the event loop between two awaits is one        *)
(* action.  acknowledge_incident is a `def` endpoint: it runs on a thread  *)
(* of the pool, so the event loop may run between the calls it makes.      *)
(***************************************************************************)
EXTENDS Naturals, Sequences

CONSTANTS
    Alerts,             \* alert ids
    Incidents,          \* incident ids
    Keys,               \* keys of the active-alert map
    Hosts,              \* correlation scopes: the host of a rule or anomaly alert
    KeyOf,              \* the key an alert id is drawn for
    HostOf,             \* the scope of the alerts of a key
    RuleKeys,           \* keys of alerts that carry a rule_id
    SyntheticKeys,      \* keys of alerts a synthetic check raises
    DeletableHosts,     \* hosts an administrator may delete
    DeletableRules,     \* rule keys whose rule an administrator may delete
    AlertQueueSize,     \* max_queue_size of AlertPersistence
    IncidentQueueSize,  \* max_queue_size of IncidentPersistence
    AckableAlerts,      \* alerts an operator may acknowledge
    AckThreads,         \* TRUE when operators acknowledge incidents
    WebhooksOverflow,   \* TRUE when the webhook queue may be full
    MaxRestarts,        \* bound on the restarts of a behaviour
    None                \* absence of a row, of an object, of a reference

ASSUME ConstantsAssumption ==
    /\ KeyOf \in [Alerts -> Keys]
    /\ HostOf \in [Keys -> Hosts]
    /\ RuleKeys \subseteq Keys /\ SyntheticKeys \subseteq Keys
    /\ RuleKeys \cap SyntheticKeys = {}
    /\ DeletableHosts \subseteq Hosts \ {HostOf[k] : k \in SyntheticKeys}
    /\ DeletableRules \subseteq RuleKeys
    /\ AlertQueueSize \in Nat \ {0} /\ IncidentQueueSize \in Nat \ {0}
    /\ AckableAlerts \subseteq Alerts
    /\ AckThreads \in BOOLEAN /\ WebhooksOverflow \in BOOLEAN
    /\ MaxRestarts \in Nat

VARIABLES
    phase,          \* "up", the two drains of a shutdown, or "down"
    alert,          \* alerts the manager holds in memory
    active,         \* _active_alerts: the unresolved alert of a key
    incident,       \* _incidents of the incident engine
    acking,         \* snapshot a request thread has taken and not yet queued
    loaded,         \* rule keys the rule engine evaluates
    alertQ,         \* AlertPersistence._queue
    alertRetry,     \* its retained retry_item
    incidentQ,      \* IncidentPersistence._queue
    incidentRetry,  \* its retained retry event
    alertRow,       \* table alert_records
    incidentRow,    \* table incidents
    links,          \* table incident_alerts
    hosts, rules,   \* tables hosts and alert_rules
    restarts,       \* restarts so far
    staleAlerts,    \* history: alerts whose last change was never queued
    staleIncidents, \* history: incidents whose last change was never queued
    alertsLost,     \* history: some alert change was never queued
    incidentsLost   \* history: some incident change was never queued

memoryVars == <<alert, active, incident, acking, loaded>>
queueVars  == <<alertQ, alertRetry, incidentQ, incidentRetry>>
dbVars     == <<alertRow, incidentRow, links, hosts, rules>>
ghostVars  == <<staleAlerts, staleIncidents, alertsLost, incidentsLost>>
vars       == <<phase, memoryVars, queueVars, dbVars, restarts, ghostVars>>

AlertState == [status : {"active", "resolved"}, acked : BOOLEAN]
AlertEvent == [alert : Alerts, state : AlertState]
IncidentStatus == {"open", "acknowledged", "resolved"}
IncidentState == [status : IncidentStatus, host : Hosts \cup {None},
                  alerts : SUBSET Alerts, active : SUBSET Alerts]
IncidentRow == [status : IncidentStatus, host : Hosts \cup {None}]
IncidentEvent == [incident : Incidents, row : IncidentRow,
                  alert : Alerts \cup {None}]

\* None is no id and no row.
ASSUME NoneAssumption ==
    /\ None \notin Alerts \cup Incidents \cup Hosts
    /\ None \notin AlertState \cup AlertEvent
    /\ None \notin IncidentState \cup IncidentRow \cup IncidentEvent

TypeOK ==
    /\ phase \in {"up", "drainAlerts", "drainIncidents", "down"}
    /\ alert \in [Alerts -> AlertState \cup {None}]
    /\ active \in [Keys -> Alerts \cup {None}]
    /\ incident \in [Incidents -> IncidentState \cup {None}]
    /\ acking \in IncidentEvent \cup {None}
    /\ loaded \subseteq RuleKeys
    /\ alertQ \in Seq(AlertEvent) /\ Len(alertQ) <= AlertQueueSize
    /\ alertRetry \in AlertEvent \cup {None}
    /\ incidentQ \in Seq(IncidentEvent) /\ Len(incidentQ) <= IncidentQueueSize
    /\ incidentRetry \in IncidentEvent \cup {None}
    /\ alertRow \in [Alerts -> AlertState \cup {None}]
    /\ incidentRow \in [Incidents -> IncidentRow \cup {None}]
    /\ links \subseteq Incidents \X Alerts
    /\ hosts \subseteq Hosts /\ rules \subseteq RuleKeys
    /\ restarts \in 0..MaxRestarts
    /\ staleAlerts \subseteq Alerts /\ staleIncidents \subseteq Incidents
    /\ alertsLost \in BOOLEAN /\ incidentsLost \in BOOLEAN

NoMemory ==
    /\ alert' = [a \in Alerts |-> None]
    /\ active' = [k \in Keys |-> None]
    /\ incident' = [i \in Incidents |-> None]
    /\ acking' = None
    /\ loaded' = {}

Init ==
    /\ phase = "up"
    /\ alert = [a \in Alerts |-> None]
    /\ active = [k \in Keys |-> None]
    /\ incident = [i \in Incidents |-> None]
    /\ acking = None
    /\ loaded = RuleKeys
    /\ alertQ = <<>> /\ alertRetry = None
    /\ incidentQ = <<>> /\ incidentRetry = None
    /\ alertRow = [a \in Alerts |-> None]
    /\ incidentRow = [i \in Incidents |-> None]
    /\ links = {}
    /\ hosts = Hosts /\ rules = RuleKeys
    /\ restarts = 0
    /\ staleAlerts = {} /\ staleIncidents = {}
    /\ alertsLost = FALSE /\ incidentsLost = FALSE

-----------------------------------------------------------------------------
(* put_nowait of the two queues: an event that does not fit is dropped.    *)

LoseAlert(a) ==
    /\ staleAlerts' = staleAlerts \cup {a}
    /\ alertsLost' = TRUE
    /\ UNCHANGED alertQ

\* Slip: the capacity check is off by one.
EnqueueAlertOneTooMany(a, s) ==
    IF Len(alertQ) <= AlertQueueSize
    THEN /\ alertQ' = Append(alertQ, [alert |-> a, state |-> s])
         /\ staleAlerts' = staleAlerts \ {a}
         /\ UNCHANGED alertsLost
    ELSE LoseAlert(a)

EnqueueAlert(a, s) ==
    IF Len(alertQ) < AlertQueueSize
    THEN /\ alertQ' = Append(alertQ, [alert |-> a, state |-> s])
         /\ staleAlerts' = staleAlerts \ {a}
         /\ UNCHANGED alertsLost
    ELSE LoseAlert(a)

\* The transition of a rule or of an anomaly notifies before it enqueues: on
\* a full webhook queue the dispatcher raises and the transition ends there.
NotifyAndEnqueue(a, s) ==
    \/ EnqueueAlert(a, s)
    \/ WebhooksOverflow /\ KeyOf[a] \notin SyntheticKeys /\ LoseAlert(a)

\* Slip: the event that creates an incident does not say for which alert.
SnapshotUnlinked(i, s, a) ==
    [incident |-> i, alert |-> None, row |-> [status |-> s.status, host |-> s.host]]

\* snapshot(): the persisted part of an incident, copied when it is taken.
Snapshot(i, s, a) ==
    [incident |-> i, alert |-> a, row |-> [status |-> s.status, host |-> s.host]]

EnqueueIncident(e) ==
    IF Len(incidentQ) < IncidentQueueSize
    THEN /\ incidentQ' = Append(incidentQ, e)
         /\ staleIncidents' = staleIncidents \ {e.incident}
         /\ UNCHANGED incidentsLost
    ELSE /\ staleIncidents' = staleIncidents \cup {e.incident}
         /\ incidentsLost' = TRUE
         /\ UNCHANGED incidentQ

-----------------------------------------------------------------------------
(* Alert transitions.                                                      *)

Evaluated(k) == k \in RuleKeys => k \in loaded

\* Slip: a resolved incident of the scope is joined, and so reopened.
CorrelatesResolved(i, h) == incident[i] # None /\ incident[i].host = h

\* An unresolved incident of the scope may correlate or not: whether its
\* last_seen_at is within the window is left open here.
Correlates(i, h) ==
    /\ incident[i] # None
    /\ incident[i].host = h
    /\ incident[i].status # "resolved"

Opened(h, a) ==
    [status |-> "open", host |-> h, alerts |-> {a}, active |-> {a}]

Joined(s, a) ==
    [s EXCEPT !.status = "open", !.alerts = @ \cup {a}, !.active = @ \cup {a}]

CreateAlert(a) ==
    LET k == KeyOf[a]
        new == [status |-> "active", acked |-> FALSE]
    IN
    /\ phase = "up"
    /\ Evaluated(k)
    /\ active[k] = None
    /\ alert[a] = None /\ alertRow[a] = None
    /\ \E i \in Incidents :
         /\ \/ Correlates(i, HostOf[k])
            \/ incident[i] = None /\ incidentRow[i] = None
         /\ incident' = [incident EXCEPT ![i] =
                IF @ = None THEN Opened(HostOf[k], a) ELSE Joined(@, a)]
         /\ EnqueueIncident(Snapshot(i, incident'[i], a))
    /\ alert' = [alert EXCEPT ![a] = new]
    /\ active' = [active EXCEPT ![k] = a]
    /\ NotifyAndEnqueue(a, new)
    /\ UNCHANGED <<phase, acking, loaded, alertRetry, incidentRetry, dbVars, restarts>>

\* Slip: the first alert to resolve resolves the incident.
LeftFirst(s, a) == [s EXCEPT !.active = @ \ {a}, !.status = "resolved"]

Left(s, a) ==
    [s EXCEPT !.active = @ \ {a},
              !.status = IF s.active \subseteq {a} THEN "resolved" ELSE @]

ResolveAlert(k) ==
    LET a == active[k]
        done == [alert[a] EXCEPT !.status = "resolved"]
        owners == {i \in Incidents : incident[i] # None /\ a \in incident[i].alerts}
    IN
    /\ phase = "up"
    /\ Evaluated(k)
    /\ a # None
    /\ alert' = [alert EXCEPT ![a] = done]
    /\ active' = [active EXCEPT ![k] = None]
    /\ \/ /\ owners = {}
          /\ UNCHANGED <<incident, incidentQ, staleIncidents, incidentsLost>>
       \/ \E i \in owners :
            /\ incident' = [incident EXCEPT ![i] = Left(@, a)]
            /\ EnqueueIncident(Snapshot(i, incident'[i], None))
    /\ NotifyAndEnqueue(a, done)
    /\ UNCHANGED <<phase, acking, loaded, alertRetry, incidentRetry, dbVars, restarts>>

\* acknowledge_alert of the API: the row when there is one, and the alert
\* the manager still holds.
AcknowledgeAlert(a) ==
    /\ phase = "up"
    /\ a \in AckableAlerts
    /\ alertRow[a] # None => ~alertRow[a].acked
    /\ alertRow[a] # None \/ (alert[a] # None /\ ~alert[a].acked)
    /\ alertRow' = IF alertRow[a] = None THEN alertRow
                   ELSE [alertRow EXCEPT ![a].acked = TRUE]
    /\ IF alert[a] # None /\ ~alert[a].acked
       THEN /\ alert' = [alert EXCEPT ![a].acked = TRUE]
            /\ EnqueueAlert(a, [alert[a] EXCEPT !.acked = TRUE])
       ELSE UNCHANGED <<alert, alertQ, staleAlerts, alertsLost>>
    /\ UNCHANGED <<phase, active, incident, acking, loaded, alertRetry,
                   incidentQ, incidentRetry, incidentRow, links, hosts, rules,
                   restarts, staleIncidents, incidentsLost>>

\* A request thread checks the status, assigns it and copies the incident ...
AcknowledgeIncident(i) ==
    /\ AckThreads
    /\ phase = "up"
    /\ acking = None
    /\ incident[i] # None /\ incident[i].status # "resolved"
    /\ incident' = [incident EXCEPT ![i].status = "acknowledged"]
    /\ acking' = Snapshot(i, incident'[i], None)
    /\ UNCHANGED <<phase, alert, active, loaded, queueVars, dbVars, restarts,
                   ghostVars>>

\* ... and then queues the copy, whatever the event loop queued in between.
EnqueueAcknowledged ==
    /\ acking # None
    /\ EnqueueIncident(acking)
    /\ acking' = None
    /\ UNCHANGED <<phase, alert, active, incident, loaded, alertQ, alertRetry,
                   incidentRetry, dbVars, restarts, staleAlerts, alertsLost>>

-----------------------------------------------------------------------------
(* The workers.  One iteration takes the retained item or the head of the  *)
(* queue and runs _persist, which is one transaction; an exception retains *)
(* the item, and nothing behind it is attempted before it.                 *)

AlertReady == alertRetry # None \/ alertQ # <<>>
AlertItem  == IF alertRetry # None THEN alertRetry ELSE Head(alertQ)
TakeAlert  == alertQ' = IF alertRetry # None THEN alertQ ELSE Tail(alertQ)

\* The foreign keys an insert (host and rule) or an update (rule) checks.
AlertReferencesExist(a) ==
    /\ alertRow[a] = None => HostOf[KeyOf[a]] \in hosts
    /\ KeyOf[a] \in RuleKeys => KeyOf[a] \in rules

\* Slip: the update takes every column from the event.
AlertOverwrite(e) == e.state

AlertUpsert(e) ==
    LET row == alertRow[e.alert]
        wasAcked == IF row = None THEN FALSE ELSE row.acked
    IN  [status |-> e.state.status, acked |-> wasAcked \/ e.state.acked]

PersistAlert ==
    /\ phase \in {"up", "drainAlerts"}
    /\ AlertReady
    /\ AlertReferencesExist(AlertItem.alert)
    /\ alertRow' = [alertRow EXCEPT ![AlertItem.alert] = AlertUpsert(AlertItem)]
    /\ TakeAlert
    /\ alertRetry' = None
    /\ UNCHANGED <<phase, memoryVars, incidentQ, incidentRetry, incidentRow,
                   links, hosts, rules, restarts, ghostVars>>

\* Slip: an event that failed goes back to the end of the queue.
PersistAlertRequeues ==
    /\ phase \in {"up", "drainAlerts"}
    /\ alertQ # <<>>
    /\ alertQ' = Append(Tail(alertQ), Head(alertQ))
    /\ UNCHANGED <<phase, memoryVars, alertRetry, incidentQ, incidentRetry, dbVars,
                   restarts, ghostVars>>

PersistAlertFails ==
    /\ phase \in {"up", "drainAlerts"}
    /\ AlertReady
    /\ TakeAlert
    /\ alertRetry' = AlertItem
    /\ UNCHANGED <<phase, memoryVars, incidentQ, incidentRetry, dbVars, restarts,
                   ghostVars>>

\* Slip: an empty queue counts as drained while an event is retained.
IncidentReadyQueued == incidentQ # <<>>

IncidentReady == incidentRetry # None \/ incidentQ # <<>>
IncidentItem  == IF incidentRetry # None THEN incidentRetry ELSE Head(incidentQ)
TakeIncident  == incidentQ' = IF incidentRetry # None THEN incidentQ ELSE Tail(incidentQ)

\* Slip: the event waits for an alert that is still active.
IncidentReferencesActive(e) ==
    /\ e.row.host # None => e.row.host \in hosts
    /\ e.alert # None => alertRow[e.alert] # None /\ alertRow[e.alert].status = "active"

\* The host the row points at exists, and the referenced alert is committed.
IncidentReferencesExist(e) ==
    /\ e.row.host # None => e.row.host \in hosts
    /\ e.alert # None => alertRow[e.alert] # None

PersistIncident ==
    LET e == IncidentItem IN
    /\ phase # "down"
    /\ IncidentReady
    /\ IncidentReferencesExist(e)
    /\ incidentRow' = [incidentRow EXCEPT ![e.incident] = e.row]
    /\ links' = IF e.alert = None THEN links
                ELSE links \cup {<<e.incident, e.alert>>}
    /\ TakeIncident
    /\ incidentRetry' = None
    /\ UNCHANGED <<phase, memoryVars, alertQ, alertRetry, alertRow, hosts,
                   rules, restarts, ghostVars>>

PersistIncidentFails ==
    /\ phase # "down"
    /\ IncidentReady
    /\ TakeIncident
    /\ incidentRetry' = IncidentItem
    /\ UNCHANGED <<phase, memoryVars, alertQ, alertRetry, dbVars, restarts,
                   ghostVars>>

-----------------------------------------------------------------------------
(* Administration.                                                         *)

DeleteHost(h) ==
    /\ phase = "up"
    /\ h \in hosts \cap DeletableHosts
    /\ hosts' = hosts \ {h}
    /\ incidentRow' = [i \in Incidents |->
          IF incidentRow[i] # None /\ incidentRow[i].host = h
          THEN [incidentRow[i] EXCEPT !.host = None] ELSE incidentRow[i]]
    /\ UNCHANGED <<phase, memoryVars, queueVars, alertRow, links, rules,
                   restarts, ghostVars>>

\* The request commits the deletion ...
DeleteRule(k) ==
    /\ phase = "up"
    /\ k \in rules \cap DeletableRules
    /\ rules' = rules \ {k}
    /\ UNCHANGED <<phase, memoryVars, queueVars, alertRow, incidentRow, links,
                   hosts, restarts, ghostVars>>

\* ... and then has the rule engine load what is left.
ReloadRules ==
    /\ phase = "up"
    /\ loaded # rules
    /\ loaded' = rules
    /\ UNCHANGED <<phase, alert, active, incident, acking, queueVars, dbVars,
                   restarts, ghostVars>>

-----------------------------------------------------------------------------
(* The process.                                                            *)

PendingAlerts ==
    {alertQ[n].alert : n \in DOMAIN alertQ}
    \cup (IF alertRetry = None THEN {} ELSE {alertRetry.alert})

\* No request is in flight when the lifespan of the application ends.
Shutdown ==
    /\ phase = "up"
    /\ acking = None
    /\ phase' = "drainAlerts"
    /\ UNCHANGED <<memoryVars, queueVars, dbVars, restarts, ghostVars>>

\* AlertPersistence.stop returns once its worker has drained, or cancels it
\* after 10 seconds and forgets what it had not persisted.
StopAlertPersistence ==
    /\ phase = "drainAlerts"
    /\ phase' = "drainIncidents"
    /\ alertQ' = <<>> /\ alertRetry' = None
    /\ staleAlerts' = staleAlerts \cup PendingAlerts
    /\ UNCHANGED <<memoryVars, incidentQ, incidentRetry, dbVars, restarts,
                   staleIncidents, alertsLost, incidentsLost>>

Stopped ==
    /\ phase' = "down"
    /\ NoMemory
    /\ alertQ' = <<>> /\ alertRetry' = None
    /\ incidentQ' = <<>> /\ incidentRetry' = None
    /\ staleAlerts' = {} /\ staleIncidents' = {}
    /\ UNCHANGED <<dbVars, restarts, alertsLost, incidentsLost>>

StopIncidentPersistence == phase = "drainIncidents" /\ Stopped

Crash == phase # "down" /\ Stopped

\* The keys start() rebuilds as the live transitions spell them: a rule or a
\* host that is gone has left NULL in the row, and the alert of a synthetic
\* check comes back under the key of an anomaly.
RestoredKeys ==
    {k \in Keys \ SyntheticKeys :
        /\ k \in RuleKeys => k \in rules
        /\ HostOf[k] \in hosts}

ActiveRows == {a \in Alerts : alertRow[a] # None /\ alertRow[a].status = "active"}

RestoredIncident(i) ==
    LET linked == {a \in Alerts : <<i, a>> \in links} IN
    IF incidentRow[i] = None THEN None
    ELSE [status |-> incidentRow[i].status, host |-> incidentRow[i].host,
          alerts |-> linked, active |-> linked \cap ActiveRows]

\* start() of a fresh process: the latest active row of a key wins it.
Restart ==
    /\ phase = "down"
    /\ restarts < MaxRestarts
    /\ phase' = "up"
    /\ restarts' = restarts + 1
    /\ alert' = [a \in Alerts |-> IF a \in ActiveRows THEN alertRow[a] ELSE None]
    /\ active' \in [Keys -> ActiveRows \cup {None}]
    /\ \A k \in Keys :
         LET rows == {a \in ActiveRows : KeyOf[a] = k /\ k \in RestoredKeys}
         IN  IF rows = {} THEN active'[k] = None ELSE active'[k] \in rows
    /\ incident' = [i \in Incidents |-> RestoredIncident(i)]
    /\ acking' = None
    /\ loaded' = rules
    /\ UNCHANGED <<queueVars, dbVars, ghostVars>>

Next ==
    \/ \E a \in Alerts : CreateAlert(a) \/ AcknowledgeAlert(a)
    \/ \E k \in Keys : ResolveAlert(k) \/ DeleteRule(k)
    \/ \E i \in Incidents : AcknowledgeIncident(i)
    \/ EnqueueAcknowledged
    \/ PersistAlert \/ PersistAlertFails
    \/ PersistIncident \/ PersistIncidentFails
    \/ \E h \in Hosts : DeleteHost(h)
    \/ ReloadRules
    \/ Shutdown \/ StopAlertPersistence \/ StopIncidentPersistence
    \/ Crash \/ Restart

Spec == Init /\ [][Next]_vars

\* The workers keep trying and the database does not refuse them for ever;
\* the drains of a shutdown end by themselves or by their timeout.
Fairness ==
    /\ WF_vars(PersistAlert) /\ WF_vars(PersistIncident)
    /\ WF_vars(StopAlertPersistence) /\ WF_vars(StopIncidentPersistence)

FairSpec == Spec /\ Fairness

-----------------------------------------------------------------------------
(* Properties.                                                             *)

\* What the database will say of alert a once the alert queue has drained.
Latest(a) ==
    LET at == {n \in DOMAIN alertQ : alertQ[n].alert = a}
    IN  IF at # {} THEN alertQ[CHOOSE n \in at : \A m \in at : m <= n].state
        ELSE IF alertRetry # None /\ alertRetry.alert = a THEN alertRetry.state
        ELSE alertRow[a]

\* The same for the status of incident i.
LatestStatus(i) ==
    LET at == {n \in DOMAIN incidentQ : incidentQ[n].incident = i}
    IN  IF at # {} THEN incidentQ[CHOOSE n \in at : \A m \in at : m <= n].row.status
        ELSE IF incidentRetry # None /\ incidentRetry.incident = i
        THEN incidentRetry.row.status
        ELSE IF incidentRow[i] = None THEN None ELSE incidentRow[i].status

\* The asynchronous path loses no change it accepted: whatever the retries
\* and the acknowledgements written straight to the row, the newest snapshot
\* on its way (or the row, when none is) is what the manager holds.
AlertsConverge ==
    \A a \in Alerts :
        alert[a] # None /\ a \notin staleAlerts => Latest(a) = alert[a]

\* A request thread has changed incident i and not yet queued its copy.
Acknowledging(i) == acking # None /\ acking.incident = i

\* The same for incidents, whose worker waits for the alerts it refers to,
\* once the thread that changed one has queued its copy.
IncidentsConverge ==
    \A i \in Incidents :
        incident[i] # None /\ i \notin staleIncidents /\ ~Acknowledging(i)
            => LatestStatus(i) = incident[i].status

\* Both tables come to what the process holds, at whatever rate their workers
\* run.
QueuesConverge == AlertsConverge /\ IncidentsConverge

\* As long as no alert change was dropped, the table never holds two active
\* alerts for one condition: the resolution of the first reaches the table
\* before the creation of the second, across any crash and restart.
OneActiveRowPerKey ==
    ~alertsLost =>
        \A a, b \in ActiveRows :
            KeyOf[a] = KeyOf[b] /\ KeyOf[a] \notin SyntheticKeys => a = b

\* As long as no incident change was dropped, every incident in the table is
\* explained by an alert: the row and its first link commit together, and the
\* later snapshots, which carry no alert, never overtake that event.
IncidentRowsAreLinked ==
    ~incidentsLost =>
        \A i \in Incidents :
            incidentRow[i] # None => \E a \in Alerts : <<i, a>> \in links

\* What start() and hydrate() find in the tables after a crash between any
\* two transactions is a state the process could have been in.
TablesAreConsistent == OneActiveRowPerKey /\ IncidentRowsAreLinked

\* The alert path implements AlertLedger: hidden behind the queues, retries,
\* drops and restarts, alert_records only lags behind the manager's alerts.
Ledger == INSTANCE AlertLedger WITH truth <- alert, rows <- alertRow
RefinesLedger == Ledger!Spec

Snapshots ==
    {alertQ[n] : n \in DOMAIN alertQ}
    \cup (IF alertRetry = None THEN {} ELSE {alertRetry})

\* A snapshot still to be written says nothing the manager does not hold, and
\* none that is older than a durable resolution is left to be written.
SnapshotsLag ==
    \A e \in Snapshots :
        /\ alert[e.alert] # None /\ Ledger!Precedes(e.state, alert[e.alert])
        /\ alertRow[e.alert] # None /\ alertRow[e.alert].status = "resolved"
              => e.state.status = "resolved"

\* No row, and no snapshot still to be written, is ahead of the manager, and
\* writing what waits never takes a resolution back.
RowsNeverAhead == Ledger!RowsLag /\ SnapshotsLag

\* A resolved incident is final in the table: a failure of the same scope
\* opens another one.
IncidentRowsFinal ==
    \A i \in Incidents :
        incidentRow[i] # None /\ incidentRow[i].status = "resolved"
            => incidentRow'[i].status = "resolved"
IncidentRowsStayFinal == [][IncidentRowsFinal]_vars

\* A drained shutdown leaves in the tables what the process knew.
ShutdownKeepsAll ==
    [][phase = "drainIncidents" /\ phase' = "down" /\ ~IncidentReady =>
        /\ \A a \in Alerts \ staleAlerts :
             alert[a] # None => alertRow[a] = alert[a]
        /\ \A i \in Incidents \ staleIncidents :
             incident[i] # None => incidentRow[i] # None
                                   /\ incidentRow[i].status = incident[i].status]_vars

\* An incident is resolved exactly when the last of its alerts is.
ResolvedIffQuiet ==
    \A i \in Incidents :
        incident[i] # None =>
            (incident[i].status = "resolved" <=> incident[i].active = {})

\* A resolution that was queued reaches the table, unless the process ends.
ResolutionBecomesDurable ==
    \A a \in Alerts :
        (alert[a] # None /\ alert[a].status = "resolved" /\ a \notin staleAlerts)
            ~> (phase = "down" \/ (alertRow[a] # None /\ alertRow[a].status = "resolved"))

IncidentSnapshots ==
    {incidentQ[n] : n \in DOMAIN incidentQ}
    \cup (IF incidentRetry = None THEN {} ELSE {incidentRetry})

\* So do the status and the link that a queued snapshot of an incident
\* carries, as long as no alert was dropped before: waiting for the alert an
\* event refers to, behind whatever is queued, never lasts for ever.
IncidentBecomesDurable ==
    \A i \in Incidents :
        /\ \A s \in IncidentStatus :
              (~alertsLost /\ \E e \in IncidentSnapshots : e.incident = i /\ e.row.status = s)
                  ~> (phase = "down" \/ (incidentRow[i] # None /\ incidentRow[i].status = s))
        /\ \A a \in Alerts :
              (~alertsLost /\ \E e \in IncidentSnapshots : e.incident = i /\ e.alert = a)
                  ~> (phase = "down" \/ <<i, a>> \in links)

\* Neither queue keeps a change it was given for ever, although the worker of
\* incidents waits for rows of the worker of alerts.
TransitionsBecomeDurable == ResolutionBecomesDurable /\ IncidentBecomesDurable

=============================================================================
