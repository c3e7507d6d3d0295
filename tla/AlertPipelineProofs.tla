------------------------ MODULE AlertPipelineProofs ------------------------
(***************************************************************************)
(* Proofs about AlertPipeline: types, the alerts table never ahead of the  *)
(* manager and the implementation of AlertLedger; what the two queues      *)
(* settle to; one active row per key and an alert behind every incident;   *)
(* the finality of resolved incidents; and what a shutdown leaves behind.  *)
(***************************************************************************)
EXTENDS AlertPipeline, TLAPS, WellFoundedInduction

\* The map of active alerts only names alerts the manager holds.
ActiveKnown == \A k \in Keys : active[k] # None => alert[active[k]] # None

\* The part of the invariant the type theorem needs: without ActiveKnown a
\* resolution could change an alert the manager does not hold.
IInvType == TypeOK /\ ActiveKnown

\* A process that is down knows nothing and has nothing queued.
DownIsEmpty ==
    phase = "down" =>
        /\ \A a \in Alerts : alert[a] = None
        /\ alertQ = <<>> /\ alertRetry = None

\* An event on its way to the table is no newer than what the manager holds
\* and does not take a durable resolution back.
Between(e) ==
    /\ alert[e.alert] # None
    /\ Ledger!Precedes(e.state, alert[e.alert])
    /\ (alertRow[e.alert] # None /\ alertRow[e.alert].status = "resolved")
          => e.state.status = "resolved"

\* Of two events of one alert the later one keeps a resolution.
InOrder(e, f) ==
    e.alert = f.alert /\ e.state.status = "resolved" => f.state.status = "resolved"

\* The queue and the retained event, which comes before it.
PendingInOrder ==
    /\ \A n \in 1..Len(alertQ) : Between(alertQ[n])
    /\ \A m, n \in 1..Len(alertQ) : m < n => InOrder(alertQ[m], alertQ[n])
    /\ alertRetry # None =>
         /\ Between(alertRetry)
         /\ \A n \in 1..Len(alertQ) : InOrder(alertRetry, alertQ[n])

\* No row is ahead of the alert the manager holds.
RowsBehind == Ledger!RowsLag

\* The inductive invariant of the refinement.
IInv == IInvType /\ DownIsEmpty /\ PendingInOrder /\ RowsBehind

-----------------------------------------------------------------------------
(* Types.                                                                  *)

\* What the manager holds of an alert is never mistaken for its absence.
LEMMA StatesAreNotNone == \A s \in AlertState : s # None
  BY NoneAssumption

\* A queued or a lost alert event leaves the queue well typed and bounded.
LEMMA EnqueueTypes ==
    ASSUME TypeOK, NEW a \in Alerts, NEW s \in AlertState,
           NotifyAndEnqueue(a, s)
    PROVE  /\ alertQ' \in Seq(AlertEvent) /\ Len(alertQ') <= AlertQueueSize
           /\ staleAlerts' \subseteq Alerts /\ alertsLost' \in BOOLEAN
<1>1. [alert |-> a, state |-> s] \in AlertEvent
  BY DEF AlertEvent
<1>2. AlertQueueSize \in Nat
  BY ConstantsAssumption
<1>3. CASE LoseAlert(a)
  BY <1>3 DEF LoseAlert, TypeOK
<1>4. CASE EnqueueAlert(a, s) /\ ~LoseAlert(a)
  <2>1. /\ Len(alertQ) < AlertQueueSize
        /\ alertQ' = Append(alertQ, [alert |-> a, state |-> s])
        /\ staleAlerts' = staleAlerts \ {a}
        /\ alertsLost' = alertsLost
    BY <1>4 DEF EnqueueAlert
  <2>2. /\ alertQ' \in Seq(AlertEvent) /\ Len(alertQ') <= AlertQueueSize
        /\ staleAlerts' \subseteq Alerts
    BY <1>1, <1>2, <2>1 DEF TypeOK
  <2> QED
    BY <2>1, <2>2 DEF TypeOK
<1> QED
  BY <1>3, <1>4 DEF NotifyAndEnqueue

\* The same for the queue of the incident events.
LEMMA EnqueueIncidentTypes ==
    ASSUME TypeOK, NEW e \in IncidentEvent, EnqueueIncident(e)
    PROVE  /\ incidentQ' \in Seq(IncidentEvent)
           /\ Len(incidentQ') <= IncidentQueueSize
           /\ staleIncidents' \subseteq Incidents /\ incidentsLost' \in BOOLEAN
<1>1. IncidentQueueSize \in Nat
  BY ConstantsAssumption
<1>2. e.incident \in Incidents
  BY DEF IncidentEvent
<1>3. CASE Len(incidentQ) < IncidentQueueSize
  <2>1. /\ incidentQ' = Append(incidentQ, e)
        /\ staleIncidents' = staleIncidents \ {e.incident}
        /\ incidentsLost' = incidentsLost
    BY <1>3 DEF EnqueueIncident
  <2>2. /\ incidentQ' \in Seq(IncidentEvent) /\ Len(incidentQ') <= IncidentQueueSize
        /\ staleIncidents' \subseteq Incidents
    BY <1>1, <1>3, <2>1 DEF TypeOK
  <2> QED
    BY <2>1, <2>2 DEF TypeOK
<1>4. CASE ~(Len(incidentQ) < IncidentQueueSize)
  BY <1>2, <1>4 DEF EnqueueIncident, TypeOK
<1> QED
  BY <1>3, <1>4

\* The item a worker is about to persist is an event, and taking it leaves
\* the rest of the queue.
LEMMA AlertItemTypes ==
    ASSUME TypeOK, AlertReady, TakeAlert
    PROVE  /\ AlertItem \in AlertEvent
           /\ alertQ' \in Seq(AlertEvent) /\ Len(alertQ') <= AlertQueueSize
<1>1. CASE alertRetry # None
  BY <1>1 DEF TypeOK, AlertItem, TakeAlert
<1>2. CASE alertRetry = None
  <2>1. alertQ # <<>> /\ alertQ \in Seq(AlertEvent) /\ AlertQueueSize \in Nat
    BY <1>2, ConstantsAssumption DEF AlertReady, TypeOK
  <2>2. /\ Head(alertQ) \in AlertEvent /\ Tail(alertQ) \in Seq(AlertEvent)
        /\ Len(Tail(alertQ)) <= Len(alertQ)
    BY <2>1
  <2> QED
    BY <1>2, <2>1, <2>2 DEF TypeOK, AlertItem, TakeAlert
<1> QED
  BY <1>1, <1>2

\* The event the worker of incidents takes is one of the queue.
LEMMA IncidentItemTypes ==
    ASSUME TypeOK, IncidentReady, TakeIncident
    PROVE  /\ IncidentItem \in IncidentEvent
           /\ incidentQ' \in Seq(IncidentEvent)
           /\ Len(incidentQ') <= IncidentQueueSize
<1>1. CASE incidentRetry # None
  BY <1>1 DEF TypeOK, IncidentItem, TakeIncident
<1>2. CASE incidentRetry = None
  <2>1. /\ incidentQ # <<>> /\ incidentQ \in Seq(IncidentEvent)
        /\ IncidentQueueSize \in Nat
    BY <1>2, ConstantsAssumption DEF IncidentReady, TypeOK
  <2>2. /\ Head(incidentQ) \in IncidentEvent /\ Tail(incidentQ) \in Seq(IncidentEvent)
        /\ Len(Tail(incidentQ)) <= Len(incidentQ)
    BY <2>1
  <2> QED
    BY <1>2, <2>1, <2>2 DEF TypeOK, IncidentItem, TakeIncident
<1> QED
  BY <1>1, <1>2

\* At first nothing exists.
LEMMA InitTypes == Init => IInvType
<1> SUFFICES ASSUME Init PROVE IInvType
  OBVIOUS
<1>1. /\ alertQ \in Seq(AlertEvent) /\ Len(alertQ) <= AlertQueueSize
      /\ incidentQ \in Seq(IncidentEvent) /\ Len(incidentQ) <= IncidentQueueSize
      /\ restarts \in 0..MaxRestarts
  BY ConstantsAssumption DEF Init
<1>2. alertsLost \in BOOLEAN /\ incidentsLost \in BOOLEAN
  BY DEF Init
<1> QED
  BY <1>1, <1>2 DEF Init, IInvType, TypeOK, ActiveKnown

\* The alert transitions of the manager keep the types, and with them that a
\* key of the active map names an alert the manager holds.
LEMMA CreateTypes ==
    ASSUME IInvType, NEW a \in Alerts, CreateAlert(a)
    PROVE  IInvType'
<1> DEFINE k == KeyOf[a]
           new == [status |-> "active", acked |-> FALSE]
<1>1. k \in Keys /\ HostOf[k] \in Hosts
  BY ConstantsAssumption
<1>2. new \in AlertState /\ new # None
  BY StatesAreNotNone DEF AlertState
<1>3. PICK i \in Incidents :
        /\ \/ Correlates(i, HostOf[k])
           \/ incident[i] = None /\ incidentRow[i] = None
        /\ incident' = [incident EXCEPT ![i] =
               IF @ = None THEN Opened(HostOf[k], a) ELSE Joined(@, a)]
        /\ EnqueueIncident(Snapshot(i, incident'[i], a))
  BY DEF CreateAlert
<1>4. incident'[i] \in IncidentState
  <2>1. incident'[i] = IF incident[i] = None THEN Opened(HostOf[k], a)
                       ELSE Joined(incident[i], a)
    BY <1>3 DEF IInvType, TypeOK
  <2>2. CASE incident[i] = None
    <3>1. incident'[i] = [status |-> "open", host |-> HostOf[k],
                          alerts |-> {a}, active |-> {a}]
      BY <2>1, <2>2 DEF Opened
    <3>2. "open" \in IncidentStatus
      BY DEF IncidentStatus
    <3> QED
      BY <1>1, <3>1, <3>2 DEF IncidentState
  <2>3. CASE incident[i] # None
    <3>1. incident[i] \in IncidentState
      BY <2>3 DEF IInvType, TypeOK
    <3>2. incident'[i] = [status |-> "open", host |-> incident[i].host,
                          alerts |-> incident[i].alerts \cup {a},
                          active |-> incident[i].active \cup {a}]
      BY <2>1, <2>3, <3>1 DEF Joined, IncidentState
    <3>3. "open" \in IncidentStatus
      BY DEF IncidentStatus
    <3> QED
      BY <3>1, <3>2, <3>3 DEF IncidentState
  <2> QED
    BY <2>2, <2>3
<1>5. incident' \in [Incidents -> IncidentState \cup {None}]
  BY <1>3, <1>4 DEF IInvType, TypeOK
<1>6. Snapshot(i, incident'[i], a) \in IncidentEvent
  BY <1>3, <1>4 DEF Snapshot, IncidentEvent, IncidentState, IncidentRow
<1>7. /\ incidentQ' \in Seq(IncidentEvent) /\ Len(incidentQ') <= IncidentQueueSize
      /\ staleIncidents' \subseteq Incidents /\ incidentsLost' \in BOOLEAN
  BY <1>3, <1>6, EnqueueIncidentTypes DEF IInvType
<1>8. NotifyAndEnqueue(a, new)
  BY DEF CreateAlert
<1>9. /\ alertQ' \in Seq(AlertEvent) /\ Len(alertQ') <= AlertQueueSize
      /\ staleAlerts' \subseteq Alerts /\ alertsLost' \in BOOLEAN
  BY <1>2, <1>8, EnqueueTypes DEF IInvType
<1>10. /\ alert' = [alert EXCEPT ![a] = new]
       /\ active' = [active EXCEPT ![k] = a]
       /\ UNCHANGED <<phase, acking, loaded, alertRetry, incidentRetry,
                      alertRow, incidentRow, links, hosts, rules, restarts>>
  BY DEF CreateAlert, dbVars
<1>11. /\ alert' \in [Alerts -> AlertState \cup {None}]
       /\ active' \in [Keys -> Alerts \cup {None}]
  BY <1>1, <1>2, <1>10 DEF IInvType, TypeOK
<1>12. TypeOK'
  BY <1>5, <1>7, <1>9, <1>10, <1>11 DEF IInvType, TypeOK
<1>13. ActiveKnown'
  <2> SUFFICES ASSUME NEW c \in Keys, active'[c] # None
               PROVE  alert'[active'[c]] # None
    BY DEF ActiveKnown
  <2>1. CASE c = k
    BY <1>1, <1>2, <1>10, <2>1 DEF IInvType, TypeOK
  <2>2. CASE c # k
    BY <1>2, <1>10, <2>2 DEF IInvType, TypeOK, ActiveKnown
  <2> QED
    BY <2>1, <2>2
<1> QED
  BY <1>12, <1>13 DEF IInvType

\* A resolution changes an alert the manager holds, by ActiveKnown.
LEMMA ResolveTypes ==
    ASSUME IInvType, NEW k \in Keys, ResolveAlert(k)
    PROVE  IInvType'
<1> DEFINE a == active[k]
           done == [alert[a] EXCEPT !.status = "resolved"]
           owners == {i \in Incidents : incident[i] # None /\ a \in incident[i].alerts}
<1>1. a \in Alerts /\ alert[a] \in AlertState
  BY DEF ResolveAlert, IInvType, TypeOK, ActiveKnown
<1>2. done \in AlertState /\ done # None
  BY <1>1, NoneAssumption DEF AlertState
<1>3. /\ incident' \in [Incidents -> IncidentState \cup {None}]
      /\ incidentQ' \in Seq(IncidentEvent) /\ Len(incidentQ') <= IncidentQueueSize
      /\ staleIncidents' \subseteq Incidents /\ incidentsLost' \in BOOLEAN
  <2>1. CASE UNCHANGED <<incident, incidentQ, staleIncidents, incidentsLost>>
    BY <2>1 DEF IInvType, TypeOK
  <2>2. ASSUME NEW i \in owners,
               incident' = [incident EXCEPT ![i] = Left(@, a)],
               EnqueueIncident(Snapshot(i, incident'[i], None))
        PROVE  <1>3
    <3>1. incident[i] \in IncidentState
      BY DEF IInvType, TypeOK
    <3>2. Left(incident[i], a) \in IncidentState
      BY <3>1 DEF Left, IncidentState, IncidentStatus
    <3>3. /\ incident'[i] \in IncidentState
          /\ incident' \in [Incidents -> IncidentState \cup {None}]
      BY <2>2, <3>2 DEF IInvType, TypeOK
    <3>4. Snapshot(i, incident'[i], None) \in IncidentEvent
      BY <3>3 DEF Snapshot, IncidentEvent, IncidentState, IncidentRow
    <3> QED
      BY <2>2, <3>3, <3>4, EnqueueIncidentTypes DEF IInvType
  <2> QED
    BY <2>1, <2>2 DEF ResolveAlert
<1>4. NotifyAndEnqueue(a, done)
  BY DEF ResolveAlert
<1>5. /\ alertQ' \in Seq(AlertEvent) /\ Len(alertQ') <= AlertQueueSize
      /\ staleAlerts' \subseteq Alerts /\ alertsLost' \in BOOLEAN
  BY <1>1, <1>2, <1>4, EnqueueTypes DEF IInvType
<1>6. /\ alert' = [alert EXCEPT ![a] = done]
      /\ active' = [active EXCEPT ![k] = None]
      /\ UNCHANGED <<phase, acking, loaded, alertRetry, incidentRetry,
                     alertRow, incidentRow, links, hosts, rules, restarts>>
  BY DEF ResolveAlert, dbVars
<1>7. /\ alert' \in [Alerts -> AlertState \cup {None}]
      /\ active' \in [Keys -> Alerts \cup {None}]
  BY <1>1, <1>2, <1>6 DEF IInvType, TypeOK
<1>8. TypeOK'
  BY <1>3, <1>5, <1>6, <1>7 DEF IInvType, TypeOK
<1>9. ActiveKnown'
  BY <1>1, <1>2, <1>6 DEF IInvType, TypeOK, ActiveKnown
<1> QED
  BY <1>8, <1>9 DEF IInvType

\* An acknowledgement sets a flag of the row, of the alert, or of both.
LEMMA AcknowledgeTypes ==
    ASSUME IInvType, NEW a \in Alerts, AcknowledgeAlert(a)
    PROVE  IInvType'
<1>1. UNCHANGED <<phase, active, incident, acking, loaded, alertRetry,
                  incidentQ, incidentRetry, incidentRow, links, hosts, rules,
                  restarts, staleIncidents, incidentsLost>>
  BY DEF AcknowledgeAlert
<1>2. alertRow' \in [Alerts -> AlertState \cup {None}]
  <2>1. CASE alertRow[a] = None
    BY <2>1 DEF AcknowledgeAlert, IInvType, TypeOK
  <2>2. CASE alertRow[a] # None
    <3>1. [alertRow[a] EXCEPT !.acked = TRUE] \in AlertState
      BY <2>2 DEF IInvType, TypeOK, AlertState
    <3>2. alertRow' = [alertRow EXCEPT ![a] = [alertRow[a] EXCEPT !.acked = TRUE]]
      BY <2>2 DEF AcknowledgeAlert
    <3> QED
      BY <3>1, <3>2 DEF IInvType, TypeOK
  <2> QED
    BY <2>1, <2>2
<1>3. CASE alert[a] # None /\ ~alert[a].acked
  <2> DEFINE s == [alert[a] EXCEPT !.acked = TRUE]
  <2>1. s \in AlertState /\ s # None
    <3>1. alert[a] \in AlertState
      BY <1>3 DEF IInvType, TypeOK
    <3> QED
      BY <3>1, StatesAreNotNone DEF AlertState
  <2>2. /\ alert' = [alert EXCEPT ![a] = s]
        /\ EnqueueAlert(a, s)
    BY <1>3 DEF AcknowledgeAlert
  <2>3. /\ alertQ' \in Seq(AlertEvent) /\ Len(alertQ') <= AlertQueueSize
        /\ staleAlerts' \subseteq Alerts /\ alertsLost' \in BOOLEAN
    BY <2>1, <2>2, EnqueueTypes DEF IInvType, NotifyAndEnqueue
  <2>4. TypeOK'
    BY <1>1, <1>2, <2>1, <2>2, <2>3 DEF IInvType, TypeOK
  <2>5. ActiveKnown'
    BY <1>1, <2>1, <2>2 DEF IInvType, TypeOK, ActiveKnown
  <2> QED
    BY <2>4, <2>5 DEF IInvType
<1>4. CASE ~(alert[a] # None /\ ~alert[a].acked)
  <2>1. UNCHANGED <<alert, alertQ, staleAlerts, alertsLost>>
    BY <1>4 DEF AcknowledgeAlert
  <2> QED
    BY <1>1, <1>2, <2>1 DEF IInvType, TypeOK, ActiveKnown
<1> QED
  BY <1>3, <1>4

\* The thread that acknowledges an incident, its two halves.
LEMMA AcknowledgeIncidentTypes ==
    ASSUME IInvType, NEW i \in Incidents, AcknowledgeIncident(i)
    PROVE  IInvType'
<1> DEFINE s == [incident[i] EXCEPT !.status = "acknowledged"]
<1>1. incident[i] \in IncidentState
  BY DEF AcknowledgeIncident, IInvType, TypeOK
<1>2. s \in IncidentState
  <2>1. "acknowledged" \in IncidentStatus
    BY DEF IncidentStatus
  <2> QED
    BY <1>1, <2>1 DEF IncidentState
<1>3. incident' = [incident EXCEPT ![i] = s] /\ incident'[i] = s
  BY DEF AcknowledgeIncident, IInvType, TypeOK
<1>4. acking' \in IncidentEvent
  BY <1>2, <1>3 DEF AcknowledgeIncident, Snapshot, IncidentEvent, IncidentState,
                    IncidentRow
<1>5. UNCHANGED <<phase, alert, active, loaded, alertQ, alertRetry, incidentQ,
                  incidentRetry, alertRow, incidentRow, links, hosts, rules,
                  restarts, staleAlerts, staleIncidents, alertsLost, incidentsLost>>
  BY DEF AcknowledgeIncident, queueVars, dbVars, ghostVars
<1> QED
  BY <1>2, <1>3, <1>4, <1>5 DEF IInvType, TypeOK, ActiveKnown

\* The snapshot of a request thread is an event.
LEMMA EnqueueAcknowledgedTypes ==
    ASSUME IInvType, EnqueueAcknowledged
    PROVE  IInvType'
<1>1. acking \in IncidentEvent
  BY DEF EnqueueAcknowledged, IInvType, TypeOK
<1>2. /\ incidentQ' \in Seq(IncidentEvent) /\ Len(incidentQ') <= IncidentQueueSize
      /\ staleIncidents' \subseteq Incidents /\ incidentsLost' \in BOOLEAN
  BY <1>1, EnqueueIncidentTypes DEF EnqueueAcknowledged, IInvType
<1>3. /\ acking' = None
      /\ UNCHANGED <<phase, alert, active, incident, loaded, alertQ, alertRetry,
                     incidentRetry, alertRow, incidentRow, links, hosts, rules,
                     restarts, staleAlerts, alertsLost>>
  BY DEF EnqueueAcknowledged, dbVars
<1> QED
  BY <1>2, <1>3 DEF IInvType, TypeOK, ActiveKnown

\* The workers.
LEMMA PersistAlertTypes ==
    ASSUME IInvType, PersistAlert
    PROVE  IInvType'
<1>1. /\ AlertItem \in AlertEvent
      /\ alertQ' \in Seq(AlertEvent) /\ Len(alertQ') <= AlertQueueSize
  BY AlertItemTypes DEF PersistAlert, IInvType
<1>2. AlertUpsert(AlertItem) \in AlertState
  <2>1. alertRow[AlertItem.alert] \in AlertState \cup {None}
    BY <1>1 DEF IInvType, TypeOK, AlertEvent
  <2> QED
    BY <1>1, <2>1 DEF AlertUpsert, AlertEvent, AlertState
<1>3. alertRow' \in [Alerts -> AlertState \cup {None}]
  BY <1>2 DEF PersistAlert, IInvType, TypeOK
<1>4. /\ alertRetry' = None
      /\ UNCHANGED <<phase, alert, active, incident, acking, loaded, incidentQ,
                     incidentRetry, incidentRow, links, hosts, rules, restarts,
                     staleAlerts, staleIncidents, alertsLost, incidentsLost>>
  BY DEF PersistAlert, memoryVars, ghostVars
<1> QED
  BY <1>1, <1>3, <1>4 DEF IInvType, TypeOK, ActiveKnown

\* A failure retains the event it took.
LEMMA PersistAlertFailsTypes ==
    ASSUME IInvType, PersistAlertFails
    PROVE  IInvType'
<1>1. /\ AlertItem \in AlertEvent
      /\ alertQ' \in Seq(AlertEvent) /\ Len(alertQ') <= AlertQueueSize
  BY AlertItemTypes DEF PersistAlertFails, IInvType
<1>2. /\ alertRetry' = AlertItem
      /\ UNCHANGED <<phase, alert, active, incident, acking, loaded, incidentQ,
                     incidentRetry, alertRow, incidentRow, links, hosts, rules,
                     restarts, staleAlerts, staleIncidents, alertsLost,
                     incidentsLost>>
  BY DEF PersistAlertFails, memoryVars, dbVars, ghostVars
<1> QED
  BY <1>1, <1>2 DEF IInvType, TypeOK, ActiveKnown

\* A persisted snapshot becomes the row, and its alert a link.
LEMMA PersistIncidentTypes ==
    ASSUME IInvType, PersistIncident
    PROVE  IInvType'
<1> DEFINE e == IncidentItem
<1>1. /\ e \in IncidentEvent
      /\ incidentQ' \in Seq(IncidentEvent) /\ Len(incidentQ') <= IncidentQueueSize
  BY IncidentItemTypes DEF PersistIncident, IInvType
<1>2. /\ e.incident \in Incidents /\ e.row \in IncidentRow
      /\ e.alert \in Alerts \cup {None}
  BY <1>1 DEF IncidentEvent
<1>3. incidentRow' \in [Incidents -> IncidentRow \cup {None}]
  BY <1>2 DEF PersistIncident, IInvType, TypeOK
<1>4. links' \subseteq Incidents \X Alerts
  BY <1>2 DEF PersistIncident, IInvType, TypeOK
<1>5. /\ incidentRetry' = None
      /\ UNCHANGED <<phase, alert, active, incident, acking, loaded, alertQ,
                     alertRetry, alertRow, hosts, rules, restarts,
                     staleAlerts, staleIncidents, alertsLost, incidentsLost>>
  BY DEF PersistIncident, memoryVars, ghostVars
<1> QED
  BY <1>1, <1>3, <1>4, <1>5 DEF IInvType, TypeOK, ActiveKnown

\* A failure retains the snapshot it took.
LEMMA PersistIncidentFailsTypes ==
    ASSUME IInvType, PersistIncidentFails
    PROVE  IInvType'
<1>1. /\ IncidentItem \in IncidentEvent
      /\ incidentQ' \in Seq(IncidentEvent) /\ Len(incidentQ') <= IncidentQueueSize
  BY IncidentItemTypes DEF PersistIncidentFails, IInvType
<1>2. /\ incidentRetry' = IncidentItem
      /\ UNCHANGED <<phase, alert, active, incident, acking, loaded, alertQ,
                     alertRetry, alertRow, incidentRow, links, hosts, rules,
                     restarts, staleAlerts, staleIncidents, alertsLost,
                     incidentsLost>>
  BY DEF PersistIncidentFails, memoryVars, dbVars, ghostVars
<1> QED
  BY <1>1, <1>2 DEF IInvType, TypeOK, ActiveKnown

\* Administration.
LEMMA AdministrationTypes ==
    ASSUME IInvType,
           \/ \E h \in Hosts : DeleteHost(h)
           \/ \E k \in Keys : DeleteRule(k)
           \/ ReloadRules
    PROVE  IInvType'
<1>1. ASSUME NEW h \in Hosts, DeleteHost(h) PROVE IInvType'
  <2>1. incidentRow' \in [Incidents -> IncidentRow \cup {None}]
    <3> SUFFICES ASSUME NEW i \in Incidents, incidentRow[i] # None,
                        incidentRow[i].host = h
                 PROVE  [incidentRow[i] EXCEPT !.host = None] \in IncidentRow
      BY <1>1 DEF DeleteHost, IInvType, TypeOK
    <3>1. incidentRow[i] \in IncidentRow
      BY DEF IInvType, TypeOK
    <3> QED
      BY <3>1 DEF IncidentRow
  <2>2. /\ hosts' = hosts \ {h}
        /\ UNCHANGED <<phase, alert, active, incident, acking, loaded, alertQ,
                       alertRetry, incidentQ, incidentRetry, alertRow, links,
                       rules, restarts, staleAlerts, staleIncidents,
                       alertsLost, incidentsLost>>
    BY <1>1 DEF DeleteHost, memoryVars, queueVars, ghostVars
  <2> QED
    BY <2>1, <2>2 DEF IInvType, TypeOK, ActiveKnown
<1>2. ASSUME NEW k \in Keys, DeleteRule(k) PROVE IInvType'
  BY <1>2 DEF DeleteRule, memoryVars, queueVars, ghostVars, IInvType, TypeOK,
              ActiveKnown
<1>3. CASE ReloadRules
  BY <1>3 DEF ReloadRules, queueVars, dbVars, ghostVars, IInvType, TypeOK,
              ActiveKnown
<1> QED
  BY <1>1, <1>2, <1>3

\* The process: a shutdown, the end of the process, a restart.
LEMMA ShutdownTypes ==
    ASSUME IInvType, Shutdown \/ StopAlertPersistence
    PROVE  IInvType'
<1>1. CASE Shutdown
  BY <1>1 DEF Shutdown, memoryVars, queueVars, dbVars, ghostVars, IInvType,
              TypeOK, ActiveKnown
<1>2. CASE StopAlertPersistence
  <2>1. PendingAlerts \subseteq Alerts
    <3>1. \A n \in DOMAIN alertQ : alertQ[n].alert \in Alerts
      <4>1. alertQ \in Seq(AlertEvent)
        BY DEF IInvType, TypeOK
      <4>2. \A n \in DOMAIN alertQ : alertQ[n] \in AlertEvent
        BY <4>1
      <4> QED
        BY <4>2 DEF AlertEvent
    <3>2. alertRetry # None => alertRetry.alert \in Alerts
      BY DEF IInvType, TypeOK, AlertEvent
    <3> QED
      BY <3>1, <3>2 DEF PendingAlerts
  <2>2. alertQ' \in Seq(AlertEvent) /\ Len(alertQ') <= AlertQueueSize
    BY <1>2, ConstantsAssumption DEF StopAlertPersistence
  <2>3. /\ phase' = "drainIncidents" /\ alertRetry' = None
        /\ staleAlerts' = staleAlerts \cup PendingAlerts
        /\ UNCHANGED <<alert, active, incident, acking, loaded, incidentQ,
                       incidentRetry, alertRow, incidentRow, links, hosts,
                       rules, restarts, staleIncidents, alertsLost,
                       incidentsLost>>
    BY <1>2 DEF StopAlertPersistence, memoryVars, dbVars
  <2> QED
    BY <2>1, <2>2, <2>3 DEF IInvType, TypeOK, ActiveKnown
<1> QED
  BY <1>1, <1>2

\* A process that ends leaves only the tables.
LEMMA StoppedTypes ==
    ASSUME IInvType, Stopped
    PROVE  IInvType'
<1>1. /\ alertQ' \in Seq(AlertEvent) /\ Len(alertQ') <= AlertQueueSize
      /\ incidentQ' \in Seq(IncidentEvent) /\ Len(incidentQ') <= IncidentQueueSize
  BY ConstantsAssumption DEF Stopped
<1>2. /\ phase' = "down"
      /\ alertRetry' = None /\ incidentRetry' = None
      /\ staleAlerts' = {} /\ staleIncidents' = {}
      /\ alert' = [a \in Alerts |-> None]
      /\ active' = [k \in Keys |-> None]
      /\ incident' = [i \in Incidents |-> None]
      /\ acking' = None
      /\ loaded' = {}
      /\ UNCHANGED <<alertRow, incidentRow, links, hosts, rules, restarts,
                     alertsLost, incidentsLost>>
  BY DEF Stopped, NoMemory, dbVars
<1> QED
  BY <1>1, <1>2 DEF IInvType, TypeOK, ActiveKnown

\* A new process holds what it read from the tables.
LEMMA RestartTypes ==
    ASSUME IInvType, Restart
    PROVE  IInvType'
<1>1. alert' \in [Alerts -> AlertState \cup {None}]
  BY DEF Restart, IInvType, TypeOK
<1>2. /\ active' \in [Keys -> Alerts \cup {None}]
      /\ \A k \in Keys : active'[k] # None => active'[k] \in ActiveRows
  BY DEF Restart, ActiveRows
<1>3. incident' \in [Incidents -> IncidentState \cup {None}]
  <2> SUFFICES ASSUME NEW i \in Incidents
               PROVE  RestoredIncident(i) \in IncidentState \cup {None}
    BY DEF Restart
  <2>1. CASE incidentRow[i] = None
    BY <2>1 DEF RestoredIncident
  <2>2. CASE incidentRow[i] # None
    <3> DEFINE linked == {a \in Alerts : <<i, a>> \in links}
    <3>1. /\ incidentRow[i].status \in IncidentStatus
          /\ incidentRow[i].host \in Hosts \cup {None}
      BY <2>2 DEF IInvType, TypeOK, IncidentRow
    <3>2. RestoredIncident(i) =
            [status |-> incidentRow[i].status, host |-> incidentRow[i].host,
             alerts |-> linked, active |-> linked \cap ActiveRows]
      BY <2>2 DEF RestoredIncident
    <3>3. linked \subseteq Alerts /\ linked \cap ActiveRows \subseteq Alerts
      OBVIOUS
    <3> QED
      BY <3>1, <3>2, <3>3 DEF IncidentState
  <2> QED
    BY <2>1, <2>2
<1>4. restarts' \in 0..MaxRestarts
  BY ConstantsAssumption DEF Restart, IInvType, TypeOK
<1>5. /\ phase' = "up" /\ acking' = None /\ loaded' = rules
      /\ UNCHANGED <<alertQ, alertRetry, incidentQ, incidentRetry, alertRow,
                     incidentRow, links, hosts, rules, staleAlerts,
                     staleIncidents, alertsLost, incidentsLost>>
  BY DEF Restart, queueVars, dbVars, ghostVars
<1>6. TypeOK'
  BY <1>1, <1>2, <1>3, <1>4, <1>5 DEF IInvType, TypeOK
<1>7. ActiveKnown'
  BY <1>2, NoneAssumption DEF ActiveKnown, Restart, ActiveRows
<1> QED
  BY <1>6, <1>7 DEF IInvType

\* Every step keeps the types.
LEMMA TypesAreInductive == IInvType /\ [Next]_vars => IInvType'
<1> SUFFICES ASSUME IInvType, [Next]_vars PROVE IInvType'
  OBVIOUS
<1>1. CASE UNCHANGED vars
  BY <1>1 DEF vars, memoryVars, queueVars, dbVars, ghostVars, IInvType, TypeOK,
              ActiveKnown
<1>2. CASE \E a \in Alerts : CreateAlert(a) \/ AcknowledgeAlert(a)
  BY <1>2, CreateTypes, AcknowledgeTypes
<1>3. CASE \E k \in Keys : ResolveAlert(k) \/ DeleteRule(k)
  BY <1>3, ResolveTypes, AdministrationTypes
<1>4. CASE \E i \in Incidents : AcknowledgeIncident(i)
  BY <1>4, AcknowledgeIncidentTypes
<1>5. CASE EnqueueAcknowledged
  BY <1>5, EnqueueAcknowledgedTypes
<1>6. CASE PersistAlert \/ PersistAlertFails
  BY <1>6, PersistAlertTypes, PersistAlertFailsTypes
<1>7. CASE PersistIncident \/ PersistIncidentFails
  BY <1>7, PersistIncidentTypes, PersistIncidentFailsTypes
<1>8. CASE (\E h \in Hosts : DeleteHost(h)) \/ ReloadRules
  BY <1>8, AdministrationTypes
<1>9. CASE Shutdown \/ StopAlertPersistence
  BY <1>9, ShutdownTypes
<1>10. CASE StopIncidentPersistence \/ Crash
  BY <1>10, StoppedTypes DEF StopIncidentPersistence, Crash
<1>11. CASE Restart
  BY <1>11, RestartTypes
<1> QED
  BY <1>1, <1>2, <1>3, <1>4, <1>5, <1>6, <1>7, <1>8, <1>9, <1>10, <1>11 DEF Next

\* Type correctness of every instance: in particular neither queue ever holds
\* more than its max_queue_size, whatever the interleaving.
THEOREM TypeCorrect == Spec => []TypeOK
<1>1. IInvType => TypeOK
  BY DEF IInvType
<1> QED
  BY <1>1, InitTypes, TypesAreInductive, PTL DEF Spec

-----------------------------------------------------------------------------
(* The rows never run ahead.                                               *)

\* Every step but the end of the process only adds to what the manager knows.
Grows ==
    \A b \in Alerts : alert[b] # None => Ledger!Precedes(alert[b], alert'[b])

\* The step makes no row resolved.
ResolvesNoRow ==
    \A b \in Alerts :
        alertRow'[b] # None /\ alertRow'[b].status = "resolved"
            => alertRow[b] # None /\ alertRow[b].status = "resolved"

\* A pending event stays in its bounds when the manager learns more.
LEMMA BetweenKept ==
    ASSUME NEW e \in AlertEvent, Between(e), Grows, ResolvesNoRow
    PROVE  Between(e)'
<1>1. e.alert \in Alerts /\ e.state # None
  BY StatesAreNotNone DEF AlertEvent
<1>2. /\ alert[e.alert] # None
      /\ Ledger!Precedes(e.state, alert[e.alert])
      /\ Ledger!Precedes(alert[e.alert], alert'[e.alert])
  BY <1>1 DEF Between, Grows
<1>3. Ledger!Precedes(e.state, alert'[e.alert]) /\ alert'[e.alert] # None
  BY <1>1, <1>2 DEF Ledger!Precedes
<1> QED
  BY <1>1, <1>3 DEF Between, ResolvesNoRow

\* Every pending event is an event.
LEMMA PendingTypes ==
    ASSUME TypeOK
    PROVE  /\ \A n \in 1..Len(alertQ) : alertQ[n] \in AlertEvent
           /\ alertRetry # None => alertRetry \in AlertEvent
  BY DEF TypeOK

\* A step that leaves the queue alone keeps its order.
LEMMA OrderKept ==
    ASSUME IInv, Grows, ResolvesNoRow, UNCHANGED <<alertQ, alertRetry>>
    PROVE  PendingInOrder'
<1>1. /\ \A n \in 1..Len(alertQ) : alertQ[n] \in AlertEvent /\ Between(alertQ[n])
      /\ alertRetry # None => alertRetry \in AlertEvent /\ Between(alertRetry)
  BY PendingTypes DEF IInv, IInvType, PendingInOrder
<1>2. /\ \A n \in 1..Len(alertQ) : Between(alertQ[n])'
      /\ alertRetry # None => Between(alertRetry)'
  <2>1. \A e \in AlertEvent : Between(e) => Between(e)'
    BY BetweenKept
  <2>2. \A e \in AlertEvent : Between(e)' <=>
          /\ alert'[e.alert] # None
          /\ Ledger!Precedes(e.state, alert'[e.alert])
          /\ (alertRow'[e.alert] # None /\ alertRow'[e.alert].status = "resolved")
                => e.state.status = "resolved"
    BY DEF Between
  <2> QED
    BY <1>1, <2>1, <2>2 DEF Between
<1> QED
  BY <1>2 DEF IInv, PendingInOrder, InOrder

\* A change of alert a that is queued behind the pending events, or lost.
LEMMA LearnKeepsOrder ==
    ASSUME IInv, NEW a \in Alerts, NEW s \in AlertState, NotifyAndEnqueue(a, s),
           alert' = [alert EXCEPT ![a] = s], UNCHANGED alertRetry,
           Ledger!Precedes(alert[a], s), Ledger!Precedes(alertRow[a], s),
           ResolvesNoRow
    PROVE  PendingInOrder'
<1> DEFINE new == [alert |-> a, state |-> s]
<1>1. new \in AlertEvent /\ s # None
  BY StatesAreNotNone DEF AlertEvent
<1>2. Grows
  <2> SUFFICES ASSUME NEW b \in Alerts, alert[b] # None
               PROVE  Ledger!Precedes(alert[b], alert'[b])
    BY DEF Grows
  <2>1. CASE b = a
    BY <2>1 DEF IInv, IInvType, TypeOK
  <2>2. CASE b # a
    BY <2>2 DEF IInv, IInvType, TypeOK, Ledger!Precedes
  <2> QED
    BY <2>1, <2>2
<1>3. CASE UNCHANGED alertQ
  BY <1>2, <1>3, OrderKept
<1>4. CASE alertQ' = Append(alertQ, new)
  <2> DEFINE len == Len(alertQ)
  <2>1. alertQ \in Seq(AlertEvent) /\ len \in Nat
    BY DEF IInv, IInvType, TypeOK
  <2>2. /\ Len(alertQ') = len + 1
        /\ \A n \in 1..len : alertQ'[n] = alertQ[n]
        /\ alertQ'[len + 1] = new
    BY <1>1, <1>4, <2>1
  <2>3. \A e \in AlertEvent : Between(e) => Between(e)'
    BY <1>2, BetweenKept
  <2>4. \A n \in 1..len : /\ alertQ[n] \in AlertEvent
                          /\ Between(alertQ[n])
                          /\ InOrder(alertQ[n], new)
    <3> SUFFICES ASSUME NEW n \in 1..len
                 PROVE  /\ alertQ[n] \in AlertEvent
                        /\ Between(alertQ[n])
                        /\ InOrder(alertQ[n], new)
      OBVIOUS
    <3>1. alertQ[n] \in AlertEvent /\ Between(alertQ[n])
      BY PendingTypes DEF IInv, IInvType, PendingInOrder
    <3>2. alertQ[n].state # None
      BY <3>1, StatesAreNotNone DEF AlertEvent
    <3> QED
      BY <3>1, <3>2 DEF Between, InOrder, Ledger!Precedes
  <2>5. alertRetry # None => /\ alertRetry \in AlertEvent
                             /\ Between(alertRetry)
                             /\ InOrder(alertRetry, new)
    <3> SUFFICES ASSUME alertRetry # None
                 PROVE  /\ alertRetry \in AlertEvent
                        /\ Between(alertRetry)
                        /\ InOrder(alertRetry, new)
      OBVIOUS
    <3>1. alertRetry \in AlertEvent /\ Between(alertRetry)
      BY PendingTypes DEF IInv, IInvType, PendingInOrder
    <3>2. alertRetry.state # None
      BY <3>1, StatesAreNotNone DEF AlertEvent
    <3> QED
      BY <3>1, <3>2 DEF Between, InOrder, Ledger!Precedes
  <2>6. Between(new)'
    <3>1. alert'[a] = s
      BY DEF IInv, IInvType, TypeOK
    <3>2. Ledger!Precedes(s, s)
      BY <1>1 DEF Ledger!Precedes
    <3>3. alertRow'[a] # None /\ alertRow'[a].status = "resolved"
            => s.status = "resolved"
      BY DEF ResolvesNoRow, Ledger!Precedes
    <3> QED
      BY <1>1, <3>1, <3>2, <3>3 DEF Between
  <2>7. \A n \in 1..Len(alertQ') : Between(alertQ[n])'
    <3> SUFFICES ASSUME NEW n \in 1..Len(alertQ') PROVE Between(alertQ[n])'
      OBVIOUS
    <3>1. CASE n = len + 1
      <4>1. alertQ'[n] = new
        BY <2>2, <3>1
      <4> QED
        BY <2>6, <4>1 DEF Between
    <3>2. CASE n # len + 1
      <4>1. n \in 1..len
        BY <2>1, <2>2, <3>2
      <4>2. alertQ'[n] = alertQ[n]
        BY <2>2, <4>1
      <4>3. Between(alertQ[n]) /\ alertQ[n] \in AlertEvent
        BY <2>4, <4>1
      <4> HIDE DEF len
      <4>4. \A e \in AlertEvent : Between(e) =>
              /\ alert'[e.alert] # None
              /\ Ledger!Precedes(e.state, alert'[e.alert])
              /\ (alertRow'[e.alert] # None /\ alertRow'[e.alert].status = "resolved")
                    => e.state.status = "resolved"
        BY <2>3 DEF Between
      <4> QED
        BY <4>2, <4>3, <4>4 DEF Between
    <3> QED
      BY <3>1, <3>2
  <2>8. \A m, n \in 1..Len(alertQ') : m < n => InOrder(alertQ'[m], alertQ'[n])
    <3> SUFFICES ASSUME NEW m \in 1..Len(alertQ'), NEW n \in 1..Len(alertQ'), m < n
                 PROVE  InOrder(alertQ'[m], alertQ'[n])
      OBVIOUS
    <3>1. m \in 1..len /\ alertQ'[m] = alertQ[m]
      BY <2>1, <2>2
    <3>2. CASE n = len + 1
      BY <2>2, <2>4, <3>1, <3>2
    <3>3. CASE n # len + 1
      <4>1. n \in 1..len /\ alertQ'[n] = alertQ[n]
        BY <2>1, <2>2, <3>3
      <4> QED
        BY <3>1, <4>1 DEF IInv, PendingInOrder
    <3> QED
      BY <3>2, <3>3
  <2>9. alertRetry # None =>
          /\ Between(alertRetry)'
          /\ \A n \in 1..Len(alertQ') : InOrder(alertRetry, alertQ'[n])
    <3>1. alertRetry # None => Between(alertRetry)'
      <4>1. \A e \in AlertEvent : Between(e) =>
              /\ alert'[e.alert] # None
              /\ Ledger!Precedes(e.state, alert'[e.alert])
              /\ (alertRow'[e.alert] # None /\ alertRow'[e.alert].status = "resolved")
                    => e.state.status = "resolved"
        BY <2>3 DEF Between
      <4> QED
        BY <2>5, <4>1 DEF Between
    <3>2. ASSUME alertRetry # None, NEW n \in 1..Len(alertQ')
          PROVE  InOrder(alertRetry, alertQ'[n])
      <4>1. CASE n = len + 1
        BY <2>2, <2>5, <3>2, <4>1
      <4>2. CASE n # len + 1
        <5>1. n \in 1..len /\ alertQ'[n] = alertQ[n]
          BY <2>1, <2>2, <4>2
        <5> QED
          BY <3>2, <5>1 DEF IInv, PendingInOrder
      <4> QED
        BY <4>1, <4>2
    <3> QED
      BY <3>1, <3>2
  <2> QED
    BY <2>7, <2>8, <2>9 DEF PendingInOrder, InOrder
<1> QED
  BY <1>3, <1>4 DEF NotifyAndEnqueue, EnqueueAlert, LoseAlert

\* What the worker takes is in bounds, and so is what it leaves, in order.
LEMMA TakeKeepsOrder ==
    ASSUME IInv, AlertReady, TakeAlert
    PROVE  /\ AlertItem \in AlertEvent /\ Between(AlertItem)
           /\ \A n \in 1..Len(alertQ') :
                /\ alertQ'[n] \in AlertEvent /\ Between(alertQ'[n])
                /\ InOrder(AlertItem, alertQ'[n])
           /\ \A m, n \in 1..Len(alertQ') : m < n => InOrder(alertQ'[m], alertQ'[n])
<1>1. CASE alertRetry # None
  <2>1. AlertItem = alertRetry /\ alertQ' = alertQ
    BY <1>1 DEF AlertItem, TakeAlert
  <2> QED
    BY <1>1, <2>1, PendingTypes DEF IInv, IInvType, PendingInOrder
<1>2. CASE alertRetry = None
  <2>1. AlertItem = Head(alertQ) /\ alertQ' = Tail(alertQ) /\ alertQ # <<>>
    BY <1>2 DEF AlertItem, TakeAlert, AlertReady
  <2>2. alertQ \in Seq(AlertEvent)
    BY DEF IInv, IInvType, TypeOK
  <2>3. /\ 1 \in 1..Len(alertQ) /\ AlertItem = alertQ[1]
        /\ \A n \in 1..Len(alertQ') :
             n + 1 \in 1..Len(alertQ) /\ alertQ'[n] = alertQ[n + 1] /\ 1 < n + 1
        /\ \A m, n \in 1..Len(alertQ') : m < n => m + 1 < n + 1
    BY <2>1, <2>2
  <2> QED
    BY <2>3, PendingTypes DEF IInv, IInvType, PendingInOrder
<1> QED
  BY <1>1, <1>2

\* A record of an alert precedes itself.
LEMMA PrecedesItself ==
    \A s \in AlertState \cup {None} : Ledger!Precedes(s, s)
  BY DEF Ledger!Precedes

\* The new state of one alert keeps the rows behind.
LEMMA LearnKeepsRowsBehind ==
    ASSUME IInv, NEW a \in Alerts, NEW s \in AlertState,
           alert' = [alert EXCEPT ![a] = s],
           Ledger!Precedes(alertRow'[a], s),
           \A b \in Alerts \ {a} : alertRow'[b] = alertRow[b]
    PROVE  RowsBehind'
<1> SUFFICES ASSUME NEW b \in Alerts, alert'[b] # None
             PROVE  Ledger!Precedes(alertRow'[b], alert'[b])
  BY DEF RowsBehind, Ledger!RowsLag, Ledger!Precedes
<1>1. CASE b = a
  BY <1>1 DEF IInv, IInvType, TypeOK
<1>2. CASE b # a
  BY <1>2 DEF IInv, IInvType, TypeOK, RowsBehind, Ledger!RowsLag
<1> QED
  BY <1>1, <1>2

\* What a step owes the invariant beyond its types, and what it is for the
\* ledger.
Kept == DownIsEmpty' /\ PendingInOrder' /\ RowsBehind' /\ [Ledger!Next]_(Ledger!vars)

\* A step that changes neither the alerts, nor their rows, nor the queue.
LEMMA OtherSteps ==
    ASSUME IInv, UNCHANGED <<alert, alertRow, alertQ, alertRetry>>,
           phase' = "down" => phase = "down"
    PROVE  Kept
<1>1. Grows /\ ResolvesNoRow
  BY PrecedesItself DEF Grows, ResolvesNoRow, IInv, IInvType, TypeOK
<1>2. PendingInOrder'
  BY <1>1, OrderKept
<1>3. DownIsEmpty'
  BY DEF IInv, DownIsEmpty
<1>4. RowsBehind'
  BY DEF IInv, RowsBehind, Ledger!RowsLag, Ledger!Precedes
<1>5. UNCHANGED Ledger!vars
  BY DEF Ledger!vars
<1> QED
  BY <1>2, <1>3, <1>4, <1>5 DEF Kept

\* A creation is something the ledger learns.
LEMMA CreateKept ==
    ASSUME IInv, NEW a \in Alerts, CreateAlert(a)
    PROVE  Kept
<1> DEFINE new == [status |-> "active", acked |-> FALSE]
<1>1. /\ phase = "up" /\ phase' = phase
      /\ alert[a] = None /\ alertRow[a] = None
      /\ alert' = [alert EXCEPT ![a] = new]
      /\ NotifyAndEnqueue(a, new)
      /\ UNCHANGED <<alertRetry, alertRow>>
  BY DEF CreateAlert, dbVars
<1>2. new \in AlertState
  BY DEF AlertState
<1>3. Ledger!Precedes(None, new)
  BY DEF Ledger!Precedes
<1>4. PendingInOrder'
  <2>1. ResolvesNoRow
    BY <1>1 DEF ResolvesNoRow
  <2> QED
    BY <1>1, <1>2, <1>3, <2>1, LearnKeepsOrder
<1>5. RowsBehind'
  BY <1>1, <1>2, <1>3, LearnKeepsRowsBehind
<1>6. Ledger!Learn(a)
  <2>1. new \in Ledger!State
    BY DEF Ledger!State
  <2> QED
    BY <1>1, <1>3, <2>1 DEF Ledger!Learn
<1> QED
  BY <1>1, <1>4, <1>5, <1>6 DEF Kept, DownIsEmpty, Ledger!Next

\* So is a resolution.
LEMMA ResolveKept ==
    ASSUME IInv, NEW k \in Keys, ResolveAlert(k)
    PROVE  Kept
<1> DEFINE a == active[k]
           done == [alert[a] EXCEPT !.status = "resolved"]
<1>1. /\ phase = "up" /\ phase' = phase
      /\ alert' = [alert EXCEPT ![a] = done]
      /\ NotifyAndEnqueue(a, done)
      /\ UNCHANGED <<alertRetry, alertRow>>
  BY DEF ResolveAlert, dbVars
<1>2. a \in Alerts /\ alert[a] # None /\ alert[a] \in AlertState
  BY DEF ResolveAlert, IInv, IInvType, TypeOK, ActiveKnown
<1>3. /\ done \in AlertState
      /\ done.status = "resolved" /\ done.acked = alert[a].acked
  BY <1>2 DEF AlertState
<1>4. done # None
  BY <1>3, StatesAreNotNone
<1>5. Ledger!Precedes(alert[a], done)
  BY <1>3, <1>4 DEF Ledger!Precedes
<1>6. Ledger!Precedes(alertRow[a], done)
  BY <1>2, <1>3, <1>4 DEF IInv, RowsBehind, Ledger!RowsLag, Ledger!Precedes
<1> HIDE DEF a, done
<1>7. PendingInOrder'
  <2>1. ResolvesNoRow
    BY <1>1 DEF ResolvesNoRow
  <2> QED
    BY <1>1, <1>2, <1>3, <1>5, <1>6, <2>1, LearnKeepsOrder
<1>8. RowsBehind'
  BY <1>1, <1>2, <1>3, <1>6, LearnKeepsRowsBehind
<1>9. Ledger!Learn(a)
  <2>1. done \in Ledger!State
    BY <1>3 DEF AlertState, Ledger!State
  <2> QED
    BY <1>1, <1>2, <1>5, <2>1 DEF Ledger!Learn
<1> QED
  BY <1>1, <1>2, <1>7, <1>8, <1>9 DEF Kept, DownIsEmpty, Ledger!Next

\* An acknowledgement is one of the ledger's, or something it learns when the
\* alert has no row yet.
LEMMA AcknowledgeKept ==
    ASSUME IInv, NEW a \in Alerts, AcknowledgeAlert(a)
    PROVE  Kept
<1> DEFINE s == [alert[a] EXCEPT !.acked = TRUE]
           row == [alertRow[a] EXCEPT !.acked = TRUE]
<1>1. /\ phase = "up" /\ phase' = phase /\ UNCHANGED alertRetry
      /\ alertRow' = IF alertRow[a] = None THEN alertRow
                     ELSE [alertRow EXCEPT ![a] = row]
      /\ IF alert[a] # None /\ ~alert[a].acked
         THEN alert' = [alert EXCEPT ![a] = s] /\ EnqueueAlert(a, s)
         ELSE UNCHANGED <<alert, alertQ>>
  BY DEF AcknowledgeAlert
<1>2. ASSUME alert[a] # None
      PROVE  /\ s \in AlertState /\ s # None
             /\ s.status = alert[a].status /\ s.acked = TRUE
  <2>1. alert[a] \in AlertState
    BY <1>2 DEF IInv, IInvType, TypeOK
  <2>2. /\ s \in AlertState
        /\ s.status = alert[a].status /\ s.acked = TRUE
    BY <2>1 DEF AlertState
  <2> QED
    BY <2>2, StatesAreNotNone
<1>3. ASSUME alertRow[a] # None
      PROVE  /\ row \in AlertState /\ row # None
             /\ row.status = alertRow[a].status /\ row.acked = TRUE
  <2>1. alertRow[a] \in AlertState
    BY <1>3 DEF IInv, IInvType, TypeOK
  <2>2. /\ row \in AlertState
        /\ row.status = alertRow[a].status /\ row.acked = TRUE
    BY <2>1 DEF AlertState
  <2> QED
    BY <2>2, StatesAreNotNone
<1> HIDE DEF s, row
<1>4. /\ \A b \in Alerts \ {a} : alertRow'[b] = alertRow[b]
      /\ alertRow'[a] = IF alertRow[a] = None THEN None ELSE row
  BY <1>1 DEF IInv, IInvType, TypeOK
<1>5. ResolvesNoRow
  BY <1>3, <1>4 DEF ResolvesNoRow
<1>6. alert[a] # None => Ledger!Precedes(alertRow[a], alert[a])
  BY DEF IInv, RowsBehind, Ledger!RowsLag
<1>7. CASE alert[a] # None /\ ~alert[a].acked
  <2>1. Ledger!Precedes(alert[a], s)
    BY <1>2, <1>7 DEF Ledger!Precedes
  <2>2. Ledger!Precedes(alertRow[a], s)
    BY <1>2, <1>6, <1>7 DEF Ledger!Precedes
  <2>3. Ledger!Precedes(alertRow'[a], s)
    BY <1>2, <1>3, <1>4, <1>6, <1>7 DEF Ledger!Precedes
  <2>4. PendingInOrder'
    BY <1>1, <1>2, <1>5, <1>7, <2>1, <2>2, LearnKeepsOrder DEF NotifyAndEnqueue
  <2>5. RowsBehind'
    BY <1>1, <1>2, <1>4, <1>7, <2>3, LearnKeepsRowsBehind
  <2>6. Ledger!Learn(a) \/ Ledger!Acknowledge(a)
    <3>1. CASE alertRow[a] = None
      <4>1. s \in Ledger!State
        BY <1>2, <1>7 DEF AlertState, Ledger!State
      <4> QED
        BY <1>1, <1>7, <2>1, <3>1, <4>1 DEF Ledger!Learn
    <3>2. CASE alertRow[a] # None
      BY <1>1, <1>7, <3>2 DEF s, row, Ledger!Acknowledge
    <3> QED
      BY <3>1, <3>2
  <2> QED
    BY <1>1, <2>4, <2>5, <2>6 DEF Kept, DownIsEmpty, Ledger!Next
<1>8. CASE ~(alert[a] # None /\ ~alert[a].acked)
  <2>1. UNCHANGED <<alert, alertQ, alertRetry>>
    BY <1>1, <1>8
  <2>2. alertRow[a] # None
    BY <1>8 DEF AcknowledgeAlert
  <2>3. PendingInOrder'
    <3>1. Grows
      BY <2>1, PrecedesItself DEF Grows, IInv, IInvType, TypeOK
    <3> QED
      BY <1>5, <2>1, <3>1, OrderKept
  <2>4. RowsBehind'
    <3> SUFFICES ASSUME NEW b \in Alerts, alert[b] # None
                 PROVE  Ledger!Precedes(alertRow'[b], alert[b])
      BY <2>1 DEF RowsBehind, Ledger!RowsLag, Ledger!Precedes
    <3>1. CASE b = a
      BY <1>3, <1>4, <1>6, <1>8, <2>2, <3>1 DEF Ledger!Precedes
    <3>2. CASE b # a
      BY <1>4, <3>2 DEF IInv, RowsBehind, Ledger!RowsLag
    <3> QED
      BY <3>1, <3>2
  <2>5. Ledger!Acknowledge(a)
    <3>1. alertRow' = [alertRow EXCEPT ![a].acked = TRUE]
      BY <1>1, <2>2 DEF row
    <3>2. alert[a] # None => alert = [alert EXCEPT ![a].acked = TRUE]
      <4> SUFFICES ASSUME alert[a] # None
                   PROVE  alert = [alert EXCEPT ![a].acked = TRUE]
        OBVIOUS
      <4>1. alert[a] \in AlertState /\ alert[a].acked = TRUE
        BY <1>8 DEF IInv, IInvType, TypeOK, AlertState
      <4>2. alert[a] = [alert[a] EXCEPT !.acked = TRUE]
        BY <4>1 DEF AlertState
      <4> QED
        BY <4>2 DEF IInv, IInvType, TypeOK
    <3> QED
      BY <2>1, <2>2, <3>1, <3>2 DEF Ledger!Acknowledge
  <2> QED
    BY <1>1, <2>1, <2>3, <2>4, <2>5 DEF Kept, DownIsEmpty, Ledger!Next
<1> QED
  BY <1>7, <1>8

\* A failed write keeps the item ahead of everything behind it.
LEMMA PersistAlertFailsKept ==
    ASSUME IInv, PersistAlertFails
    PROVE  Kept
<1>1. /\ AlertReady /\ TakeAlert /\ alertRetry' = AlertItem
      /\ phase # "down" /\ UNCHANGED <<phase, alert, alertRow>>
  BY DEF PersistAlertFails, memoryVars, dbVars
<1>2. PendingInOrder'
  BY <1>1, TakeKeepsOrder DEF PendingInOrder, Between, InOrder
<1>3. RowsBehind'
  BY <1>1 DEF IInv, RowsBehind, Ledger!RowsLag, Ledger!Precedes
<1>4. UNCHANGED Ledger!vars
  BY <1>1 DEF Ledger!vars
<1> QED
  BY <1>1, <1>2, <1>3, <1>4 DEF Kept, DownIsEmpty

\* A write is a flush of the ledger: the row moves forward, at most to what
\* the manager holds, and no pending event is left behind it.
LEMMA PersistAlertKept ==
    ASSUME IInv, PersistAlert
    PROVE  Kept
<1> DEFINE a == AlertItem.alert
           new == AlertUpsert(AlertItem)
<1>1. /\ AlertReady /\ TakeAlert /\ alertRetry' = None
      /\ phase # "down" /\ UNCHANGED <<phase, alert>>
      /\ alertRow' = [alertRow EXCEPT ![a] = new]
  BY DEF PersistAlert, memoryVars
<1>2. AlertItem \in AlertEvent /\ Between(AlertItem)
  BY <1>1, TakeKeepsOrder
<1>3. a \in Alerts /\ AlertItem.state \in AlertState /\ AlertItem.state # None
  BY <1>2, StatesAreNotNone DEF AlertEvent
<1>4. alertRow[a] \in AlertState \cup {None}
  BY <1>3 DEF IInv, IInvType, TypeOK
<1>5. /\ new \in AlertState /\ new.status = AlertItem.state.status
      /\ new.acked <=> AlertItem.state.acked
                         \/ (alertRow[a] # None /\ alertRow[a].acked)
  BY <1>3, <1>4 DEF AlertUpsert, AlertState
<1>6. /\ alert[a] # None
      /\ Ledger!Precedes(AlertItem.state, alert[a])
      /\ Ledger!Precedes(alertRow[a], alert[a])
      /\ (alertRow[a] # None /\ alertRow[a].status = "resolved")
            => AlertItem.state.status = "resolved"
  BY <1>2, <1>3 DEF Between, IInv, RowsBehind, Ledger!RowsLag
<1> HIDE DEF a, new
<1>7. new # None
  BY <1>5, StatesAreNotNone
<1>8. Ledger!Precedes(alertRow[a], new)
  BY <1>5, <1>6, <1>7 DEF Ledger!Precedes
<1>9. Ledger!Precedes(new, alert[a])
  BY <1>3, <1>5, <1>6 DEF Ledger!Precedes
<1>10. /\ alertRow'[a] = new
       /\ \A b \in Alerts \ {a} : alertRow'[b] = alertRow[b]
  BY <1>1, <1>3 DEF IInv, IInvType, TypeOK
<1>11. PendingInOrder'
  <2>1. \A n \in 1..Len(alertQ') :
          /\ alertQ'[n] \in AlertEvent /\ Between(alertQ'[n])
          /\ InOrder(AlertItem, alertQ'[n])
    BY <1>1, TakeKeepsOrder
  <2>2. \A m, n \in 1..Len(alertQ') : m < n => InOrder(alertQ'[m], alertQ'[n])
    BY <1>1, TakeKeepsOrder
  <2>3. ASSUME NEW f \in AlertEvent, Between(f), InOrder(AlertItem, f)
        PROVE  /\ alert'[f.alert] # None
               /\ Ledger!Precedes(f.state, alert'[f.alert])
               /\ (alertRow'[f.alert] # None /\ alertRow'[f.alert].status = "resolved")
                     => f.state.status = "resolved"
    <3>1. f.alert \in Alerts
      BY DEF AlertEvent
    <3>2. CASE f.alert = a
      BY <1>1, <1>5, <1>10, <2>3, <3>2 DEF a, Between, InOrder
    <3>3. CASE f.alert # a
      BY <1>1, <1>10, <2>3, <3>1, <3>3 DEF Between
    <3> QED
      BY <3>2, <3>3
  <2>4. \A n \in 1..Len(alertQ') : Between(alertQ[n])'
    BY <2>1, <2>3 DEF Between
  <2> QED
    BY <1>1, <2>2, <2>4 DEF PendingInOrder, InOrder
<1>12. RowsBehind'
  <2> SUFFICES ASSUME NEW b \in Alerts, alert[b] # None
               PROVE  Ledger!Precedes(alertRow'[b], alert[b])
    BY <1>1 DEF RowsBehind, Ledger!RowsLag, Ledger!Precedes
  <2>1. CASE b = a
    BY <1>9, <1>10, <2>1
  <2>2. CASE b # a
    BY <1>10, <2>2 DEF IInv, RowsBehind, Ledger!RowsLag
  <2> QED
    BY <2>1, <2>2
<1>13. Ledger!Flush(a)
  <2>1. new \in Ledger!State
    BY <1>5 DEF AlertState, Ledger!State
  <2> QED
    BY <1>1, <1>6, <1>8, <1>9, <2>1 DEF Ledger!Flush
<1> QED
  BY <1>1, <1>3, <1>11, <1>12, <1>13 DEF Kept, DownIsEmpty, Ledger!Next

\* The end of the alert queue, the end of the process, and a new one.
LEMMA StopAlertPersistenceKept ==
    ASSUME IInv, StopAlertPersistence
    PROVE  Kept
<1>1. /\ phase' = "drainIncidents" /\ alertQ' = <<>> /\ alertRetry' = None
      /\ UNCHANGED <<alert, alertRow>>
  BY DEF StopAlertPersistence, memoryVars, dbVars
<1>2. PendingInOrder'
  BY <1>1 DEF PendingInOrder
<1>3. RowsBehind'
  BY <1>1 DEF IInv, RowsBehind, Ledger!RowsLag, Ledger!Precedes
<1>4. UNCHANGED Ledger!vars
  BY <1>1 DEF Ledger!vars
<1> QED
  BY <1>1, <1>2, <1>3, <1>4 DEF Kept, DownIsEmpty

\* A process that ends has nothing left to be behind.
LEMMA StoppedKept ==
    ASSUME IInv, Stopped
    PROVE  Kept
<1>1. /\ alertQ' = <<>> /\ alertRetry' = None /\ UNCHANGED alertRow
      /\ alert' = [a \in Alerts |-> None]
  BY DEF Stopped, NoMemory, dbVars
<1>2. PendingInOrder'
  BY <1>1 DEF PendingInOrder
<1>3. DownIsEmpty' /\ RowsBehind'
  BY <1>1 DEF DownIsEmpty, RowsBehind, Ledger!RowsLag
<1>4. Ledger!Forget
  BY <1>1 DEF Ledger!Forget
<1> QED
  BY <1>2, <1>3, <1>4 DEF Kept, Ledger!Next

\* A new process holds the rows it read, so that no row is ahead of it.
LEMMA RestartKept ==
    ASSUME IInv, Restart
    PROVE  Kept
<1>1. /\ phase = "down" /\ phase' = "up"
      /\ UNCHANGED <<alertQ, alertRetry, alertRow>>
      /\ alert' = [a \in Alerts |-> IF a \in ActiveRows THEN alertRow[a] ELSE None]
  BY DEF Restart, queueVars, dbVars
<1>2. alertQ = <<>> /\ alertRetry = None /\ \A a \in Alerts : alert[a] = None
  BY <1>1 DEF IInv, DownIsEmpty
<1>3. PendingInOrder'
  BY <1>1, <1>2 DEF PendingInOrder
<1>4. RowsBehind'
  BY <1>1, PrecedesItself DEF RowsBehind, Ledger!RowsLag, Ledger!Precedes
<1>5. Ledger!Recover
  BY <1>1, <1>2 DEF Ledger!Recover, ActiveRows
<1> QED
  BY <1>1, <1>3, <1>4, <1>5 DEF Kept, DownIsEmpty, Ledger!Next

\* Each step keeps the order of the queue and takes no row back.
LEMMA NextKept == IInv /\ [Next]_vars => Kept
<1> SUFFICES ASSUME IInv, [Next]_vars PROVE Kept
  OBVIOUS
<1>1. CASE \/ UNCHANGED vars
           \/ EnqueueAcknowledged
           \/ PersistIncident
           \/ PersistIncidentFails
           \/ ReloadRules
           \/ Shutdown
  <2>1. UNCHANGED <<alert, alertRow, alertQ, alertRetry>>
    BY <1>1 DEF vars, EnqueueAcknowledged, PersistIncident,
                PersistIncidentFails, ReloadRules, Shutdown, memoryVars,
                queueVars, dbVars
  <2>2. phase' = "down" => phase = "down"
    BY <1>1 DEF vars, EnqueueAcknowledged, PersistIncident,
                PersistIncidentFails, ReloadRules, Shutdown
  <2> QED
    BY <2>1, <2>2, OtherSteps
<1>2. CASE \E i \in Incidents : AcknowledgeIncident(i)
  BY <1>2, OtherSteps DEF AcknowledgeIncident, queueVars, dbVars
<1>3. CASE \E h \in Hosts : DeleteHost(h)
  BY <1>3, OtherSteps DEF DeleteHost, memoryVars, queueVars
<1>4. CASE \E k \in Keys : DeleteRule(k)
  BY <1>4, OtherSteps DEF DeleteRule, memoryVars, queueVars
<1>5. CASE \E a \in Alerts : CreateAlert(a) \/ AcknowledgeAlert(a)
  BY <1>5, CreateKept, AcknowledgeKept
<1>6. CASE \E k \in Keys : ResolveAlert(k)
  BY <1>6, ResolveKept
<1>7. CASE PersistAlert \/ PersistAlertFails
  BY <1>7, PersistAlertKept, PersistAlertFailsKept
<1>8. CASE StopAlertPersistence
  BY <1>8, StopAlertPersistenceKept
<1>9. CASE StopIncidentPersistence \/ Crash
  BY <1>9, StoppedKept DEF StopIncidentPersistence, Crash
<1>10. CASE Restart
  BY <1>10, RestartKept
<1> QED
  BY <1>1, <1>2, <1>3, <1>4, <1>5, <1>6, <1>7, <1>8, <1>9, <1>10 DEF Next

\* The initial states satisfy the invariant and those of the ledger.
LEMMA InitKept == Init => IInv /\ Ledger!Init
<1> SUFFICES ASSUME Init PROVE IInv /\ Ledger!Init
  OBVIOUS
<1>1. DownIsEmpty /\ PendingInOrder
  BY DEF Init, DownIsEmpty, PendingInOrder
<1>2. RowsBehind
  BY DEF Init, RowsBehind, Ledger!RowsLag
<1> QED
  BY <1>1, <1>2, InitTypes DEF IInv, Init, Ledger!Init

\* The invariant of the refinement is inductive.
LEMMA IInvIsInductive == IInv /\ [Next]_vars => IInv'
  BY TypesAreInductive, NextKept DEF IInv, Kept

\* No row of alert_records and no snapshot of the queue is ever ahead of the
\* alert in memory, and none takes a durable resolution back, whatever the
\* retries, drops, acknowledgements and restarts.
THEOREM RowsLagBehind == Spec => []RowsNeverAhead
<1>1. IInv => RowsNeverAhead
  <2> SUFFICES ASSUME IInv PROVE RowsNeverAhead
    OBVIOUS
  <2>1. /\ \A n \in 1..Len(alertQ) : Between(alertQ[n])
        /\ alertRetry # None => Between(alertRetry)
    BY DEF IInv, PendingInOrder
  <2>2. DOMAIN alertQ = 1..Len(alertQ)
    BY DEF IInv, IInvType, TypeOK
  <2>3. \A e \in Snapshots : Between(e)
    BY <2>1, <2>2 DEF Snapshots
  <2> QED
    BY <2>3 DEF IInv, RowsBehind, RowsNeverAhead, SnapshotsLag, Between
<1> QED
  BY <1>1, InitKept, IInvIsInductive, PTL DEF Spec

\* The asynchronous alert path implements AlertLedger: a resolution or an
\* acknowledgement that reached the table is never taken back.
THEOREM ImplementsLedger == Spec => RefinesLedger
<1>1. IInv /\ [Next]_vars => [Ledger!Next]_(Ledger!vars)
  BY NextKept DEF Kept
<1> QED
  BY <1>1, InitKept, IInvIsInductive, PTL DEF Spec, RefinesLedger, Ledger!Spec

-----------------------------------------------------------------------------
(* The log of a queue: what its worker has still to persist, in order.     *)

\* The item a worker retains is the first of its log.
Behind(item, q) == (IF item = None THEN <<>> ELSE <<item>>) \o q

\* What the worker of alerts has still to persist.
Pending == Behind(alertRetry, alertQ)

\* The log is a sequence of events.
LEMMA BehindIsSeq ==
    ASSUME NEW S, NEW q \in Seq(S), NEW item \in S \cup {None}
    PROVE  Behind(item, q) \in Seq(S)
<1>1. CASE item = None
  BY <1>1 DEF Behind
<1>2. CASE item # None
  BY <1>2 DEF Behind
<1> QED
  BY <1>1, <1>2

\* An event put into the queue comes last in the log.
LEMMA BehindAppend ==
    ASSUME NEW S, NEW q \in Seq(S), NEW item \in S \cup {None}, NEW e \in S
    PROVE  Behind(item, Append(q, e)) = Append(Behind(item, q), e)
<1>1. CASE item = None
  BY <1>1 DEF Behind
<1>2. CASE item # None
  BY <1>2 DEF Behind
<1> QED
  BY <1>1, <1>2

\* A worker takes the head of the log; what it retains stays there.
LEMMA BehindTake ==
    ASSUME NEW S, NEW q \in Seq(S), NEW item \in S \cup {None}, None \notin S,
           item # None \/ q # <<>>
    PROVE  LET next == IF item # None THEN item ELSE Head(q)
               rest == IF item # None THEN q ELSE Tail(q)
           IN  /\ Behind(item, q) # <<>>
               /\ next = Head(Behind(item, q))
               /\ Behind(None, rest) = Tail(Behind(item, q))
               /\ Behind(next, rest) = Behind(item, q)
<1>1. CASE item = None
  <2>1. q # <<>> /\ Head(q) \in S
    BY <1>1
  <2> QED
  BY <1>1, <2>1 DEF Behind
<1>2. CASE item # None
  BY <1>2 DEF Behind
<1> QED
  BY <1>1, <1>2

\* The elements of a sequence and of its tail.
LEMMA TailElements ==
    ASSUME NEW S, NEW log \in Seq(S), log # <<>>
    PROVE  /\ Len(log) \in Nat \ {0} /\ Len(Tail(log)) = Len(log) - 1
           /\ Head(log) = log[1]
           /\ \A n \in 1..Len(Tail(log)) :
                Tail(log)[n] = log[n + 1] /\ n + 1 \in 1..Len(log)
           /\ \A n \in 2..Len(log) :
                log[n] = Tail(log)[n - 1] /\ n - 1 \in 1..Len(Tail(log))
<1>1. /\ Len(log) \in Nat \ {0} /\ Len(Tail(log)) = Len(log) - 1
      /\ Head(log) = log[1]
      /\ \A n \in 1..Len(Tail(log)) : Tail(log)[n] = log[n + 1]
  OBVIOUS
<1>2. \A n \in 1..Len(Tail(log)) : n + 1 \in 1..Len(log)
  BY <1>1
<1>3. ASSUME NEW n \in 2..Len(log)
      PROVE  log[n] = Tail(log)[n - 1] /\ n - 1 \in 1..Len(Tail(log))
  <2>1. n - 1 \in 1..Len(Tail(log)) /\ (n - 1) + 1 = n
    BY <1>1
  <2> QED
    BY <1>1, <2>1
<1> QED
  BY <1>1, <1>2, <1>3

\* The last of some positions of a log.
LEMMA LastExists ==
    ASSUME NEW len \in Nat, NEW T, T \subseteq 1..len, T # {}
    PROVE  \E n \in T : \A m \in T : m <= n
<1> DEFINE less == OpToRel(<, Nat)
           U == {len - n : n \in T}
<1>1. U \subseteq Nat /\ U # {}
  <2>1. \A n \in T : len - n \in Nat
    OBVIOUS
  <2> QED
    BY <2>1
<1>2. \E x \in U : \A y \in U : <<y, x>> \notin less
  <2>1. IsWellFoundedOn(less, Nat)
    BY NatLessThanWellFounded
  <2> HIDE DEF less, U
  <2> QED
    BY <1>1, <2>1, WFMin
<1>3. PICK n \in T : \A y \in U : <<y, len - n>> \notin less
  BY <1>2
<1> SUFFICES ASSUME NEW m \in T PROVE m <= n
  BY <1>3
<1>4. len - m \in Nat /\ len - n \in Nat /\ m \in Nat /\ n \in Nat
  OBVIOUS
<1>5. ~(len - m < len - n)
  BY <1>3, <1>4 DEF OpToRel
<1> QED
  BY <1>4, <1>5

-----------------------------------------------------------------------------
(* The alerts: the newest event of the log is what the manager holds.      *)

\* Some event of log is about alert a.
Concerns(log, a) == \E n \in 1..Len(log) : log[n].alert = a

\* The n-th event of log is the last about alert a.
IsLast(log, n, a) ==
    /\ log[n].alert = a
    /\ \A m \in 1..Len(log) : log[m].alert = a => m <= n

\* Once log has drained the row of a says s.
Settles(log, row, a, s) ==
    /\ \A n \in 1..Len(log) : IsLast(log, n, a) => log[n].state = s
    /\ ~Concerns(log, a) => row = s

\* The newest event is what the log settles to.
LEMMA SettlesAppend ==
    ASSUME NEW S, NEW log \in Seq(S), NEW a, NEW s, NEW e \in S,
           e.alert = a, e.state = s, NEW row
    PROVE  Settles(Append(log, e), row, a, s)
<1>1. /\ Len(Append(log, e)) = Len(log) + 1 /\ Len(log) \in Nat
      /\ Append(log, e)[Len(log) + 1] = e
  OBVIOUS
<1> QED
  BY <1>1 DEF Settles, IsLast, Concerns

\* An event of another alert changes nothing for a.
LEMMA SettlesAppendOther ==
    ASSUME NEW S, NEW log \in Seq(S), NEW a, NEW s, NEW e \in S,
           e.alert # a, NEW row, Settles(log, row, a, s)
    PROVE  Settles(Append(log, e), row, a, s)
<1>1. /\ Len(Append(log, e)) = Len(log) + 1 /\ Len(log) \in Nat
      /\ Append(log, e)[Len(log) + 1] = e
      /\ \A n \in 1..Len(log) : Append(log, e)[n] = log[n]
  OBVIOUS
<1>2. \A n \in 1..Len(Append(log, e)) :
        Append(log, e)[n].alert = a => n \in 1..Len(log)
  BY <1>1
<1>3. ~Concerns(Append(log, e), a) => ~Concerns(log, a)
  BY <1>1 DEF Concerns
<1>4. \A n \in 1..Len(Append(log, e)) :
        IsLast(Append(log, e), n, a) => IsLast(log, n, a) /\ n \in 1..Len(log)
  BY <1>1, <1>2 DEF IsLast
<1> QED
  BY <1>1, <1>3, <1>4 DEF Settles

\* Writing the oldest event to its row keeps what the log settles to.
LEMMA SettlesTail ==
    ASSUME NEW S, NEW log \in Seq(S), log # <<>>, NEW a, NEW s, NEW row, NEW new,
           Settles(log, row, a, s),
           IF Head(log).alert = a THEN Head(log).state = s => new = s ELSE new = row
    PROVE  Settles(Tail(log), new, a, s)
<1>1. /\ Len(log) \in Nat \ {0} /\ Len(Tail(log)) = Len(log) - 1
      /\ Head(log) = log[1]
      /\ \A n \in 1..Len(Tail(log)) :
           Tail(log)[n] = log[n + 1] /\ n + 1 \in 1..Len(log)
      /\ \A n \in 2..Len(log) :
           log[n] = Tail(log)[n - 1] /\ n - 1 \in 1..Len(Tail(log))
  BY TailElements
<1>2. ASSUME NEW n \in 1..Len(Tail(log)), IsLast(Tail(log), n, a)
      PROVE  Tail(log)[n].state = s
  <2>1. log[n + 1].alert = a /\ Tail(log)[n] = log[n + 1] /\ n + 1 \in 1..Len(log)
    BY <1>1, <1>2 DEF IsLast
  <2>2. \A m \in 1..Len(log) : log[m].alert = a => m <= n + 1
    <3> SUFFICES ASSUME NEW m \in 2..Len(log), log[m].alert = a PROVE m <= n + 1
      BY <1>1
    <3>1. Tail(log)[m - 1].alert = a /\ m - 1 \in 1..Len(Tail(log))
      BY <1>1
    <3>2. m - 1 <= n
      BY <1>2, <3>1 DEF IsLast
    <3> QED
      BY <1>1, <3>2
  <2>3. IsLast(log, n + 1, a)
    BY <2>1, <2>2 DEF IsLast
  <2> QED
    BY <2>1, <2>3 DEF Settles
<1>3. ASSUME ~Concerns(Tail(log), a) PROVE new = s
  <2>1. \A m \in 2..Len(log) : log[m].alert # a
    BY <1>1, <1>3 DEF Concerns
  <2>2. CASE Head(log).alert = a
    <3>1. IsLast(log, 1, a) /\ 1 \in 1..Len(log)
      BY <1>1, <2>1, <2>2 DEF IsLast
    <3> QED
      BY <1>1, <2>2, <3>1 DEF Settles
  <2>3. CASE Head(log).alert # a
    <3>1. ~Concerns(log, a)
      BY <1>1, <2>1, <2>3 DEF Concerns
    <3> QED
      BY <2>3, <3>1 DEF Settles
  <2> QED
    BY <2>2, <2>3
<1> QED
  BY <1>2, <1>3 DEF Settles

\* An alert with an event in the log has a last one.
LEMMA LastOfLog ==
    ASSUME NEW S, NEW log \in Seq(S), NEW a, Concerns(log, a)
    PROVE  \E n \in 1..Len(log) : IsLast(log, n, a)
<1> DEFINE T == {n \in 1..Len(log) : log[n].alert = a}
<1>1. Len(log) \in Nat /\ T \subseteq 1..Len(log) /\ T # {}
  BY DEF Concerns
<1>2. PICK n \in T : \A m \in T : m <= n
  BY <1>1, LastExists
<1> QED
  BY <1>2 DEF IsLast

\* Alerts whose last change was queued have it as the last of their events,
\* or in their row.
AlertsSettle ==
    \A a \in Alerts :
        alert[a] # None /\ a \notin staleAlerts
            => Settles(Pending, alertRow[a], a, alert[a])

\* Every event of the log is one the invariant of the ledger bounds.
LEMMA PendingFacts ==
    ASSUME IInv
    PROVE  /\ Pending \in Seq(AlertEvent) /\ Len(Pending) \in Nat
           /\ \A n \in 1..Len(Pending) :
                /\ Pending[n] \in AlertEvent
                /\ Pending[n].alert \in Alerts /\ Pending[n].state \in AlertState
                /\ Between(Pending[n])
           /\ \A m, n \in 1..Len(Pending) : m < n => InOrder(Pending[m], Pending[n])
<1>1. alertQ \in Seq(AlertEvent) /\ alertRetry \in AlertEvent \cup {None}
  BY DEF IInv, IInvType, TypeOK
<1>2. Pending \in Seq(AlertEvent)
  BY <1>1, BehindIsSeq DEF Pending
<1>3. Len(Pending) \in Nat /\ \A n \in 1..Len(Pending) : Pending[n] \in AlertEvent
  BY <1>2
<1>4. \A n \in 1..Len(Pending) :
        Pending[n].alert \in Alerts /\ Pending[n].state \in AlertState
  BY <1>3 DEF AlertEvent
<1>5. CASE alertRetry = None
  <2>1. Pending = alertQ
    BY <1>1, <1>5 DEF Pending, Behind
  <2>2. /\ \A n \in 1..Len(alertQ) : Between(alertQ[n])
        /\ \A m, n \in 1..Len(alertQ) : m < n => InOrder(alertQ[m], alertQ[n])
    BY DEF IInv, PendingInOrder
  <2> QED
    BY <1>2, <1>4, <1>3, <2>1, <2>2
<1>6. CASE alertRetry # None
  <2>1. /\ Len(Pending) = Len(alertQ) + 1 /\ Len(alertQ) \in Nat
        /\ Pending[1] = alertRetry
        /\ \A n \in 2..Len(Pending) : Pending[n] = alertQ[n - 1]
    BY <1>1, <1>6 DEF Pending, Behind
  <2>2. \A n \in 2..Len(Pending) : n - 1 \in 1..Len(alertQ)
    BY <2>1
  <2>3. \A n \in 1..Len(Pending) : n = 1 \/ n \in 2..Len(Pending)
    BY <2>1
  <2>4. \A n \in 1..Len(Pending) : Between(Pending[n])
    BY <1>6, <2>1, <2>2, <2>3 DEF IInv, PendingInOrder
  <2>5. ASSUME NEW m \in 1..Len(Pending), NEW n \in 1..Len(Pending), m < n
        PROVE  InOrder(Pending[m], Pending[n])
    <3>1. n \in 2..Len(Pending) /\ n - 1 \in 1..Len(alertQ) /\ Pending[n] = alertQ[n - 1]
      BY <2>1, <2>2, <2>5
    <3>2. CASE m = 1
      BY <1>6, <2>1, <3>1, <3>2 DEF IInv, PendingInOrder
    <3>3. CASE m # 1
      <4>1. /\ m \in 2..Len(Pending) /\ m - 1 \in 1..Len(alertQ) /\ m - 1 < n - 1
            /\ Pending[m] = alertQ[m - 1]
        BY <2>1, <2>2, <2>5, <3>3
      <4> QED
        BY <3>1, <4>1 DEF IInv, PendingInOrder
    <3> QED
      BY <3>2, <3>3
  <2> QED
    BY <1>2, <1>4, <1>3, <2>4, <2>5
<1> QED
  BY <1>5, <1>6

\* A change of an alert comes last in the log, or it is lost.
LEMMA LearnAppends ==
    ASSUME IInv, NEW a \in Alerts, NEW s \in AlertState, NotifyAndEnqueue(a, s),
           UNCHANGED alertRetry
    PROVE  LET e == [alert |-> a, state |-> s] IN
           /\ e \in AlertEvent
           /\ \/ /\ Pending' = Append(Pending, e)
                 /\ staleAlerts' = staleAlerts \ {a}
                 /\ alertsLost' = alertsLost
              \/ /\ Pending' = Pending
                 /\ staleAlerts' = staleAlerts \cup {a}
                 /\ alertsLost' = TRUE
<1> DEFINE e == [alert |-> a, state |-> s]
<1>1. e \in AlertEvent /\ alertQ \in Seq(AlertEvent) /\ alertRetry \in AlertEvent \cup {None}
  BY DEF AlertEvent, IInv, IInvType, TypeOK
<1>2. Behind(alertRetry, Append(alertQ, e)) = Append(Pending, e)
  BY <1>1, BehindAppend DEF Pending
<1>3. CASE LoseAlert(a)
  BY <1>1, <1>3 DEF LoseAlert, Pending
<1>4. CASE EnqueueAlert(a, s) /\ ~LoseAlert(a)
  BY <1>1, <1>2, <1>4 DEF EnqueueAlert, Pending
<1> QED
  BY <1>3, <1>4 DEF NotifyAndEnqueue

\* A write takes the head of the log, a failed one leaves the log alone.
LEMMA WorkerTakes ==
    ASSUME IInv, AlertReady, TakeAlert
    PROVE  /\ Pending # <<>> /\ AlertItem = Head(Pending)
           /\ alertRetry' = None => Pending' = Tail(Pending)
           /\ alertRetry' = AlertItem => Pending' = Pending
<1>1. /\ alertQ \in Seq(AlertEvent) /\ alertRetry \in AlertEvent \cup {None}
      /\ None \notin AlertEvent
  BY NoneAssumption DEF IInv, IInvType, TypeOK
<1>2. alertRetry # None \/ alertQ # <<>>
  BY DEF AlertReady
<1> DEFINE next == IF alertRetry # None THEN alertRetry ELSE Head(alertQ)
           rest == IF alertRetry # None THEN alertQ ELSE Tail(alertQ)
<1>3. /\ Behind(alertRetry, alertQ) # <<>>
      /\ next = Head(Behind(alertRetry, alertQ))
      /\ Behind(None, rest) = Tail(Behind(alertRetry, alertQ))
      /\ Behind(next, rest) = Behind(alertRetry, alertQ)
  BY <1>1, <1>2, BehindTake
<1>4. AlertItem = next /\ alertQ' = rest
  BY DEF AlertItem, TakeAlert
<1> QED
  BY <1>3, <1>4 DEF Pending

\* The event of a transition makes its alert settle to the new state.
LEMMA LearnSettles ==
    ASSUME IInv, AlertsSettle, NEW a \in Alerts, NEW s \in AlertState,
           NotifyAndEnqueue(a, s), UNCHANGED alertRetry,
           alert' = [alert EXCEPT ![a] = s],
           \A b \in Alerts \ {a} : alertRow'[b] = alertRow[b]
    PROVE  AlertsSettle'
<1> DEFINE e == [alert |-> a, state |-> s]
<1>1. Pending \in Seq(AlertEvent) /\ e \in AlertEvent
  BY PendingFacts DEF AlertEvent
<1>2. /\ alert'[a] = s
      /\ \A b \in Alerts \ {a} : alert'[b] = alert[b]
  BY DEF IInv, IInvType, TypeOK
<1> SUFFICES ASSUME NEW b \in Alerts, alert'[b] # None, b \notin staleAlerts'
             PROVE  Settles(Pending', alertRow'[b], b, alert'[b])
  BY DEF AlertsSettle
<1>3. CASE b = a
  <2>1. Pending' = Append(Pending, e)
    BY <1>3, LearnAppends
  <2> QED
    BY <1>1, <1>2, <1>3, <2>1, SettlesAppend
<1>4. CASE b # a
  <2>1. b \notin staleAlerts /\ Settles(Pending, alertRow[b], b, alert[b])
    BY <1>2, <1>4, LearnAppends DEF AlertsSettle
  <2>2. CASE Pending' = Pending
    BY <1>2, <1>4, <2>1, <2>2
  <2>3. CASE Pending' = Append(Pending, e)
    <3>1. Settles(Append(Pending, e), alertRow[b], b, alert[b])
      BY <1>1, <1>4, <2>1, SettlesAppendOther
    <3> QED
      BY <1>2, <1>4, <2>3, <3>1
  <2> QED
    BY <2>2, <2>3, LearnAppends
<1> QED
  BY <1>3, <1>4

\* An acknowledgement reaches the alert through its row and its event.
LEMMA AcknowledgeSettles ==
    ASSUME IInv, AlertsSettle, NEW a \in Alerts, AcknowledgeAlert(a)
    PROVE  AlertsSettle'
<1>1. /\ UNCHANGED alertRetry
      /\ \A b \in Alerts \ {a} : alertRow'[b] = alertRow[b]
  BY DEF AcknowledgeAlert, IInv, IInvType, TypeOK
<1>2. CASE alert[a] # None /\ ~alert[a].acked
  <2> DEFINE s == [alert[a] EXCEPT !.acked = TRUE]
  <2>1. s \in AlertState
    BY <1>2 DEF IInv, IInvType, TypeOK, AlertState
  <2>2. alert' = [alert EXCEPT ![a] = s] /\ NotifyAndEnqueue(a, s)
    BY <1>2 DEF AcknowledgeAlert, NotifyAndEnqueue
  <2> QED
    BY <1>1, <2>1, <2>2, LearnSettles
<1>3. CASE ~(alert[a] # None /\ ~alert[a].acked)
  <2>1. /\ UNCHANGED <<alert, alertQ, alertRetry, staleAlerts>>
        /\ alertRow[a] # None /\ ~alertRow[a].acked
    BY <1>1, <1>3 DEF AcknowledgeAlert
  <2> SUFFICES ASSUME NEW b \in Alerts, alert[b] # None, b \notin staleAlerts
               PROVE  Settles(Pending, alertRow'[b], b, alert[b])
    BY <2>1 DEF AlertsSettle, Pending
  <2>2. Settles(Pending, alertRow[b], b, alert[b])
    BY DEF AlertsSettle
  <2>3. CASE b = a
    <3>1. alert[a].acked
      BY <1>3, <2>3
    <3>2. Concerns(Pending, a)
      BY <2>1, <2>2, <2>3, <3>1 DEF Settles
    <3> QED
      BY <2>2, <2>3, <3>2 DEF Settles
  <2>4. CASE b # a
    BY <1>1, <2>2, <2>4
  <2> QED
    BY <2>3, <2>4
<1> QED
  BY <1>2, <1>3

\* The worker writes the oldest event of its log.
LEMMA PersistAlertSettles ==
    ASSUME IInv, AlertsSettle, PersistAlert
    PROVE  AlertsSettle'
<1> DEFINE a == AlertItem.alert
           new == AlertUpsert(AlertItem)
<1>1. /\ UNCHANGED <<alert, staleAlerts>>
      /\ alertRow' = [alertRow EXCEPT ![a] = new]
      /\ AlertReady /\ TakeAlert /\ alertRetry' = None
  BY DEF PersistAlert, memoryVars, ghostVars
<1>2. /\ Pending # <<>> /\ AlertItem = Head(Pending)
      /\ Pending' = Tail(Pending) /\ Pending \in Seq(AlertEvent)
  BY <1>1, WorkerTakes, PendingFacts
<1>3. a \in Alerts /\ AlertItem.state \in AlertState
  BY <1>1, TakeKeepsOrder DEF AlertEvent
<1> SUFFICES ASSUME NEW b \in Alerts, alert[b] # None, b \notin staleAlerts
             PROVE  Settles(Tail(Pending), alertRow'[b], b, alert[b])
  BY <1>1, <1>2 DEF AlertsSettle
<1>4. Settles(Pending, alertRow[b], b, alert[b])
  BY DEF AlertsSettle
<1>5. CASE b = a
  <2>1. alertRow'[b] = new
    BY <1>1, <1>3, <1>5 DEF IInv, IInvType, TypeOK
  <2>2. ASSUME AlertItem.state = alert[a] PROVE new = alert[a]
    <3>1. alertRow[a] # None => (alertRow[a].acked => alert[a].acked)
      BY <1>3, <1>5 DEF IInv, RowsBehind, Ledger!RowsLag, Ledger!Precedes
    <3>2. alertRow[a] \in AlertState \cup {None}
      BY <1>3 DEF IInv, IInvType, TypeOK
    <3>3. /\ new = [status |-> AlertItem.state.status, acked |-> new.acked]
          /\ new.acked = ((IF alertRow[a] = None THEN FALSE ELSE alertRow[a].acked)
                           \/ AlertItem.state.acked)
      BY DEF AlertUpsert
    <3>4. new.acked = AlertItem.state.acked
      BY <1>3, <2>2, <3>1, <3>2, <3>3 DEF AlertState
    <3> HIDE DEF new
    <3> QED
      BY <1>3, <2>2, <3>3, <3>4 DEF AlertState
  <2> QED
    BY <1>2, <1>4, <1>5, <2>1, <2>2, SettlesTail
<1>6. CASE b # a
  <2>1. alertRow'[b] = alertRow[b]
    BY <1>1, <1>3, <1>6 DEF IInv, IInvType, TypeOK
  <2> QED
    BY <1>2, <1>4, <1>6, <2>1, SettlesTail
<1> QED
  BY <1>5, <1>6

\* The steps that take nothing from the log and add nothing to it.
LEMMA RestSettles ==
    ASSUME IInv, AlertsSettle,
           \/ UNCHANGED <<alert, alertRow, alertQ, alertRetry, staleAlerts>>
           \/ PersistAlertFails \/ StopAlertPersistence \/ Stopped \/ Restart
    PROVE  AlertsSettle'
<1>1. CASE UNCHANGED <<alert, alertRow, alertQ, alertRetry, staleAlerts>>
  BY <1>1 DEF AlertsSettle, Pending
<1>2. CASE PersistAlertFails
  <2>1. /\ AlertReady /\ TakeAlert /\ alertRetry' = AlertItem
        /\ UNCHANGED <<alert, alertRow, staleAlerts>>
    BY <1>2 DEF PersistAlertFails, memoryVars, dbVars, ghostVars
  <2>2. Pending' = Pending
    BY <2>1, WorkerTakes
  <2> QED
    BY <2>1, <2>2 DEF AlertsSettle
<1>3. CASE StopAlertPersistence
  <2>1. /\ alertQ' = <<>> /\ alertRetry' = None
        /\ staleAlerts' = staleAlerts \cup PendingAlerts
        /\ UNCHANGED <<alert, alertRow>>
    BY <1>3 DEF StopAlertPersistence, memoryVars, dbVars
  <2>2. Pending' = <<>>
    BY <2>1 DEF Pending, Behind
  <2> SUFFICES ASSUME NEW a \in Alerts, alert[a] # None, a \notin staleAlerts'
               PROVE  Settles(<<>>, alertRow[a], a, alert[a])
    BY <2>1, <2>2 DEF AlertsSettle
  <2>3. Settles(Pending, alertRow[a], a, alert[a])
    BY <2>1 DEF AlertsSettle
  <2>4. ~Concerns(Pending, a)
    <3>1. /\ \A n \in 1..Len(alertQ) : alertQ[n].alert # a
          /\ alertRetry # None => alertRetry.alert # a
      <4>1. DOMAIN alertQ = 1..Len(alertQ)
        BY DEF IInv, IInvType, TypeOK
      <4> QED
        BY <2>1, <4>1 DEF PendingAlerts
    <3>2. /\ alertQ \in Seq(AlertEvent) /\ Len(alertQ) \in Nat
          /\ alertRetry \in AlertEvent \cup {None}
      BY DEF IInv, IInvType, TypeOK
    <3>3. \A n \in 1..Len(Pending) :
            \/ alertRetry # None /\ Pending[n] = alertRetry
            \/ \E m \in 1..Len(alertQ) : Pending[n] = alertQ[m]
      <4>1. CASE alertRetry = None
        BY <3>2, <4>1 DEF Pending, Behind
      <4>2. CASE alertRetry # None
        <5>1. /\ Len(Pending) = Len(alertQ) + 1 /\ Pending[1] = alertRetry
              /\ \A n \in 2..Len(Pending) : Pending[n] = alertQ[n - 1]
          BY <3>2, <4>2 DEF Pending, Behind
        <5>2. \A n \in 1..Len(Pending) :
                n = 1 \/ (n \in 2..Len(Pending) /\ n - 1 \in 1..Len(alertQ))
          BY <3>2, <5>1
        <5> QED
          BY <4>2, <5>1, <5>2
      <4> QED
        BY <4>1, <4>2
    <3> QED
      BY <3>1, <3>3 DEF Concerns
  <2> QED
    BY <2>3, <2>4 DEF Settles, Concerns
<1>4. CASE Stopped
  BY <1>4 DEF Stopped, NoMemory, AlertsSettle
<1>5. CASE Restart
  <2>1. /\ alert' = [a \in Alerts |-> IF a \in ActiveRows THEN alertRow[a] ELSE None]
        /\ phase = "down" /\ UNCHANGED <<alertRow, alertQ, alertRetry>>
    BY <1>5 DEF Restart, queueVars, dbVars
  <2>2. Pending' = <<>>
    BY <2>1 DEF IInv, DownIsEmpty, Pending, Behind
  <2> SUFFICES ASSUME NEW a \in Alerts, alert'[a] # None
               PROVE  Settles(<<>>, alertRow[a], a, alert'[a])
    BY <2>1, <2>2 DEF AlertsSettle
  <2>3. alert'[a] = alertRow[a]
    BY <2>1
  <2> QED
    BY <2>3 DEF Settles
<1> QED
  BY <1>1, <1>2, <1>3, <1>4, <1>5

\* Each step keeps what the log of the alerts settles to.
LEMMA SettlingIsInductive == IInv /\ AlertsSettle /\ [Next]_vars => AlertsSettle'
<1> SUFFICES ASSUME IInv, AlertsSettle, [Next]_vars PROVE AlertsSettle'
  OBVIOUS
<1>1. CASE \/ UNCHANGED vars
           \/ EnqueueAcknowledged \/ \E i \in Incidents : AcknowledgeIncident(i)
           \/ PersistIncident \/ PersistIncidentFails
           \/ ReloadRules \/ Shutdown
           \/ \E h \in Hosts : DeleteHost(h)
           \/ \E k \in Keys : DeleteRule(k)
  <2>1. UNCHANGED <<alert, alertRow, alertQ, alertRetry, staleAlerts>>
    BY <1>1 DEF vars, EnqueueAcknowledged, AcknowledgeIncident, PersistIncident,
                PersistIncidentFails, ReloadRules, Shutdown, DeleteHost,
                DeleteRule, memoryVars, queueVars, dbVars, ghostVars
  <2> QED
    BY <2>1, RestSettles
<1>2. ASSUME NEW a \in Alerts, CreateAlert(a) PROVE AlertsSettle'
  <2> DEFINE new == [status |-> "active", acked |-> FALSE]
  <2>1. /\ alert' = [alert EXCEPT ![a] = new] /\ NotifyAndEnqueue(a, new)
        /\ UNCHANGED <<alertRetry, alertRow>>
    BY <1>2 DEF CreateAlert, dbVars
  <2>2. new \in AlertState
    BY DEF AlertState
  <2> QED
    BY <2>1, <2>2, LearnSettles
<1>3. ASSUME NEW k \in Keys, ResolveAlert(k) PROVE AlertsSettle'
  <2> DEFINE a == active[k]
             done == [alert[a] EXCEPT !.status = "resolved"]
  <2>1. /\ alert' = [alert EXCEPT ![a] = done] /\ NotifyAndEnqueue(a, done)
        /\ UNCHANGED <<alertRetry, alertRow>> /\ a # None
    BY <1>3 DEF ResolveAlert, dbVars
  <2>2. a \in Alerts /\ alert[a] \in AlertState
    BY <2>1 DEF IInv, IInvType, TypeOK, ActiveKnown
  <2>3. done \in AlertState
    BY <2>2 DEF AlertState
  <2> QED
    BY <2>1, <2>2, <2>3, LearnSettles
<1>4. CASE \E a \in Alerts : AcknowledgeAlert(a)
  BY <1>4, AcknowledgeSettles
<1>5. CASE PersistAlert
  BY <1>5, PersistAlertSettles
<1>6. CASE PersistAlertFails \/ StopAlertPersistence \/ Restart
  BY <1>6, RestSettles
<1>7. CASE StopIncidentPersistence \/ Crash
  BY <1>7, RestSettles DEF StopIncidentPersistence, Crash
<1> QED
  BY <1>1, <1>2, <1>3, <1>4, <1>5, <1>6, <1>7 DEF Next

\* What the log settles to is what Latest says.
LEMMA SettlesIsLatest ==
    ASSUME IInv, AlertsSettle
    PROVE  AlertsConverge
<1> SUFFICES ASSUME NEW a \in Alerts, alert[a] # None, a \notin staleAlerts
             PROVE  Latest(a) = alert[a]
  BY DEF AlertsConverge
<1>1. Settles(Pending, alertRow[a], a, alert[a])
  BY DEF AlertsSettle
<1>2. /\ alertQ \in Seq(AlertEvent) /\ Len(alertQ) \in Nat
      /\ alertRetry \in AlertEvent \cup {None}
      /\ DOMAIN alertQ = 1..Len(alertQ)
  BY DEF IInv, IInvType, TypeOK
<1> DEFINE at == {n \in DOMAIN alertQ : alertQ[n].alert = a}
           first == IF alertRetry = None THEN 0 ELSE 1
<1>3. /\ Len(Pending) = Len(alertQ) + first
      /\ \A n \in 1..Len(alertQ) : Pending[n + first] = alertQ[n]
      /\ \A n \in 1..Len(Pending) :
            \/ n = 1 /\ alertRetry # None /\ Pending[n] = alertRetry
            \/ n - first \in 1..Len(alertQ)
  <2>1. CASE alertRetry = None
    BY <1>2, <2>1 DEF Pending, Behind
  <2>2. CASE alertRetry # None
    <3>1. /\ Len(Pending) = Len(alertQ) + 1 /\ Pending[1] = alertRetry
          /\ \A n \in 1..Len(alertQ) : Pending[n + 1] = alertQ[n]
      BY <1>2, <2>2 DEF Pending, Behind
    <3> QED
      BY <1>2, <2>2, <3>1
  <2> QED
    BY <2>1, <2>2
<1>4. CASE at # {}
  <2> DEFINE n == CHOOSE n \in at : \A m \in at : m <= n
  <2>1. at \subseteq 1..Len(alertQ)
    BY <1>2
  <2>2. n \in at /\ \A m \in at : m <= n
    BY <1>2, <1>4, <2>1, LastExists
  <2>3. Latest(a) = alertQ[n].state
    BY <1>4 DEF Latest
  <2> HIDE DEF n
  <2>4. n \in 1..Len(alertQ) /\ alertQ[n].alert = a
    BY <1>2, <2>2
  <2>5. n + first \in 1..Len(Pending) /\ Pending[n + first] = alertQ[n]
    BY <1>2, <1>3, <2>4
  <2>6. IsLast(Pending, n + first, a)
    <3> SUFFICES ASSUME NEW m \in 1..Len(Pending), Pending[m].alert = a
                 PROVE  m <= n + first
      BY <2>4, <2>5 DEF IsLast
    <3>1. CASE m = 1
      BY <1>2, <2>4, <3>1
    <3>2. CASE m - first \in 1..Len(alertQ)
      <4>1. Pending[m] = alertQ[m - first]
        <5>1. (m - first) + first = m
          OBVIOUS
        <5> QED
          BY <1>3, <3>2, <5>1
      <4>2. m - first \in at
        BY <1>2, <3>2, <4>1
      <4>3. m - first <= n
        BY <2>2, <4>2
      <4> QED
        BY <2>4, <4>3
    <3> QED
      BY <1>3, <3>1, <3>2
  <2> QED
    BY <1>1, <2>3, <2>5, <2>6 DEF Settles
<1>5. CASE at = {} /\ alertRetry # None /\ alertRetry.alert = a
  <2>1. 1 \in 1..Len(Pending) /\ Pending[1] = alertRetry
    BY <1>2, <1>5 DEF Pending, Behind
  <2>2. IsLast(Pending, 1, a)
    <3> SUFFICES ASSUME NEW m \in 1..Len(Pending), Pending[m].alert = a, m # 1
                 PROVE  FALSE
      BY <1>5, <2>1 DEF IsLast
    <3>1. m - 1 \in 1..Len(alertQ) /\ (m - 1) + 1 = m
      BY <1>3, <1>5
    <3>2. Pending[m] = alertQ[m - 1]
      BY <1>3, <1>5, <3>1
    <3> QED
      BY <1>2, <1>5, <3>1, <3>2
  <2>3. Latest(a) = alertRetry.state
    BY <1>5 DEF Latest
  <2> QED
    BY <1>1, <2>1, <2>2, <2>3 DEF Settles
<1>6. CASE at = {} /\ ~(alertRetry # None /\ alertRetry.alert = a)
  <2>1. ~Concerns(Pending, a)
    <3> SUFFICES ASSUME NEW m \in 1..Len(Pending), Pending[m].alert = a
                 PROVE  FALSE
      BY DEF Concerns
    <3>1. m - first \in 1..Len(alertQ) /\ (m - first) + first = m
      BY <1>3, <1>6
    <3>2. Pending[m] = alertQ[m - first]
      BY <1>3, <3>1
    <3> QED
      BY <1>2, <1>6, <3>1, <3>2
  <2>2. Latest(a) = alertRow[a]
    BY <1>6 DEF Latest
  <2> QED
    BY <1>1, <2>1, <2>2 DEF Settles
<1> QED
  BY <1>4, <1>5, <1>6

-----------------------------------------------------------------------------
(* The rows of one key: a resolution reaches the table before the next     *)
(* alert of its condition does.                                            *)

\* The state of an alert that is there and not resolved.
Live(s) == s # None /\ s.status = "active"

\* When the n-th event of log is reached, the row of a is not active.
Over(log, row, a, n) ==
    \/ \E m \in 1..(n - 1) : log[m].alert = a /\ log[m].state.status = "resolved"
    \/ /\ ~Live(row)
       /\ \A m \in 1..(n - 1) : log[m].alert = a => log[m].state.status = "resolved"

\* When an active event of b is persisted, no other alert of its key has an
\* active row.
OldestFirst ==
    \A a, b \in Alerts : \A n \in 1..Len(Pending) :
        /\ a # b /\ KeyOf[a] = KeyOf[b] /\ KeyOf[a] \in RestoredKeys
        /\ Pending[n].alert = b /\ Pending[n].state.status = "active"
        => Over(Pending, alertRow[a], a, n)

\* The alert a key is unresolved for is the one the map has, as long as the
\* key can be rebuilt.
ActiveIsIndexed ==
    phase # "down" =>
        \A a \in Alerts :
            Live(alert[a]) /\ KeyOf[a] \in RestoredKeys => active[KeyOf[a]] = a

\* As long as no change was dropped, only a stopped worker leaves one behind.
NothingStale == phase # "drainIncidents" => staleAlerts = {}

\* The worker of alerts is through in the last phases.
LogIsDrained == phase \in {"drainIncidents", "down"} => Pending = <<>>

\* The manager holds every alert whose row is active.
RowsKnown == phase # "down" => \A a \in Alerts : Live(alertRow[a]) => alert[a] # None

\* What the invariant adds for the keys.
KeysInv ==
    /\ LogIsDrained
    /\ RowsKnown
    /\ ~alertsLost =>
          OldestFirst /\ ActiveIsIndexed /\ NothingStale /\ OneActiveRowPerKey

\* A new event does not make an alert active again before the n-th.
LEMMA OverAppend ==
    ASSUME NEW S, NEW log \in Seq(S), NEW e \in S, NEW a, NEW row, NEW new,
           NEW n \in 1..Len(log), Over(log, row, a, n), Live(new) => Live(row)
    PROVE  Over(Append(log, e), new, a, n)
<1>1. \A m \in 1..(n - 1) : Append(log, e)[m] = log[m]
  OBVIOUS
<1> QED
  BY <1>1 DEF Over

\* Nor does the oldest event, once the row has it.
LEMMA OverTail ==
    ASSUME NEW S, NEW log \in Seq(S), log # <<>>, NEW a, NEW row, NEW new,
           NEW n \in 1..Len(Tail(log)), Over(log, row, a, n + 1),
           Live(new) => IF Head(log).alert = a THEN Live(Head(log).state) ELSE Live(row),
           Head(log).alert = a /\ Head(log).state.status = "resolved" =>
              \A m \in 2..Len(log) : log[m].alert = a => log[m].state.status = "resolved"
    PROVE  Over(Tail(log), new, a, n)
<1>1. /\ Len(log) \in Nat \ {0} /\ Len(Tail(log)) = Len(log) - 1
      /\ Head(log) = log[1]
      /\ \A m \in 1..Len(Tail(log)) :
           Tail(log)[m] = log[m + 1] /\ m + 1 \in 1..Len(log)
      /\ \A m \in 2..Len(log) :
           log[m] = Tail(log)[m - 1] /\ m - 1 \in 1..Len(Tail(log))
  BY TailElements
<1>2. \A m \in 1..(n - 1) : /\ Tail(log)[m] = log[m + 1]
                            /\ m + 1 \in 1..((n + 1) - 1) /\ m + 1 \in 2..Len(log)
  BY <1>1
<1>3. \A m \in 2..((n + 1) - 1) : /\ m - 1 \in 1..(n - 1)
                                  /\ Tail(log)[m - 1] = log[m]
  BY <1>1
<1>4. CASE Head(log).alert = a /\ Head(log).state.status = "resolved"
  <2>1. ~Live(new)
    BY <1>4 DEF Live
  <2>2. \A m \in 1..(n - 1) :
          Tail(log)[m].alert = a => Tail(log)[m].state.status = "resolved"
    BY <1>2, <1>4
  <2> QED
    BY <2>1, <2>2 DEF Over
<1>5. CASE ~(Head(log).alert = a /\ Head(log).state.status = "resolved")
  <2>1. CASE \E m \in 1..((n + 1) - 1) :
               log[m].alert = a /\ log[m].state.status = "resolved"
    <3>1. PICK m \in 1..((n + 1) - 1) :
                 log[m].alert = a /\ log[m].state.status = "resolved"
      BY <2>1
    <3>2. m \in 2..((n + 1) - 1)
      BY <1>1, <1>5, <3>1
    <3> QED
      BY <1>3, <3>1, <3>2 DEF Over
  <2>2. CASE /\ ~Live(row)
             /\ \A m \in 1..((n + 1) - 1) :
                  log[m].alert = a => log[m].state.status = "resolved"
    <3>1. 1 \in 1..((n + 1) - 1)
      OBVIOUS
    <3>2. ~Live(new)
      BY <1>1, <1>5, <2>2, <3>1
    <3> QED
      BY <1>2, <2>2, <3>2 DEF Over
  <2> QED
    BY <2>1, <2>2 DEF Over
<1> QED
  BY <1>4, <1>5

\* An alert the manager does not hold as active: its row will not be active
\* when the log has drained.
LEMMA NotLiveIsOver ==
    ASSUME IInv, AlertsSettle, KeysInv, phase # "down", NEW a \in Alerts,
           a \notin staleAlerts, ~Live(alert[a]), NEW e \in AlertEvent, NEW new,
           Live(new) => Live(alertRow[a])
    PROVE  Over(Append(Pending, e), new, a, Len(Pending) + 1)
<1>1. /\ Pending \in Seq(AlertEvent) /\ Len(Pending) \in Nat
      /\ \A n \in 1..Len(Pending) : Append(Pending, e)[n] = Pending[n]
      /\ (Len(Pending) + 1) - 1 = Len(Pending)
  BY PendingFacts
<1>2. CASE alert[a] = None
  <2>1. ~Live(alertRow[a])
    BY <1>2 DEF KeysInv, RowsKnown
  <2>2. \A n \in 1..Len(Pending) : Pending[n].alert # a
    BY <1>2, PendingFacts DEF Between
  <2> QED
    BY <1>1, <2>1, <2>2 DEF Over
<1>3. CASE alert[a] # None
  <2>1. Settles(Pending, alertRow[a], a, alert[a])
    BY <1>3 DEF AlertsSettle
  <2>2. alert[a].status = "resolved"
    BY <1>3 DEF Live, IInv, IInvType, TypeOK, AlertState
  <2>3. CASE Concerns(Pending, a)
    <3>1. PICK n \in 1..Len(Pending) : IsLast(Pending, n, a)
      BY <1>1, <2>3, LastOfLog
    <3>2. Pending[n].alert = a /\ Pending[n].state.status = "resolved"
      BY <2>1, <2>2, <3>1 DEF Settles, IsLast
    <3> QED
      BY <1>1, <3>2 DEF Over
  <2>4. CASE ~Concerns(Pending, a)
    <3>1. ~Live(alertRow[a])
      BY <2>1, <2>2, <2>4 DEF Settles, Live
    <3> QED
      BY <1>1, <2>4, <3>1 DEF Over, Concerns
  <2> QED
    BY <2>3, <2>4
<1> QED
  BY <1>2, <1>3

\* A change of alert a, when no other alert of its key is active.
LEMMA LearnKeepsKeys ==
    ASSUME IInv, AlertsSettle, KeysInv, NEW a \in Alerts, NEW s \in AlertState,
           NotifyAndEnqueue(a, s), UNCHANGED <<phase, alertRetry, hosts, rules>>,
           phase = "up", alert' = [alert EXCEPT ![a] = s],
           \A b \in Alerts : Live(alertRow'[b]) => Live(alertRow[b]),
           ActiveIsIndexed => ActiveIsIndexed',
           s.status = "active" /\ ActiveIsIndexed =>
              \A b \in Alerts \ {a} :
                 KeyOf[b] = KeyOf[a] /\ KeyOf[b] \in RestoredKeys => ~Live(alert[b])
    PROVE  KeysInv'
<1> DEFINE e == [alert |-> a, state |-> s]
<1>1. /\ Pending \in Seq(AlertEvent) /\ Len(Pending) \in Nat /\ e \in AlertEvent
      /\ \A n \in 1..Len(Pending) : Append(Pending, e)[n] = Pending[n]
      /\ Append(Pending, e)[Len(Pending) + 1] = e
      /\ Len(Append(Pending, e)) = Len(Pending) + 1
  <2>1. Pending \in Seq(AlertEvent) /\ e \in AlertEvent
    BY PendingFacts DEF AlertEvent
  <2> QED
    BY <2>1
<1>2. LogIsDrained' /\ RowsKnown'
  <2>1. RowsKnown'
    <3> SUFFICES ASSUME NEW b \in Alerts, Live(alertRow'[b])
                 PROVE  alert'[b] # None
      BY DEF RowsKnown
    <3>1. alert[b] # None
      BY DEF KeysInv, RowsKnown
    <3> QED
      BY <3>1, StatesAreNotNone DEF IInv, IInvType, TypeOK
  <2> QED
    BY <2>1 DEF LogIsDrained
<1> SUFFICES ASSUME ~alertsLost'
             PROVE  OldestFirst' /\ ActiveIsIndexed' /\ NothingStale' /\ OneActiveRowPerKey'
  BY <1>2 DEF KeysInv
<1>3. /\ Pending' = Append(Pending, e) /\ staleAlerts' = staleAlerts \ {a}
      /\ ~alertsLost
  BY LearnAppends
<1>4. OldestFirst /\ ActiveIsIndexed /\ NothingStale /\ OneActiveRowPerKey
  BY <1>3 DEF KeysInv
<1>5. NothingStale'
  BY <1>3, <1>4 DEF NothingStale
<1>6. OneActiveRowPerKey'
  BY <1>3, <1>4 DEF OneActiveRowPerKey, ActiveRows, Live
<1>7. RestoredKeys' = RestoredKeys
  BY DEF RestoredKeys
<1>8. OldestFirst'
  <2> SUFFICES ASSUME NEW c \in Alerts, NEW b \in Alerts, NEW n \in 1..Len(Append(Pending, e)),
                      c # b, KeyOf[c] = KeyOf[b], KeyOf[c] \in RestoredKeys,
                      Append(Pending, e)[n].alert = b,
                      Append(Pending, e)[n].state.status = "active"
               PROVE  Over(Append(Pending, e), alertRow'[c], c, n)
    BY <1>3, <1>7 DEF OldestFirst
  <2>1. CASE n \in 1..Len(Pending)
    <3>1. Over(Pending, alertRow[c], c, n)
      BY <1>1, <1>4, <2>1 DEF OldestFirst
    <3> QED
      BY <1>1, <2>1, <3>1, OverAppend
  <2>2. CASE n = Len(Pending) + 1
    <3>1. b = a /\ s.status = "active"
      BY <1>1, <2>2
    <3>2. ~Live(alert[c])
      BY <1>4, <3>1
    <3>3. c \notin staleAlerts
      BY <1>4 DEF NothingStale
    <3> QED
      BY <1>1, <2>2, <3>2, <3>3, NotLiveIsOver
  <2> QED
    BY <1>1, <2>1, <2>2
<1> QED
  BY <1>4, <1>5, <1>6, <1>8

\* A creation finds no live alert of its key.
LEMMA CreateKeys ==
    ASSUME IInv, AlertsSettle, KeysInv, NEW a \in Alerts, CreateAlert(a)
    PROVE  KeysInv'
<1> DEFINE new == [status |-> "active", acked |-> FALSE]
           k == KeyOf[a]
<1>1. /\ phase = "up" /\ active[k] = None
      /\ alert' = [alert EXCEPT ![a] = new]
      /\ active' = [active EXCEPT ![k] = a]
      /\ NotifyAndEnqueue(a, new)
      /\ UNCHANGED <<phase, alertRetry, alertRow, hosts, rules>>
  BY DEF CreateAlert, dbVars
<1>2. new \in AlertState /\ k \in Keys /\ None \notin Alerts
  BY ConstantsAssumption, NoneAssumption DEF AlertState
<1>3. RestoredKeys' = RestoredKeys
  BY <1>1 DEF RestoredKeys
<1>4. ASSUME ActiveIsIndexed, NEW b \in Alerts, KeyOf[b] = k, k \in RestoredKeys
      PROVE  ~Live(alert[b])
  BY <1>1, <1>2, <1>4 DEF ActiveIsIndexed
<1>5. ASSUME ActiveIsIndexed PROVE ActiveIsIndexed'
  <2> SUFFICES ASSUME NEW b \in Alerts, Live(alert'[b]), KeyOf[b] \in RestoredKeys
               PROVE  active'[KeyOf[b]] = b
    BY <1>3 DEF ActiveIsIndexed
  <2>1. KeyOf[b] \in Keys
    BY ConstantsAssumption
  <2>2. CASE b = a
    BY <1>1, <1>2, <2>2 DEF IInv, IInvType, TypeOK
  <2>3. CASE b # a
    <3>1. Live(alert[b])
      BY <1>1, <2>3 DEF IInv, IInvType, TypeOK
    <3>2. KeyOf[b] # k
      BY <1>4, <1>5, <3>1
    <3> QED
      BY <1>1, <1>5, <2>1, <3>1, <3>2 DEF ActiveIsIndexed, IInv, IInvType, TypeOK
  <2> QED
    BY <2>2, <2>3
<1>6. \A b \in Alerts : Live(alertRow'[b]) => Live(alertRow[b])
  BY <1>1
<1> HIDE DEF new
<1> QED
  BY <1>1, <1>2, <1>4, <1>5, <1>6, LearnKeepsKeys

\* A resolution leaves its key with no live alert.
LEMMA ResolveKeys ==
    ASSUME IInv, AlertsSettle, KeysInv, NEW k \in Keys, ResolveAlert(k)
    PROVE  KeysInv'
<1> DEFINE a == active[k]
           done == [alert[a] EXCEPT !.status = "resolved"]
<1>1. /\ phase = "up" /\ a # None
      /\ alert' = [alert EXCEPT ![a] = done]
      /\ active' = [active EXCEPT ![k] = None]
      /\ NotifyAndEnqueue(a, done)
      /\ UNCHANGED <<phase, alertRetry, alertRow, hosts, rules>>
  BY DEF ResolveAlert, dbVars
<1>2. a \in Alerts /\ alert[a] \in AlertState
  BY <1>1 DEF IInv, IInvType, TypeOK, ActiveKnown
<1>3. done \in AlertState /\ done.status = "resolved"
  BY <1>2 DEF AlertState
<1>4. RestoredKeys' = RestoredKeys
  BY <1>1 DEF RestoredKeys
<1>5. ASSUME ActiveIsIndexed PROVE ActiveIsIndexed'
  <2> SUFFICES ASSUME NEW b \in Alerts, Live(alert'[b]), KeyOf[b] \in RestoredKeys
               PROVE  active'[KeyOf[b]] = b
    BY <1>4 DEF ActiveIsIndexed
  <2>1. KeyOf[b] \in Keys
    BY ConstantsAssumption
  <2>2. b # a
    BY <1>1, <1>2, <1>3 DEF Live, IInv, IInvType, TypeOK
  <2>3. Live(alert[b])
    BY <1>1, <2>2 DEF IInv, IInvType, TypeOK
  <2>4. active[KeyOf[b]] = b
    BY <1>1, <1>5, <2>3 DEF ActiveIsIndexed
  <2> QED
    BY <1>1, <2>1, <2>2, <2>4 DEF IInv, IInvType, TypeOK
<1>6. \A b \in Alerts : Live(alertRow'[b]) => Live(alertRow[b])
  BY <1>1
<1> HIDE DEF a, done
<1> QED
  BY <1>1, <1>2, <1>3, <1>5, <1>6, LearnKeepsKeys

\* An acknowledgement makes no alert live.
LEMMA AcknowledgeKeys ==
    ASSUME IInv, AlertsSettle, KeysInv, NEW a \in Alerts, AcknowledgeAlert(a)
    PROVE  KeysInv'
<1>1. /\ phase = "up"
      /\ UNCHANGED <<phase, active, alertRetry, hosts, rules>>
      /\ alertRow' = IF alertRow[a] = None THEN alertRow
                     ELSE [alertRow EXCEPT ![a].acked = TRUE]
  BY DEF AcknowledgeAlert
<1>2. \A b \in Alerts : Live(alertRow'[b]) => Live(alertRow[b])
  <2> SUFFICES ASSUME NEW b \in Alerts, Live(alertRow'[b]), alertRow[a] # None
               PROVE  Live(alertRow[b])
    BY <1>1
  <2>1. alertRow[a] \in AlertState
    BY DEF IInv, IInvType, TypeOK
  <2>2. alertRow' = [alertRow EXCEPT ![a] = [alertRow[a] EXCEPT !.acked = TRUE]]
    BY <1>1
  <2>3. [alertRow[a] EXCEPT !.acked = TRUE].status = alertRow[a].status
    BY <2>1 DEF AlertState
  <2> QED
    BY <2>2, <2>3 DEF Live, IInv, IInvType, TypeOK
<1>3. RestoredKeys' = RestoredKeys
  BY <1>1 DEF RestoredKeys
<1>4. CASE alert[a] # None /\ ~alert[a].acked
  <2> DEFINE s == [alert[a] EXCEPT !.acked = TRUE]
  <2>1. s \in AlertState /\ s.status = alert[a].status
    BY <1>4 DEF IInv, IInvType, TypeOK, AlertState
  <2>2. alert' = [alert EXCEPT ![a] = s] /\ NotifyAndEnqueue(a, s)
    BY <1>4 DEF AcknowledgeAlert, NotifyAndEnqueue
  <2> HIDE DEF s
  <2>3. \A b \in Alerts : Live(alert'[b]) => Live(alert[b])
    BY <1>4, <2>1, <2>2 DEF Live, IInv, IInvType, TypeOK
  <2>4. ASSUME ActiveIsIndexed PROVE ActiveIsIndexed'
    BY <1>1, <1>3, <2>3, <2>4 DEF ActiveIsIndexed
  <2>5. ASSUME s.status = "active", ActiveIsIndexed, NEW b \in Alerts \ {a},
               KeyOf[b] = KeyOf[a], KeyOf[b] \in RestoredKeys
        PROVE  ~Live(alert[b])
    <3>1. Live(alert[a])
      BY <1>4, <2>1, <2>5 DEF Live
    <3>2. active[KeyOf[a]] = a
      BY <1>1, <2>5, <3>1 DEF ActiveIsIndexed
    <3> QED
      BY <1>1, <2>5, <3>2 DEF ActiveIsIndexed
  <2> QED
    BY <1>1, <1>2, <2>1, <2>2, <2>4, <2>5, LearnKeepsKeys
<1>5. CASE ~(alert[a] # None /\ ~alert[a].acked)
  <2>1. UNCHANGED <<alert, alertQ, staleAlerts, alertsLost>>
    BY <1>5 DEF AcknowledgeAlert
  <2>2. Pending' = Pending
    BY <1>1, <2>1 DEF Pending
  <2>3. \A c \in Alerts : \A n : Over(Pending, alertRow[c], c, n)
                                   => Over(Pending, alertRow'[c], c, n)
    BY <1>2 DEF Over
  <2>4. OldestFirst => OldestFirst'
    BY <1>3, <2>2, <2>3 DEF OldestFirst
  <2>5. OneActiveRowPerKey /\ ~alertsLost => OneActiveRowPerKey'
    BY <1>2 DEF OneActiveRowPerKey, ActiveRows, Live
  <2>6. RowsKnown'
    BY <1>1, <1>2, <2>1 DEF KeysInv, RowsKnown
  <2> QED
    BY <1>1, <1>3, <2>1, <2>2, <2>4, <2>5, <2>6
       DEF KeysInv, LogIsDrained, ActiveIsIndexed, NothingStale
<1> QED
  BY <1>4, <1>5

\* A write of an event of alert b makes a second row of its key active only
\* if the other row is no longer: the event comes after the resolution of the
\* other alert, or the row of b was active already, or it is refused.
LEMMA PersistKeepsOneRow ==
    ASSUME IInv, KeysInv, PersistAlert, ~alertsLost
    PROVE  OneActiveRowPerKey'
<1> DEFINE b == AlertItem.alert
           new == AlertUpsert(AlertItem)
<1>1. /\ alertRow' = [alertRow EXCEPT ![b] = new]
      /\ AlertReady /\ TakeAlert /\ AlertReferencesExist(b)
      /\ OldestFirst /\ OneActiveRowPerKey
  BY DEF PersistAlert, KeysInv
<1>2. Pending # <<>> /\ AlertItem = Head(Pending) /\ AlertItem = Pending[1]
  <2>1. Pending # <<>> /\ AlertItem = Head(Pending) /\ Pending \in Seq(AlertEvent)
    BY <1>1, WorkerTakes, PendingFacts
  <2> QED
    BY <2>1
<1>3. 1 \in 1..Len(Pending)
  BY <1>2, PendingFacts
<1>4. /\ b \in Alerts /\ AlertItem.state \in AlertState /\ Between(AlertItem)
      /\ new.status = AlertItem.state.status
  BY <1>2, <1>3, PendingFacts DEF AlertUpsert
<1> HIDE DEF b, new
<1>5. /\ alertRow'[b] = new
      /\ \A a \in Alerts \ {b} : alertRow'[a] = alertRow[a]
  BY <1>1, <1>4 DEF IInv, IInvType, TypeOK
<1>6. ASSUME NEW a \in Alerts \ {b}, Live(alertRow[a]), Live(new),
             KeyOf[a] = KeyOf[b], KeyOf[a] \notin SyntheticKeys
      PROVE  FALSE
  <2>1. CASE KeyOf[a] \in RestoredKeys
    <3>1. AlertItem.state.status = "active"
      BY <1>4, <1>6 DEF Live
    <3>2. Over(Pending, alertRow[a], a, 1)
      BY <1>1, <1>2, <1>3, <1>4, <1>6, <2>1, <3>1 DEF b, OldestFirst
    <3> QED
      BY <1>6, <3>2 DEF Over
  <2>2. CASE KeyOf[a] \notin RestoredKeys
    <3>1. KeyOf[b] \in Keys
      BY <1>4, ConstantsAssumption
    <3>2. KeyOf[b] \in RuleKeys => KeyOf[b] \in rules
      BY <1>1 DEF AlertReferencesExist
    <3>3. HostOf[KeyOf[b]] \notin hosts
      BY <1>6, <2>2, <3>1, <3>2 DEF RestoredKeys
    <3>4. alertRow[b] # None
      BY <1>1, <3>3 DEF AlertReferencesExist
    <3>5. Live(alertRow[b])
      <4>1. alertRow[b] \in AlertState
        BY <1>4, <3>4 DEF IInv, IInvType, TypeOK
      <4> QED
        BY <1>4, <1>6, <3>4, <4>1 DEF b, Between, Live, AlertState
    <3> QED
      BY <1>1, <1>4, <1>6, <3>5 DEF OneActiveRowPerKey, ActiveRows, Live
  <2> QED
    BY <2>1, <2>2
<1> SUFFICES ASSUME NEW a \in Alerts, NEW c \in Alerts, Live(alertRow'[a]), Live(alertRow'[c]),
                    KeyOf[a] = KeyOf[c], KeyOf[a] \notin SyntheticKeys
             PROVE  a = c
  BY DEF OneActiveRowPerKey, ActiveRows, Live
<1>7. CASE a # b /\ c # b
  BY <1>1, <1>5, <1>7 DEF OneActiveRowPerKey, ActiveRows, Live
<1>8. CASE a = b /\ c # b
  BY <1>5, <1>6, <1>8
<1>9. CASE a # b /\ c = b
  BY <1>5, <1>6, <1>9
<1> QED
  BY <1>7, <1>8, <1>9

\* The worker makes no second row of a key active.
LEMMA PersistAlertKeys ==
    ASSUME IInv, KeysInv, PersistAlert
    PROVE  KeysInv'
<1> DEFINE b == AlertItem.alert
           new == AlertUpsert(AlertItem)
<1>1. /\ UNCHANGED <<phase, alert, active, hosts, rules, staleAlerts, alertsLost>>
      /\ alertRow' = [alertRow EXCEPT ![b] = new]
      /\ AlertReady /\ TakeAlert /\ alertRetry' = None
      /\ phase \in {"up", "drainAlerts"}
  BY DEF PersistAlert, memoryVars, ghostVars
<1>2. /\ Pending # <<>> /\ AlertItem = Head(Pending)
      /\ Pending' = Tail(Pending) /\ Pending \in Seq(AlertEvent)
  BY <1>1, WorkerTakes, PendingFacts
<1>3. /\ Head(Pending) = Pending[1] /\ 1 \in 1..Len(Pending)
      /\ Len(Pending) \in Nat /\ Len(Tail(Pending)) = Len(Pending) - 1
      /\ \A n \in 1..Len(Tail(Pending)) :
           Tail(Pending)[n] = Pending[n + 1] /\ n + 1 \in 1..Len(Pending)
  BY <1>2, TailElements
<1>4. /\ b \in Alerts /\ AlertItem.state \in AlertState /\ AlertItem.state # None
      /\ Between(AlertItem)
      /\ new.status = AlertItem.state.status
      /\ \A m \in 2..Len(Pending) : InOrder(AlertItem, Pending[m])
  BY <1>2, <1>3, PendingFacts, StatesAreNotNone DEF AlertUpsert
<1> HIDE DEF new
<1>5. /\ alertRow'[b] = new
      /\ \A a \in Alerts \ {b} : alertRow'[a] = alertRow[a]
  BY <1>1, <1>4 DEF IInv, IInvType, TypeOK
<1>6. RowsKnown'
  BY <1>1, <1>4, <1>5 DEF KeysInv, RowsKnown, Between
<1>7. LogIsDrained'
  BY <1>1 DEF LogIsDrained
<1>8. RestoredKeys' = RestoredKeys
  BY <1>1 DEF RestoredKeys
<1>9. ASSUME OldestFirst PROVE OldestFirst'
  <2> SUFFICES ASSUME NEW a \in Alerts, NEW c \in Alerts, NEW n \in 1..Len(Tail(Pending)),
                      a # c, KeyOf[a] = KeyOf[c], KeyOf[a] \in RestoredKeys,
                      Tail(Pending)[n].alert = c,
                      Tail(Pending)[n].state.status = "active"
               PROVE  Over(Tail(Pending), alertRow'[a], a, n)
    BY <1>2, <1>8 DEF OldestFirst
  <2>1. Over(Pending, alertRow[a], a, n + 1)
    BY <1>3, <1>9 DEF OldestFirst
  <2>2. Live(alertRow'[a]) => IF Head(Pending).alert = a THEN Live(Head(Pending).state)
                              ELSE Live(alertRow[a])
    BY <1>2, <1>4, <1>5 DEF Live
  <2>3. Head(Pending).alert = a /\ Head(Pending).state.status = "resolved" =>
           \A m \in 2..Len(Pending) :
               Pending[m].alert = a => Pending[m].state.status = "resolved"
    BY <1>2, <1>4 DEF InOrder
  <2> QED
    BY <1>2, <2>1, <2>2, <2>3, OverTail
<1>10. ~alertsLost => OneActiveRowPerKey'
  BY PersistKeepsOneRow
<1> QED
  BY <1>1, <1>6, <1>7, <1>8, <1>9, <1>10 DEF KeysInv, ActiveIsIndexed, NothingStale

\* The steps that leave the alerts, their rows and their log alone; a key may
\* cease to be one that can be rebuilt.
LEMMA RestKeys ==
    ASSUME KeysInv, UNCHANGED <<alert, active, alertRow, staleAlerts, alertsLost>>,
           Pending' = Pending, hosts' \subseteq hosts, rules' \subseteq rules,
           phase' = phase \/ (phase = "up" /\ phase' = "drainAlerts")
    PROVE  KeysInv'
<1>1. RestoredKeys' \subseteq RestoredKeys
  BY DEF RestoredKeys
<1>2. OldestFirst => OldestFirst'
  BY <1>1 DEF OldestFirst
<1>3. ActiveIsIndexed => ActiveIsIndexed'
  BY <1>1 DEF ActiveIsIndexed
<1>4. OneActiveRowPerKey => OneActiveRowPerKey'
  BY DEF OneActiveRowPerKey, ActiveRows
<1> QED
  BY <1>2, <1>3, <1>4 DEF KeysInv, LogIsDrained, RowsKnown, NothingStale

\* The end of the alert worker, the end of the process, and a new one.
LEMMA ProcessKeys ==
    ASSUME IInv, KeysInv, StopAlertPersistence \/ Stopped \/ Restart
    PROVE  KeysInv'
<1>1. UNCHANGED <<alertRow, hosts, rules, alertsLost>>
  BY DEF StopAlertPersistence, Stopped, Restart, dbVars, ghostVars
<1>2. OneActiveRowPerKey => OneActiveRowPerKey'
  BY <1>1 DEF OneActiveRowPerKey, ActiveRows
<1>3. Pending' = <<>>
  <2>1. alertQ' = <<>> /\ alertRetry' = None
    BY DEF StopAlertPersistence, Stopped, Restart, queueVars, IInv, DownIsEmpty
  <2> QED
    BY <2>1 DEF Pending, Behind
<1>4. LogIsDrained' /\ OldestFirst'
  BY <1>3 DEF LogIsDrained, OldestFirst
<1>5. RestoredKeys' = RestoredKeys
  BY <1>1 DEF RestoredKeys
<1>6. CASE StopAlertPersistence
  <2>1. /\ phase = "drainAlerts" /\ phase' = "drainIncidents"
        /\ UNCHANGED <<alert, active>>
    BY <1>6 DEF StopAlertPersistence, memoryVars
  <2> QED
    BY <1>1, <1>2, <1>4, <1>5, <2>1
       DEF KeysInv, RowsKnown, ActiveIsIndexed, NothingStale
<1>7. CASE Stopped
  <2>1. phase' = "down" /\ staleAlerts' = {}
    BY <1>7 DEF Stopped
  <2> QED
    BY <1>1, <1>2, <1>4, <2>1 DEF KeysInv, RowsKnown, ActiveIsIndexed, NothingStale
<1>8. CASE Restart
  <2>1. /\ phase = "down" /\ UNCHANGED staleAlerts
        /\ alert' = [a \in Alerts |-> IF a \in ActiveRows THEN alertRow[a] ELSE None]
        /\ \A k \in Keys :
             LET rows == {a \in ActiveRows : KeyOf[a] = k /\ k \in RestoredKeys}
             IN  IF rows = {} THEN active'[k] = None ELSE active'[k] \in rows
    BY <1>8 DEF Restart, ghostVars
  <2>2. RowsKnown'
    BY <1>1, <2>1 DEF RowsKnown, ActiveRows, Live
  <2>3. NothingStale => NothingStale'
    BY <2>1 DEF NothingStale
  <2>4. ASSUME ~alertsLost, OneActiveRowPerKey PROVE ActiveIsIndexed'
    <3> SUFFICES ASSUME NEW a \in Alerts, Live(alert'[a]), KeyOf[a] \in RestoredKeys
                 PROVE  active'[KeyOf[a]] = a
      BY <1>5 DEF ActiveIsIndexed
    <3>1. a \in ActiveRows
      BY <2>1 DEF Live
    <3>2. KeyOf[a] \in Keys \ SyntheticKeys
      BY DEF RestoredKeys
    <3> DEFINE c == active'[KeyOf[a]]
    <3>3. c \in ActiveRows /\ KeyOf[c] = KeyOf[a]
      BY <2>1, <3>1, <3>2
    <3> HIDE DEF c
    <3>4. c = a
      BY <2>4, <3>1, <3>2, <3>3 DEF OneActiveRowPerKey
    <3> QED
      BY <3>4 DEF c
  <2> QED
    BY <1>1, <1>2, <1>4, <2>2, <2>3, <2>4 DEF KeysInv
<1> QED
  BY <1>6, <1>7, <1>8

\* Each step keeps the invariant of the keys.
LEMMA KeysAreInductive ==
    ASSUME IInv, AlertsSettle, KeysInv, [Next]_vars
    PROVE  KeysInv'
<1>1. CASE \/ UNCHANGED vars
           \/ EnqueueAcknowledged \/ \E i \in Incidents : AcknowledgeIncident(i)
           \/ PersistIncident \/ PersistIncidentFails
           \/ ReloadRules \/ Shutdown
           \/ \E h \in Hosts : DeleteHost(h)
           \/ \E k \in Keys : DeleteRule(k)
  <2>1. UNCHANGED <<alert, active, alertRow, alertQ, alertRetry, staleAlerts, alertsLost>>
    BY <1>1 DEF vars, EnqueueAcknowledged, AcknowledgeIncident, PersistIncident,
                PersistIncidentFails, ReloadRules, Shutdown, DeleteHost,
                DeleteRule, memoryVars, queueVars, dbVars, ghostVars
  <2>2. /\ hosts' \subseteq hosts /\ rules' \subseteq rules
        /\ phase' = phase \/ (phase = "up" /\ phase' = "drainAlerts")
    BY <1>1 DEF vars, EnqueueAcknowledged, AcknowledgeIncident, PersistIncident,
                PersistIncidentFails, ReloadRules, Shutdown, DeleteHost,
                DeleteRule, dbVars
  <2>3. Pending' = Pending
    BY <2>1 DEF Pending
  <2> QED
    BY <2>1, <2>2, <2>3, RestKeys
<1>2. CASE PersistAlertFails
  <2>1. /\ AlertReady /\ TakeAlert /\ alertRetry' = AlertItem
        /\ UNCHANGED <<phase, alert, active, alertRow, hosts, rules, staleAlerts,
                       alertsLost>>
    BY <1>2 DEF PersistAlertFails, memoryVars, dbVars, ghostVars
  <2>2. Pending' = Pending
    BY <2>1, WorkerTakes
  <2> QED
    BY <2>1, <2>2, RestKeys
<1>3. CASE \E a \in Alerts : CreateAlert(a) \/ AcknowledgeAlert(a)
  BY <1>3, CreateKeys, AcknowledgeKeys
<1>4. CASE \E k \in Keys : ResolveAlert(k)
  BY <1>4, ResolveKeys
<1>5. CASE PersistAlert
  BY <1>5, PersistAlertKeys
<1>6. CASE StopAlertPersistence \/ Restart
  BY <1>6, ProcessKeys
<1>7. CASE StopIncidentPersistence \/ Crash
  BY <1>7, ProcessKeys DEF StopIncidentPersistence, Crash
<1> QED
  BY <1>1, <1>2, <1>3, <1>4, <1>5, <1>6, <1>7 DEF Next

-----------------------------------------------------------------------------
(* The incidents: the newest snapshot of the log is what the engine holds, *)
(* as long as no request thread holds one back.                            *)

\* What the worker of incidents has still to persist.
IncidentLog == Behind(incidentRetry, incidentQ)

\* Some snapshot of log is of incident i.
Mentions(log, i) == \E n \in 1..Len(log) : log[n].incident = i

\* The n-th snapshot of log is the last of incident i.
IsNewest(log, n, i) ==
    /\ log[n].incident = i
    /\ \A m \in 1..Len(log) : log[m].incident = i => m <= n

\* Once log has drained the row of incident i is there and has status s.
StatusSettles(log, row, i, s) ==
    /\ \A n \in 1..Len(log) : IsNewest(log, n, i) => log[n].row.status = s
    /\ ~Mentions(log, i) => row # None /\ row.status = s

\* The log of the incidents settles to what the engine holds.
IncidentsSettle ==
    \A i \in Incidents :
        incident[i] # None /\ i \notin staleIncidents
            => StatusSettles(IncidentLog, incidentRow[i], i, incident[i].status)

\* The newest snapshot is what the log settles to.
LEMMA StatusAppend ==
    ASSUME NEW S, NEW log \in Seq(S), NEW i, NEW s, NEW e \in S,
           e.incident = i, e.row.status = s, NEW row
    PROVE  StatusSettles(Append(log, e), row, i, s)
<1>1. /\ Len(Append(log, e)) = Len(log) + 1 /\ Len(log) \in Nat
      /\ Append(log, e)[Len(log) + 1] = e
  OBVIOUS
<1> QED
  BY <1>1 DEF StatusSettles, IsNewest, Mentions

\* A snapshot of another incident changes nothing for i.
LEMMA StatusAppendOther ==
    ASSUME NEW S, NEW log \in Seq(S), NEW i, NEW s, NEW e \in S,
           e.incident # i, NEW row, StatusSettles(log, row, i, s)
    PROVE  StatusSettles(Append(log, e), row, i, s)
<1>1. /\ Len(Append(log, e)) = Len(log) + 1 /\ Len(log) \in Nat
      /\ Append(log, e)[Len(log) + 1] = e
      /\ \A n \in 1..Len(log) : Append(log, e)[n] = log[n]
  OBVIOUS
<1>2. \A n \in 1..Len(Append(log, e)) :
        Append(log, e)[n].incident = i => n \in 1..Len(log)
  BY <1>1
<1>3. ~Mentions(Append(log, e), i) => ~Mentions(log, i)
  BY <1>1 DEF Mentions
<1>4. \A n \in 1..Len(Append(log, e)) :
        IsNewest(Append(log, e), n, i) => IsNewest(log, n, i) /\ n \in 1..Len(log)
  BY <1>1, <1>2 DEF IsNewest
<1> QED
  BY <1>1, <1>3, <1>4 DEF StatusSettles

\* Writing the oldest snapshot to its row keeps what the log settles to.
LEMMA StatusTail ==
    ASSUME NEW S, NEW log \in Seq(S), log # <<>>, NEW i, NEW s, NEW row, NEW new,
           StatusSettles(log, row, i, s),
           IF Head(log).incident = i THEN new = Head(log).row /\ new # None ELSE new = row
    PROVE  StatusSettles(Tail(log), new, i, s)
<1>1. /\ Len(log) \in Nat \ {0} /\ Len(Tail(log)) = Len(log) - 1
      /\ Head(log) = log[1]
      /\ \A n \in 1..Len(Tail(log)) :
           Tail(log)[n] = log[n + 1] /\ n + 1 \in 1..Len(log)
      /\ \A n \in 2..Len(log) :
           log[n] = Tail(log)[n - 1] /\ n - 1 \in 1..Len(Tail(log))
  BY TailElements
<1>2. ASSUME NEW n \in 1..Len(Tail(log)), IsNewest(Tail(log), n, i)
      PROVE  Tail(log)[n].row.status = s
  <2>1. log[n + 1].incident = i /\ Tail(log)[n] = log[n + 1] /\ n + 1 \in 1..Len(log)
    BY <1>1, <1>2 DEF IsNewest
  <2>2. \A m \in 1..Len(log) : log[m].incident = i => m <= n + 1
    <3> SUFFICES ASSUME NEW m \in 2..Len(log), log[m].incident = i PROVE m <= n + 1
      BY <1>1
    <3>1. Tail(log)[m - 1].incident = i /\ m - 1 \in 1..Len(Tail(log))
      BY <1>1
    <3>2. m - 1 <= n
      BY <1>2, <3>1 DEF IsNewest
    <3> QED
      BY <1>1, <3>2
  <2>3. IsNewest(log, n + 1, i)
    BY <2>1, <2>2 DEF IsNewest
  <2> QED
    BY <2>1, <2>3 DEF StatusSettles
<1>3. ASSUME ~Mentions(Tail(log), i) PROVE new # None /\ new.status = s
  <2>1. \A m \in 2..Len(log) : log[m].incident # i
    BY <1>1, <1>3 DEF Mentions
  <2>2. CASE Head(log).incident = i
    <3>1. IsNewest(log, 1, i) /\ 1 \in 1..Len(log)
      BY <1>1, <2>1, <2>2 DEF IsNewest
    <3> QED
      BY <1>1, <2>2, <3>1 DEF StatusSettles
  <2>3. CASE Head(log).incident # i
    <3>1. ~Mentions(log, i)
      BY <1>1, <2>1, <2>3 DEF Mentions
    <3> QED
      BY <2>3, <3>1 DEF StatusSettles
  <2> QED
    BY <2>2, <2>3
<1> QED
  BY <1>2, <1>3 DEF StatusSettles

\* The log holds events.
LEMMA IncidentLogFacts ==
    ASSUME TypeOK
    PROVE  /\ IncidentLog \in Seq(IncidentEvent) /\ Len(IncidentLog) \in Nat
           /\ \A n \in 1..Len(IncidentLog) :
                /\ IncidentLog[n] \in IncidentEvent
                /\ IncidentLog[n].incident \in Incidents
                /\ IncidentLog[n].row \in IncidentRow /\ IncidentLog[n].row # None
<1>1. incidentQ \in Seq(IncidentEvent) /\ incidentRetry \in IncidentEvent \cup {None}
  BY DEF TypeOK
<1>2. IncidentLog \in Seq(IncidentEvent)
  BY <1>1, BehindIsSeq DEF IncidentLog
<1>3. /\ Len(IncidentLog) \in Nat
      /\ \A n \in 1..Len(IncidentLog) : IncidentLog[n] \in IncidentEvent
  BY <1>2
<1>4. \A e \in IncidentEvent :
        e.incident \in Incidents /\ e.row \in IncidentRow /\ e.row # None
  BY NoneAssumption DEF IncidentEvent
<1> QED
  BY <1>2, <1>3, <1>4

\* A snapshot that fits comes last in the log.
LEMMA SnapshotAppends ==
    ASSUME TypeOK, NEW e \in IncidentEvent, EnqueueIncident(e), UNCHANGED incidentRetry
    PROVE  \/ /\ IncidentLog' = Append(IncidentLog, e)
              /\ staleIncidents' = staleIncidents \ {e.incident}
              /\ incidentsLost' = incidentsLost
           \/ /\ IncidentLog' = IncidentLog
              /\ staleIncidents' = staleIncidents \cup {e.incident}
              /\ incidentsLost' = TRUE
<1>1. incidentQ \in Seq(IncidentEvent) /\ incidentRetry \in IncidentEvent \cup {None}
  BY DEF TypeOK
<1>2. Behind(incidentRetry, Append(incidentQ, e)) = Append(IncidentLog, e)
  BY <1>1, BehindAppend DEF IncidentLog
<1>3. CASE Len(incidentQ) < IncidentQueueSize
  BY <1>2, <1>3 DEF EnqueueIncident, IncidentLog
<1>4. CASE ~(Len(incidentQ) < IncidentQueueSize)
  BY <1>4 DEF EnqueueIncident, IncidentLog
<1> QED
  BY <1>3, <1>4

\* The worker takes the head of the log.
LEMMA IncidentWorkerTakes ==
    ASSUME TypeOK, IncidentReady, TakeIncident
    PROVE  /\ IncidentLog # <<>> /\ IncidentItem = Head(IncidentLog)
           /\ IncidentItem = IncidentLog[1] /\ 1 \in 1..Len(IncidentLog)
           /\ incidentRetry' = None => IncidentLog' = Tail(IncidentLog)
           /\ incidentRetry' = IncidentItem => IncidentLog' = IncidentLog
<1>1. /\ incidentQ \in Seq(IncidentEvent) /\ incidentRetry \in IncidentEvent \cup {None}
      /\ None \notin IncidentEvent
  BY NoneAssumption DEF TypeOK
<1>2. incidentRetry # None \/ incidentQ # <<>>
  BY DEF IncidentReady
<1> DEFINE next == IF incidentRetry # None THEN incidentRetry ELSE Head(incidentQ)
           rest == IF incidentRetry # None THEN incidentQ ELSE Tail(incidentQ)
<1>3. /\ Behind(incidentRetry, incidentQ) # <<>>
      /\ next = Head(Behind(incidentRetry, incidentQ))
      /\ Behind(None, rest) = Tail(Behind(incidentRetry, incidentQ))
      /\ Behind(next, rest) = Behind(incidentRetry, incidentQ)
  BY <1>1, <1>2, BehindTake
<1>4. IncidentItem = next /\ incidentQ' = rest
  BY DEF IncidentItem, TakeIncident
<1>5. IncidentLog \in Seq(IncidentEvent)
  BY IncidentLogFacts
<1>6. Head(IncidentLog) = IncidentLog[1] /\ 1 \in 1..Len(IncidentLog)
  BY <1>3, <1>5 DEF IncidentLog
<1> QED
  BY <1>3, <1>4, <1>6 DEF IncidentLog

\* The state or the row of an incident that is resolved.
Resolved(s) == s # None /\ s.status = "resolved"

\* An alert that is created or resolved gives incident i the state s, and its
\* snapshot to the queue.
Changes(i, s, x) ==
    /\ phase = "up"
    /\ incident' = [incident EXCEPT ![i] = s]
    /\ EnqueueIncident(Snapshot(i, s, x))
    /\ incident[i] = None => x # None /\ incidentRow[i] = None
    /\ Resolved(incident[i]) => Resolved(s)
    /\ UNCHANGED <<phase, acking, incidentRetry, incidentRow, links>>

\* The step leaves the incidents, their rows and their log alone.
LeavesIncidents ==
    /\ UNCHANGED <<incident, acking, incidentQ, incidentRetry, incidentRow, links,
                   staleIncidents, incidentsLost>>
    /\ phase' = "down" => phase = "down"

\* A creation joins an unresolved incident or opens a new one.
LEMMA CreateChanges ==
    ASSUME TypeOK, NEW a \in Alerts, CreateAlert(a)
    PROVE  \E i \in Incidents, s \in IncidentState : Changes(i, s, a)
<1> DEFINE k == KeyOf[a]
<1>1. HostOf[k] \in Hosts /\ a # None
  BY ConstantsAssumption, NoneAssumption
<1>2. PICK i \in Incidents :
        /\ \/ Correlates(i, HostOf[k])
           \/ incident[i] = None /\ incidentRow[i] = None
        /\ incident' = [incident EXCEPT ![i] =
               IF @ = None THEN Opened(HostOf[k], a) ELSE Joined(@, a)]
        /\ EnqueueIncident(Snapshot(i, incident'[i], a))
  BY DEF CreateAlert
<1> DEFINE s == IF incident[i] = None THEN Opened(HostOf[k], a) ELSE Joined(incident[i], a)
<1>3. incident' = [incident EXCEPT ![i] = s] /\ incident'[i] = s
  BY <1>2 DEF TypeOK
<1>4. s \in IncidentState
  <2>1. CASE incident[i] = None
    BY <1>1, <2>1 DEF Opened, IncidentState, IncidentStatus
  <2>2. CASE incident[i] # None
    <3>1. incident[i] \in IncidentState
      BY <2>2 DEF TypeOK
    <3>2. s = [status |-> "open", host |-> incident[i].host,
               alerts |-> incident[i].alerts \cup {a},
               active |-> incident[i].active \cup {a}]
      BY <2>2, <3>1 DEF Joined, IncidentState
    <3> QED
      BY <3>1, <3>2 DEF IncidentState, IncidentStatus
  <2> QED
    BY <2>1, <2>2
<1>5. /\ incident[i] = None => incidentRow[i] = None
      /\ ~Resolved(incident[i])
  BY <1>2 DEF Correlates, Resolved
<1>6. phase = "up" /\ UNCHANGED <<phase, acking, incidentRetry, incidentRow, links>>
  BY DEF CreateAlert, dbVars
<1> HIDE DEF s
<1>7. Changes(i, s, a)
  BY <1>1, <1>2, <1>3, <1>5, <1>6 DEF Changes
<1> QED
  BY <1>4, <1>7

\* A resolution leaves an incident, or there is none that has the alert.
LEMMA ResolveChanges ==
    ASSUME TypeOK, NEW k \in Keys, ResolveAlert(k)
    PROVE  \/ \E i \in Incidents, s \in IncidentState : Changes(i, s, None)
           \/ LeavesIncidents
<1> DEFINE a == active[k]
           owners == {i \in Incidents : incident[i] # None /\ a \in incident[i].alerts}
<1>1. phase = "up" /\ UNCHANGED <<phase, acking, incidentRetry, incidentRow, links>>
  BY DEF ResolveAlert, dbVars
<1>2. CASE UNCHANGED <<incident, incidentQ, staleIncidents, incidentsLost>>
  BY <1>1, <1>2 DEF LeavesIncidents
<1>3. ASSUME NEW i \in owners,
             incident' = [incident EXCEPT ![i] = Left(@, a)],
             EnqueueIncident(Snapshot(i, incident'[i], None))
      PROVE  \E s \in IncidentState : Changes(i, s, None)
  <2> DEFINE s == Left(incident[i], a)
  <2>1. incident[i] \in IncidentState /\ incident[i] # None
    BY DEF TypeOK
  <2>2. s \in IncidentState /\ (incident[i].status = "resolved" => s.status = "resolved")
    BY <2>1 DEF Left, IncidentState, IncidentStatus
  <2>3. incident' = [incident EXCEPT ![i] = s] /\ incident'[i] = s
    BY <1>3 DEF TypeOK
  <2> HIDE DEF s
  <2>4. s # None
    BY <2>2, NoneAssumption
  <2>5. Changes(i, s, None)
    BY <1>1, <1>3, <2>1, <2>2, <2>3, <2>4 DEF Changes, Resolved
  <2> QED
    BY <2>2, <2>5
<1> QED
  BY <1>2, <1>3 DEF ResolveAlert

\* What a step may do to the incidents, their rows and their log.
LEMMA IncidentSteps ==
    ASSUME TypeOK, [Next]_vars
    PROVE  \/ LeavesIncidents
           \/ \E i \in Incidents, s \in IncidentState, x \in Alerts \cup {None} :
                 Changes(i, s, x)
           \/ \E i \in Incidents : AcknowledgeIncident(i)
           \/ EnqueueAcknowledged
           \/ PersistIncident \/ PersistIncidentFails
           \/ \E h \in Hosts : DeleteHost(h)
           \/ Stopped \/ Restart
<1>1. CASE \/ UNCHANGED vars
           \/ \E a \in Alerts : AcknowledgeAlert(a)
           \/ \E k \in Keys : DeleteRule(k)
           \/ PersistAlert \/ PersistAlertFails
           \/ ReloadRules \/ Shutdown \/ StopAlertPersistence
  <2>1. UNCHANGED <<incident, acking, incidentQ, incidentRetry, incidentRow, links,
                    staleIncidents, incidentsLost>>
    BY <1>1 DEF vars, AcknowledgeAlert, DeleteRule, PersistAlert,
                PersistAlertFails, ReloadRules, Shutdown, StopAlertPersistence,
                memoryVars, queueVars, dbVars, ghostVars
  <2>2. phase' = "down" => phase = "down"
    BY <1>1 DEF vars, AcknowledgeAlert, DeleteRule, PersistAlert,
                PersistAlertFails, ReloadRules, Shutdown, StopAlertPersistence
  <2> QED
    BY <2>1, <2>2 DEF LeavesIncidents
<1>2. CASE \E a \in Alerts : CreateAlert(a)
  BY <1>2, CreateChanges
<1>3. CASE \E k \in Keys : ResolveAlert(k)
  BY <1>3, ResolveChanges
<1> QED
  BY <1>1, <1>2, <1>3 DEF Next, StopIncidentPersistence, Crash

\* What Changes does, spelled out.
LEMMA ChangeFacts ==
    ASSUME TypeOK, NEW i \in Incidents, NEW s \in IncidentState,
           NEW x \in Alerts \cup {None}, Changes(i, s, x)
    PROVE  LET e == Snapshot(i, s, x) IN
           /\ e \in IncidentEvent
           /\ e.incident = i /\ e.alert = x /\ e.row.status = s.status /\ e.row # None
           /\ s # None
           /\ incident'[i] = s
           /\ \A j \in Incidents \ {i} : incident'[j] = incident[j]
           /\ \/ /\ IncidentLog' = Append(IncidentLog, e)
                 /\ staleIncidents' = staleIncidents \ {i}
                 /\ incidentsLost' = incidentsLost
              \/ /\ IncidentLog' = IncidentLog
                 /\ staleIncidents' = staleIncidents \cup {i}
                 /\ incidentsLost' = TRUE
<1> DEFINE e == Snapshot(i, s, x)
<1>1. /\ e \in IncidentEvent /\ e.row \in IncidentRow
      /\ e.incident = i /\ e.alert = x /\ e.row.status = s.status
  BY DEF Snapshot, IncidentEvent, IncidentState, IncidentRow
<1>2. s # None /\ e.row # None
  BY <1>1, NoneAssumption
<1>3. /\ incident'[i] = s
      /\ \A j \in Incidents \ {i} : incident'[j] = incident[j]
  BY DEF Changes, TypeOK
<1>4. EnqueueIncident(e) /\ UNCHANGED incidentRetry
  BY DEF Changes
<1> HIDE DEF e
<1> QED
  BY <1>1, <1>2, <1>3, <1>4, SnapshotAppends DEF e

\* A process that is down has no incident and nothing queued.
DownForgetsIncidents ==
    phase = "down" =>
        /\ \A i \in Incidents : incident[i] = None
        /\ IncidentLog = <<>> /\ acking = None

\* Only the end of a process and a restart enter and leave that phase.
LEMMA DownForgetsKept ==
    ASSUME TypeOK, DownForgetsIncidents, [Next]_vars
    PROVE  DownForgetsIncidents'
<1>1. CASE LeavesIncidents
  BY <1>1 DEF LeavesIncidents, DownForgetsIncidents, IncidentLog
<1>2. CASE \/ \E i \in Incidents, s \in IncidentState, x \in Alerts \cup {None} :
                 Changes(i, s, x)
           \/ \E i \in Incidents : AcknowledgeIncident(i)
           \/ EnqueueAcknowledged
           \/ PersistIncident \/ PersistIncidentFails
           \/ \E h \in Hosts : DeleteHost(h)
           \/ Restart
  <2>1. phase' # "down"
    BY <1>2 DEF Changes, AcknowledgeIncident, EnqueueAcknowledged, PersistIncident,
                PersistIncidentFails, DeleteHost, Restart, DownForgetsIncidents
  <2> QED
    BY <2>1 DEF DownForgetsIncidents
<1>3. CASE Stopped
  <2>1. IncidentLog' = <<>>
    BY <1>3 DEF Stopped, IncidentLog, Behind
  <2> QED
    BY <1>3, <2>1 DEF Stopped, NoMemory, DownForgetsIncidents
<1> QED
  BY <1>1, <1>2, <1>3, IncidentSteps

-----------------------------------------------------------------------------
(* Without operators that acknowledge incidents: convergence.              *)

\* No request thread holds a snapshot.
NotAcking == acking = None

\* Without operators who acknowledge incidents no thread takes a snapshot.
LEMMA NotAckingKept ==
    ASSUME TypeOK, NotAcking, ~AckThreads, [Next]_vars
    PROVE  NotAcking' /\ ~EnqueueAcknowledged /\ ~\E i \in Incidents : AcknowledgeIncident(i)
<1>1. ~EnqueueAcknowledged /\ ~\E i \in Incidents : AcknowledgeIncident(i)
  BY DEF EnqueueAcknowledged, AcknowledgeIncident, NotAcking
<1>2. NotAcking'
  BY <1>1, IncidentSteps
     DEF LeavesIncidents, Changes, PersistIncident, PersistIncidentFails, DeleteHost,
         Stopped, NoMemory, Restart, memoryVars, NotAcking
<1> QED
  BY <1>1, <1>2

\* A deleted host leaves the rows and their statuses.
LEMMA DeleteHostKeepsRows ==
    ASSUME TypeOK, NEW h \in Hosts, DeleteHost(h)
    PROVE  /\ \A i \in Incidents :
                /\ incidentRow'[i] = None <=> incidentRow[i] = None
                /\ incidentRow[i] # None => incidentRow'[i].status = incidentRow[i].status
           /\ UNCHANGED <<phase, incident, acking, IncidentLog, links, staleIncidents,
                          incidentsLost>>
<1>1. ASSUME NEW i \in Incidents
      PROVE  /\ incidentRow'[i] = None <=> incidentRow[i] = None
             /\ incidentRow[i] # None => incidentRow'[i].status = incidentRow[i].status
  <2>1. CASE incidentRow[i] # None /\ incidentRow[i].host = h
    <3>1. incidentRow'[i] = [incidentRow[i] EXCEPT !.host = None]
      BY <2>1 DEF DeleteHost
    <3>2. incidentRow[i] \in IncidentRow
      BY <2>1 DEF TypeOK
    <3>3. /\ [incidentRow[i] EXCEPT !.host = None] \in IncidentRow
          /\ [incidentRow[i] EXCEPT !.host = None].status = incidentRow[i].status
      BY <3>2 DEF IncidentRow
    <3> QED
      BY <2>1, <3>1, <3>3, NoneAssumption
  <2>2. CASE ~(incidentRow[i] # None /\ incidentRow[i].host = h)
    BY <2>2 DEF DeleteHost
  <2> QED
    BY <2>1, <2>2
<1>2. UNCHANGED <<phase, incident, acking, incidentQ, incidentRetry, links,
                  staleIncidents, incidentsLost>>
  BY DEF DeleteHost, memoryVars, queueVars, ghostVars
<1> QED
  BY <1>1, <1>2 DEF IncidentLog

\* A new process has the incidents of the rows and nothing else.
LEMMA RestartFacts ==
    ASSUME TypeOK, DownForgetsIncidents, Restart
    PROVE  /\ IncidentLog' = <<>> /\ acking' = None
           /\ UNCHANGED <<incidentRow, links, incidentsLost>>
           /\ \A i \in Incidents :
                /\ incident'[i] = None <=> incidentRow[i] = None
                /\ incidentRow[i] # None => incident'[i].status = incidentRow[i].status
<1>1. /\ phase = "down" /\ acking' = None
      /\ UNCHANGED <<incidentQ, incidentRetry, incidentRow, links, incidentsLost>>
      /\ incident' = [i \in Incidents |-> RestoredIncident(i)]
  BY DEF Restart, queueVars, dbVars, ghostVars
<1>2. IncidentLog' = <<>>
  BY <1>1 DEF DownForgetsIncidents, IncidentLog
<1>3. ASSUME NEW i \in Incidents, incidentRow[i] # None
      PROVE  RestoredIncident(i) # None /\ RestoredIncident(i).status = incidentRow[i].status
  <2> DEFINE linked == {a \in Alerts : <<i, a>> \in links}
  <2>1. RestoredIncident(i) =
          [status |-> incidentRow[i].status, host |-> incidentRow[i].host,
           alerts |-> linked, active |-> linked \cap ActiveRows]
    BY <1>3 DEF RestoredIncident
  <2>2. incidentRow[i] \in IncidentRow
    BY <1>3 DEF TypeOK
  <2>3. linked \subseteq Alerts /\ linked \cap ActiveRows \subseteq Alerts
    OBVIOUS
  <2>4. RestoredIncident(i) \in IncidentState
    BY <2>1, <2>2, <2>3 DEF IncidentRow, IncidentState
  <2>5. RestoredIncident(i) # None
    BY <2>4, NoneAssumption
  <2> QED
    BY <2>1, <2>5
<1>4. \A i \in Incidents : incidentRow[i] = None => RestoredIncident(i) = None
  BY DEF RestoredIncident
<1> QED
  BY <1>1, <1>2, <1>3, <1>4

\* Each step keeps what the log of the incidents settles to.
LEMMA IncidentsSettleKept ==
    ASSUME TypeOK, DownForgetsIncidents, IncidentsSettle, NotAcking, ~AckThreads,
           [Next]_vars
    PROVE  IncidentsSettle'
<1>1. CASE LeavesIncidents
  BY <1>1 DEF LeavesIncidents, IncidentsSettle, IncidentLog
<1>2. ASSUME NEW i \in Incidents, NEW s \in IncidentState, NEW x \in Alerts \cup {None},
             Changes(i, s, x)
      PROVE  IncidentsSettle'
  <2> DEFINE e == Snapshot(i, s, x)
  <2>1. /\ e \in IncidentEvent
        /\ e.incident = i /\ e.alert = x /\ e.row.status = s.status /\ e.row # None
        /\ s # None
        /\ incident'[i] = s
        /\ \A j \in Incidents \ {i} : incident'[j] = incident[j]
        /\ \/ /\ IncidentLog' = Append(IncidentLog, e)
              /\ staleIncidents' = staleIncidents \ {i}
              /\ incidentsLost' = incidentsLost
           \/ /\ IncidentLog' = IncidentLog
              /\ staleIncidents' = staleIncidents \cup {i}
              /\ incidentsLost' = TRUE
    BY <1>2, ChangeFacts
  <2> HIDE DEF e
  <2>2. IncidentLog \in Seq(IncidentEvent) /\ incidentRow' = incidentRow
    BY <1>2, IncidentLogFacts DEF Changes
  <2> SUFFICES ASSUME NEW j \in Incidents, incident'[j] # None, j \notin staleIncidents'
               PROVE  StatusSettles(IncidentLog', incidentRow[j], j, incident'[j].status)
    BY <2>2 DEF IncidentsSettle
  <2>3. CASE j = i
    <3>1. IncidentLog' = Append(IncidentLog, e)
      BY <2>1, <2>3
    <3>2. StatusSettles(Append(IncidentLog, e), incidentRow[i], i, s.status)
      BY <2>1, <2>2, StatusAppend
    <3> QED
      BY <2>1, <2>3, <3>1, <3>2
  <2>4. CASE j # i
    <3>1. StatusSettles(IncidentLog, incidentRow[j], j, incident[j].status)
      BY <2>1, <2>4 DEF IncidentsSettle
    <3>2. StatusSettles(Append(IncidentLog, e), incidentRow[j], j, incident[j].status)
      BY <2>1, <2>2, <2>4, <3>1, StatusAppendOther
    <3> QED
      BY <2>1, <2>4, <3>1, <3>2
  <2> QED
    BY <2>3, <2>4
<1>3. CASE PersistIncident
  <2> DEFINE e == IncidentItem
  <2>1. /\ UNCHANGED <<incident, staleIncidents>>
        /\ IncidentReady /\ TakeIncident /\ incidentRetry' = None
        /\ incidentRow' = [incidentRow EXCEPT ![e.incident] = e.row]
    BY <1>3 DEF PersistIncident, memoryVars, ghostVars
  <2>2. /\ IncidentLog # <<>> /\ e = Head(IncidentLog) /\ IncidentLog' = Tail(IncidentLog)
        /\ IncidentLog \in Seq(IncidentEvent)
        /\ e.incident \in Incidents /\ e.row # None
    BY <2>1, IncidentWorkerTakes, IncidentLogFacts
  <2> HIDE DEF e
  <2>3. /\ incidentRow'[e.incident] = e.row
        /\ \A j \in Incidents \ {e.incident} : incidentRow'[j] = incidentRow[j]
    BY <2>1, <2>2 DEF TypeOK
  <2> SUFFICES ASSUME NEW j \in Incidents, incident[j] # None, j \notin staleIncidents
               PROVE  StatusSettles(Tail(IncidentLog), incidentRow'[j], j, incident[j].status)
    BY <2>1, <2>2 DEF IncidentsSettle
  <2>4. StatusSettles(IncidentLog, incidentRow[j], j, incident[j].status)
    BY DEF IncidentsSettle
  <2>5. IF Head(IncidentLog).incident = j
        THEN incidentRow'[j] = Head(IncidentLog).row /\ incidentRow'[j] # None
        ELSE incidentRow'[j] = incidentRow[j]
    BY <2>2, <2>3
  <2> QED
    BY <2>2, <2>4, <2>5, StatusTail
<1>4. CASE PersistIncidentFails
  <2>1. /\ UNCHANGED <<incident, staleIncidents, incidentRow>>
        /\ IncidentReady /\ TakeIncident /\ incidentRetry' = IncidentItem
    BY <1>4 DEF PersistIncidentFails, memoryVars, dbVars, ghostVars
  <2>2. IncidentLog' = IncidentLog
    BY <2>1, IncidentWorkerTakes
  <2> QED
    BY <2>1, <2>2 DEF IncidentsSettle
<1>5. ASSUME NEW h \in Hosts, DeleteHost(h) PROVE IncidentsSettle'
  BY <1>5, DeleteHostKeepsRows DEF IncidentsSettle, StatusSettles
<1>6. CASE Stopped
  BY <1>6 DEF Stopped, NoMemory, IncidentsSettle
<1>7. CASE Restart
  BY <1>7, RestartFacts DEF IncidentsSettle, StatusSettles
<1> QED
  BY <1>1, <1>2, <1>3, <1>4, <1>5, <1>6, <1>7, IncidentSteps, NotAckingKept

-----------------------------------------------------------------------------
(* A resolved incident stays resolved, in memory, in the log and in the    *)
(* table.                                                                  *)

\* What comes later to the table agrees with a resolution that came before:
\* first the row, then the log in its order, then the engine.
ResolvedIsFinal ==
    /\ \A i \in Incidents :
          incident[i] # None /\ Resolved(incidentRow[i]) => Resolved(incident[i])
    /\ \A n \in 1..Len(IncidentLog) :
          /\ incident[IncidentLog[n].incident] # None
          /\ Resolved(IncidentLog[n].row) => Resolved(incident[IncidentLog[n].incident])
          /\ Resolved(incidentRow[IncidentLog[n].incident]) => Resolved(IncidentLog[n].row)
    /\ \A m, n \in 1..Len(IncidentLog) :
          m < n /\ IncidentLog[m].incident = IncidentLog[n].incident
                /\ Resolved(IncidentLog[m].row)
            => Resolved(IncidentLog[n].row)

\* A transition joins or leaves no resolved incident to reopen it.
LEMMA ChangeKeepsFinal ==
    ASSUME TypeOK, ResolvedIsFinal, NEW i \in Incidents, NEW s \in IncidentState,
           NEW x \in Alerts \cup {None}, Changes(i, s, x)
    PROVE  ResolvedIsFinal' /\ IncidentRowsFinal
<1> DEFINE e == Snapshot(i, s, x)
           log == IncidentLog
<1>1. /\ e \in IncidentEvent
      /\ e.incident = i /\ e.alert = x /\ e.row.status = s.status /\ e.row # None
      /\ s # None
      /\ incident'[i] = s
      /\ \A j \in Incidents \ {i} : incident'[j] = incident[j]
      /\ \/ /\ IncidentLog' = Append(IncidentLog, e)
            /\ staleIncidents' = staleIncidents \ {i}
            /\ incidentsLost' = incidentsLost
         \/ /\ IncidentLog' = IncidentLog
            /\ staleIncidents' = staleIncidents \cup {i}
            /\ incidentsLost' = TRUE
  BY ChangeFacts
<1> HIDE DEF e
<1>2. /\ log \in Seq(IncidentEvent) /\ Len(log) \in Nat
      /\ \A n \in 1..Len(log) : log[n].incident \in Incidents
      /\ incidentRow' = incidentRow
  BY IncidentLogFacts DEF Changes
<1>3. IncidentRowsFinal
  BY <1>2 DEF IncidentRowsFinal
<1>4. /\ Resolved(incident[i]) => Resolved(s)
      /\ incident[i] = None => incidentRow[i] = None
  BY DEF Changes
<1>5. \A j \in Incidents : incident[j] # None =>
        incident'[j] # None /\ (Resolved(incident[j]) => Resolved(incident'[j]))
  BY <1>1, <1>4
<1>6. \A j \in Incidents :
        incident'[j] # None /\ Resolved(incidentRow[j]) => Resolved(incident'[j])
  BY <1>1, <1>4, <1>5 DEF ResolvedIsFinal, Resolved
<1>7. \A n \in 1..Len(log) :
        /\ incident'[log[n].incident] # None
        /\ Resolved(log[n].row) => Resolved(incident'[log[n].incident])
        /\ Resolved(incidentRow[log[n].incident]) => Resolved(log[n].row)
  BY <1>2, <1>5 DEF ResolvedIsFinal
<1>8. CASE IncidentLog' = log
  BY <1>2, <1>3, <1>6, <1>7, <1>8 DEF ResolvedIsFinal
<1>9. CASE IncidentLog' = Append(log, e)
  <2>1. /\ Len(Append(log, e)) = Len(log) + 1
        /\ Append(log, e)[Len(log) + 1] = e
        /\ \A n \in 1..Len(log) : Append(log, e)[n] = log[n]
    BY <1>1, <1>2
  <2>2. \A n \in 1..Len(Append(log, e)) : n \in 1..Len(log) \/ n = Len(log) + 1
    BY <1>2, <2>1
  <2>3. /\ incident'[i] # None
        /\ Resolved(e.row) => Resolved(incident'[i])
        /\ Resolved(incidentRow[i]) => Resolved(e.row)
    BY <1>1, <1>6 DEF Resolved
  <2>4. \A n \in 1..Len(Append(log, e)) :
          /\ incident'[Append(log, e)[n].incident] # None
          /\ Resolved(Append(log, e)[n].row)
               => Resolved(incident'[Append(log, e)[n].incident])
          /\ Resolved(incidentRow[Append(log, e)[n].incident])
               => Resolved(Append(log, e)[n].row)
    BY <1>1, <1>7, <2>1, <2>2, <2>3
  <2>5. ASSUME NEW m \in 1..Len(Append(log, e)), NEW n \in 1..Len(Append(log, e)), m < n,
               Append(log, e)[m].incident = Append(log, e)[n].incident,
               Resolved(Append(log, e)[m].row)
        PROVE  Resolved(Append(log, e)[n].row)
    <3>1. m \in 1..Len(log) /\ Append(log, e)[m] = log[m]
      BY <1>2, <2>1, <2>5
    <3>2. CASE n \in 1..Len(log)
      BY <2>1, <2>5, <3>1, <3>2 DEF ResolvedIsFinal
    <3>3. CASE n = Len(log) + 1
      <4>1. log[m].incident = i /\ Resolved(log[m].row)
        BY <1>1, <2>1, <2>5, <3>1, <3>3
      <4>2. Resolved(incident'[i])
        BY <1>7, <3>1, <4>1
      <4> QED
        BY <1>1, <2>1, <3>3, <4>2 DEF Resolved
    <3> QED
      BY <2>2, <3>2, <3>3
  <2> HIDE DEF log
  <2> QED
    BY <1>2, <1>3, <1>6, <1>9, <2>4, <2>5 DEF ResolvedIsFinal
<1> QED
  BY <1>1, <1>8, <1>9

\* The worker writes no snapshot older than a resolution it has written.
LEMMA PersistKeepsFinal ==
    ASSUME TypeOK, ResolvedIsFinal, PersistIncident
    PROVE  ResolvedIsFinal' /\ IncidentRowsFinal
<1> DEFINE e == IncidentItem
           log == IncidentLog
<1>1. /\ UNCHANGED incident
      /\ IncidentReady /\ TakeIncident /\ incidentRetry' = None
      /\ incidentRow' = [incidentRow EXCEPT ![e.incident] = e.row]
  BY DEF PersistIncident, memoryVars
<1>2. /\ log # <<>> /\ e = Head(log) /\ IncidentLog' = Tail(log)
      /\ e = log[1] /\ 1 \in 1..Len(log)
      /\ log \in Seq(IncidentEvent)
      /\ e.incident \in Incidents /\ e.row # None
  BY <1>1, IncidentWorkerTakes, IncidentLogFacts
<1> HIDE DEF e
<1>3. /\ Len(log) \in Nat \ {0} /\ Len(Tail(log)) = Len(log) - 1
      /\ \A n \in 1..Len(Tail(log)) : /\ Tail(log)[n] = log[n + 1]
                                      /\ n + 1 \in 1..Len(log) /\ 1 < n + 1
      /\ \A n \in 1..Len(log) : log[n].incident \in Incidents
  BY <1>2, TailElements, IncidentLogFacts
<1>4. /\ incidentRow'[e.incident] = e.row
      /\ \A j \in Incidents \ {e.incident} : incidentRow'[j] = incidentRow[j]
  BY <1>1, <1>2 DEF TypeOK
<1>5. /\ incident[e.incident] # None
      /\ Resolved(e.row) => Resolved(incident[e.incident])
      /\ Resolved(incidentRow[e.incident]) => Resolved(e.row)
  BY <1>2 DEF ResolvedIsFinal
<1>6. IncidentRowsFinal
  BY <1>4, <1>5 DEF IncidentRowsFinal, Resolved
<1>7. \A i \in Incidents :
        incident[i] # None /\ Resolved(incidentRow'[i]) => Resolved(incident[i])
  BY <1>4, <1>5 DEF ResolvedIsFinal
<1>8. ASSUME NEW n \in 2..Len(log)
      PROVE  /\ incident[log[n].incident] # None
             /\ Resolved(log[n].row) => Resolved(incident[log[n].incident])
             /\ Resolved(incidentRow'[log[n].incident]) => Resolved(log[n].row)
  <2>1. n \in 1..Len(log) /\ 1 < n
    BY <1>3
  <2>2. CASE log[n].incident = e.incident
    BY <1>2, <1>4, <2>1, <2>2 DEF ResolvedIsFinal
  <2>3. CASE log[n].incident # e.incident
    BY <1>3, <1>4, <2>1, <2>3 DEF ResolvedIsFinal
  <2> QED
    BY <2>2, <2>3
<1>9. \A n \in 1..Len(Tail(log)) :
        /\ incident[Tail(log)[n].incident] # None
        /\ Resolved(Tail(log)[n].row) => Resolved(incident[Tail(log)[n].incident])
        /\ Resolved(incidentRow'[Tail(log)[n].incident]) => Resolved(Tail(log)[n].row)
  <2>1. \A n \in 1..Len(Tail(log)) : n + 1 \in 2..Len(log)
    BY <1>3
  <2> HIDE DEF log
  <2> QED
    BY <1>3, <1>8, <2>1
<1>10. \A m, n \in 1..Len(Tail(log)) :
         m < n /\ Tail(log)[m].incident = Tail(log)[n].incident /\ Resolved(Tail(log)[m].row)
           => Resolved(Tail(log)[n].row)
  <2> TAKE m, n \in 1..Len(Tail(log))
  <2>1. m < n => m + 1 < n + 1
    BY <1>3
  <2> QED
    BY <1>3, <2>1 DEF ResolvedIsFinal
<1> HIDE DEF log
<1> QED
  BY <1>1, <1>2, <1>6, <1>7, <1>9, <1>10 DEF ResolvedIsFinal

\* Each step keeps resolved incidents resolved.
LEMMA FinalKept ==
    ASSUME TypeOK, DownForgetsIncidents, ResolvedIsFinal, NotAcking, ~AckThreads,
           [Next]_vars
    PROVE  ResolvedIsFinal' /\ IncidentRowsFinal
<1>1. CASE LeavesIncidents
  BY <1>1 DEF LeavesIncidents, ResolvedIsFinal, IncidentLog, IncidentRowsFinal
<1>2. CASE \E i \in Incidents, s \in IncidentState, x \in Alerts \cup {None} :
              Changes(i, s, x)
  BY <1>2, ChangeKeepsFinal
<1>3. CASE PersistIncident
  BY <1>3, PersistKeepsFinal
<1>4. CASE PersistIncidentFails
  <2>1. /\ UNCHANGED <<incident, incidentRow>>
        /\ IncidentReady /\ TakeIncident /\ incidentRetry' = IncidentItem
    BY <1>4 DEF PersistIncidentFails, memoryVars, dbVars, ghostVars
  <2>2. IncidentLog' = IncidentLog
    BY <2>1, IncidentWorkerTakes
  <2> QED
    BY <2>1, <2>2 DEF ResolvedIsFinal, IncidentRowsFinal
<1>5. ASSUME NEW h \in Hosts, DeleteHost(h) PROVE ResolvedIsFinal' /\ IncidentRowsFinal
  <2>1. \A i \in Incidents : Resolved(incidentRow'[i]) <=> Resolved(incidentRow[i])
    BY <1>5, DeleteHostKeepsRows DEF Resolved
  <2>2. UNCHANGED <<incident, IncidentLog>>
    BY <1>5, DeleteHostKeepsRows
  <2>3. \A n \in 1..Len(IncidentLog) : IncidentLog[n].incident \in Incidents
    BY IncidentLogFacts
  <2>4. IncidentRowsFinal
    BY <2>1 DEF IncidentRowsFinal, Resolved
  <2> QED
    BY <2>1, <2>2, <2>3, <2>4 DEF ResolvedIsFinal
<1>6. CASE Stopped
  <2>1. /\ IncidentLog' = <<>> /\ incidentRow' = incidentRow
        /\ \A i \in Incidents : incident'[i] = None
    BY <1>6 DEF Stopped, NoMemory, IncidentLog, Behind, dbVars
  <2> QED
    BY <2>1 DEF ResolvedIsFinal, IncidentRowsFinal
<1>7. CASE Restart
  BY <1>7, RestartFacts DEF ResolvedIsFinal, IncidentRowsFinal, Resolved
<1> QED
  BY <1>1, <1>2, <1>3, <1>4, <1>5, <1>6, <1>7, IncidentSteps, NotAckingKept

-----------------------------------------------------------------------------
(* Every row of an incident is explained by an alert.                      *)

\* When the n-th snapshot of log is reached, incident i has a row: it has one
\* already, or an earlier snapshot carries the alert that opened or joined it.
Founded(log, row, i, n) ==
    \/ row # None
    \/ \E m \in 1..(n - 1) : log[m].incident = i /\ log[m].alert # None

\* Every row has a link, and what has still to be written, a row or an event
\* with an alert before it.
AllFounded ==
    /\ \A i \in Incidents :
          incidentRow[i] # None => \E a \in Alerts : <<i, a>> \in links
    /\ \A n \in 1..Len(IncidentLog) :
          IncidentLog[n].alert = None =>
             Founded(IncidentLog, incidentRow[IncidentLog[n].incident],
                     IncidentLog[n].incident, n)
    /\ \A i \in Incidents : incident[i] # None =>
          Founded(IncidentLog, incidentRow[i], i, Len(IncidentLog) + 1)
    /\ acking # None =>
          Founded(IncidentLog, incidentRow[acking.incident], acking.incident,
                  Len(IncidentLog) + 1)

\* As long as no snapshot was dropped.
FoundedFirst == ~incidentsLost => AllFounded

\* What explains a row stays in a log that grows.
LEMMA FoundedAppend ==
    ASSUME NEW S, NEW log \in Seq(S), NEW e \in S, NEW row, NEW i,
           NEW n \in 1..(Len(log) + 1), Founded(log, row, i, n)
    PROVE  /\ Founded(Append(log, e), row, i, n)
           /\ Founded(Append(log, e), row, i, Len(log) + 2)
<1>1. /\ Len(log) \in Nat
      /\ \A m \in 1..Len(log) : Append(log, e)[m] = log[m]
      /\ \A m \in 1..(n - 1) : m \in 1..Len(log)
      /\ \A m \in 1..(n - 1) : m \in 1..((Len(log) + 2) - 1)
  OBVIOUS
<1> QED
  BY <1>1 DEF Founded

\* The row the oldest snapshot leaves takes the place of that snapshot.
LEMMA FoundedTail ==
    ASSUME NEW S, NEW log \in Seq(S), log # <<>>, NEW row, NEW new, NEW i,
           NEW n \in 1..Len(log), Founded(log, row, i, n + 1),
           Head(log).incident = i => new # None,
           Head(log).incident # i => new = row
    PROVE  Founded(Tail(log), new, i, n)
<1>1. /\ Len(log) \in Nat \ {0} /\ Len(Tail(log)) = Len(log) - 1
      /\ Head(log) = log[1]
      /\ \A m \in 1..Len(Tail(log)) :
           Tail(log)[m] = log[m + 1] /\ m + 1 \in 1..Len(log)
      /\ \A m \in 2..Len(log) :
           log[m] = Tail(log)[m - 1] /\ m - 1 \in 1..Len(Tail(log))
  BY TailElements
<1>2. CASE new # None
  BY <1>2 DEF Founded
<1>3. CASE new = None
  <2>1. Head(log).incident # i /\ row = None
    BY <1>3
  <2>2. PICK m \in 1..((n + 1) - 1) : log[m].incident = i /\ log[m].alert # None
    BY <2>1 DEF Founded
  <2>3. m \in 2..Len(log) /\ m - 1 \in 1..(n - 1)
    BY <1>1, <2>1, <2>2
  <2> QED
    BY <1>1, <2>2, <2>3 DEF Founded
<1> QED
  BY <1>2, <1>3

\* A snapshot e of incident i joins the log.
LEMMA FoundedGrows ==
    ASSUME TypeOK, AllFounded, NEW e \in IncidentEvent, e.incident \in Incidents,
           IncidentLog' = Append(IncidentLog, e),
           UNCHANGED <<incidentRow, links>>,
           e.alert = None => Founded(IncidentLog, incidentRow[e.incident], e.incident,
                                     Len(IncidentLog) + 1),
           \A j \in Incidents \ {e.incident} : incident'[j] = incident[j],
           acking' # None => acking' = acking
    PROVE  AllFounded'
<1> DEFINE log == IncidentLog
<1>1. /\ log \in Seq(IncidentEvent) /\ Len(log) \in Nat
      /\ Len(Append(log, e)) = Len(log) + 1
      /\ Append(log, e)[Len(log) + 1] = e
      /\ \A n \in 1..Len(log) : Append(log, e)[n] = log[n]
      /\ Len(log) + 1 \in 1..(Len(log) + 1)
      /\ Len(Append(log, e)) + 1 = Len(log) + 2
  <2>1. log \in Seq(IncidentEvent)
    BY IncidentLogFacts
  <2> QED
    BY <2>1
<1>2. ASSUME NEW n \in 1..Len(Append(log, e)), Append(log, e)[n].alert = None
      PROVE  Founded(Append(log, e), incidentRow[Append(log, e)[n].incident],
                     Append(log, e)[n].incident, n)
  <2>1. CASE n \in 1..Len(log)
    <3>1. n \in 1..(Len(log) + 1)
      BY <1>1, <2>1
    <3>2. Founded(log, incidentRow[log[n].incident], log[n].incident, n)
      BY <1>1, <1>2, <2>1 DEF AllFounded
    <3> QED
      BY <1>1, <2>1, <3>1, <3>2, FoundedAppend
  <2>2. CASE n = Len(log) + 1
    <3>1. Founded(log, incidentRow[e.incident], e.incident, Len(log) + 1)
      BY <1>1, <1>2, <2>2
    <3>2. Founded(Append(log, e), incidentRow[e.incident], e.incident, Len(log) + 1)
      BY <1>1, <3>1, FoundedAppend
    <3> QED
      BY <1>1, <2>2, <3>2
  <2> QED
    BY <1>1, <2>1, <2>2
<1>3. Founded(Append(log, e), incidentRow[e.incident], e.incident, Len(log) + 2)
  <2>1. CASE e.alert = None
    BY <1>1, <2>1, FoundedAppend
  <2>2. CASE e.alert # None
    <3>1. Len(log) + 1 \in 1..((Len(log) + 2) - 1)
      BY <1>1
    <3> QED
      BY <1>1, <2>2, <3>1 DEF Founded
  <2> QED
    BY <2>1, <2>2
<1>4. ASSUME NEW j \in Incidents, incident'[j] # None
      PROVE  Founded(Append(log, e), incidentRow[j], j, Len(log) + 2)
  <2>1. CASE j = e.incident
    BY <1>3, <2>1
  <2>2. CASE j # e.incident
    <3>1. Founded(log, incidentRow[j], j, Len(log) + 1)
      BY <1>4, <2>2 DEF AllFounded
    <3> QED
      BY <1>1, <3>1, FoundedAppend
  <2> QED
    BY <2>1, <2>2
<1>5. ASSUME acking' # None
      PROVE  Founded(Append(log, e), incidentRow[acking'.incident], acking'.incident,
                     Len(log) + 2)
  <2>1. Founded(log, incidentRow[acking.incident], acking.incident, Len(log) + 1)
    BY <1>5 DEF AllFounded
  <2> QED
    BY <1>1, <1>5, <2>1, FoundedAppend
<1>6. \A i \in Incidents :
        incidentRow[i] # None => \E a \in Alerts : <<i, a>> \in links
  BY DEF AllFounded
<1>7. IncidentLog' = Append(log, e) /\ incidentRow' = incidentRow /\ links' = links
  OBVIOUS
<1> HIDE DEF log
<1> QED
  BY <1>1, <1>2, <1>4, <1>5, <1>6, <1>7 DEF AllFounded

\* The worker writes the oldest snapshot, and its link when it has an alert.
LEMMA PersistKeepsFounded ==
    ASSUME TypeOK, AllFounded, PersistIncident
    PROVE  AllFounded'
<1> DEFINE e == IncidentItem
           log == IncidentLog
<1>1. /\ UNCHANGED <<incident, acking>>
      /\ IncidentReady /\ TakeIncident /\ incidentRetry' = None
      /\ incidentRow' = [incidentRow EXCEPT ![e.incident] = e.row]
      /\ links' = IF e.alert = None THEN links
                  ELSE links \cup {<<e.incident, e.alert>>}
  BY DEF PersistIncident, memoryVars
<1>2. /\ log # <<>> /\ e = Head(log) /\ IncidentLog' = Tail(log)
      /\ e = log[1] /\ 1 \in 1..Len(log)
      /\ log \in Seq(IncidentEvent) /\ Len(log) \in Nat
      /\ e \in IncidentEvent /\ e.incident \in Incidents /\ e.row # None
  BY <1>1, IncidentWorkerTakes, IncidentLogFacts
<1> HIDE DEF e
<1>3. /\ Len(log) \in Nat \ {0} /\ Len(Tail(log)) = Len(log) - 1
      /\ Len(Tail(log)) + 1 = Len(log) /\ Len(log) \in 1..Len(log)
      /\ \A n \in 1..Len(Tail(log)) : /\ Tail(log)[n] = log[n + 1]
                                      /\ n + 1 \in 1..Len(log) /\ n \in 1..Len(log)
  BY <1>2, TailElements
<1>4. /\ incidentRow'[e.incident] = e.row
      /\ \A j \in Incidents \ {e.incident} : incidentRow'[j] = incidentRow[j]
  BY <1>1, <1>2 DEF TypeOK
<1>5. \A i \in Incidents : /\ Head(log).incident = i => incidentRow'[i] # None
                           /\ Head(log).incident # i => incidentRow'[i] = incidentRow[i]
  BY <1>2, <1>4
<1>6. ASSUME NEW i \in Incidents, NEW n \in 1..Len(log),
             Founded(log, incidentRow[i], i, n + 1)
      PROVE  Founded(Tail(log), incidentRow'[i], i, n)
  BY <1>2, <1>5, <1>6, FoundedTail
<1>7. ASSUME NEW i \in Incidents, incidentRow'[i] # None
      PROVE  \E a \in Alerts : <<i, a>> \in links'
  <2>1. CASE i = e.incident /\ incidentRow[i] = None
    <3>1. e.alert # None
      <4>1. ~Founded(log, incidentRow[e.incident], e.incident, 1)
        BY <2>1 DEF Founded
      <4> QED
        BY <1>2, <4>1 DEF AllFounded
    <3>2. e.alert \in Alerts
      BY <1>2, <3>1 DEF IncidentEvent
    <3> QED
      BY <1>1, <2>1, <3>1, <3>2
  <2>2. CASE incidentRow[i] # None
    <3>1. PICK a \in Alerts : <<i, a>> \in links
      BY <2>2 DEF AllFounded
    <3> QED
      BY <1>1, <3>1
  <2> QED
    BY <1>4, <1>7, <2>1, <2>2
<1>8. ASSUME NEW n \in 1..Len(Tail(log)), Tail(log)[n].alert = None
      PROVE  Founded(Tail(log), incidentRow'[Tail(log)[n].incident],
                     Tail(log)[n].incident, n)
  <2>1. Tail(log)[n] = log[n + 1] /\ n + 1 \in 1..Len(log) /\ n \in 1..Len(log)
    BY <1>3
  <2>2. /\ Founded(log, incidentRow[log[n + 1].incident], log[n + 1].incident, n + 1)
        /\ log[n + 1].incident \in Incidents
    BY <1>8, <2>1, IncidentLogFacts DEF AllFounded
  <2> QED
    BY <1>6, <2>1, <2>2
<1>9. ASSUME NEW i \in Incidents, Founded(log, incidentRow[i], i, Len(log) + 1)
      PROVE  Founded(Tail(log), incidentRow'[i], i, Len(Tail(log)) + 1)
  BY <1>3, <1>6, <1>9
<1>10. \A i \in Incidents : incident[i] # None =>
         Founded(Tail(log), incidentRow'[i], i, Len(Tail(log)) + 1)
  BY <1>9 DEF AllFounded
<1>11. acking # None =>
         Founded(Tail(log), incidentRow'[acking.incident], acking.incident,
                 Len(Tail(log)) + 1)
  <2>1. acking # None => acking.incident \in Incidents
    BY DEF TypeOK, IncidentEvent
  <2> QED
    BY <1>9, <2>1 DEF AllFounded
<1> HIDE DEF log
<1> QED
  BY <1>1, <1>2, <1>7, <1>8, <1>10, <1>11 DEF AllFounded

\* As long as no snapshot is dropped, each step keeps every row explained.
LEMMA FoundedKept ==
    ASSUME TypeOK, DownForgetsIncidents, FoundedFirst, [Next]_vars
    PROVE  FoundedFirst'
<1>1. CASE LeavesIncidents
  BY <1>1 DEF LeavesIncidents, FoundedFirst, AllFounded, IncidentLog
<1>2. ASSUME NEW i \in Incidents, NEW s \in IncidentState, NEW x \in Alerts \cup {None},
             Changes(i, s, x)
      PROVE  FoundedFirst'
  <2> DEFINE e == Snapshot(i, s, x)
  <2>1. /\ e \in IncidentEvent
        /\ e.incident = i /\ e.alert = x /\ e.row.status = s.status /\ e.row # None
        /\ s # None
        /\ incident'[i] = s
        /\ \A j \in Incidents \ {i} : incident'[j] = incident[j]
        /\ \/ /\ IncidentLog' = Append(IncidentLog, e)
              /\ staleIncidents' = staleIncidents \ {i}
              /\ incidentsLost' = incidentsLost
           \/ /\ IncidentLog' = IncidentLog
              /\ staleIncidents' = staleIncidents \cup {i}
              /\ incidentsLost' = TRUE
    BY <1>2, ChangeFacts
  <2> HIDE DEF e
  <2>2. /\ UNCHANGED <<incidentRow, links>> /\ (acking' # None => acking' = acking)
        /\ incident[i] = None => x # None
    BY <1>2 DEF Changes
  <2>3. CASE incidentsLost' = TRUE
    BY <2>3 DEF FoundedFirst
  <2>4. CASE ~incidentsLost'
    <3>1. AllFounded /\ IncidentLog' = Append(IncidentLog, e)
      BY <2>1, <2>4 DEF FoundedFirst, TypeOK
    <3>2. e.alert = None => Founded(IncidentLog, incidentRow[e.incident], e.incident,
                                    Len(IncidentLog) + 1)
      BY <2>1, <2>2, <3>1 DEF AllFounded
    <3>3. /\ e.incident \in Incidents
          /\ \A j \in Incidents \ {e.incident} : incident'[j] = incident[j]
      BY <2>1
    <3>4. AllFounded'
      BY <2>1, <2>2, <3>1, <3>2, <3>3, FoundedGrows
    <3> QED
      BY <3>4 DEF FoundedFirst
  <2> QED
    BY <2>1, <2>3, <2>4 DEF TypeOK
<1>3. ASSUME NEW i \in Incidents, AcknowledgeIncident(i) PROVE FoundedFirst'
  <2>1. /\ UNCHANGED <<IncidentLog, incidentRow, links, incidentsLost>>
        /\ incident[i] # None
        /\ incident' = [incident EXCEPT ![i].status = "acknowledged"]
        /\ acking' = Snapshot(i, incident'[i], None)
    BY <1>3 DEF AcknowledgeIncident, IncidentLog, queueVars, dbVars, ghostVars
  <2>2. acking'.incident = i /\ \A j \in Incidents \ {i} : incident'[j] = incident[j]
    BY <2>1 DEF Snapshot, TypeOK
  <2> QED
    BY <2>1, <2>2 DEF FoundedFirst, AllFounded
<1>4. CASE EnqueueAcknowledged
  <2>1. /\ acking \in IncidentEvent /\ acking.incident \in Incidents
        /\ acking # None /\ acking' = None
        /\ EnqueueIncident(acking)
        /\ UNCHANGED <<incidentRetry, incidentRow, links, incident>>
    BY <1>4 DEF EnqueueAcknowledged, TypeOK, IncidentEvent, dbVars
  <2>2. \/ /\ IncidentLog' = Append(IncidentLog, acking)
           /\ staleIncidents' = staleIncidents \ {acking.incident}
           /\ incidentsLost' = incidentsLost
        \/ /\ IncidentLog' = IncidentLog
           /\ staleIncidents' = staleIncidents \cup {acking.incident}
           /\ incidentsLost' = TRUE
    BY <2>1, SnapshotAppends
  <2>3. CASE incidentsLost' = TRUE
    BY <2>3 DEF FoundedFirst
  <2>4. CASE ~incidentsLost'
    <3>1. AllFounded /\ IncidentLog' = Append(IncidentLog, acking)
      BY <2>2, <2>4 DEF FoundedFirst
    <3>2. Founded(IncidentLog, incidentRow[acking.incident], acking.incident,
                  Len(IncidentLog) + 1)
      BY <2>1, <3>1 DEF AllFounded
    <3>3. AllFounded'
      BY <2>1, <3>1, <3>2, FoundedGrows
    <3> QED
      BY <3>3 DEF FoundedFirst
  <2> QED
    BY <2>2, <2>3, <2>4 DEF TypeOK
<1>5. CASE PersistIncident
  <2>1. incidentsLost' = incidentsLost
    BY <1>5 DEF PersistIncident, ghostVars
  <2> QED
    BY <1>5, <2>1, PersistKeepsFounded DEF FoundedFirst
<1>6. CASE PersistIncidentFails
  <2>1. /\ UNCHANGED <<incident, acking, incidentRow, links, incidentsLost>>
        /\ IncidentReady /\ TakeIncident /\ incidentRetry' = IncidentItem
    BY <1>6 DEF PersistIncidentFails, memoryVars, dbVars, ghostVars
  <2>2. IncidentLog' = IncidentLog
    BY <2>1, IncidentWorkerTakes
  <2> QED
    BY <2>1, <2>2 DEF FoundedFirst, AllFounded
<1>7. ASSUME NEW h \in Hosts, DeleteHost(h) PROVE FoundedFirst'
  <2>1. /\ UNCHANGED <<incident, acking, IncidentLog, links>>
        /\ \A i \in Incidents : incidentRow'[i] = None <=> incidentRow[i] = None
        /\ incidentsLost' = incidentsLost
    BY <1>7, DeleteHostKeepsRows DEF DeleteHost, ghostVars
  <2>2. /\ \A n \in 1..Len(IncidentLog) : IncidentLog[n].incident \in Incidents
        /\ acking # None => acking.incident \in Incidents
    BY IncidentLogFacts DEF TypeOK, IncidentEvent
  <2> QED
    BY <2>1, <2>2 DEF FoundedFirst, AllFounded, Founded
<1>8. CASE Stopped
  <2>1. /\ IncidentLog' = <<>> /\ UNCHANGED <<incidentRow, links, incidentsLost>>
        /\ \A i \in Incidents : incident'[i] = None
        /\ acking' = None
    BY <1>8 DEF Stopped, NoMemory, IncidentLog, Behind, dbVars
  <2> QED
    BY <2>1 DEF FoundedFirst, AllFounded
<1>9. CASE Restart
  BY <1>9, RestartFacts DEF FoundedFirst, AllFounded, Founded
<1> QED
  BY <1>1, <1>2, <1>3, <1>4, <1>5, <1>6, <1>7, <1>8, <1>9, IncidentSteps

\* What the log of the incidents settles to is what LatestStatus says.
LEMMA StatusIsLatest ==
    ASSUME TypeOK, IncidentsSettle
    PROVE  IncidentsConverge
<1> SUFFICES ASSUME NEW i \in Incidents, incident[i] # None, i \notin staleIncidents
             PROVE  LatestStatus(i) = incident[i].status
  BY DEF IncidentsConverge
<1>1. StatusSettles(IncidentLog, incidentRow[i], i, incident[i].status)
  BY DEF IncidentsSettle
<1>2. /\ incidentQ \in Seq(IncidentEvent) /\ Len(incidentQ) \in Nat
      /\ incidentRetry \in IncidentEvent \cup {None}
      /\ DOMAIN incidentQ = 1..Len(incidentQ)
  BY DEF TypeOK
<1> DEFINE at == {n \in DOMAIN incidentQ : incidentQ[n].incident = i}
           first == IF incidentRetry = None THEN 0 ELSE 1
<1>3. /\ Len(IncidentLog) = Len(incidentQ) + first
      /\ \A n \in 1..Len(incidentQ) : IncidentLog[n + first] = incidentQ[n]
      /\ \A n \in 1..Len(IncidentLog) :
            \/ n = 1 /\ incidentRetry # None /\ IncidentLog[n] = incidentRetry
            \/ n - first \in 1..Len(incidentQ)
  <2>1. CASE incidentRetry = None
    BY <1>2, <2>1 DEF IncidentLog, Behind
  <2>2. CASE incidentRetry # None
    <3>1. /\ Len(IncidentLog) = Len(incidentQ) + 1 /\ IncidentLog[1] = incidentRetry
          /\ \A n \in 1..Len(incidentQ) : IncidentLog[n + 1] = incidentQ[n]
      BY <1>2, <2>2 DEF IncidentLog, Behind
    <3> QED
      BY <1>2, <2>2, <3>1
  <2> QED
    BY <2>1, <2>2
<1>4. CASE at # {}
  <2> DEFINE n == CHOOSE n \in at : \A m \in at : m <= n
  <2>1. at \subseteq 1..Len(incidentQ)
    BY <1>2
  <2>2. n \in at /\ \A m \in at : m <= n
    BY <1>2, <1>4, <2>1, LastExists
  <2>3. LatestStatus(i) = incidentQ[n].row.status
    BY <1>4 DEF LatestStatus
  <2> HIDE DEF n
  <2>4. n \in 1..Len(incidentQ) /\ incidentQ[n].incident = i
    BY <1>2, <2>2
  <2>5. n + first \in 1..Len(IncidentLog) /\ IncidentLog[n + first] = incidentQ[n]
    BY <1>2, <1>3, <2>4
  <2>6. IsNewest(IncidentLog, n + first, i)
    <3> SUFFICES ASSUME NEW m \in 1..Len(IncidentLog), IncidentLog[m].incident = i
                 PROVE  m <= n + first
      BY <2>4, <2>5 DEF IsNewest
    <3>1. CASE m = 1
      BY <1>2, <2>4, <3>1
    <3>2. CASE m - first \in 1..Len(incidentQ)
      <4>1. IncidentLog[m] = incidentQ[m - first]
        <5>1. (m - first) + first = m
          OBVIOUS
        <5> QED
          BY <1>3, <3>2, <5>1
      <4>2. m - first \in at
        BY <1>2, <3>2, <4>1
      <4>3. m - first <= n
        BY <2>2, <4>2
      <4> QED
        BY <2>4, <4>3
    <3> QED
      BY <1>3, <3>1, <3>2
  <2> QED
    BY <1>1, <2>3, <2>5, <2>6 DEF StatusSettles
<1>5. CASE at = {} /\ incidentRetry # None /\ incidentRetry.incident = i
  <2>1. 1 \in 1..Len(IncidentLog) /\ IncidentLog[1] = incidentRetry
    BY <1>2, <1>5 DEF IncidentLog, Behind
  <2>2. IsNewest(IncidentLog, 1, i)
    <3> SUFFICES ASSUME NEW m \in 1..Len(IncidentLog), IncidentLog[m].incident = i, m # 1
                 PROVE  FALSE
      BY <1>5, <2>1 DEF IsNewest
    <3>1. m - 1 \in 1..Len(incidentQ) /\ (m - 1) + 1 = m
      BY <1>3, <1>5
    <3>2. IncidentLog[m] = incidentQ[m - 1]
      BY <1>3, <1>5, <3>1
    <3> QED
      BY <1>2, <1>5, <3>1, <3>2
  <2>3. LatestStatus(i) = incidentRetry.row.status
    BY <1>5 DEF LatestStatus
  <2> QED
    BY <1>1, <2>1, <2>2, <2>3 DEF StatusSettles
<1>6. CASE at = {} /\ ~(incidentRetry # None /\ incidentRetry.incident = i)
  <2>1. ~Mentions(IncidentLog, i)
    <3> SUFFICES ASSUME NEW m \in 1..Len(IncidentLog), IncidentLog[m].incident = i
                 PROVE  FALSE
      BY DEF Mentions
    <3>1. m - first \in 1..Len(incidentQ) /\ (m - first) + first = m
      BY <1>3, <1>6
    <3>2. IncidentLog[m] = incidentQ[m - first]
      BY <1>3, <3>1
    <3> QED
      BY <1>2, <1>6, <3>1, <3>2
  <2>2. incidentRow[i] # None => LatestStatus(i) = incidentRow[i].status
    BY <1>6 DEF LatestStatus
  <2> QED
    BY <1>1, <2>1, <2>2 DEF StatusSettles
<1> QED
  BY <1>4, <1>5, <1>6

-----------------------------------------------------------------------------
(* The theorems.                                                           *)

\* The inductive invariant of the rows: beside that of the ledger, what both
\* logs settle to, the order of the alerts of a key, and the alert behind
\* every row of an incident.
RowsInv ==
    /\ IInv
    /\ AlertsSettle
    /\ KeysInv
    /\ DownForgetsIncidents
    /\ FoundedFirst

\* What it adds when no operator acknowledges an incident.
EngineInv ==
    /\ ~AckThreads
    /\ RowsInv
    /\ NotAcking
    /\ IncidentsSettle
    /\ ResolvedIsFinal

\* Nothing is queued at first and there is no row.
LEMMA InitRows == Init => RowsInv
<1> SUFFICES ASSUME Init PROVE RowsInv
  OBVIOUS
<1>1. IInv
  BY InitKept
<1>2. Pending = <<>> /\ IncidentLog = <<>>
  BY DEF Init, Pending, IncidentLog, Behind
<1>3. /\ \A a \in Alerts : alert[a] = None /\ alertRow[a] = None
      /\ \A i \in Incidents : incident[i] = None /\ incidentRow[i] = None
      /\ phase = "up" /\ acking = None /\ staleAlerts = {}
  BY DEF Init
<1>4. AlertsSettle
  BY <1>3 DEF AlertsSettle
<1>5. KeysInv
  <2>1. ActiveRows = {}
    BY <1>3 DEF ActiveRows
  <2> QED
    BY <1>2, <1>3, <2>1 DEF KeysInv, LogIsDrained, RowsKnown, OldestFirst, Live,
                            ActiveIsIndexed, NothingStale, OneActiveRowPerKey
<1>6. DownForgetsIncidents
  BY <1>3 DEF DownForgetsIncidents
<1>7. FoundedFirst
  BY <1>2, <1>3 DEF FoundedFirst, AllFounded
<1> QED
  BY <1>1, <1>4, <1>5, <1>6, <1>7 DEF RowsInv

\* Each step keeps the invariant of the rows.
LEMMA RowsInvIsInductive == RowsInv /\ [Next]_vars => RowsInv'
<1> SUFFICES ASSUME RowsInv, [Next]_vars PROVE RowsInv'
  OBVIOUS
<1>1. TypeOK
  BY DEF RowsInv, IInv, IInvType
<1>2. IInv' /\ AlertsSettle'
  BY IInvIsInductive, SettlingIsInductive DEF RowsInv
<1>3. KeysInv'
  BY KeysAreInductive DEF RowsInv
<1>4. DownForgetsIncidents' /\ FoundedFirst'
  BY <1>1, DownForgetsKept, FoundedKept DEF RowsInv
<1> QED
  BY <1>2, <1>3, <1>4 DEF RowsInv

\* At first no incident exists.
LEMMA InitEngine == ~AckThreads /\ Init => EngineInv
<1> SUFFICES ASSUME ~AckThreads, Init PROVE EngineInv
  OBVIOUS
<1>1. /\ \A i \in Incidents : incident[i] = None
      /\ acking = None /\ IncidentLog = <<>>
  BY DEF Init, IncidentLog, Behind
<1> QED
  BY <1>1, InitRows DEF EngineInv, NotAcking, IncidentsSettle, ResolvedIsFinal

\* Each step keeps the invariant of the incidents.
LEMMA EngineInvIsInductive == EngineInv /\ [Next]_vars => EngineInv' /\ IncidentRowsFinal
<1> SUFFICES ASSUME EngineInv, [Next]_vars PROVE EngineInv' /\ IncidentRowsFinal
  OBVIOUS
<1>1. TypeOK /\ DownForgetsIncidents /\ NotAcking /\ ~AckThreads
  BY DEF EngineInv, RowsInv, IInv, IInvType
<1>2. RowsInv'
  BY RowsInvIsInductive DEF EngineInv
<1>3. NotAcking'
  BY <1>1, NotAckingKept
<1>4. IncidentsSettle'
  BY <1>1, IncidentsSettleKept DEF EngineInv
<1>5. ResolvedIsFinal' /\ IncidentRowsFinal
  BY <1>1, FinalKept DEF EngineInv
<1> QED
  BY <1>1, <1>2, <1>3, <1>4, <1>5 DEF EngineInv

\* Every alert change the queue accepted is the last word of the queue, of
\* the retained event or of the row, whatever the retries and the
\* acknowledgements written straight to the row, and with any number of
\* request threads.
THEOREM AcceptedAlertsConverge == Spec => []AlertsConverge
<1>1. RowsInv => AlertsConverge
  BY SettlesIsLatest DEF RowsInv
<1> QED
  BY <1>1, InitRows, RowsInvIsInductive, PTL DEF Spec

\* One active row per condition, and an alert behind every row of an
\* incident: what start() and hydrate() find after a crash is consistent.
THEOREM TablesStayConsistent == Spec => []TablesAreConsistent
<1>1. RowsInv => TablesAreConsistent
  BY DEF RowsInv, KeysInv, FoundedFirst, AllFounded, TablesAreConsistent,
         OneActiveRowPerKey, IncidentRowsAreLinked
<1> QED
  BY <1>1, InitRows, RowsInvIsInductive, PTL DEF Spec

\* Without the race of the acknowledgement threads both tables come to what
\* the process holds.
THEOREM QueuesDoConverge == ~AckThreads => (Spec => []QueuesConverge)
<1>1. EngineInv => QueuesConverge
  BY SettlesIsLatest, StatusIsLatest
     DEF EngineInv, RowsInv, IInv, IInvType, QueuesConverge
<1>2. EngineInv /\ [Next]_vars => EngineInv'
  BY EngineInvIsInductive
<1> QED
  BY <1>1, <1>2, InitEngine, PTL DEF Spec

\* Without that race no step takes the resolution of an incident back from
\* the table.
THEOREM ResolutionsAreFinal == ~AckThreads => (Spec => IncidentRowsStayFinal)
<1>1. EngineInv /\ [Next]_vars => EngineInv'
  BY EngineInvIsInductive
<1>2. EngineInv /\ [Next]_vars => [IncidentRowsFinal]_vars
  BY EngineInvIsInductive
<1> QED
  BY <1>1, <1>2, InitEngine, PTL DEF Spec, IncidentRowsStayFinal

\* The end of a shutdown whose workers have drained.
LEMMA DrainedShutdown ==
    ASSUME EngineInv, phase = "drainIncidents", ~IncidentReady
    PROVE  /\ \A a \in Alerts \ staleAlerts : alert[a] # None => alertRow[a] = alert[a]
           /\ \A i \in Incidents \ staleIncidents :
                incident[i] # None => incidentRow[i] # None
                                      /\ incidentRow[i].status = incident[i].status
<1>1. Pending = <<>>
  BY DEF EngineInv, RowsInv, KeysInv, LogIsDrained
<1>2. IncidentLog = <<>>
  BY DEF IncidentReady, IncidentLog, Behind
<1>3. \A a \in Alerts : ~Concerns(<<>>, a)
  BY DEF Concerns
<1>4. \A i \in Incidents : ~Mentions(<<>>, i)
  BY DEF Mentions
<1>5. \A a \in Alerts \ staleAlerts : alert[a] # None => alertRow[a] = alert[a]
  BY <1>1, <1>3 DEF EngineInv, RowsInv, AlertsSettle, Settles
<1>6. \A i \in Incidents \ staleIncidents :
        incident[i] # None => incidentRow[i] # None
                              /\ incidentRow[i].status = incident[i].status
  BY <1>2, <1>4 DEF EngineInv, IncidentsSettle, StatusSettles
<1> QED
  BY <1>5, <1>6

\* Without that race a shutdown whose workers have drained leaves in the
\* tables what the process knew.
THEOREM ShutdownLosesNothing == ~AckThreads => (Spec => ShutdownKeepsAll)
<1>1. EngineInv /\ [Next]_vars => EngineInv'
  BY EngineInvIsInductive
<1>2. EngineInv => [phase = "drainIncidents" /\ phase' = "down" /\ ~IncidentReady =>
        /\ \A a \in Alerts \ staleAlerts :
             alert[a] # None => alertRow[a] = alert[a]
        /\ \A i \in Incidents \ staleIncidents :
             incident[i] # None => incidentRow[i] # None
                                   /\ incidentRow[i].status = incident[i].status]_vars
  BY DrainedShutdown
<1> QED
  BY <1>1, <1>2, InitEngine, PTL DEF Spec, ShutdownKeepsAll

\* One incident gets a state that is resolved exactly when it is quiet.
LEMMA ChangeKeepsQuiet ==
    ASSUME TypeOK, ResolvedIffQuiet, NEW i \in Incidents, NEW s \in IncidentState,
           incident' = [incident EXCEPT ![i] = s],
           s.status = "resolved" <=> s.active = {}
    PROVE  ResolvedIffQuiet'
<1>1. /\ incident'[i] = s
      /\ \A j \in Incidents \ {i} : incident'[j] = incident[j]
  BY DEF TypeOK
<1> QED
  BY <1>1 DEF ResolvedIffQuiet

\* Each step of the first process keeps incidents resolved when quiet.
LEMMA QuietKept ==
    ASSUME TypeOK, restarts' = 0, restarts = 0 => ResolvedIffQuiet, [Next]_vars
    PROVE  ResolvedIffQuiet'
<1>1. CASE UNCHANGED <<incident, restarts>>
  BY <1>1 DEF ResolvedIffQuiet
<1>2. ASSUME NEW a \in Alerts, CreateAlert(a) PROVE ResolvedIffQuiet'
  <2>1. restarts = 0 /\ HostOf[KeyOf[a]] \in Hosts
    BY <1>2, ConstantsAssumption DEF CreateAlert
  <2>2. PICK i \in Incidents :
          incident' = [incident EXCEPT ![i] =
              IF @ = None THEN Opened(HostOf[KeyOf[a]], a) ELSE Joined(@, a)]
    BY <1>2 DEF CreateAlert
  <2>3. CASE incident[i] = None
    <3> DEFINE s == Opened(HostOf[KeyOf[a]], a)
    <3>1. s \in IncidentState /\ s.status = "open" /\ s.active = {a}
      BY <2>1 DEF Opened, IncidentState, IncidentStatus
    <3>2. incident' = [incident EXCEPT ![i] = s]
      BY <2>2, <2>3
    <3> HIDE DEF s
    <3> QED
      BY <2>1, <3>1, <3>2, ChangeKeepsQuiet
  <2>4. CASE incident[i] # None
    <3> DEFINE s == Joined(incident[i], a)
    <3>1. incident[i] \in IncidentState
      BY <2>4 DEF TypeOK
    <3>2. s \in IncidentState /\ s.status = "open" /\ s.active = incident[i].active \cup {a}
      BY <3>1 DEF Joined, IncidentState, IncidentStatus
    <3>3. incident' = [incident EXCEPT ![i] = s]
      BY <2>2, <2>4
    <3> HIDE DEF s
    <3> QED
      BY <2>1, <3>2, <3>3, ChangeKeepsQuiet
  <2> QED
    BY <2>3, <2>4
<1>3. ASSUME NEW k \in Keys, ResolveAlert(k) PROVE ResolvedIffQuiet'
  <2>1. restarts = 0 /\ restarts' = restarts
    BY <1>3 DEF ResolveAlert
  <2>2. CASE UNCHANGED incident
    BY <1>1, <2>1, <2>2
  <2>3. CASE \E i \in Incidents : incident[i] # None
                /\ incident' = [incident EXCEPT ![i] = Left(@, active[k])]
    <3>1. PICK i \in Incidents : incident[i] # None
                /\ incident' = [incident EXCEPT ![i] = Left(@, active[k])]
      BY <2>3
    <3> DEFINE s == Left(incident[i], active[k])
    <3>2. /\ incident[i] \in IncidentState
          /\ incident[i].status = "resolved" <=> incident[i].active = {}
      BY <2>1, <3>1 DEF TypeOK, ResolvedIffQuiet
    <3>3. /\ s \in IncidentState /\ s.active = incident[i].active \ {active[k]}
          /\ s.status = IF incident[i].active \subseteq {active[k]} THEN "resolved"
                        ELSE incident[i].status
      BY <3>2 DEF Left, IncidentState, IncidentStatus
    <3>4. s.status = "resolved" <=> s.active = {}
      BY <3>2, <3>3
    <3>5. incident' = [incident EXCEPT ![i] = s]
      BY <3>1
    <3> HIDE DEF s
    <3> QED
      BY <2>1, <3>3, <3>4, <3>5, ChangeKeepsQuiet
  <2> QED
    BY <1>3, <2>2, <2>3 DEF ResolveAlert
<1>4. ASSUME NEW i \in Incidents, AcknowledgeIncident(i) PROVE ResolvedIffQuiet'
  <2> DEFINE s == [incident[i] EXCEPT !.status = "acknowledged"]
  <2>1. /\ restarts = 0 /\ incident[i] # None /\ incident[i].status # "resolved"
        /\ incident' = [incident EXCEPT ![i] = s]
    BY <1>4 DEF AcknowledgeIncident
  <2>2. incident[i] \in IncidentState
    BY <2>1 DEF TypeOK
  <2>3. s \in IncidentState /\ s.status = "acknowledged" /\ s.active = incident[i].active
    BY <2>2 DEF IncidentState, IncidentStatus
  <2>4. incident[i].active # {}
    BY <2>1 DEF ResolvedIffQuiet
  <2> HIDE DEF s
  <2> QED
    BY <2>1, <2>3, <2>4, ChangeKeepsQuiet
<1>5. CASE Stopped
  BY <1>5 DEF Stopped, NoMemory, ResolvedIffQuiet
<1>6. CASE \/ \E a \in Alerts : AcknowledgeAlert(a)
           \/ \E k \in Keys : DeleteRule(k)
           \/ EnqueueAcknowledged
           \/ PersistAlert \/ PersistAlertFails
           \/ PersistIncident \/ PersistIncidentFails
           \/ \E h \in Hosts : DeleteHost(h)
           \/ ReloadRules \/ Shutdown \/ StopAlertPersistence
           \/ UNCHANGED vars
  <2>1. UNCHANGED <<incident, restarts>>
    BY <1>6 DEF AcknowledgeAlert, DeleteRule, EnqueueAcknowledged, PersistAlert,
                PersistAlertFails, PersistIncident, PersistIncidentFails, DeleteHost,
                ReloadRules, Shutdown, StopAlertPersistence, vars, memoryVars
  <2> QED
    BY <1>1, <2>1
<1>7. ~Restart
  BY DEF Restart, TypeOK
<1> QED
  BY <1>2, <1>3, <1>4, <1>5, <1>6, <1>7 DEF Next, StopIncidentPersistence, Crash

\* Until the first restart an incident is resolved exactly when the last of
\* its alerts is, with acknowledging threads and full queues too.
THEOREM QuietUntilRestart == Spec => [](restarts = 0 => ResolvedIffQuiet)
<1>1. Init => (restarts = 0 => ResolvedIffQuiet)
  BY DEF Init, ResolvedIffQuiet
<1>2. /\ IInv /\ (restarts = 0 => ResolvedIffQuiet) /\ [Next]_vars
      => (restarts = 0 => ResolvedIffQuiet)'
  BY QuietKept DEF IInv, IInvType
<1> QED
  BY <1>1, <1>2, InitKept, IInvIsInductive, PTL DEF Spec

=============================================================================
