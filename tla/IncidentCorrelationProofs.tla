--------------------- MODULE IncidentCorrelationProofs ----------------------
(***************************************************************************)
(* Incidents are chains and are open while an alert is active, for any     *)
(* number of alerts and incidents and any window.  What holds a chain      *)
(* together is that an incident was last seen when one of its alerts was   *)
(* created, also after it was set back: whatever is in reach of last_seen  *)
(* is in reach of an alert.  Until it is set back that alert is its        *)
(* newest, so a new alert in reach of any of them is in reach of it.       *)
(***************************************************************************)
EXTENDS IncidentCorrelation, TLAPS

NoneHasNoAlerts == \A i \in Ids : incident[i].status = "none" <=> incident[i].alerts = {}

AlertsAreCreated == \A i \in Ids : \A a \in incident[i].alerts : alert[a].status # "none"

OneIncidentEach ==
    \A i, j \in Ids : i # j => incident[i].alerts \cap incident[j].alerts = {}

SeenAtAnAlert ==
    \A i \in Ids : incident[i].status # "none" =>
        \E a \in incident[i].alerts : alert[a].at = incident[i].last

Helpers == NoneHasNoAlerts /\ AlertsAreCreated /\ OneIncidentEach /\ SeenAtAnAlert

IInv ==
    /\ TypeOK
    /\ Helpers
    /\ IncidentsAreChains
    /\ SeverityIsHighest
    /\ OpenWhileActive

AlertRecord == [status : {"none", "active", "resolved"},
                scope : Scopes \cup {"none"}, at : Times, severity : Severities]

IncidentRecord == [status : {"none", "open", "acknowledged", "resolved"},
                   scope : Scopes \cup {"none"}, severity : Severities,
                   last : Times, alerts : SUBSET Alerts]

\* The pairs of alerts that are within the window of each other.
Near == {p \in Alerts \X Alerts : Distance(alert[p[1]].at, alert[p[2]].at) <= Window}

\* No part of S is cut off from the rest.
Chain(S, R) ==
    \A some \in SUBSET S : some # {} /\ some # S =>
        \E a \in some, b \in S \ some : <<a, b>> \in R

LEMMA ChainGrows ==
    ASSUME NEW S, NEW R, Chain(S, R), NEW m \in S, NEW n,
           <<m, n>> \in R, <<n, m>> \in R
    PROVE  Chain(S \cup {n}, R)
  <1> SUFFICES ASSUME NEW some \in SUBSET (S \cup {n}), some # {}, some # S \cup {n}
               PROVE  \E a \in some, b \in (S \cup {n}) \ some : <<a, b>> \in R
    BY DEF Chain
  <1>1. CASE m \in some /\ n \notin some
    BY <1>1
  <1>2. CASE n \in some /\ m \notin some
    BY <1>2
  <1>3. CASE (m \in some <=> n \in some)
    <2> DEFINE old == some \cap S
    <2>1. old \in SUBSET S /\ old # {} /\ old # S
      BY <1>3
    <2>2. PICK a \in old, b \in S \ old : <<a, b>> \in R
      BY <2>1 DEF Chain
    <2> QED BY <2>2
  <1> QED BY <1>1, <1>2, <1>3

LEMMA ChainsAreNear ==
    ASSUME TypeOK
    PROVE  IncidentsAreChains <=> \A i \in Ids : Chain(incident[i].alerts, Near)
  <1>1. \A i \in Ids : incident[i].alerts \subseteq Alerts
    BY DEF TypeOK
  <1>2. ASSUME NEW i \in Ids, NEW some \in SUBSET incident[i].alerts
        PROVE  (\E a \in some, b \in incident[i].alerts \ some :
                    Distance(alert[a].at, alert[b].at) <= Window)
               <=> \E a \in some, b \in incident[i].alerts \ some : <<a, b>> \in Near
    BY <1>1 DEF Near
  <1> QED BY <1>2 DEF IncidentsAreChains, Chain

LEMMA InitInv == Init => IInv
  <1> SUFFICES ASSUME Init PROVE IInv
    OBVIOUS
  <1>1. TypeOK
    BY CorrelationAssumption DEF Init, TypeOK, NoAlert, NoIncident, Times, Severities
  <1>2. Helpers
    BY DEF Init, NoIncident, Helpers, NoneHasNoAlerts, AlertsAreCreated, OneIncidentEach,
           SeenAtAnAlert
  <1>3. IncidentsAreChains
    BY DEF Init, NoIncident, IncidentsAreChains
  <1>4. SeverityIsHighest /\ OpenWhileActive
    BY DEF Init, NoIncident, SeverityIsHighest, OpenWhileActive, Ongoing, Active
  <1> QED BY <1>1, <1>2, <1>3, <1>4 DEF IInv

-----------------------------------------------------------------------------

\* An alert n joins incident i, or opens it: what Create has in common.
Enters(n, i, t, sev) ==
    /\ alert[n].status = "none"
    /\ \A a \in Alerts : a # n => alert'[a] = alert[a]
    /\ alert'[n].status = "active" /\ alert'[n].at = t /\ alert'[n].severity = sev
    /\ \A j \in Ids : j # i => incident'[j] = incident[j]
    /\ incident'[i].status = "open"
    /\ incident'[i].alerts = incident[i].alerts \cup {n}

LEMMA EntersHelpers ==
    ASSUME IInv, TypeOK', NEW n \in Alerts, NEW i \in Ids, NEW t \in Times, NEW sev,
           Enters(n, i, t, sev),
           \/ incident'[i].last = t
           \/ incident'[i].last = incident[i].last /\ incident[i].status # "none"
    PROVE  Helpers' /\ OpenWhileActive'
  <1> USE DEF IInv, Helpers
  <1>1. \A j \in Ids : n \notin incident[j].alerts /\ incident[j].alerts \subseteq Alerts
    BY DEF Enters, AlertsAreCreated, TypeOK
  <1>2. \A j \in Ids : \A a \in incident[j].alerts : alert'[a] = alert[a]
    BY <1>1 DEF Enters
  <1>3. NoneHasNoAlerts'
    BY DEF Enters, NoneHasNoAlerts
  <1>4. AlertsAreCreated'
    BY <1>2 DEF Enters, AlertsAreCreated
  <1>5. OneIncidentEach'
    BY <1>1 DEF Enters, OneIncidentEach
  <1>6. SeenAtAnAlert'
    BY <1>2 DEF Enters, SeenAtAnAlert
  <1>7. OpenWhileActive'
    <2>1. \A j \in Ids : j # i => Active(j)' = Active(j) /\ Ongoing(j)' = Ongoing(j)
      BY <1>2 DEF Enters, Active, Ongoing
    <2>2. n \in Active(i)' /\ Ongoing(i)'
      BY DEF Enters, Active, Ongoing
    <2> QED BY <2>1, <2>2 DEF OpenWhileActive
  <1> QED BY <1>3, <1>4, <1>5, <1>6, <1>7

LEMMA EntersChains ==
    ASSUME IInv, TypeOK', NEW n \in Alerts, NEW i \in Ids, NEW t \in Times, NEW sev,
           Enters(n, i, t, sev),
           incident[i].alerts # {} =>
               \E m \in incident[i].alerts : Distance(t, alert[m].at) <= Window
    PROVE  IncidentsAreChains'
  <1> USE DEF IInv, Helpers
  <1>1. \A j \in Ids : n \notin incident[j].alerts /\ incident[j].alerts \subseteq Alerts
    BY DEF Enters, AlertsAreCreated, TypeOK
  <1>2. \A j \in Ids : \A a \in incident[j].alerts : alert'[a] = alert[a]
    BY <1>1 DEF Enters
  <1>3. \A j \in Ids : Chain(incident[j].alerts, Near)
    BY ChainsAreNear
  <1>4. \A j \in Ids : \A a, b \in incident[j].alerts : <<a, b>> \in Near => <<a, b>> \in Near'
    BY <1>1, <1>2 DEF Near
  <1>5. \A j \in Ids : Chain(incident[j].alerts, Near')
    BY <1>3, <1>4 DEF Chain
  <1>6. Chain(incident[i].alerts \cup {n}, Near')
    <2>1. CASE incident[i].alerts = {}
      BY <2>1 DEF Chain
    <2>2. CASE incident[i].alerts # {}
      <3>1. PICK m \in incident[i].alerts : Distance(t, alert[m].at) <= Window
        BY <2>2
      <3>2. m \in Alerts /\ alert[m].at \in Times /\ alert'[m] = alert[m]
        BY <1>1, <1>2 DEF TypeOK
      <3>3. Distance(t, alert[m].at) = Distance(alert[m].at, t)
        BY <3>2, CorrelationAssumption DEF Distance, Times
      <3>4. <<m, n>> \in Near' /\ <<n, m>> \in Near'
        BY <3>1, <3>2, <3>3 DEF Near, Enters
      <3> HIDE DEF IInv
      <3> QED BY <1>5, <3>4, ChainGrows
    <2> QED BY <2>1, <2>2
  <1>7. \A j \in Ids : Chain(incident'[j].alerts, Near')
    BY <1>5, <1>6 DEF Enters
  <1>8. IncidentsAreChains' <=> \A j \in Ids : Chain(incident'[j].alerts, Near')
    <2>1. \A j \in Ids : incident'[j].alerts \subseteq Alerts
      BY DEF TypeOK
    <2>2. ASSUME NEW j \in Ids, NEW some \in SUBSET incident'[j].alerts
          PROVE  (\E a \in some, b \in incident'[j].alerts \ some :
                      Distance(alert'[a].at, alert'[b].at) <= Window)
                 <=> \E a \in some, b \in incident'[j].alerts \ some : <<a, b>> \in Near'
      BY <2>1 DEF Near
    <2> QED BY <2>2 DEF IncidentsAreChains, Chain
  <1> QED BY <1>7, <1>8

LEMMA EntersSeverity ==
    ASSUME IInv, NEW n \in Alerts, NEW i \in Ids, NEW t \in Times, NEW sev \in Severities,
           Enters(n, i, t, sev),
           \/ incident[i].alerts = {} /\ incident'[i].severity = sev
           \/ /\ Ongoing(i)
              /\ incident'[i].severity = IF sev > incident[i].severity THEN sev
                                         ELSE incident[i].severity
    PROVE  SeverityIsHighest'
  <1> USE DEF IInv, Helpers
  <1>1. \A j \in Ids : n \notin incident[j].alerts /\ incident[j].alerts \subseteq Alerts
    BY DEF Enters, AlertsAreCreated, TypeOK
  <1>2. \A j \in Ids : \A a \in incident[j].alerts : alert'[a] = alert[a]
    BY <1>1 DEF Enters
  <1>3. incident[i].severity \in Int /\ sev \in Int
        /\ \A a \in incident[i].alerts : alert[a].severity \in Int
    BY <1>1 DEF TypeOK, Severities
  <1> SUFFICES ASSUME NEW j \in Ids, Ongoing(j)'
               PROVE  /\ \E a \in incident'[j].alerts : alert'[a].severity = incident'[j].severity
                      /\ \A a \in incident'[j].alerts :
                            alert'[a].severity <= incident'[j].severity
    BY DEF SeverityIsHighest
  <1>4. CASE j # i
    BY <1>2, <1>4 DEF Enters, SeverityIsHighest, Ongoing
  <1>5. CASE j = i /\ incident[i].alerts = {}
    BY <1>3, <1>5 DEF Enters, OpenWhileActive, Active
  <1>6. CASE j = i /\ incident[i].alerts # {}
    BY <1>2, <1>3, <1>6 DEF Enters, SeverityIsHighest
  <1> QED BY <1>4, <1>5, <1>6

LEMMA CreateInv ==
    ASSUME IInv, NEW n \in Alerts, NEW scope \in Scopes, NEW t \in Times,
           NEW sev \in Severities, Create(n, scope, t, sev)
    PROVE  IInv'
  <1> DEFINE record == [status |-> "active", scope |-> scope, at |-> t, severity |-> sev]
  <1>1. alert \in [Alerts -> AlertRecord] /\ incident \in [Ids -> IncidentRecord]
        /\ setBack \subseteq Ids
    BY DEF IInv, TypeOK, AlertRecord, IncidentRecord
  <1>2. record \in AlertRecord
    BY DEF AlertRecord
  <1>3. alert' \in [Alerts -> AlertRecord] /\ alert' = [alert EXCEPT ![n] = record]
    BY <1>1, <1>2 DEF Create
  <1>4. ASSUME NEW i \in Ids, InReach(i, scope, t),
               incident' = [incident EXCEPT ![i] = Joined(i, n, t, sev)]
        PROVE  IInv'
    <2>1. incident[i] \in IncidentRecord
      BY <1>1
    <2>2. Joined(i, n, t, sev) \in IncidentRecord
      BY <2>1 DEF Joined, IncidentRecord
    <2>3. incident'[i] = Joined(i, n, t, sev) /\ \A j \in Ids : j # i => incident'[j] = incident[j]
      BY <1>1, <1>4
    <2>4. TypeOK'
      BY <1>1, <1>3, <1>4, <2>2 DEF Create, TypeOK, AlertRecord, IncidentRecord
    <2>5. /\ Joined(i, n, t, sev).status = "open"
          /\ Joined(i, n, t, sev).last = IF t > incident[i].last THEN t ELSE incident[i].last
          /\ Joined(i, n, t, sev).alerts = incident[i].alerts \cup {n}
          /\ Joined(i, n, t, sev).severity = IF sev > incident[i].severity THEN sev
                                             ELSE incident[i].severity
      BY <2>1 DEF Joined, IncidentRecord
    <2>6. Enters(n, i, t, sev)
      BY <1>1, <1>3, <2>3, <2>5 DEF Enters, Create
    <2>7. incident[i].status # "none" /\ Ongoing(i)
      BY <1>4 DEF InReach, Ongoing
    <2>8. PICK m \in incident[i].alerts : alert[m].at = incident[i].last
      BY <2>7 DEF IInv, Helpers, SeenAtAnAlert
    <2>9. Distance(t, alert[m].at) <= Window
      BY <1>4, <2>8 DEF InReach
    <2>10. Helpers' /\ OpenWhileActive'
      BY <2>3, <2>4, <2>5, <2>6, <2>7, EntersHelpers
    <2>11. IncidentsAreChains'
      BY <2>4, <2>6, <2>8, <2>9, EntersChains
    <2>12. SeverityIsHighest'
      BY <2>3, <2>5, <2>6, <2>7, EntersSeverity
    <2> QED BY <2>4, <2>10, <2>11, <2>12 DEF IInv
  <1>5. ASSUME NEW i \in Ids, incident[i].status = "none",
               incident' = [incident EXCEPT ![i] = Opened(n, scope, t, sev)]
        PROVE  IInv'
    <2>1. incident[i].alerts = {}
      BY <1>5 DEF IInv, Helpers, NoneHasNoAlerts
    <2>2. Opened(n, scope, t, sev) \in IncidentRecord
      BY DEF Opened, IncidentRecord
    <2>3. /\ incident'[i] = Opened(n, scope, t, sev)
          /\ \A j \in Ids : j # i => incident'[j] = incident[j]
      BY <1>1, <1>5
    <2>4. TypeOK'
      BY <1>1, <1>3, <1>5, <2>2 DEF Create, TypeOK, AlertRecord, IncidentRecord
    <2>5. Enters(n, i, t, sev)
      BY <1>1, <1>3, <2>1, <2>3 DEF Enters, Create, Opened
    <2>6. incident'[i].last = t /\ incident'[i].severity = sev
      BY <2>3 DEF Opened
    <2>7. Helpers' /\ OpenWhileActive'
      BY <2>4, <2>5, <2>6, EntersHelpers
    <2>8. IncidentsAreChains'
      BY <2>1, <2>4, <2>5, EntersChains
    <2>9. SeverityIsHighest'
      BY <2>1, <2>5, <2>6, EntersSeverity
    <2> QED BY <2>4, <2>7, <2>8, <2>9 DEF IInv
  <1> QED BY <1>4, <1>5 DEF Create

-----------------------------------------------------------------------------

\* A step that leaves alerts where they are keeps incidents together.
LEMMA ChainsStay ==
    ASSUME IncidentsAreChains,
           \A i \in Ids : incident'[i].alerts = incident[i].alerts,
           \A i \in Ids : \A a \in incident[i].alerts : alert'[a].at = alert[a].at
    PROVE  IncidentsAreChains'
  BY DEF IncidentsAreChains

LEMMA ResolveInv ==
    ASSUME IInv, NEW a \in Alerts, NEW i \in Ids, Resolve(a, i)
    PROVE  IInv'
  <1> USE DEF IInv, Helpers
  <1>1. alert \in [Alerts -> AlertRecord] /\ incident \in [Ids -> IncidentRecord]
    BY DEF TypeOK, AlertRecord, IncidentRecord
  <1>2. alert[a] \in AlertRecord /\ incident[i] \in IncidentRecord
    BY <1>1
  <1>3. /\ alert'[a] = [alert[a] EXCEPT !.status = "resolved"]
        /\ \A b \in Alerts : b # a => alert'[b] = alert[b]
    BY <1>1 DEF Resolve
  <1>4. /\ incident'[i] = [incident[i] EXCEPT !.last = alert[a].at,
                              !.status = IF Resolves(i, a) THEN "resolved" ELSE @]
        /\ \A j \in Ids : j # i => incident'[j] = incident[j]
    BY <1>1 DEF Resolve
  <1>5. /\ \A b \in Alerts : alert'[b].at = alert[b].at /\ alert'[b].severity = alert[b].severity
        /\ alert'[a].status = "resolved"
    BY <1>2, <1>3 DEF AlertRecord
  <1>6. /\ incident'[i].last = alert[a].at
        /\ incident'[i].status = IF Resolves(i, a) THEN "resolved" ELSE incident[i].status
        /\ \A j \in Ids : incident'[j].alerts = incident[j].alerts
                          /\ incident'[j].severity = incident[j].severity
                          /\ incident[j].alerts \subseteq Alerts
    BY <1>1, <1>2, <1>4 DEF IncidentRecord
  <1>7. TypeOK'
    <2>1. incident'[i] \in IncidentRecord /\ alert'[a] \in AlertRecord
      BY <1>2, <1>3, <1>4 DEF IncidentRecord, AlertRecord
    <2> QED BY <1>1, <2>1, <1>3, <1>4 DEF TypeOK, Resolve, IncidentRecord, AlertRecord
  <1>8. incident[i].status # "none"
    BY DEF Resolve, NoneHasNoAlerts
  <1>9. NoneHasNoAlerts' /\ OneIncidentEach'
    BY <1>4, <1>6, <1>8 DEF NoneHasNoAlerts, OneIncidentEach
  <1>10. AlertsAreCreated'
    BY <1>3, <1>5, <1>6 DEF AlertsAreCreated
  <1>11. SeenAtAnAlert'
    <2>1. \E b \in incident'[i].alerts : alert'[b].at = incident'[i].last
      <3>1. a \in incident'[i].alerts
        BY <1>6 DEF Resolve
      <3>2. alert'[a].at = incident'[i].last
        BY <1>5, <1>6
      <3> HIDE DEF IInv
      <3> QED BY <3>1, <3>2
    <2>2. ASSUME NEW j \in Ids, j # i, incident'[j].status # "none"
          PROVE  \E b \in incident'[j].alerts : alert'[b].at = incident'[j].last
      <3>1. PICK b \in incident[j].alerts : alert[b].at = incident[j].last
        BY <1>4, <2>2 DEF SeenAtAnAlert
      <3> QED BY <1>4, <1>5, <1>6, <2>2, <3>1
    <2> QED BY <2>1, <2>2 DEF SeenAtAnAlert
  <1>12. IncidentsAreChains'
    BY <1>5, <1>6, ChainsStay
  <1>13. SeverityIsHighest'
    <2>1. \A j \in Ids : Ongoing(j)' => Ongoing(j)
      BY <1>4, <1>6 DEF Ongoing
    <2> QED BY <1>5, <1>6, <2>1 DEF SeverityIsHighest
  <1>14. OpenWhileActive'
    <2>1. Active(i)' = Active(i) \ {a}
      BY <1>3, <1>5, <1>6 DEF Active
    <2>2. a \in Active(i) /\ Ongoing(i)
      BY DEF Active, Resolve, OpenWhileActive
    <2>3. Ongoing(i)' <=> Active(i)' # {}
      BY <1>6, <2>1, <2>2 DEF Ongoing, Resolves
    <2>4. ASSUME NEW j \in Ids, j # i
          PROVE  Active(j)' = Active(j) /\ Ongoing(j)' = Ongoing(j)
      <3>1. a \notin incident[j].alerts
        BY <2>4 DEF OneIncidentEach, Resolve
      <3>2. incident'[j] = incident[j]
        BY <1>4, <2>4
      <3>3. \A b \in incident[j].alerts : alert'[b] = alert[b]
        BY <1>3, <1>6, <3>1
      <3> QED BY <3>2, <3>3 DEF Active, Ongoing
    <2> QED BY <2>3, <2>4 DEF OpenWhileActive
  <1> QED BY <1>7, <1>9, <1>10, <1>11, <1>12, <1>13, <1>14

LEMMA AcknowledgeInv ==
    ASSUME IInv, NEW i \in Ids, Acknowledge(i)
    PROVE  IInv'
  <1> USE DEF IInv, Helpers
  <1>1. incident \in [Ids -> IncidentRecord] /\ alert' = alert
    BY DEF TypeOK, IncidentRecord, Acknowledge
  <1>2. /\ incident'[i] = [incident[i] EXCEPT !.status = "acknowledged"]
        /\ \A j \in Ids : j # i => incident'[j] = incident[j]
    BY <1>1 DEF Acknowledge
  <1>3. /\ incident'[i].status = "acknowledged"
        /\ \A j \in Ids : incident'[j].alerts = incident[j].alerts
                          /\ incident'[j].severity = incident[j].severity
                          /\ incident'[j].last = incident[j].last
    BY <1>1, <1>2 DEF IncidentRecord
  <1>4. TypeOK'
    BY <1>1 DEF TypeOK, Acknowledge, IncidentRecord
  <1>5. \A j \in Ids : /\ Ongoing(j)' = Ongoing(j) /\ Active(j)' = Active(j)
                       /\ incident'[j].status = "none" <=> incident[j].status = "none"
    BY <1>1, <1>2, <1>3 DEF Ongoing, Active, Acknowledge
  <1>6. NoneHasNoAlerts' /\ AlertsAreCreated' /\ OneIncidentEach' /\ SeenAtAnAlert'
    BY <1>1, <1>3, <1>5 DEF NoneHasNoAlerts, AlertsAreCreated, OneIncidentEach, SeenAtAnAlert
  <1>7. IncidentsAreChains'
    BY <1>1, <1>3, ChainsStay
  <1>8. SeverityIsHighest' /\ OpenWhileActive'
    BY <1>1, <1>3, <1>5 DEF SeverityIsHighest, OpenWhileActive
  <1> QED BY <1>4, <1>6, <1>7, <1>8

LEMMA StutterInv == IInv /\ UNCHANGED vars => IInv'
  BY DEF IInv, vars, Helpers, TypeOK, NoneHasNoAlerts, AlertsAreCreated, OneIncidentEach,
         SeenAtAnAlert, IncidentsAreChains, SeverityIsHighest, OpenWhileActive, Active, Ongoing

LEMMA Invariance == Spec => []IInv
  <1>1. IInv /\ [Next]_vars => IInv'
    BY CreateInv, ResolveInv, AcknowledgeInv, StutterInv DEF Next
  <1> QED BY InitInv, <1>1, PTL DEF Spec

\* In memory, incidents are sound: chains of alerts within the window of each
\* other, as severe as the worst, unresolved exactly while one is active
\* (_candidate, on_alert_created, on_alert_resolved, acknowledge).
THEOREM IncidentsHoldTogether == Spec => []IncidentsAreSound
  <1>1. IInv => IncidentsAreSound
    BY DEF IInv, IncidentsAreSound
  <1> QED BY Invariance, <1>1, PTL

-----------------------------------------------------------------------------

\* What was not set back was last seen at its newest alert.
SeenAtNewest ==
    \A i \in Ids \ setBack : \A a \in incident[i].alerts : alert[a].at <= incident[i].last

LEMMA TimesAreInts ==
    ASSUME TypeOK
    PROVE  /\ \A i \in Ids : incident[i].last \in Int /\ incident[i].alerts \subseteq Alerts
           /\ \A a \in Alerts : alert[a].at \in Int
           /\ Times \subseteq Int
  BY CorrelationAssumption DEF TypeOK, Times

LEMMA SeenInit == Init => SeenAtNewest
  BY DEF Init, NoIncident, SeenAtNewest

LEMMA CreateSeen ==
    ASSUME IInv, SeenAtNewest, NEW n \in Alerts, NEW scope \in Scopes, NEW t \in Times,
           NEW sev \in Severities, Create(n, scope, t, sev)
    PROVE  SeenAtNewest'
  <1>1. /\ alert \in [Alerts -> AlertRecord] /\ incident \in [Ids -> IncidentRecord]
        /\ TypeOK
    BY DEF IInv, TypeOK, AlertRecord, IncidentRecord
  <1>2. /\ setBack' = setBack /\ alert'[n].at = t /\ alert[n].status = "none"
        /\ \A a \in Alerts : a # n => alert'[a] = alert[a]
    BY <1>1 DEF Create
  <1>3. \A i \in Ids : n \notin incident[i].alerts /\ incident[i].alerts \subseteq Alerts
    BY <1>1, <1>2 DEF IInv, Helpers, AlertsAreCreated, IncidentRecord
  <1>4. \A i \in Ids : \A a \in incident[i].alerts : alert'[a] = alert[a] /\ alert[a].at \in Int
    BY <1>1, <1>2, <1>3, TimesAreInts
  <1>5. t \in Int
    BY <1>1, TimesAreInts
  <1>6. ASSUME NEW i \in Ids, incident' = [incident EXCEPT ![i] = Joined(i, n, t, sev)]
        PROVE  SeenAtNewest'
    <2>1. /\ incident'[i].last = IF t > incident[i].last THEN t ELSE incident[i].last
          /\ incident'[i].alerts = incident[i].alerts \cup {n}
          /\ \A j \in Ids : j # i => incident'[j] = incident[j]
      BY <1>1, <1>6 DEF Joined, IncidentRecord
    <2>2. incident[i].last \in Int
      BY <1>1, TimesAreInts
    <2>3. ASSUME i \notin setBack
          PROVE  \A a \in incident'[i].alerts : alert'[a].at <= incident'[i].last
      BY <1>2, <1>4, <1>5, <2>1, <2>2, <2>3 DEF SeenAtNewest
    <2> QED BY <1>2, <1>4, <2>1, <2>3 DEF SeenAtNewest
  <1>7. ASSUME NEW i \in Ids, incident' = [incident EXCEPT ![i] = Opened(n, scope, t, sev)]
        PROVE  SeenAtNewest'
    <2>1. /\ incident'[i].last = t /\ incident'[i].alerts = {n}
          /\ \A j \in Ids : j # i => incident'[j] = incident[j]
      BY <1>1, <1>7 DEF Opened
    <2> QED BY <1>2, <1>4, <1>5, <2>1 DEF SeenAtNewest
  <1> QED BY <1>6, <1>7 DEF Create

LEMMA ResolveSeen ==
    ASSUME IInv, SeenAtNewest, NEW a \in Alerts, NEW i \in Ids, Resolve(a, i)
    PROVE  SeenAtNewest'
  <1>1. /\ alert \in [Alerts -> AlertRecord] /\ incident \in [Ids -> IncidentRecord]
        /\ TypeOK
    BY DEF IInv, TypeOK, AlertRecord, IncidentRecord
  <1>2. \A b \in Alerts : alert'[b].at = alert[b].at
    BY <1>1 DEF Resolve, AlertRecord
  <1>3. /\ incident'[i].last = alert[a].at /\ incident'[i].alerts = incident[i].alerts
        /\ \A j \in Ids : j # i => incident'[j] = incident[j]
    BY <1>1 DEF Resolve, IncidentRecord
  <1>4. /\ \A j \in Ids : incident[j].last \in Int /\ incident[j].alerts \subseteq Alerts
        /\ \A b \in Alerts : alert[b].at \in Int
    BY <1>1, TimesAreInts
  <1>5. /\ a \in incident[i].alerts
        /\ setBack' = IF alert[a].at < incident[i].last THEN setBack \cup {i} ELSE setBack
    BY DEF Resolve
  <1>6. ASSUME i \notin setBack'
        PROVE  alert[a].at = incident[i].last
    BY <1>4, <1>5, <1>6 DEF SeenAtNewest
  <1>7. \A j \in Ids \ setBack' : j \notin setBack
    BY <1>5
  <1> SUFFICES ASSUME NEW j \in Ids \ setBack', NEW b \in incident'[j].alerts
               PROVE  alert'[b].at <= incident'[j].last
    BY DEF SeenAtNewest
  <1>8. b \in incident[j].alerts /\ b \in Alerts /\ alert[b].at <= incident[j].last
    BY <1>3, <1>4, <1>7 DEF SeenAtNewest
  <1> QED BY <1>2, <1>3, <1>6, <1>8

LEMMA SeenInvariance == Spec => [](IInv /\ SeenAtNewest)
  <1>1. ASSUME IInv, SeenAtNewest, NEW i \in Ids, Acknowledge(i)
        PROVE  SeenAtNewest'
    <2>1. incident \in [Ids -> IncidentRecord]
      BY <1>1 DEF IInv, TypeOK, IncidentRecord
    <2>2. \A j \in Ids : incident'[j].alerts = incident[j].alerts
                         /\ incident'[j].last = incident[j].last
      BY <1>1, <2>1 DEF Acknowledge, IncidentRecord
    <2> QED BY <1>1, <2>2 DEF Acknowledge, SeenAtNewest
  <1>2. ASSUME IInv, SeenAtNewest, UNCHANGED vars
        PROVE  SeenAtNewest'
    BY <1>2 DEF vars, SeenAtNewest
  <1>3. IInv /\ SeenAtNewest /\ [Next]_vars => SeenAtNewest'
    BY <1>1, <1>2, CreateSeen, ResolveSeen DEF Next
  <1> QED BY Invariance, SeenInit, <1>3, PTL DEF Spec

\* An alert that is near the newest one of an unresolved incident is in its
\* reach, since that was last seen then.
LEMMA RecentIsInReach ==
    ASSUME IInv, SeenAtNewest, NEW i \in Ids \ setBack, NEW t \in Times, Recent(i, t)
    PROVE  InReach(i, incident[i].scope, t)
  <1>1. /\ incident[i].last \in Int /\ incident[i].alerts \subseteq Alerts
        /\ \A a \in Alerts : alert[a].at \in Int
        /\ t \in Int /\ Window \in Nat
    BY TimesAreInts, CorrelationAssumption DEF IInv
  <1>2. PICK a \in incident[i].alerts : alert[a].at = incident[i].last
    BY DEF IInv, Helpers, SeenAtAnAlert, Recent, Ongoing
  <1>3. PICK b \in incident[i].alerts : t - alert[b].at <= Window
    BY DEF Recent
  <1>4. incident[i].last <= t /\ alert[b].at <= incident[i].last
    BY <1>2 DEF Recent, SeenAtNewest
  <1>5. alert[b].at \in Int
    BY <1>1
  <1>6. Distance(t, incident[i].last) <= Window
    BY <1>1, <1>3, <1>4, <1>5 DEF Distance
  <1> QED BY <1>6 DEF InReach, Recent

\* An alert that follows one of an unresolved incident of its host within the
\* window opens no second incident, unless a resolution has set last_seen_at
\* of the first back (_candidate, on_alert_resolved).
THEOREM NearAlertsAreGrouped == Spec => GroupedUnlessSetBack
  <1>1. ASSUME IInv, SeenAtNewest, [Next]_vars
        PROVE  [\A i \in Ids \ setBack : ~Splits(i)]_vars
    <2> SUFFICES ASSUME Next, NEW i \in Ids \ setBack, Splits(i) PROVE FALSE
      BY <1>1
    <2>1. PICK a \in Alerts :
             /\ alert[a].status = "none" /\ alert'[a].status = "active"
             /\ Recent(i, alert'[a].at) /\ incident[i].scope = alert'[a].scope
             /\ \E j \in Ids : incident[j].status = "none" /\ a \in incident'[j].alerts
      BY DEF Splits
    <2>2. PICK j \in Ids : incident[j].status = "none" /\ a \in incident'[j].alerts
      BY <2>1
    <2>3. /\ alert \in [Alerts -> AlertRecord] /\ incident \in [Ids -> IncidentRecord]
      BY <1>1 DEF IInv, TypeOK, AlertRecord, IncidentRecord
    <2>4. incident[j].alerts = {}
      BY <1>1, <2>2 DEF IInv, Helpers, NoneHasNoAlerts
    <2>5. ASSUME NEW b \in Alerts, NEW scope \in Scopes, NEW t \in Times, NEW sev \in Severities,
                 Create(b, scope, t, sev)
          PROVE  FALSE
      <3>1. b = a
        BY <2>1, <2>3, <2>5 DEF Create
      <3>2. alert'[a].at = t /\ alert'[a].scope = scope
        BY <2>3, <2>5, <3>1 DEF Create
      <3>3. ~\E k \in Ids : /\ InReach(k, scope, t)
                            /\ incident' = [incident EXCEPT ![k] = Joined(k, b, t, sev)]
        BY <2>2, <2>3, <2>4 DEF InReach, Ongoing
      <3>4. ~InReach(i, scope, t)
        BY <2>5, <3>3 DEF Create
      <3> QED BY <1>1, <2>1, <3>2, <3>4, RecentIsInReach
    <2>6. ASSUME NEW b \in Alerts, NEW k \in Ids, Resolve(b, k)
          PROVE  FALSE
      BY <2>1, <2>3, <2>6 DEF Resolve, AlertRecord
    <2>7. ASSUME NEW k \in Ids, Acknowledge(k)
          PROVE  FALSE
      BY <2>1, <2>7 DEF Acknowledge
    <2> QED BY <2>5, <2>6, <2>7 DEF Next
  <1> QED BY SeenInvariance, <1>1, PTL DEF Spec, GroupedUnlessSetBack

=============================================================================
