------------------------- MODULE IncidentCorrelation ------------------------
(***************************************************************************)
(* Which incident an alert goes to: the window around the last time an     *)
(* incident was seen, its severity, and when it reopens and resolves.      *)
(*                                                                         *)
(* The engine runs under the lock of the manager, one call at a time.  Of  *)
(* several incidents in reach it takes the first of a dictionary, which is *)
(* ordered by creation, or by last_seen_at once it was hydrated: any here. *)
(***************************************************************************)
EXTENDS Integers, FiniteSets

CONSTANTS
    Alerts,     \* alerts that may be created
    Ids,        \* incidents
    Scopes,     \* pairs of a host and a service
    MaxTime,    \* bound on the timestamps
    Window      \* CORRELATION_WINDOW

ASSUME CorrelationAssumption == MaxTime \in Nat /\ Window \in Nat

Times == 0..MaxTime
Severities == 1..3      \* SEVERITY_RANK

VARIABLES
    alert,      \* alerts: where and when they are from, and their status
    incident,   \* _incidents
    setBack     \* history: incidents whose last_seen_at has gone back

vars == <<alert, incident, setBack>>

NoAlert == [status |-> "none", scope |-> "none", at |-> 0, severity |-> 1]
NoIncident == [status |-> "none", scope |-> "none", severity |-> 1, last |-> 0, alerts |-> {}]

TypeOK ==
    /\ alert \in [Alerts -> [status : {"none", "active", "resolved"},
                             scope : Scopes \cup {"none"}, at : Times, severity : Severities]]
    /\ incident \in [Ids -> [status : {"none", "open", "acknowledged", "resolved"},
                             scope : Scopes \cup {"none"}, severity : Severities,
                             last : Times, alerts : SUBSET Alerts]]
    /\ setBack \subseteq Ids

Init ==
    /\ alert = [a \in Alerts |-> NoAlert]
    /\ incident = [i \in Ids |-> NoIncident]
    /\ setBack = {}

\* active_alert_ids
Active(i) == {a \in incident[i].alerts : alert[a].status = "active"}

Ongoing(i) == incident[i].status \in {"open", "acknowledged"}

Distance(s, t) == IF s < t THEN t - s ELSE s - t

-----------------------------------------------------------------------------

\* Slip: how much earlier an alert may be has no limit.
InReachOfLater(i, scope, t) ==
    Ongoing(i) /\ incident[i].scope = scope /\ t - incident[i].last <= Window

\* _candidate
InReach(i, scope, t) ==
    Ongoing(i) /\ incident[i].scope = scope /\ Distance(t, incident[i].last) <= Window

Opened(a, scope, t, sev) ==
    [status |-> "open", scope |-> scope, severity |-> sev, last |-> t, alerts |-> {a}]

\* Slip: the incident was last seen when the alert was created.
JoinedLast(i, a, t, sev) ==
    [incident[i] EXCEPT !.status = "open", !.last = t, !.alerts = @ \cup {a},
                        !.severity = IF sev > @ THEN sev ELSE @]

Joined(i, a, t, sev) ==
    [incident[i] EXCEPT !.status = "open", !.last = IF t > @ THEN t ELSE @,
                        !.alerts = @ \cup {a}, !.severity = IF sev > @ THEN sev ELSE @]

\* on_alert_created
Create(a, scope, t, sev) ==
    /\ alert[a].status = "none"
    /\ alert' = [alert EXCEPT ![a] =
           [status |-> "active", scope |-> scope, at |-> t, severity |-> sev]]
    /\ \/ \E i \in Ids : InReach(i, scope, t)
             /\ incident' = [incident EXCEPT ![i] = Joined(i, a, t, sev)]
       \/ /\ \A i \in Ids : ~InReach(i, scope, t)
          /\ \E i \in Ids : incident[i].status = "none"
                /\ incident' = [incident EXCEPT ![i] = Opened(a, scope, t, sev)]
    /\ UNCHANGED setBack

\* The last alert that was active is resolved.
Resolves(i, a) == Active(i) = {a}

\* on_alert_resolved.  The timestamp of a resolved alert is that of its
\* creation.
Resolve(a, i) ==
    /\ alert[a].status = "active" /\ a \in incident[i].alerts
    /\ alert' = [alert EXCEPT ![a].status = "resolved"]
    /\ incident' = [incident EXCEPT ![i].last = alert[a].at,
                        ![i].status = IF Resolves(i, a) THEN "resolved" ELSE @]
    /\ setBack' = IF alert[a].at < incident[i].last THEN setBack \cup {i} ELSE setBack

Acknowledge(i) ==
    /\ Ongoing(i)
    /\ incident' = [incident EXCEPT ![i].status = "acknowledged"]
    /\ UNCHANGED <<alert, setBack>>

Next ==
    \/ \E a \in Alerts, scope \in Scopes, t \in Times, sev \in Severities :
         Create(a, scope, t, sev)
    \/ \E a \in Alerts, i \in Ids : Resolve(a, i)
    \/ \E i \in Ids : Acknowledge(i)

Spec == Init /\ [][Next]_vars

-----------------------------------------------------------------------------
(* Properties.                                                             *)

\* However alerts arrive, are resolved and are late, the alerts of an incident
\* cannot be parted into two that are further apart than the window.
IncidentsAreChains ==
    \A i \in Ids : \A some \in SUBSET incident[i].alerts :
        some # {} /\ some # incident[i].alerts =>
            \E a \in some, b \in incident[i].alerts \ some :
                Distance(alert[a].at, alert[b].at) <= Window

\* An incident is as severe as the most severe of its alerts, also of those
\* that are over.
SeverityIsHighest ==
    \A i \in Ids : Ongoing(i) =>
        /\ \E a \in incident[i].alerts : alert[a].severity = incident[i].severity
        /\ \A a \in incident[i].alerts : alert[a].severity <= incident[i].severity

\* An incident is unresolved while one of its alerts is active, and only then.
OpenWhileActive == \A i \in Ids : Ongoing(i) <=> Active(i) # {}

\* Incidents stay sound through late alerts, early resolutions and
\* acknowledgements.
IncidentsAreSound == IncidentsAreChains /\ SeverityIsHighest /\ OpenWhileActive

\* The newest alert of an unresolved incident is t or within the window of t.
Recent(i, t) ==
    /\ Ongoing(i)
    /\ \A a \in incident[i].alerts : alert[a].at <= t
    /\ \E a \in incident[i].alerts : t - alert[a].at <= Window

\* An alert that follows one of its host within the window opens a second
\* incident beside an unresolved one.
Splits(i) ==
    \E a \in Alerts : alert[a].status = "none" /\ alert'[a].status = "active" /\
        /\ Recent(i, alert'[a].at) /\ incident[i].scope = alert'[a].scope
        /\ \E j \in Ids : incident[j].status = "none" /\ a \in incident'[j].alerts

\* "The incident engine groups alert transitions for the same host inside a
\* short correlation window", unless the resolution of an older alert has set
\* last_seen_at of the incident back.
GroupedUnlessSetBack == [][\A i \in Ids \ setBack : ~Splits(i)]_vars

=============================================================================
