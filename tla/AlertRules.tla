----------------------------- MODULE AlertRules -----------------------------
(***************************************************************************)
(* Threshold rules on the telemetry of one host: the table an              *)
(* administrator edits, the engine that evaluates samples against the      *)
(* rules it has loaded, and the manager that keeps the alerts which the    *)
(* engine's transitions create and resolve.                                *)
(*                                                                         *)
(* A rule is identified by its place in the order of names, in which       *)
(* load_rules lists them, and an alert of a rule by the sample that fired  *)
(* it.  Creating and updating a rule are coroutines that do not suspend:   *)
(* one action.  Deleting one runs on a request thread, and its reload is   *)
(* cut where the event loop can evaluate a sample in between.              *)
(***************************************************************************)
EXTENDS Integers, Sequences, FiniteSets

CONSTANTS
    NumRules,   \* rules there may ever be
    Configs,    \* operator, threshold, duration, cooldown and enabled flag
    FirstRows,  \* the rules in the table at the beginning
    New, Gone,  \* a row not yet created, a row deleted
    Values,     \* values of the metric the rules watch
    MaxSamples, \* bound on the samples
    MaxEdits    \* bound on the edits of a behaviour

Rules == 1..NumRules
Operators == {">", ">=", "<", "<="}

ASSUME RulesAssumption ==
    /\ {NumRules, MaxSamples, MaxEdits} \subseteq Nat /\ Values \subseteq Int
    /\ Configs \subseteq [op : Operators, threshold : Int, duration : Nat,
                          cooldown : Nat, enabled : BOOLEAN]
    /\ New \notin Configs /\ Gone \notin Configs /\ New # Gone
    /\ FirstRows \in [Rules -> Configs \cup {New}]

VARIABLES
    sample,     \* the samples collected so far: sequence number, time, value
    log,        \* history: the samples the engine evaluated, in its order
    table,      \* alert_rules
    loaded,     \* _rules
    state,      \* _states: since when, last and active alert, 0 for None
    alerts,     \* _alerts, per rule
    resolved,   \* which of them are resolved
    held,       \* _active_alerts, 0 for None
    reload,     \* the request thread of a deletion
    persisting, \* _alert_persistence is there
    owed,       \* per rule, the active rows of alert_records once what was
                \* queued for the table is written
    shown,      \* what they may be now: the queue is written in its order
    edits,      \* edits so far
    edited,     \* history: the rules whose configuration was changed
    torn        \* history: the rules that lost a transition, that a reload
                \* left behind what happened during it, or whose rows came
                \* back as several active alerts

rowVars == <<persisting, owed, shown>>
ruleVars == <<log, table, loaded, state, alerts, resolved, held, reload,
              rowVars, edits, edited, torn>>

Idle == [at |-> "idle", rows |-> FirstRows, found |-> [r \in Rules |-> 0]]
NoState == [since |-> 0, fired |-> 0, on |-> 0]

RulesTypeOK ==
    LET Samples == 0..Len(sample)
    IN  /\ \A n \in DOMAIN log : log[n] \in 1..Len(sample)
        /\ table \in [Rules -> Configs \cup {New, Gone}]
        /\ loaded \in [Rules -> Configs \cup {New, Gone}]
        /\ state \in [Rules -> [since : Samples, fired : Samples, on : Samples]]
        /\ \A r \in Rules : alerts[r] \in Seq(1..Len(sample))
        /\ \A r \in Rules : resolved[r] \subseteq 1..Len(sample)
        /\ held \in [Rules -> Samples]
        /\ reload.at \in {"idle", "committed", "read", "loaded", "listed"}
        /\ reload.rows \in [Rules -> Configs \cup {New, Gone}]
        /\ reload.found \in [Rules -> Samples]
        /\ persisting \in BOOLEAN
        /\ \A r \in Rules : owed[r] \in shown[r] /\ shown[r] \subseteq SUBSET (1..Len(sample))
        /\ edits \in 0..MaxEdits
        /\ edited \subseteq Rules /\ torn \subseteq Rules

RulesInit ==
    /\ log = <<>>
    /\ table = FirstRows
    /\ loaded = FirstRows
    /\ state = [r \in Rules |-> NoState]
    /\ alerts = [r \in Rules |-> <<>>]
    /\ resolved = [r \in Rules |-> {}]
    /\ held = [r \in Rules |-> 0]
    /\ reload = Idle
    /\ persisting = TRUE
    /\ owed = [r \in Rules |-> {}]
    /\ shown = [r \in Rules |-> {{}}]
    /\ edits = 0
    /\ edited = {}
    /\ torn = {}

-----------------------------------------------------------------------------
(* Evaluation.                                                             *)

Time(i) == sample[i].time

Matches(v, c) ==
    \/ c.op = ">"  /\ v > c.threshold
    \/ c.op = ">=" /\ v >= c.threshold
    \/ c.op = "<"  /\ v < c.threshold
    \/ c.op = "<=" /\ v <= c.threshold

Evaluating == {r \in Rules : loaded[r] \in Configs /\ loaded[r].enabled}

Met(r, i) == Matches(sample[i].value, loaded[r])

Since(r, i) == IF state[r].since = 0 THEN i ELSE state[r].since

Cooled(r, i) ==
    state[r].fired # 0 => Time(i) - Time(state[r].fired) >= loaded[r].cooldown

\* The rules that the sample makes fire, and those it returns to normal.
Fires(i) ==
    {r \in Evaluating : /\ Met(r, i)
                        /\ state[r].on = 0
                        /\ Time(i) - Time(Since(r, i)) >= loaded[r].duration
                        /\ Cooled(r, i)}

Clears(i) == {r \in Evaluating : ~Met(r, i) /\ state[r].on # 0}

\* Slip: a sample below the threshold does not start the duration afresh.
StepKeepsSince(r, i) ==
    [since |-> IF r \in Evaluating /\ Met(r, i) THEN Since(r, i) ELSE state[r].since,
     fired |-> IF r \in Fires(i) THEN i ELSE state[r].fired,
     on    |-> IF r \in Fires(i) THEN i ELSE IF r \in Clears(i) THEN 0 ELSE state[r].on]

\* What evaluate() leaves of a rule's state.
Step(r, i) ==
    IF r \notin Evaluating THEN state[r]
    ELSE [since |-> IF Met(r, i) THEN Since(r, i) ELSE 0,
          fired |-> IF r \in Fires(i) THEN i ELSE state[r].fired,
          on    |-> IF r \in Fires(i) THEN i
                    ELSE IF Met(r, i) THEN state[r].on ELSE 0]

\* The engine evaluates every rule; the manager applies the transitions of
\* the given ones and queues some of them for the alert table.  A resolution
\* whose key is not held changes nothing.
Apply(i, applied, queued) ==
    /\ state' = [r \in Rules |-> Step(r, i)]
    /\ alerts' = [r \in Rules |->
          IF r \in applied \cap Fires(i) THEN Append(alerts[r], i) ELSE alerts[r]]
    /\ resolved' = [r \in Rules |->
          IF r \in applied \cap Clears(i) THEN resolved[r] \cup ({held[r]} \ {0})
          ELSE resolved[r]]
    /\ held' = [r \in Rules |->
          IF r \in applied \cap Fires(i) THEN i
          ELSE IF r \in applied \cap Clears(i) THEN 0 ELSE held[r]]
    /\ owed' = [r \in Rules |->
          IF r \in queued \cap Fires(i) THEN owed[r] \cup {i}
          ELSE IF r \in queued \cap Clears(i) THEN owed[r] \ {held[r]} ELSE owed[r]]
    /\ shown' = [r \in Rules |-> shown[r] \cup {owed'[r]}]
    /\ log' = Append(log, i)
    /\ torn' = torn \cup ((Fires(i) \cup Clears(i)) \ applied)
    /\ UNCHANGED <<table, loaded, reload, persisting, edits, edited>>

\* Without persistence nothing is queued; a full queue drops what comes.
Queueable(changed) == IF persisting THEN SUBSET changed ELSE {{}}

Evaluate(i) ==
    LET changed == Fires(i) \cup Clears(i)
    IN  \E queued \in Queueable(changed) : Apply(i, changed, queued)

\* The webhook queue is full: the transition of a rule raises once it is in
\* memory, before it is queued for the table, and those of the rules behind
\* it are lost.
EvaluateFails(i) ==
    LET changed == Fires(i) \cup Clears(i)
    IN  \E f \in changed :
          /\ f \in Fires(i) \/ held[f] # 0
          /\ \E queued \in Queueable({r \in changed : r < f}) :
                Apply(i, {r \in changed : r <= f}, queued)

-----------------------------------------------------------------------------
(* Reloads.                                                                *)

\* The places of the unresolved alerts of a rule, and the alert itself: of
\* several the one that came last.
Unresolved(r) == {n \in DOMAIN alerts[r] : alerts[r][n] \notin resolved[r]}

Listed ==
    [r \in Rules |->
        IF Unresolved(r) = {} THEN 0
        ELSE alerts[r][CHOOSE n \in Unresolved(r) : \A m \in Unresolved(r) : m <= n]]

\* Slip: loading the rules forgets what was known of each.
KeptNone(rows, states) == [r \in Rules |-> NoState]

\* load_rules keeps the states of the rules it loads.
Kept(rows, states) ==
    [r \in Rules |-> IF rows[r] \in Configs THEN states[r] ELSE NoState]

\* Slip: the engine is not told of the active alerts.
HydratedNot(states, found) == states

\* Slip: the cooldown of an active alert begins afresh.
HydratedFresh(states, found) ==
    [r \in Rules |-> IF found[r] = 0 THEN states[r]
                     ELSE [since |-> found[r], fired |-> 0, on |-> found[r]]]

\* hydrate_active_alerts, of rules that are loaded or not.
Hydrated(states, found) ==
    [r \in Rules |-> IF found[r] = 0 THEN states[r]
                     ELSE [since |-> found[r], fired |-> found[r], on |-> found[r]]]

\* create_alert_rule, update_alert_rule: the row and reload_alert_rules.
Edit(r, row) ==
    /\ edits < MaxEdits
    /\ edits' = edits + 1
    /\ table' = [table EXCEPT ![r] = row]
    /\ loaded' = table'
    /\ state' = Hydrated(Kept(table', state), Listed)
    /\ UNCHANGED <<log, alerts, resolved, held, reload, rowVars, torn>>

CreateRule(r, c) ==
    /\ table[r] = New
    /\ Edit(r, c)
    /\ UNCHANGED edited

UpdateRule(r, c) ==
    /\ table[r] \in Configs /\ table[r] # c
    /\ Edit(r, c)
    /\ edited' = edited \cup {r}

\* delete_alert_rule, on its thread: the row ...
DeleteRule(r) ==
    /\ edits < MaxEdits /\ reload.at = "idle"
    /\ table[r] \in Configs
    /\ edits' = edits + 1
    /\ table' = [table EXCEPT ![r] = Gone]
    /\ reload' = [Idle EXCEPT !.at = "committed"]
    /\ UNCHANGED <<log, loaded, state, alerts, resolved, held, rowVars, edited, torn>>

\* ... the query of reload_alert_rules ...
ReadRules ==
    /\ reload.at = "committed"
    /\ reload' = [reload EXCEPT !.at = "read", !.rows = table]
    /\ UNCHANGED <<log, table, loaded, state, alerts, resolved, held, rowVars,
                   edits, edited, torn>>

\* Slip: rules that are gone stay loaded.
LoadRulesMerges ==
    /\ reload.at = "read"
    /\ loaded' = [r \in Rules |-> IF reload.rows[r] = Gone THEN loaded[r] ELSE reload.rows[r]]
    /\ reload' = [reload EXCEPT !.at = "loaded"]
    /\ UNCHANGED <<log, table, state, alerts, resolved, held, rowVars, edits, edited, torn>>

\* ... load_rules, perhaps over what an edit loaded since ...
LoadRules ==
    /\ reload.at = "read"
    /\ loaded' = reload.rows
    /\ state' = Kept(reload.rows, state)
    /\ reload' = [reload EXCEPT !.at = "loaded"]
    /\ torn' = torn \cup {r \in Rules : reload.rows[r] # table[r]}
    /\ UNCHANGED <<log, table, alerts, resolved, held, rowVars, edits, edited>>

\* ... the walk over the alerts, which raises when one is appended to them
\* meanwhile (by any source of alerts) ...
ListAlerts ==
    /\ reload.at = "loaded"
    /\ \/ reload' = [reload EXCEPT !.at = "listed", !.found = Listed]
       \/ reload' = Idle
    /\ UNCHANGED <<log, table, loaded, state, alerts, resolved, held, rowVars,
                   edits, edited, torn>>

\* ... and hydrate_active_alerts, perhaps with an alert resolved or
\* forgotten since.
HydrateAlerts ==
    /\ reload.at = "listed"
    /\ state' = Hydrated(state, reload.found)
    /\ reload' = Idle
    /\ torn' = torn \cup {r \in Rules : reload.found[r] \notin {0, Listed[r]}}
    /\ UNCHANGED <<log, table, loaded, alerts, resolved, held, rowVars, edits, edited>>

RulesNext ==
    \/ \E r \in Rules : (\E c \in Configs : CreateRule(r, c) \/ UpdateRule(r, c))
                        \/ DeleteRule(r)
    \/ ReadRules \/ LoadRules \/ ListAlerts \/ HydrateAlerts

\* What the table shows is all that it will show.
Settle(found) ==
    /\ owed' = found
    /\ shown' = [r \in Rules |-> {found[r]}]

\* The active rows start() may find.  The alert of a deleted rule has lost
\* its rule.
ActiveRows(r) == IF table[r] \in Configs THEN shown[r] ELSE {{}}

\* order_by(timestamp).
ByTime(rows) ==
    {at \in [1..Cardinality(rows) -> rows] :
        /\ \A i \in rows : \E n \in DOMAIN at : at[n] = i
        /\ \A m, n \in DOMAIN at : m < n => Time(at[m]) <= Time(at[n])}

\* Rows that are or will be active beside that of the active alert.
Adrift(r) == ~ owed[r] \subseteq {held[r]}

\* start() with nothing in memory loads the rules and every active row.  The
\* last one of a rule becomes its active alert.
RestoreRules(states) ==
    /\ \E found \in [Rules -> UNION {ActiveRows(r) : r \in Rules}] :
         /\ \A r \in Rules : found[r] \in ActiveRows(r)
         /\ Settle(found)
         /\ alerts' \in [Rules -> UNION {ByTime(found[r]) : r \in Rules}]
         /\ \A r \in Rules : alerts'[r] \in ByTime(found[r])
    /\ resolved' = [r \in Rules |-> {}]
    /\ held' = [r \in Rules |-> IF alerts'[r] = <<>> THEN 0 ELSE alerts'[r][Len(alerts'[r])]]
    /\ loaded' = table
    /\ state' = Hydrated(states, held')
    /\ persisting' = TRUE
    /\ UNCHANGED <<log, table, edits, edited>>

\* The rules that come back as several active alerts, the table having been
\* left behind.
TornBack == {r \in Rules : Adrift(r) /\ Len(alerts'[r]) > 1}

\* A new process: what was still queued for the table is lost.
RestartRules ==
    /\ RestoreRules([r \in Rules |-> NoState])
    /\ reload' = Idle
    /\ torn' = TornBack \cup {r \in torn : Len(alerts'[r]) > 1}

\* stop(), at a pause or in a reset: the queue is written, or as much of it
\* as a worker manages that is cancelled in the end.  Samples of agents are
\* evaluated all the same.
PauseRules ==
    /\ persisting
    /\ persisting' = FALSE
    /\ \E found \in [Rules -> UNION {shown[r] : r \in Rules}] :
         /\ \A r \in Rules : found[r] \in shown[r]
         /\ Settle(found)
    /\ UNCHANGED <<log, table, loaded, state, alerts, resolved, held, reload,
                   edits, edited, torn>>

\* reset(), stopped: it deletes the rows, unless the database fails or they
\* are of another host than the simulated one; the manager forgets every
\* alert, the engine every state.  The rules stay loaded.
ForgetRules ==
    /\ ~persisting
    /\ alerts' = [r \in Rules |-> <<>>]
    /\ resolved' = [r \in Rules |-> {}]
    /\ held' = [r \in Rules |-> 0]
    /\ state' = [r \in Rules |-> NoState]
    /\ Settle([r \in Rules |-> {}]) \/ UNCHANGED <<owed, shown>>
    /\ UNCHANGED <<log, table, loaded, reload, persisting, edits, edited, torn>>

\* start() again, of resume() or the end of a reset, with no alert in memory
\* ...
ResumeForgotten ==
    /\ ~persisting
    /\ \A r \in Rules : alerts[r] = <<>>
    /\ RestoreRules(Kept(table, state))
    /\ torn' = torn \cup TornBack
    /\ UNCHANGED reload

\* ... or with some, of these rules or of another source.
ResumeRules ==
    /\ ~persisting
    /\ persisting' = TRUE
    /\ loaded' = table
    /\ state' = Hydrated(Kept(table, state), Listed)
    /\ UNCHANGED <<log, table, alerts, resolved, held, reload, owed, shown,
                   edits, edited, torn>>

-----------------------------------------------------------------------------
(* The rules on their own: samples taken one unit of time apart arrive in  *)
(* any order, each once.                                                   *)

Arrivals ==
    /\ RulesInit
    /\ sample \in [1..MaxSamples -> [seq : {0}, time : 1..MaxSamples, value : Values]]
    /\ \A i \in 1..MaxSamples : Time(i) = i

Arrive(i) ==
    /\ \A n \in DOMAIN log : log[n] # i
    /\ Evaluate(i) \/ EvaluateFails(i)

ArrivalNext ==
    /\ UNCHANGED sample
    /\ \/ \E i \in DOMAIN sample : Arrive(i)
       \/ RulesNext
       \/ RestartRules \/ PauseRules \/ ForgetRules \/ ResumeForgotten \/ ResumeRules

ArrivalSpec == Arrivals /\ [][ArrivalNext]_<<sample, ruleVars>>

-----------------------------------------------------------------------------
(* Properties.                                                             *)

\* The engine and the manager agree on the alert of a rule, and there is one
\* at most that is unresolved: the next return to normal resolves it, and no
\* second alert is created beside it, through edits, deletions, pauses,
\* resets and restarts, and while the alert table lacks what a full queue
\* dropped, a failed transition or a pause left out.  Except for a rule that
\* lost a transition when one before it raised, that a deletion on a request
\* thread hydrated from an alert resolved or forgotten meanwhile, or that
\* start() gave several active alerts, the table having been owed the row of
\* another than the active one.  That last exception is of the code, although
\* README.md:447 lists "deduplicated active alerts": a resolution that never
\* reached the alert queue leaves an active row, start() takes it up beside
\* that of a later alert, and a return to normal resolves only the later one.
EngineAgrees ==
    \A r \in Rules \ torn : loaded[r] \in Configs =>
        /\ state[r].on = held[r]
        /\ IF held[r] = 0 THEN Unresolved(r) = {}
           ELSE \E n \in DOMAIN alerts[r] : Unresolved(r) = {n} /\ alerts[r][n] = held[r]

\* The engine evaluates the rules of the table, but while a deletion is under
\* way and after its thread loaded a list older than an edit's.
RulesAreCurrent ==
    reload.at = "idle" =>
        \A r \in Rules \ torn :
            (table[r] \in Configs \/ loaded[r] \in Configs) => loaded[r] = table[r]

\* An alert is created only by a sample that ends a run of evaluated samples
\* which all met the condition and span the rule's duration, and only when
\* the cooldown since every alert in memory has passed, in whatever order the
\* samples arrive and however the manager is paused, reset, resumed and
\* restarted; but for a rule that was reconfigured, whose run may have begun
\* under the old configuration, and those that EngineAgrees excepts.
DueNow(r) ==
    LET c == loaded[r]
        n == Len(log)
    IN  /\ \E k \in 1..n :
             /\ \A j \in k..n : Matches(sample[log[j]].value, c)
             /\ Time(log[n]) - Time(log[k]) >= c.duration
        /\ \A j \in 1..(Len(alerts[r]) - 1) :
             Time(log[n]) - Time(alerts[r][j]) >= c.cooldown

FiresOnlyWhenDue ==
    [][log' # log =>
        \A r \in Rules \ (edited' \cup torn') :
            Len(alerts'[r]) > Len(alerts[r]) => DueNow(r)']_ruleVars

=============================================================================
