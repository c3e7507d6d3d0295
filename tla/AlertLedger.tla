---------------------------- MODULE AlertLedger ----------------------------
(***************************************************************************)
(* What the asynchronous alert path promises, without its queues: the      *)
(* table lags behind what the process knows, it only ever moves forward,   *)
(* and a process that ends leaves nothing but the table.                   *)
(***************************************************************************)
CONSTANTS Alerts, None

VARIABLES truth, rows

vars == <<truth, rows>>

State == [status : {"active", "resolved"}, acked : BOOLEAN]

\* s may become t: a resolution and an acknowledgement are never taken back.
Precedes(s, t) ==
    s # None =>
        /\ t # None
        /\ s.status = "resolved" => t.status = "resolved"
        /\ s.acked => t.acked

Init ==
    /\ truth = [a \in Alerts |-> None]
    /\ rows = [a \in Alerts |-> None]

\* The process learns something new of an alert.
Learn(a) ==
    /\ \E t \in State :
         /\ Precedes(truth[a], t)
         /\ truth[a] = None => rows[a] = None
         /\ truth' = [truth EXCEPT ![a] = t]
    /\ UNCHANGED rows

\* The table catches up, at most to what the process knows.
Flush(a) ==
    /\ truth[a] # None
    /\ \E t \in State :
         /\ Precedes(rows[a], t) /\ Precedes(t, truth[a])
         /\ rows' = [rows EXCEPT ![a] = t]
    /\ UNCHANGED truth

\* An operator acknowledges a durable alert; the process agrees if it knows it.
Acknowledge(a) ==
    /\ rows[a] # None
    /\ rows' = [rows EXCEPT ![a].acked = TRUE]
    /\ truth' = IF truth[a] = None THEN truth ELSE [truth EXCEPT ![a].acked = TRUE]

Forget ==
    /\ truth' = [a \in Alerts |-> None]
    /\ UNCHANGED rows

\* A new process starts from the active rows.
Recover ==
    /\ \A a \in Alerts : truth[a] = None
    /\ truth' = [a \in Alerts |->
          IF rows[a] # None /\ rows[a].status = "active" THEN rows[a] ELSE None]
    /\ UNCHANGED rows

Next ==
    \/ \E a \in Alerts : Learn(a) \/ Flush(a) \/ Acknowledge(a)
    \/ Forget \/ Recover

Spec == Init /\ [][Next]_vars

\* The table never knows more than the process does.
RowsLag == \A a \in Alerts : truth[a] # None => Precedes(rows[a], truth[a])
=============================================================================
