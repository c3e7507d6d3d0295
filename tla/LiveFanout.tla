----------------------------- MODULE LiveFanout -----------------------------
(***************************************************************************)
(* How the states of alerts reach the browsers: the broadcasts of the      *)
(* process an alert belongs to, over the WebSocket clients it has, and the *)
(* event bus to the clients of the other processes.                        *)
(*                                                                         *)
(* An event that creates or resolves an alert changes it under the         *)
(* manager's lock and broadcasts afterwards, first its telemetry and then  *)
(* the alert, as it is by then.  A broadcast writes a frame to each client *)
(* and waits for all of them to take it; only then is the message          *)
(* published, and only then does the event go on.  In which order two      *)
(* broadcasts that are through resume is left open.                        *)
(***************************************************************************)
EXTENDS EventBus

CONSTANTS
    Alerts, Owner,      \* alerts, and the process each belongs to
    Clients, Home,      \* browsers, and the process each connects to
    NoToken             \* no token

ASSUME FanoutAssumption ==
    /\ Owner \in [Alerts -> Talkers] /\ Home \in [Clients -> Procs]
    /\ NoToken \notin Procs

Events == Alerts \X {"created", "resolved"}

VARIABLES
    life,       \* each alert, in its process
    task,       \* process_event of each event, and the clients it waits for
    said,       \* history: the alert messages dumped so far, in that order
    submitted,  \* history: those each process put into its queue
    client,     \* the connection of each client
    inbox,      \* the alert messages written to it
    registered, \* _clients
    token       \* the process whose registry has the token of each client

fanoutVars == <<life, task, said, submitted, client, inbox, registered, token>>
vars == <<busVars, fanoutVars>>

NoTask == [at |-> "none", asked |-> {}, to |-> {}, msg |-> 0]

TypeOK ==
    /\ BusTypeOK
    /\ life \in [Alerts -> {"none", "active", "resolved"}]
    /\ \A e \in Events :
         /\ task[e].at \in {"none", "telemetry", "alert", "done"}
         /\ task[e].to \subseteq task[e].asked
         /\ task[e].asked \subseteq {c \in Clients : Home[c] = Owner[e[1]]}
         /\ task[e].msg \in 0..Len(said)
    /\ \A n \in DOMAIN said : said[n] \in [alert : Alerts, resolved : BOOLEAN]
    /\ client \in [Clients -> {"off", "open", "closed"}]
    /\ \A c \in Clients : \A n \in DOMAIN inbox[c] : inbox[c][n] \in DOMAIN said
    /\ \A p \in Procs : registered[p] \subseteq {c \in Clients : Home[c] = p}
    /\ \A c \in Clients : c \in registered[Home[c]] => client[c] # "off"
    /\ token \in [Clients -> Procs \cup {NoToken}]

Init ==
    /\ BusInit
    /\ life = [a \in Alerts |-> "none"]
    /\ task = [e \in Events |-> NoTask]
    /\ said = <<>>
    /\ submitted = [p \in Procs |-> <<>>]
    /\ client = [c \in Clients |-> "off"]
    /\ inbox = [c \in Clients |-> <<>>]
    /\ registered = [p \in Procs |-> {}]
    /\ token = [c \in Clients |-> NoToken]

-----------------------------------------------------------------------------
(* Broadcasts.                                                             *)

\* Slip: a client that has yet to take an earlier frame is passed over.
ReceiversIdle(p) ==
    {c \in registered[p] : client[c] = "open" /\ \A e \in Events : c \notin task[e].to}

\* A frame is written to each registered client; on a closed one it fails.
Receivers(p) == {c \in registered[p] : client[c] = "open"}

Written(p, m) ==
    [c \in Clients |-> IF c \in Receivers(p) THEN Append(inbox[c], m) ELSE inbox[c]]

\* What a broadcast leaves of the clients once it has seen which failed.
Remaining(p, asked) == registered[p] \ {c \in asked : client[c] # "open"}

Submit(p, m) ==
    /\ Publish(p, m)
    /\ submitted' = [submitted EXCEPT ![p] =
           IF queue'[p] # queue[p] THEN Append(@, m) ELSE @]

\* Slip: the alert is dumped as the event left it.
DumpedThen(e, lives) == [alert |-> e[1], resolved |-> e[2] = "resolved"]

\* The message: the alert at the time of the dump, not of the event.
Dumped(e, lives) == [alert |-> e[1], resolved |-> lives[e[1]] = "resolved"]

\* _broadcast_alert up to its suspension; without clients there is none.
BroadcastAlert(e, lives, clients) ==
    LET p == Owner[e[1]]
        m == Len(said) + 1
    IN  /\ said' = Append(said, Dumped(e, lives))
        /\ inbox' = Written(p, m)
        /\ IF clients = {}
           THEN /\ task' = [task EXCEPT ![e] = [NoTask EXCEPT !.at = "done"]]
                /\ Submit(p, m)
           ELSE /\ task' = [task EXCEPT ![e] = [at |-> "alert", asked |-> clients,
                                 to |-> {c \in clients : client[c] = "open"}, msg |-> m]]
                /\ UNCHANGED <<queue, submitted>>

Unqueued == <<starts, handles, stopFlag, loop, joining, publisher, listener, notified,
              failures, requeued, hasty>>

\* process_event: the alert, and the broadcast of the telemetry.
ProcessEvent(e) ==
    LET p == Owner[e[1]]
    IN  /\ task[e].at = "none"
        /\ life[e[1]] = IF e[2] = "created" THEN "none" ELSE "active"
        /\ life' = [life EXCEPT ![e[1]] = IF e[2] = "created" THEN "active" ELSE "resolved"]
        /\ IF registered[p] = {}
           THEN BroadcastAlert(e, life', {})
           ELSE /\ task' = [task EXCEPT ![e] = [NoTask EXCEPT !.at = "telemetry",
                                 !.asked = registered[p], !.to = Receivers(p)]]
                /\ UNCHANGED <<queue, submitted, said, inbox>>
        /\ UNCHANGED <<Unqueued, client, registered, token>>

\* The telemetry has been taken by all who will: the alert follows.
TelemetrySent(e) ==
    LET p == Owner[e[1]]
    IN  /\ task[e].at = "telemetry" /\ task[e].to = {}
        /\ registered' = [registered EXCEPT ![p] = Remaining(p, task[e].asked)]
        /\ BroadcastAlert(e, life, registered'[p])
        /\ UNCHANGED <<Unqueued, life, client, token>>

AlertSent(e) ==
    LET p == Owner[e[1]]
    IN  /\ task[e].at = "alert" /\ task[e].to = {}
        /\ registered' = [registered EXCEPT ![p] = Remaining(p, task[e].asked)]
        /\ Submit(p, task[e].msg)
        /\ task' = [task EXCEPT ![e] = [NoTask EXCEPT !.at = "done"]]
        /\ UNCHANGED <<Unqueued, life, said, client, inbox, token>>

\* What the listener of a process hands to its event loop.
AcceptedFrom(p, m) == loop[p] /\ Owner[said[m].alert] # p

\* A notification is broadcast by the process that listens; nothing else can
\* come between its reading and the frames.
Deliver(t) ==
    /\ ReadNotification(t)
    /\ inbox' = IF AcceptedFrom(t[1], Head(notified[t]))
                THEN Written(t[1], Head(notified[t])) ELSE inbox
    /\ UNCHANGED <<life, task, said, submitted, client, registered, token>>

-----------------------------------------------------------------------------
(* Clients.                                                                *)

\* Any process may answer the request for a token.
IssueToken(c, p) ==
    /\ client[c] = "off" /\ token[c] = NoToken
    /\ token' = [token EXCEPT ![c] = p]
    /\ UNCHANGED <<busVars, life, task, said, submitted, client, inbox, registered>>

\* A token is known to the process that issued it alone, and used once.  One
\* that has expired, or whose user was deactivated, is no better than one
\* from elsewhere: the connection is closed, and its client asks anew.
Reject(c) ==
    /\ client[c] = "off" /\ token[c] # NoToken
    /\ token' = [token EXCEPT ![c] = NoToken]
    /\ UNCHANGED <<busVars, life, task, said, submitted, client, inbox, registered>>

\* The endpoint accepts the connection and registers it.
Connect(c) ==
    /\ client[c] = "off" /\ token[c] = Home[c]
    /\ token' = [token EXCEPT ![c] = NoToken]
    /\ client' = [client EXCEPT ![c] = "open"]
    /\ registered' = [registered EXCEPT ![Home[c]] = @ \cup {c}]
    /\ UNCHANGED <<busVars, life, task, said, submitted, inbox>>

\* A client takes what was written to it.
Settled(c) == [e \in Events |-> [task[e] EXCEPT !.to = @ \ {c}]]

Take(c) ==
    /\ \E e \in Events : c \in task[e].to
    /\ task' = Settled(c)
    /\ UNCHANGED <<busVars, life, said, submitted, client, inbox, registered, token>>

\* A connection is closed or lost, and what waits for it fails.
Close(c) ==
    /\ client[c] = "open"
    /\ client' = [client EXCEPT ![c] = "closed"]
    /\ task' = Settled(c)
    /\ UNCHANGED <<busVars, life, said, submitted, inbox, registered, token>>

\* The endpoint notices.
Unregister(c) ==
    /\ client[c] = "closed" /\ c \in registered[Home[c]]
    /\ registered' = [registered EXCEPT ![Home[c]] = @ \ {c}]
    /\ UNCHANGED <<busVars, life, task, said, submitted, client, inbox, token>>

\* A reset forgets the clients, and then closes one after the other (Close).
DisconnectAll(p) ==
    /\ registered[p] # {}
    /\ registered' = [registered EXCEPT ![p] = {}]
    /\ UNCHANGED <<busVars, life, task, said, submitted, client, inbox, token>>

Next ==
    \/ \E e \in Events : ProcessEvent(e) \/ TelemetrySent(e) \/ AlertSent(e)
    \/ \E t \in Threads : Deliver(t)
    \/ \E c \in Clients : Reject(c) \/ Connect(c) \/ Take(c) \/ Close(c)
                         \/ Unregister(c)
    \/ \E c \in Clients, p \in Procs : IssueToken(c, p)
    \/ \E p \in Procs : DisconnectAll(p)
    \/ BusNext /\ UNCHANGED fanoutVars

Spec == Init /\ [][Next]_vars

-----------------------------------------------------------------------------
(* Properties.                                                             *)

From(m) == Owner[said[m].alert]

\* A client gets the messages of its own process in the order in which they
\* were dumped and each once, whatever the bus brings back, and it never
\* sees a resolved alert become active again, however long the broadcast of
\* its creation was held up.
LocalInOrder ==
    \A c \in Clients : \A i, j \in DOMAIN inbox[c] :
        i < j /\ From(inbox[c][i]) = Home[c] /\ From(inbox[c][j]) = Home[c] =>
            /\ inbox[c][i] < inbox[c][j]
            /\ said[inbox[c][i]].alert = said[inbox[c][j]].alert /\ said[inbox[c][i]].resolved
                  => said[inbox[c][j]].resolved

\* An open client that saw an alert of its process active, and that was not
\* let go, has seen it resolved once both events are through: the failure of
\* other clients and their leaving take nothing from it.
SeesResolution ==
    \A c \in Clients, a \in Alerts :
        /\ client[c] = "open" /\ c \in registered[Home[c]] /\ Owner[a] = Home[c]
        /\ \A k \in {"created", "resolved"} : task[<<a, k>>].at = "done"
        /\ \E n \in DOMAIN inbox[c] : said[inbox[c][n]].alert = a
        => \E n \in DOMAIN inbox[c] :
               said[inbox[c][n]].alert = a /\ said[inbox[c][n]].resolved

\* The clients of the other processes get the messages of a process in the
\* order in which it queued them, and each once, unless a publish failed or
\* the bus was started over a stop() or over threads that were still there:
\* lost messages and connections leave gaps and change no order.  It is the
\* order of the queue and not of the dumps: the message of a creation whose
\* broadcast waits for a slow client is queued after that of the resolution,
\* and a peer then ends with the alert active.
PeersInOrder ==
    ~requeued =>
        \A c \in Clients : \A p \in Procs \ {Home[c]} :
            {p, Home[c]} \cap hasty = {} =>
                \A i, j \in DOMAIN inbox[c] :
                    i < j /\ From(inbox[c][i]) = p /\ From(inbox[c][j]) = p =>
                        \E k, l \in DOMAIN submitted[p] :
                            k < l /\ submitted[p][k] = inbox[c][i]
                                  /\ submitted[p][l] = inbox[c][j]

\* A process whose bus is started hands on what its listener reads: no
\* sequence of starts, stops and failing threads leaves a handle without its
\* loop or with the stop flag set, unless the bus was once started over a
\* stop() or over threads of its previous run that were still there.
NeverDeaf == \A p \in Procs \ hasty : handles[p] # 0 => loop[p] /\ ~stopFlag[p]

=============================================================================
