-------------------------- MODULE LiveFanoutProofs --------------------------
(***************************************************************************)
(* Proofs about LiveFanout and the bus it is composed with: in which order *)
(* browsers get the messages of their own process and those of the others, *)
(* that a browser which saw an alert hears of its resolution, and that a   *)
(* bus which is started hears.                                             *)
(*                                                                         *)
(* A message goes from the queue of its process to its publisher thread,   *)
(* to what each listening connection has not read, and to the clients.     *)
(* Over the bus no message overtakes an earlier one because every stage    *)
(* holds messages that were submitted before those of the stages behind    *)
(* it (InOrder), and because a process that was not hasty has one thread   *)
(* of each kind (OneStart).                                                *)
(***************************************************************************)
EXTENDS LiveFanout, SequenceTheorems, TLAPS

-----------------------------------------------------------------------------
(* The invariant.                                                          *)

PublisherStates == {"none", "connecting", "ready", "publishing", "ended"}
ListenerStates == {"none", "connecting", "listening", "ended"}

BusShape ==
    /\ starts \in [Procs -> 0..MaxStarts]
    /\ handles \in [Procs -> 0..MaxStarts]
    /\ joining \in [Procs -> 0..MaxStarts]
    /\ stopFlag \in [Procs -> BOOLEAN]
    /\ loop \in [Procs -> BOOLEAN]
    /\ queue \in [Procs -> Seq(Nat)]
    /\ \A p \in Procs : Len(queue[p]) <= QueueSize
    /\ publisher \in [Threads -> [at : PublisherStates, hand : Nat]]
    /\ listener \in [Threads -> ListenerStates]
    /\ notified \in [Threads -> Seq(Nat)]
    /\ \A t \in Threads : notified[t] # <<>> => listener[t] = "listening"
    /\ failures \in 0..MaxFailures
    /\ requeued \in BOOLEAN
    /\ hasty \subseteq Procs

\* A process that was not hasty has the threads of its last start alone, and
\* a stop() under way has no later start behind it.
OneStart ==
    \A p \in Procs :
        /\ \A n \in 1..MaxStarts :
             n > starts[p] => publisher[<<p, n>>].at = "none" /\ listener[<<p, n>>] = "none"
        /\ p \notin hasty =>
             /\ \A n \in 1..MaxStarts : Running(<<p, n>>) => n = starts[p]
             /\ joining[p] # 0 => handles[p] = 0
             /\ handles[p] # 0 => loop[p] /\ ~stopFlag[p]

Tasks == [at : {"none", "telemetry", "alert", "done"}, asked : SUBSET Clients,
          to : SUBSET Clients, msg : Nat]

FanoutShape ==
    /\ life \in [Alerts -> {"none", "active", "resolved"}]
    /\ task \in [Events -> Tasks]
    /\ said \in Seq([alert : Alerts, resolved : BOOLEAN])
    /\ submitted \in [Procs -> Seq(Nat)]
    /\ client \in [Clients -> {"off", "open", "closed"}]
    /\ inbox \in [Clients -> Seq(Nat)]
    /\ registered \in [Procs -> SUBSET Clients]
    /\ token \in [Clients -> Procs \cup {NoToken}]

\* The task of an event asks clients of its process, about its own alert,
\* and after the alert changed.
TasksAsk ==
    \A e \in Events :
        /\ task[e].to \subseteq task[e].asked
        /\ task[e].asked \subseteq {c \in Clients : Home[c] = Owner[e[1]]}
        /\ task[e].msg \in 0..Len(said)
        /\ task[e].at = "alert" => task[e].msg # 0 /\ said[task[e].msg].alert = e[1]
        /\ task[e].at # "none" /\ e[2] = "resolved" => life[e[1]] = "resolved"

\* A resolved message is of a resolved alert.
SaidIsTrue == \A n \in DOMAIN said : said[n].resolved => life[said[n].alert] = "resolved"

\* A client that was never connected has been told nothing.
ClientsKnown ==
    /\ \A p \in Procs : registered[p] \subseteq {c \in Clients : Home[c] = p}
    /\ \A c \in Clients :
         /\ c \in registered[Home[c]] => client[c] # "off"
         /\ client[c] = "off" => inbox[c] = <<>>

\* A registered client that was told of an alert whose resolution is through
\* was told of that.
Told ==
    \A c \in Clients, a \in Alerts :
        /\ client[c] = "open" /\ c \in registered[Home[c]] /\ Owner[a] = Home[c]
        /\ task[<<a, "resolved">>].at \in {"alert", "done"}
        /\ \E n \in DOMAIN inbox[c] : said[inbox[c][n]].alert = a
        => \E n \in DOMAIN inbox[c] :
               said[inbox[c][n]].alert = a /\ said[inbox[c][n]].resolved

Messages == 1..Len(said)
Mine(p) == {m \in Messages : From(m) = p}
Elements(s) == {s[i] : i \in DOMAIN s}

\* The messages of a process on their way: taken and not yet published, that
\* or queued, published and not yet read, and written to a client.
InHand(p) ==
    {publisher[t].hand : t \in {t \in Threads : t[1] = p /\ publisher[t].at = "publishing"}}
Unsent(p) == InHand(p) \cup Elements(queue[p])
Unread(p, t) == Elements(notified[t]) \cap Mine(p)
Seen(p, c) == Elements(inbox[c]) \cap Mine(p)

\* Where they come from.
MessagesKnown ==
    /\ \A p \in Procs : Elements(submitted[p]) \subseteq Mine(p)
    /\ \A p \in Procs : Unsent(p) \subseteq Elements(submitted[p])
    /\ \A t \in Threads : Elements(notified[t]) \subseteq Messages
    /\ \A c \in Clients : Elements(inbox[c]) \subseteq Messages
    /\ \A p \in Procs, t \in Threads : Unread(p, t) \subseteq Elements(submitted[p])
    /\ \A p \in Procs, c \in Clients :
         p # Home[c] => Seen(p, c) \subseteq Elements(submitted[p])

\* The order of submission, and what is in it: the messages of a sequence
\* that are in a set, and all of one set before all of another.
Before(sub, m, n) == \E k, l \in DOMAIN sub : k < l /\ sub[k] = m /\ sub[l] = n

Ordered(sub, mine, s) ==
    \A i, j \in DOMAIN s : i < j /\ s[i] \in mine /\ s[j] \in mine => Before(sub, s[i], s[j])

AllBefore(sub, S, T) == \A m \in S, n \in T : Before(sub, m, n)

\* No message overtakes another on the way.
QueueInOrder(p) ==
    /\ Ordered(submitted[p], Mine(p), queue[p])
    /\ AllBefore(submitted[p], InHand(p), Elements(queue[p]))

ThreadInOrder(p, t) ==
    /\ Ordered(submitted[p], Mine(p), notified[t])
    /\ AllBefore(submitted[p], Unread(p, t), Unsent(p))

ClientInOrder(p, c) ==
    /\ AllBefore(submitted[p], Seen(p, c), Unsent(p))
    /\ Home[c] \notin hasty =>
         /\ Ordered(submitted[p], Mine(p), inbox[c])
         /\ \A t \in Threads :
              t[1] = Home[c] => AllBefore(submitted[p], Seen(p, c), Unread(p, t))

InOrder ==
    ~requeued => \A p \in Procs \ hasty :
        /\ QueueInOrder(p)
        /\ \A t \in Threads : ThreadInOrder(p, t)
        /\ \A c \in Clients : Home[c] # p => ClientInOrder(p, c)

\* The inductive invariant.
IInv ==
    /\ BusShape
    /\ OneStart
    /\ FanoutShape
    /\ TasksAsk
    /\ SaidIsTrue
    /\ ClientsKnown
    /\ Told
    /\ MessagesKnown
    /\ LocalInOrder
    /\ InOrder

-----------------------------------------------------------------------------
(* Sequences and orders.                                                   *)

LEMMA ElementsAppend ==
    ASSUME NEW s \in Seq(Nat), NEW m
    PROVE  /\ Elements(Append(s, m)) = Elements(s) \cup {m}
           /\ Append(s, m) # s /\ Len(Append(s, m)) = Len(s) + 1
<1>1. /\ Len(s) \in Nat /\ DOMAIN s = 1..Len(s)
      /\ DOMAIN Append(s, m) = 1..(Len(s) + 1)
      /\ \A i \in 1..Len(s) : Append(s, m)[i] = s[i]
      /\ Append(s, m)[Len(s) + 1] = m
      /\ Len(Append(s, m)) = Len(s) + 1
  OBVIOUS
<1>2. \A i \in DOMAIN Append(s, m) : i \in DOMAIN s \/ i = Len(s) + 1
  BY <1>1
<1>3. \A i \in DOMAIN s : i \in DOMAIN Append(s, m)
  BY <1>1
<1>4. Len(s) + 1 \in DOMAIN Append(s, m)
  BY <1>1
<1>5. Elements(Append(s, m)) = Elements(s) \cup {m}
  BY <1>1, <1>2, <1>3, <1>4 DEF Elements
<1>6. Len(Append(s, m)) # Len(s)
  <2>1. \A k \in Nat : k + 1 # k
    OBVIOUS
  <2> QED
    BY <1>1, <2>1, Zenon
<1>7. Append(s, m) # s
  BY <1>6, Zenon
<1> QED
  BY <1>1, <1>5, <1>7

LEMMA ElementsTail ==
    ASSUME NEW s \in Seq(Nat), s # <<>>
    PROVE  /\ Elements(Tail(s)) \subseteq Elements(s)
           /\ Head(s) \in Elements(s) /\ Head(s) = s[1]
           /\ Len(s) \in Nat \ {0} /\ DOMAIN Tail(s) = 1..(Len(s) - 1)
           /\ \A i \in DOMAIN Tail(s) : i + 1 \in DOMAIN s /\ Tail(s)[i] = s[i + 1]
<1>1. Len(s) \in Nat \ {0}
  BY EmptySeq
<1>2. /\ Head(s) = s[1] /\ 1 \in DOMAIN s
      /\ DOMAIN Tail(s) = 1..(Len(s) - 1)
      /\ \A i \in DOMAIN Tail(s) : i + 1 \in DOMAIN s /\ Tail(s)[i] = s[i + 1]
  BY <1>1
<1> QED
  BY <1>1, <1>2 DEF Elements

LEMMA BeforeGrows ==
    ASSUME NEW sub \in Seq(Nat), NEW m
    PROVE  /\ \A x, y : Before(sub, x, y) => Before(Append(sub, m), x, y)
           /\ \A x \in Elements(sub) : Before(Append(sub, m), x, m)
<1>1. /\ Len(sub) \in Nat /\ DOMAIN sub = 1..Len(sub)
      /\ DOMAIN Append(sub, m) = 1..(Len(sub) + 1)
      /\ \A i \in 1..Len(sub) : Append(sub, m)[i] = sub[i]
      /\ Append(sub, m)[Len(sub) + 1] = m
  OBVIOUS
<1>2. \A i \in 1..Len(sub) : i \in 1..(Len(sub) + 1) /\ i < Len(sub) + 1
  BY <1>1
<1>3. Len(sub) + 1 \in 1..(Len(sub) + 1)
  BY <1>1
<1>4. ASSUME NEW x, NEW y, Before(sub, x, y)
      PROVE  Before(Append(sub, m), x, y)
  BY <1>1, <1>2, <1>4 DEF Before
<1>5. ASSUME NEW x \in Elements(sub)
      PROVE  Before(Append(sub, m), x, m)
  BY <1>1, <1>2, <1>3 DEF Before, Elements
<1> QED
  BY <1>4, <1>5

LEMMA OrderedAppend ==
    ASSUME NEW sub, NEW mine, NEW s \in Seq(Nat), NEW m, Ordered(sub, mine, s),
           m \in mine => AllBefore(sub, Elements(s) \cap mine, {m})
    PROVE  Ordered(sub, mine, Append(s, m))
<1>1. /\ Len(s) \in Nat /\ DOMAIN s = 1..Len(s)
      /\ DOMAIN Append(s, m) = 1..(Len(s) + 1)
      /\ \A i \in 1..Len(s) : Append(s, m)[i] = s[i]
      /\ Append(s, m)[Len(s) + 1] = m
  OBVIOUS
<1> SUFFICES ASSUME NEW i \in DOMAIN Append(s, m), NEW j \in DOMAIN Append(s, m), i < j,
                    Append(s, m)[i] \in mine, Append(s, m)[j] \in mine
             PROVE  Before(sub, Append(s, m)[i], Append(s, m)[j])
  BY DEF Ordered
<1>2. i \in DOMAIN s /\ Append(s, m)[i] = s[i]
  BY <1>1
<1>3. CASE j \in DOMAIN s
  BY <1>1, <1>2, <1>3 DEF Ordered
<1>4. CASE j = Len(s) + 1
  BY <1>1, <1>2, <1>4 DEF AllBefore, Elements
<1> QED
  BY <1>1, <1>3, <1>4

LEMMA OrderedTail ==
    ASSUME NEW sub, NEW mine, NEW s \in Seq(Nat), s # <<>>, Ordered(sub, mine, s)
    PROVE  /\ Ordered(sub, mine, Tail(s))
           /\ Head(s) \in mine => AllBefore(sub, {Head(s)}, Elements(Tail(s)) \cap mine)
<1>1. /\ Head(s) = s[1] /\ Len(s) \in Nat \ {0} /\ DOMAIN Tail(s) = 1..(Len(s) - 1)
      /\ \A i \in DOMAIN Tail(s) : i + 1 \in DOMAIN s /\ Tail(s)[i] = s[i + 1]
  BY ElementsTail
<1>2. 1 \in DOMAIN s /\ \A i \in DOMAIN Tail(s) : 1 < i + 1
  BY <1>1
<1>3. Ordered(sub, mine, Tail(s))
  <2> SUFFICES ASSUME NEW i \in DOMAIN Tail(s), NEW j \in DOMAIN Tail(s), i < j,
                      Tail(s)[i] \in mine, Tail(s)[j] \in mine
               PROVE  Before(sub, Tail(s)[i], Tail(s)[j])
    BY DEF Ordered
  <2>1. i + 1 < j + 1
    BY <1>1
  <2> QED
    BY <1>1, <2>1 DEF Ordered
<1>4. Head(s) \in mine => AllBefore(sub, {Head(s)}, Elements(Tail(s)) \cap mine)
  BY <1>1, <1>2 DEF AllBefore, Elements, Ordered
<1> QED
  BY <1>3, <1>4

LEMMA OrderedStays ==
    ASSUME NEW sub, NEW sub2, NEW mine, NEW mine2, NEW s, Ordered(sub, mine, s),
           \A x, y : Before(sub, x, y) => Before(sub2, x, y),
           \A x \in Elements(s) : x \in mine2 => x \in mine
    PROVE  Ordered(sub2, mine2, s)
  BY DEF Ordered, Elements

LEMMA AllBeforeStays ==
    ASSUME NEW sub, NEW sub2, NEW S, NEW T, NEW S2, NEW T2, AllBefore(sub, S, T),
           \A x, y : Before(sub, x, y) => Before(sub2, x, y),
           S2 \subseteq S, T2 \subseteq T
    PROVE  AllBefore(sub2, S2, T2)
  BY DEF AllBefore

LEMMA NothingInOrder ==
    ASSUME NEW sub, NEW mine
    PROVE  Ordered(sub, mine, <<>>) /\ Elements(<<>>) = {}
  BY DEF Ordered, Elements

-----------------------------------------------------------------------------
(* The bus: its shape, and the threads of one start.                       *)

LEMMA ThreadsAre ==
    /\ \A t \in Threads : t[1] \in Procs /\ t[2] \in 1..MaxStarts /\ t = <<t[1], t[2]>>
    /\ \A p \in Procs, n \in 1..MaxStarts :
         <<p, n>> \in Threads /\ <<p, n>>[1] = p /\ <<p, n>>[2] = n
  BY DEF Threads

Publishers == [at : PublisherStates, hand : Nat]

\* A step of a thread.
LEMMA PublisherMoves ==
    ASSUME BusShape, NEW t \in Threads, NEW v \in Publishers,
           publisher' = [publisher EXCEPT ![t] = v]
    PROVE  /\ publisher' \in [Threads -> Publishers] /\ publisher'[t] = v
           /\ \A u \in Threads : u # t => publisher'[u] = publisher[u]
  BY DEF BusShape, Publishers

LEMMA ListenerMoves ==
    ASSUME BusShape, NEW t \in Threads, NEW v \in ListenerStates,
           listener' = [listener EXCEPT ![t] = v]
    PROVE  /\ listener' \in [Threads -> ListenerStates] /\ listener'[t] = v
           /\ \A u \in Threads : u # t => listener'[u] = listener[u]
  BY DEF BusShape

\* Threads that end, and go on, but do not begin.
LEMMA ThreadsGoOn ==
    ASSUME BusShape, OneStart,
           UNCHANGED <<starts, handles, joining, stopFlag, loop, hasty>>,
           \A t \in Threads :
             /\ publisher[t].at \in {"none", "ended"} => publisher'[t].at = publisher[t].at
             /\ listener[t] \in {"none", "ended"} => listener'[t] = listener[t]
    PROVE  OneStart'
<1>1. ASSUME NEW p \in Procs, NEW n \in 1..MaxStarts, n > starts[p]
      PROVE  publisher'[<<p, n>>].at = "none" /\ listener'[<<p, n>>] = "none"
  <2>1. <<p, n>> \in Threads
    BY ThreadsAre
  <2>2. publisher[<<p, n>>].at = "none" /\ listener[<<p, n>>] = "none"
    BY <1>1 DEF OneStart
  <2> QED
    BY <2>1, <2>2
<1>2. ASSUME NEW p \in Procs, NEW n \in 1..MaxStarts, Running(<<p, n>>)'
      PROVE  Running(<<p, n>>)
  <2>1. <<p, n>> \in Threads
    BY ThreadsAre
  <2> QED
    BY <1>2, <2>1 DEF Running
<1> QED
  BY <1>1, <1>2 DEF OneStart

LEMMA StartBusShape ==
    ASSUME BusShape, OneStart, NEW p \in Procs, StartBus(p)
    PROVE  /\ BusShape' /\ OneStart'
           /\ UNCHANGED <<queue, notified, requeued, failures>> /\ hasty \subseteq hasty'
           /\ InHand(p)' \subseteq InHand(p)
           /\ \A q \in Procs : InHand(q)' \subseteq InHand(q)
<1> DEFINE n == starts[p] + 1
           t == <<p, n>>
<1>0. /\ handles[p] = 0 /\ starts[p] < MaxStarts
      /\ starts' = [starts EXCEPT ![p] = n] /\ handles' = [handles EXCEPT ![p] = n]
      /\ publisher' = [publisher EXCEPT ![t].at = IF p \in Talkers THEN "connecting" ELSE @]
      /\ listener' = [listener EXCEPT ![t] = "connecting"]
      /\ loop' = [loop EXCEPT ![p] = TRUE] /\ stopFlag' = [stopFlag EXCEPT ![p] = FALSE]
      /\ hasty' = IF joining[p] # 0 \/ \E k \in 1..MaxStarts : Running(<<p, k>>)
                  THEN hasty \cup {p} ELSE hasty
      /\ UNCHANGED <<joining, queue, notified, failures, requeued>>
  BY DEF StartBus
<1>1. /\ starts[p] \in 0..MaxStarts /\ MaxStarts \in Nat
      /\ n \in 1..MaxStarts /\ n \in 0..MaxStarts /\ n # 0 /\ n > starts[p]
  BY <1>0, BusAssumption DEF BusShape
<1>2. t \in Threads
  BY <1>1, ThreadsAre
<1>3. publisher[t].at = "none" /\ listener[t] = "none"
  BY <1>1 DEF OneStart
<1>4. publisher[t] \in Publishers
  BY <1>2 DEF BusShape, Publishers
<1> DEFINE v == [publisher[t] EXCEPT !.at = IF p \in Talkers THEN "connecting" ELSE publisher[t].at]
<1>5. v \in Publishers /\ v.at \in {"none", "connecting"}
  BY <1>3, <1>4 DEF Publishers, PublisherStates
<1>6. publisher' = [publisher EXCEPT ![t] = v]
  BY <1>0
<1>7. n \notin 1..starts[p]
  BY <1>1
<1>8. /\ starts' \in [Procs -> 0..MaxStarts] /\ starts'[p] = n
      /\ \A q \in Procs : q # p => starts'[q] = starts[q]
  BY <1>0, <1>1 DEF BusShape
<1>9. /\ handles' \in [Procs -> 0..MaxStarts] /\ handles'[p] = n
      /\ \A q \in Procs : q # p => handles'[q] = handles[q]
  BY <1>0, <1>1 DEF BusShape
<1>10. /\ loop' \in [Procs -> BOOLEAN] /\ stopFlag' \in [Procs -> BOOLEAN]
       /\ loop'[p] /\ ~stopFlag'[p]
       /\ \A q \in Procs : q # p => loop'[q] = loop[q] /\ stopFlag'[q] = stopFlag[q]
  BY <1>0 DEF BusShape
<1> HIDE DEF v, t, n
<1>11. /\ publisher' \in [Threads -> Publishers] /\ publisher'[t] = v
       /\ \A u \in Threads : u # t => publisher'[u] = publisher[u]
  BY <1>2, <1>5, <1>6, PublisherMoves
<1>12. /\ listener' \in [Threads -> ListenerStates] /\ listener'[t] = "connecting"
       /\ \A u \in Threads : u # t => listener'[u] = listener[u]
  BY <1>0, <1>2, ListenerMoves DEF ListenerStates
<1>13. BusShape'
  <2>1. \A u \in Threads : notified'[u] # <<>> => listener'[u] = "listening"
    BY <1>0, <1>3, <1>12 DEF BusShape
  <2>2. hasty' \subseteq Procs
    BY <1>0 DEF BusShape
  <2> QED
    BY <1>0, <1>8, <1>9, <1>10, <1>11, <1>12, <2>1, <2>2 DEF BusShape, Publishers
<1>14. t = <<p, n>>
  BY DEF t
<1>15. ASSUME NEW q \in Procs, NEW k \in 1..MaxStarts, <<q, k>> # t
       PROVE  /\ publisher'[<<q, k>>] = publisher[<<q, k>>]
              /\ listener'[<<q, k>>] = listener[<<q, k>>]
              /\ Running(<<q, k>>)' => Running(<<q, k>>)
  <2>1. <<q, k>> \in Threads
    BY ThreadsAre
  <2> QED
    BY <1>11, <1>12, <1>15, <2>1 DEF Running
<1>16. ASSUME NEW q \in Procs, NEW k \in 1..MaxStarts, k > starts'[q]
       PROVE  publisher'[<<q, k>>].at = "none" /\ listener'[<<q, k>>] = "none"
  <2>1. k > starts[q] /\ <<q, k>> # t
    <3>1. CASE q = p
      <4>1. k > n
        BY <1>8, <1>16, <3>1
      <4>2. k > starts[p] /\ k # n
        BY <1>1, <4>1
      <4> QED
        BY <1>14, <3>1, <4>2
    <3>2. CASE q # p
      BY <1>8, <1>14, <1>16, <3>2
    <3> QED
      BY <3>1, <3>2
  <2> QED
    BY <1>15, <2>1 DEF OneStart
<1>17. ASSUME NEW q \in Procs, q \notin hasty'
       PROVE  /\ \A k \in 1..MaxStarts : Running(<<q, k>>)' => k = starts'[q]
              /\ joining'[q] # 0 => handles'[q] = 0
              /\ handles'[q] # 0 => loop'[q] /\ ~stopFlag'[q]
  <2>1. CASE q = p
    <3>1. joining[p] = 0 /\ \A k \in 1..MaxStarts : ~Running(<<p, k>>)
      BY <1>0, <1>17, <2>1
    <3>2. \A k \in 1..MaxStarts : Running(<<p, k>>)' => k = n
      BY <1>14, <1>15, <3>1
    <3> QED
      BY <1>0, <1>8, <1>10, <2>1, <3>1, <3>2
  <2>2. CASE q # p
    <3>1. q \notin hasty
      BY <1>0, <1>17
    <3>2. \A k \in 1..MaxStarts : Running(<<q, k>>)' => Running(<<q, k>>)
      BY <1>14, <1>15, <2>2
    <3> QED
      BY <1>0, <1>8, <1>9, <1>10, <2>2, <3>1, <3>2 DEF OneStart
  <2> QED
    BY <2>1, <2>2
<1>18. OneStart'
  BY <1>16, <1>17 DEF OneStart
<1>19. ASSUME NEW q \in Procs PROVE InHand(q)' \subseteq InHand(q)
  <2>1. \A u \in Threads : publisher'[u].at = "publishing" => publisher'[u] = publisher[u]
    BY <1>5, <1>11
  <2> QED
    BY <2>1 DEF InHand
<1> QED
  BY <1>0, <1>13, <1>18, <1>19

LEMMA StopShape ==
    ASSUME BusShape, OneStart, NEW p \in Procs, StopBus(p) \/ StopReturns(p)
    PROVE  /\ BusShape' /\ OneStart'
           /\ UNCHANGED <<queue, publisher, listener, notified, requeued, hasty>>
<1>0. /\ UNCHANGED <<starts, queue, publisher, listener, notified, requeued, hasty>>
      /\ joining' \in [Procs -> 0..MaxStarts]
      /\ \A q \in Procs \ {p} : /\ joining'[q] = joining[q] /\ handles'[q] = handles[q]
                                /\ loop'[q] = loop[q] /\ stopFlag'[q] = stopFlag[q]
  <2>1. 0 \in 0..MaxStarts
    BY BusAssumption
  <2> QED
    BY <2>1 DEF StopBus, StopReturns, BusShape
<1>1. handles' \in [Procs -> 0..MaxStarts]
  BY BusAssumption DEF StopBus, StopReturns, BusShape
<1>2. stopFlag' \in [Procs -> BOOLEAN] /\ loop' \in [Procs -> BOOLEAN]
  BY DEF StopBus, StopReturns, BusShape
<1>3. failures' \in 0..MaxFailures
  <2>1. failures' = failures \/ (failures < MaxFailures /\ failures' = failures + 1)
    BY DEF StopBus, StopReturns, Fail
  <2> QED
    BY <2>1, BusAssumption DEF BusShape
<1>4. BusShape'
  BY <1>0, <1>1, <1>2, <1>3 DEF BusShape
<1>5. p \notin hasty => /\ joining'[p] # 0 => handles'[p] = 0
                        /\ handles'[p] # 0 => loop'[p] /\ ~stopFlag'[p]
  <2>1. CASE StopBus(p)
    BY <2>1 DEF StopBus, BusShape
  <2>2. CASE StopReturns(p)
    <3>1. p \notin hasty => handles[p] = 0
      BY <2>2 DEF StopReturns, OneStart
    <3> QED
      BY <2>2, <3>1 DEF StopReturns, BusShape
  <2> QED
    BY <2>1, <2>2
<1>6. ASSUME NEW q \in Procs, NEW n \in 1..MaxStarts
      PROVE  Running(<<q, n>>)' <=> Running(<<q, n>>)
  BY <1>0 DEF Running
<1>7. OneStart'
  BY <1>0, <1>5, <1>6 DEF OneStart
<1> QED
  BY <1>0, <1>4, <1>7

\* A thread that ends or connects.
LEMMA QuietThreadShape ==
    ASSUME BusShape, OneStart, NEW t \in Threads,
           \/ PublisherEnds(t) \/ PublisherConnects(t)
           \/ ListenerEnds(t) \/ Listen(t) \/ ListenerFails(t)
    PROVE  /\ BusShape' /\ OneStart'
           /\ UNCHANGED <<queue, requeued, hasty>>
           /\ \A u \in Threads : notified'[u] \in {notified[u], <<>>}
           /\ \A p \in Procs : InHand(p)' \subseteq InHand(p)
<1>1. CASE PublisherEnds(t) \/ PublisherConnects(t)
  <2>1. PICK at \in {"ended", "ready"} : publisher' = [publisher EXCEPT ![t].at = at]
    BY <1>1 DEF PublisherEnds, PublisherConnects
  <2>2. /\ publisher[t].at \in {"connecting", "ready"} /\ publisher[t] \in Publishers
        /\ UNCHANGED <<starts, handles, stopFlag, loop, joining, queue, listener, notified,
                       failures, requeued, hasty>>
    BY <1>1 DEF PublisherEnds, PublisherConnects, BusShape, Publishers
  <2> DEFINE v == [publisher[t] EXCEPT !.at = at]
  <2>3. v \in Publishers /\ v.at = at
    BY <2>2 DEF Publishers, PublisherStates
  <2>4. publisher' = [publisher EXCEPT ![t] = v]
    BY <2>1
  <2> HIDE DEF v
  <2>5. /\ publisher' \in [Threads -> Publishers] /\ publisher'[t] = v
        /\ \A u \in Threads : u # t => publisher'[u] = publisher[u]
    BY <2>3, <2>4, PublisherMoves
  <2>6. BusShape'
    BY <2>2, <2>5 DEF BusShape, Publishers
  <2>7. \A u \in Threads :
          /\ publisher[u].at \in {"none", "ended"} => publisher'[u].at = publisher[u].at
          /\ listener[u] \in {"none", "ended"} => listener'[u] = listener[u]
    BY <2>2, <2>5
  <2>8. OneStart'
    BY <2>2, <2>7, ThreadsGoOn
  <2>9. \A p \in Procs : InHand(p)' \subseteq InHand(p)
    BY <2>3, <2>5 DEF InHand
  <2> QED
    BY <2>2, <2>6, <2>8, <2>9
<1>2. CASE ListenerEnds(t) \/ Listen(t) \/ ListenerFails(t)
  <2>1. PICK at \in ListenerStates :
          /\ listener' = [listener EXCEPT ![t] = at] /\ at # "none"
          /\ \/ at = "listening" /\ notified' = notified
             \/ notified' = [notified EXCEPT ![t] = <<>>]
    BY <1>2 DEF ListenerEnds, Listen, ListenerFails, ListenerStates
  <2>2. /\ listener[t] \in {"connecting", "listening"}
        /\ UNCHANGED <<starts, handles, stopFlag, loop, joining, queue, publisher,
                       requeued, hasty>>
    BY <1>2 DEF ListenerEnds, Listen, ListenerFails
  <2>3. /\ listener' \in [Threads -> ListenerStates] /\ listener'[t] = at
        /\ \A u \in Threads : u # t => listener'[u] = listener[u]
    BY <2>1, ListenerMoves
  <2>4. failures' \in 0..MaxFailures
    <3>1. failures' = failures \/ (failures < MaxFailures /\ failures' = failures + 1)
      BY <1>2 DEF ListenerEnds, Listen, ListenerFails, Fail
    <3> QED
      BY <3>1, BusAssumption DEF BusShape
  <2>5. /\ notified' \in [Threads -> Seq(Nat)]
        /\ \A u \in Threads : u # t => notified'[u] = notified[u]
        /\ notified'[t] # <<>> => at = "listening"
        /\ \A u \in Threads : notified'[u] \in {notified[u], <<>>}
    <3>1. CASE at = "listening" /\ notified' = notified
      BY <3>1 DEF BusShape
    <3>2. CASE notified' = [notified EXCEPT ![t] = <<>>]
      <4>1. <<>> \in Seq(Nat)
        OBVIOUS
      <4> QED
        BY <3>2, <4>1 DEF BusShape
    <3> QED
      BY <2>1, <3>1, <3>2
  <2>6. \A u \in Threads : notified'[u] # <<>> => listener'[u] = "listening"
    BY <2>3, <2>5 DEF BusShape
  <2>7. BusShape'
    BY <2>2, <2>3, <2>4, <2>5, <2>6 DEF BusShape
  <2>8. \A u \in Threads :
          /\ publisher[u].at \in {"none", "ended"} => publisher'[u].at = publisher[u].at
          /\ listener[u] \in {"none", "ended"} => listener'[u] = listener[u]
    BY <2>2, <2>3
  <2>9. OneStart'
    BY <2>2, <2>8, ThreadsGoOn
  <2>10. \A p \in Procs : InHand(p)' \subseteq InHand(p)
    BY <2>2 DEF InHand
  <2> QED
    BY <2>2, <2>5, <2>7, <2>9, <2>10
<1> QED
  BY <1>1, <1>2

\* A step of a publisher between its queue and the bus.
LEMMA PublishingShape ==
    ASSUME BusShape, OneStart, NEW t \in Threads, NEW v \in Publishers,
           publisher[t].at \notin {"none", "ended"}, v.at \notin {"none", "ended"},
           publisher' = [publisher EXCEPT ![t] = v],
           UNCHANGED <<starts, handles, stopFlag, loop, joining, listener, hasty>>,
           queue' \in [Procs -> Seq(Nat)], \A p \in Procs : Len(queue'[p]) <= QueueSize,
           notified' \in [Threads -> Seq(Nat)],
           \A u \in Threads : notified'[u] # <<>> => listener[u] = "listening",
           failures' \in 0..MaxFailures, requeued' \in BOOLEAN
    PROVE  /\ BusShape' /\ OneStart' /\ publisher'[t] = v
           /\ \A u \in Threads : u # t => publisher'[u] = publisher[u]
<1>1. /\ publisher' \in [Threads -> Publishers] /\ publisher'[t] = v
      /\ \A u \in Threads : u # t => publisher'[u] = publisher[u]
  BY PublisherMoves
<1>2. BusShape'
  BY <1>1 DEF BusShape, Publishers
<1>3. \A u \in Threads :
        /\ publisher[u].at \in {"none", "ended"} => publisher'[u].at = publisher[u].at
        /\ listener[u] \in {"none", "ended"} => listener'[u] = listener[u]
  BY <1>1
<1>4. OneStart'
  BY <1>3, ThreadsGoOn
<1> QED
  BY <1>1, <1>2, <1>4

LEMMA NotifiedShape ==
    ASSUME BusShape, NEW m \in Nat
    PROVE  /\ Notified(m) \in [Threads -> Seq(Nat)]
           /\ \A u \in Threads : Notified(m)[u] # <<>> => listener[u] = "listening"
           /\ \A u \in Threads : Notified(m)[u] \in {notified[u], Append(notified[u], m)}
  BY DEF BusShape, Notified

LEMMA TakeMessageShape ==
    ASSUME BusShape, OneStart, NEW t \in Threads, TakeMessage(t)
    PROVE  /\ BusShape' /\ OneStart'
           /\ queue[t[1]] # <<>> /\ publisher[t].at = "ready"
           /\ publisher'[t] = [at |-> "publishing", hand |-> Head(queue[t[1]])]
           /\ \A u \in Threads : u # t => publisher'[u] = publisher[u]
           /\ queue'[t[1]] = Tail(queue[t[1]])
           /\ \A q \in Procs : q # t[1] => queue'[q] = queue[q]
           /\ UNCHANGED <<notified, requeued, hasty>>
<1> DEFINE v == [at |-> "publishing", hand |-> Head(queue[t[1]])]
<1>0. /\ publisher[t].at = "ready" /\ queue[t[1]] # <<>>
      /\ publisher' = [publisher EXCEPT ![t] = v]
      /\ queue' = [queue EXCEPT ![t[1]] = Tail(@)]
      /\ UNCHANGED <<starts, handles, stopFlag, loop, joining, listener, notified,
                     failures, requeued, hasty>>
  BY DEF TakeMessage
<1>1. t[1] \in Procs
  BY ThreadsAre
<1>2. /\ Head(queue[t[1]]) \in Nat /\ Tail(queue[t[1]]) \in Seq(Nat)
      /\ Len(Tail(queue[t[1]])) <= QueueSize
  <2>1. \A s \in Seq(Nat) : s # <<>> /\ Len(s) <= QueueSize =>
           Head(s) \in Nat /\ Tail(s) \in Seq(Nat) /\ Len(Tail(s)) <= QueueSize
    <3> TAKE s \in Seq(Nat)
    <3> SUFFICES ASSUME s # <<>>, Len(s) <= QueueSize
                 PROVE  Head(s) \in Nat /\ Tail(s) \in Seq(Nat) /\ Len(Tail(s)) <= QueueSize
      OBVIOUS
    <3>1. Len(s) \in Nat \ {0} /\ Tail(s) \in Seq(Nat) /\ Len(Tail(s)) = Len(s) - 1
      BY EmptySeq
    <3>2. Head(s) \in Nat
      BY <3>1
    <3> QED
      BY <3>1, <3>2, BusAssumption
  <2> QED
    BY <1>0, <1>1, <2>1 DEF BusShape
<1>3. v \in Publishers /\ v.at = "publishing"
  BY <1>2 DEF Publishers, PublisherStates
<1>4. /\ queue' \in [Procs -> Seq(Nat)] /\ \A p \in Procs : Len(queue'[p]) <= QueueSize
      /\ queue'[t[1]] = Tail(queue[t[1]])
      /\ \A q \in Procs : q # t[1] => queue'[q] = queue[q]
  BY <1>0, <1>1, <1>2 DEF BusShape
<1>5. /\ notified' \in [Threads -> Seq(Nat)] /\ failures' \in 0..MaxFailures
      /\ requeued' \in BOOLEAN
      /\ \A u \in Threads : notified'[u] # <<>> => listener[u] = "listening"
  BY <1>0 DEF BusShape
<1> HIDE DEF v
<1>6. /\ BusShape' /\ OneStart' /\ publisher'[t] = v
      /\ \A u \in Threads : u # t => publisher'[u] = publisher[u]
  BY <1>0, <1>3, <1>4, <1>5, PublishingShape
<1> QED
  BY <1>0, <1>4, <1>6 DEF v

LEMMA NotifyShape ==
    ASSUME BusShape, OneStart, NEW t \in Threads, Notify(t)
    PROVE  /\ BusShape' /\ OneStart'
           /\ publisher[t].at = "publishing" /\ publisher'[t].at = "ready"
           /\ publisher[t].hand \in Nat
           /\ \A u \in Threads : u # t => publisher'[u] = publisher[u]
           /\ \A u \in Threads :
                notified'[u] \in {notified[u], Append(notified[u], publisher[t].hand)}
           /\ UNCHANGED <<queue, requeued, hasty>>
<1> DEFINE v == [at |-> "ready", hand |-> 0]
<1>0. /\ publisher[t].at = "publishing" /\ publisher' = [publisher EXCEPT ![t] = v]
      /\ notified' = Notified(publisher[t].hand)
      /\ UNCHANGED <<starts, handles, stopFlag, loop, joining, queue, listener, failures,
                     requeued, hasty>>
  BY DEF Notify
<1>1. publisher[t].hand \in Nat
  BY DEF BusShape
<1>2. v \in Publishers /\ v.at = "ready"
  BY DEF Publishers, PublisherStates
<1>3. /\ notified' \in [Threads -> Seq(Nat)]
      /\ \A u \in Threads : notified'[u] # <<>> => listener[u] = "listening"
      /\ \A u \in Threads :
           notified'[u] \in {notified[u], Append(notified[u], publisher[t].hand)}
  BY <1>0, <1>1, NotifiedShape
<1>4. /\ queue' \in [Procs -> Seq(Nat)] /\ \A p \in Procs : Len(queue'[p]) <= QueueSize
      /\ failures' \in 0..MaxFailures /\ requeued' \in BOOLEAN
  BY <1>0 DEF BusShape
<1> HIDE DEF v
<1>5. /\ BusShape' /\ OneStart' /\ publisher'[t] = v
      /\ \A u \in Threads : u # t => publisher'[u] = publisher[u]
  BY <1>0, <1>2, <1>3, <1>4, PublishingShape
<1> QED
  BY <1>0, <1>1, <1>2, <1>3, <1>5

LEMMA NotifyFailsShape ==
    ASSUME BusShape, OneStart, NEW t \in Threads, NotifyFails(t)
    PROVE  /\ BusShape' /\ OneStart' /\ requeued' = TRUE
           /\ publisher[t].at = "publishing" /\ publisher'[t].at = "connecting"
           /\ publisher[t].hand \in Nat
           /\ \A u \in Threads : u # t => publisher'[u] = publisher[u]
           /\ \A u \in Threads :
                notified'[u] \in {notified[u], Append(notified[u], publisher[t].hand)}
           /\ queue'[t[1]] \in {queue[t[1]], Append(queue[t[1]], publisher[t].hand)}
           /\ \A q \in Procs : q # t[1] => queue'[q] = queue[q]
<1> DEFINE v == [at |-> "connecting", hand |-> 0]
           m == publisher[t].hand
<1>0. /\ publisher[t].at = "publishing" /\ publisher' = [publisher EXCEPT ![t] = v]
      /\ failures < MaxFailures /\ failures' = failures + 1
      /\ notified' \in {notified, Notified(m)}
      /\ queue' = [queue EXCEPT ![t[1]] = IF Len(@) < QueueSize THEN Append(@, m) ELSE @]
      /\ requeued' = TRUE
      /\ UNCHANGED <<starts, handles, stopFlag, loop, joining, listener, hasty>>
  BY DEF NotifyFails, Fail
<1>1. m \in Nat /\ t[1] \in Procs
  BY ThreadsAre DEF BusShape
<1>2. v \in Publishers /\ v.at = "connecting"
  BY DEF Publishers, PublisherStates
<1> HIDE DEF v, m
<1>3. /\ notified' \in [Threads -> Seq(Nat)]
      /\ \A u \in Threads : notified'[u] # <<>> => listener[u] = "listening"
      /\ \A u \in Threads : notified'[u] \in {notified[u], Append(notified[u], m)}
  <2>1. CASE notified' = notified
    BY <2>1 DEF BusShape
  <2>2. CASE notified' = Notified(m)
    BY <1>1, <2>2, NotifiedShape
  <2> QED
    BY <1>0, <2>1, <2>2
<1>4. /\ queue' \in [Procs -> Seq(Nat)] /\ \A p \in Procs : Len(queue'[p]) <= QueueSize
      /\ queue'[t[1]] \in {queue[t[1]], Append(queue[t[1]], m)}
      /\ \A q \in Procs : q # t[1] => queue'[q] = queue[q]
  <2>1. \A s \in Seq(Nat) : Len(s) < QueueSize =>
           Append(s, m) \in Seq(Nat) /\ Len(Append(s, m)) <= QueueSize
    BY <1>1, BusAssumption
  <2> QED
    BY <1>0, <1>1, <2>1 DEF BusShape
<1>5. failures' \in 0..MaxFailures /\ requeued' \in BOOLEAN
  BY <1>0, BusAssumption DEF BusShape
<1>6. /\ BusShape' /\ OneStart' /\ publisher'[t] = v
      /\ \A u \in Threads : u # t => publisher'[u] = publisher[u]
  BY <1>0, <1>2, <1>3, <1>4, <1>5, PublishingShape
<1> QED
  BY <1>0, <1>1, <1>2, <1>3, <1>4, <1>6 DEF m

LEMMA ReadShape ==
    ASSUME BusShape, OneStart, NEW t \in Threads, ReadNotification(t)
    PROVE  /\ BusShape' /\ OneStart'
           /\ listener[t] = "listening" /\ notified[t] # <<>>
           /\ notified'[t] = Tail(notified[t])
           /\ \A u \in Threads : u # t => notified'[u] = notified[u]
           /\ UNCHANGED <<starts, listener, queue, publisher, requeued, hasty>>
<1>0. /\ listener[t] = "listening" /\ notified[t] # <<>>
      /\ notified' = [notified EXCEPT ![t] = Tail(@)]
      /\ UNCHANGED <<starts, handles, stopFlag, loop, joining, queue, publisher, listener,
                     failures, requeued, hasty>>
  BY DEF ReadNotification
<1>1. Tail(notified[t]) \in Seq(Nat)
  BY <1>0 DEF BusShape
<1>2. /\ notified' \in [Threads -> Seq(Nat)] /\ notified'[t] = Tail(notified[t])
      /\ \A u \in Threads : u # t => notified'[u] = notified[u]
  BY <1>0, <1>1 DEF BusShape
<1>3. BusShape'
  BY <1>0, <1>2 DEF BusShape
<1>4. OneStart'
  BY <1>0, ThreadsGoOn
<1> QED
  BY <1>0, <1>2, <1>3, <1>4

-----------------------------------------------------------------------------
(* The bus: the order of messages.                                         *)

LEMMA MineStays ==
    ASSUME said' = said
    PROVE  \A p : Mine(p)' = Mine(p)
  BY DEF Mine, Messages, From

LEMMA MineOnce ==
    ASSUME NEW p, NEW q, NEW m \in Mine(p), p # q
    PROVE  m \notin Mine(q)
  BY DEF Mine

\* Steps that lose messages on their way, or leave them where they are.
LEMMA QuietOrder ==
    ASSUME MessagesKnown, InOrder,
           UNCHANGED <<said, submitted, inbox, queue>>, hasty \subseteq hasty',
           requeued' = requeued, \A p \in Procs : InHand(p)' \subseteq InHand(p),
           \A t \in Threads : notified'[t] \in {notified[t], <<>>}
    PROVE  MessagesKnown' /\ InOrder'
<1>0. \A p : Mine(p)' = Mine(p)
  BY MineStays
<1>1. \A p \in Procs : Unsent(p)' \subseteq Unsent(p)
  BY DEF Unsent
<1>2. \A t \in Threads : Elements(notified'[t]) \subseteq Elements(notified[t])
  BY DEF Elements
<1>3. \A p \in Procs, t \in Threads : Unread(p, t)' \subseteq Unread(p, t)
  BY <1>0, <1>2 DEF Unread
<1>4. \A p \in Procs, c \in Clients : Seen(p, c)' = Seen(p, c)
  BY <1>0 DEF Seen
<1>5. Messages' = Messages
  BY DEF Messages
<1>6. MessagesKnown'
  BY <1>0, <1>1, <1>2, <1>3, <1>4, <1>5 DEF MessagesKnown
<1>7. ASSUME ~requeued', NEW p \in Procs \ hasty'
      PROVE  /\ QueueInOrder(p)'
             /\ \A t \in Threads : ThreadInOrder(p, t)'
             /\ \A c \in Clients : Home[c] # p => ClientInOrder(p, c)'
  <2>1. /\ QueueInOrder(p) /\ \A t \in Threads : ThreadInOrder(p, t)
        /\ \A c \in Clients : Home[c] # p => ClientInOrder(p, c)
    BY <1>7 DEF InOrder
  <2>2. QueueInOrder(p)'
    BY <1>0, <2>1 DEF QueueInOrder, AllBefore
  <2>3. ASSUME NEW t \in Threads PROVE ThreadInOrder(p, t)'
    <3>1. Ordered(submitted[p], Mine(p), notified'[t])
      BY <2>1, NothingInOrder DEF ThreadInOrder
    <3>2. AllBefore(submitted[p], Unread(p, t)', Unsent(p)')
      BY <1>1, <1>3, <2>1 DEF ThreadInOrder, AllBefore
    <3> QED
      BY <1>0, <3>1, <3>2 DEF ThreadInOrder
  <2>4. ASSUME NEW c \in Clients, Home[c] # p PROVE ClientInOrder(p, c)'
    <3>1. ClientInOrder(p, c)
      BY <2>1, <2>4
    <3>2. AllBefore(submitted[p], Seen(p, c)', Unsent(p)')
      BY <1>1, <1>4, <3>1 DEF ClientInOrder, AllBefore
    <3>3. Home[c] \notin hasty' =>
            \A t \in Threads :
              t[1] = Home[c] => AllBefore(submitted[p], Seen(p, c)', Unread(p, t)')
      BY <1>3, <1>4, <3>1 DEF ClientInOrder, AllBefore
    <3>4. Home[c] \notin hasty' => Ordered(submitted[p], Mine(p), inbox[c])
      BY <3>1 DEF ClientInOrder
    <3> QED
      BY <1>0, <3>2, <3>3, <3>4 DEF ClientInOrder
  <2> QED
    BY <2>2, <2>3, <2>4
<1>8. InOrder'
  BY <1>7 DEF InOrder
<1> QED
  BY <1>6, <1>8

LEMMA TakeMessageOrder ==
    ASSUME BusShape, OneStart, MessagesKnown, InOrder, NEW t \in Threads, TakeMessage(t),
           UNCHANGED <<said, submitted, inbox>>
    PROVE  MessagesKnown' /\ InOrder'
<1> DEFINE o == t[1]
           h == Head(queue[o])
<1>0. /\ queue[o] # <<>> /\ publisher[t].at = "ready"
      /\ publisher'[t] = [at |-> "publishing", hand |-> h]
      /\ \A u \in Threads : u # t => publisher'[u] = publisher[u]
      /\ queue'[o] = Tail(queue[o])
      /\ \A q \in Procs : q # o => queue'[q] = queue[q]
      /\ UNCHANGED <<notified, requeued, hasty>>
  BY TakeMessageShape
<1>1. o \in Procs /\ queue[o] \in Seq(Nat)
  BY ThreadsAre DEF BusShape
<1>2. /\ Elements(Tail(queue[o])) \subseteq Elements(queue[o])
      /\ h \in Elements(queue[o])
  BY <1>0, <1>1, ElementsTail
<1> HIDE DEF h
<1>3. /\ InHand(o)' \subseteq InHand(o) \cup {h}
      /\ \A q \in Procs : q # o => InHand(q)' \subseteq InHand(q)
  BY <1>0 DEF InHand
<1> HIDE DEF o
<1>4. \A p : Mine(p)' = Mine(p)
  BY MineStays
<1>5. \A p \in Procs : Unsent(p)' \subseteq Unsent(p)
  <2> SUFFICES ASSUME NEW p \in Procs PROVE Unsent(p)' \subseteq Unsent(p)
    OBVIOUS
  <2>1. CASE p = o
    BY <1>0, <1>2, <1>3, <2>1 DEF Unsent
  <2>2. CASE p # o
    BY <1>0, <1>3, <2>2 DEF Unsent
  <2> QED
    BY <2>1, <2>2
<1>6. \A p \in Procs, u \in Threads : Unread(p, u)' = Unread(p, u)
  BY <1>0, <1>4 DEF Unread
<1>7. \A p \in Procs, c \in Clients : Seen(p, c)' = Seen(p, c)
  BY <1>4 DEF Seen
<1>8. MessagesKnown'
  BY <1>0, <1>4, <1>5, <1>6, <1>7 DEF MessagesKnown, Messages
<1>9. ASSUME ~requeued', NEW p \in Procs \ hasty'
      PROVE  /\ QueueInOrder(p)'
             /\ \A u \in Threads : ThreadInOrder(p, u)'
             /\ \A c \in Clients : Home[c] # p => ClientInOrder(p, c)'
  <2>1. /\ QueueInOrder(p) /\ \A u \in Threads : ThreadInOrder(p, u)
        /\ \A c \in Clients : Home[c] # p => ClientInOrder(p, c)
    BY <1>0, <1>9 DEF InOrder
  <2>2. QueueInOrder(p)'
    <3>1. CASE p # o
      BY <1>0, <1>3, <1>4, <2>1, <3>1 DEF QueueInOrder, AllBefore
    <3>2. CASE p = o
      <4>1. Elements(queue[o]) \subseteq Mine(o)
        BY <1>1 DEF MessagesKnown, Unsent
      <4>2. Ordered(submitted[o], Mine(o), queue[o])
        BY <2>1, <3>2 DEF QueueInOrder
      <4>3. /\ Ordered(submitted[o], Mine(o), Tail(queue[o]))
            /\ AllBefore(submitted[o], {h}, Elements(Tail(queue[o])) \cap Mine(o))
        BY <1>0, <1>1, <1>2, <4>1, <4>2, OrderedTail DEF h
      <4>4. AllBefore(submitted[o], InHand(o), Elements(queue[o]))
        BY <2>1, <3>2 DEF QueueInOrder
      <4>5. AllBefore(submitted[o], InHand(o)', Elements(Tail(queue[o])))
        BY <1>2, <1>3, <4>1, <4>3, <4>4 DEF AllBefore
      <4> QED
        BY <1>0, <1>4, <3>2, <4>3, <4>5 DEF QueueInOrder
    <3> QED
      BY <3>1, <3>2
  <2>3. \A u \in Threads : ThreadInOrder(p, u)'
    BY <1>0, <1>4, <1>5, <1>6, <2>1 DEF ThreadInOrder, AllBefore
  <2>4. ASSUME NEW c \in Clients, Home[c] # p PROVE ClientInOrder(p, c)'
    <3>1. ClientInOrder(p, c)
      BY <2>1, <2>4
    <3>2. AllBefore(submitted[p], Seen(p, c)', Unsent(p)')
      BY <1>5, <1>7, <3>1 DEF ClientInOrder, AllBefore
    <3> QED
      BY <1>0, <1>4, <1>6, <1>7, <3>1, <3>2 DEF ClientInOrder
  <2> QED
    BY <2>2, <2>3, <2>4
<1>10. InOrder'
  BY <1>9 DEF InOrder
<1> QED
  BY <1>8, <1>10

\* What a publisher published was in its hand: it is known, and behind it
\* are only the messages of the queue.
LEMMA HandKnown ==
    ASSUME BusShape, OneStart, MessagesKnown, NEW t \in Threads,
           publisher[t].at = "publishing"
    PROVE  /\ publisher[t].hand \in InHand(t[1]) /\ publisher[t].hand \in Unsent(t[1])
           /\ publisher[t].hand \in Mine(t[1])
           /\ publisher[t].hand \in Elements(submitted[t[1]])
           /\ publisher[t].hand \in Messages
           /\ t[1] \notin hasty =>
                \A u \in Threads : u[1] = t[1] /\ publisher[u].at = "publishing" => u = t
<1>1. t[1] \in Procs
  BY ThreadsAre
<1>2. publisher[t].hand \in InHand(t[1])
  BY DEF InHand
<1>3. publisher[t].hand \in Unsent(t[1])
  BY <1>2 DEF Unsent
<1>4. publisher[t].hand \in Elements(submitted[t[1]]) /\ publisher[t].hand \in Mine(t[1])
  BY <1>1, <1>3 DEF MessagesKnown
<1>5. publisher[t].hand \in Messages
  BY <1>4 DEF Mine
<1>6. ASSUME t[1] \notin hasty, NEW u \in Threads, u[1] = t[1], publisher[u].at = "publishing"
      PROVE  u = t
  <2>1. /\ u = <<u[1], u[2]>> /\ t = <<t[1], t[2]>>
        /\ u[2] \in 1..MaxStarts /\ t[2] \in 1..MaxStarts
    BY ThreadsAre
  <2>2. Running(u) /\ Running(t)
    BY <1>6 DEF Running
  <2>3. u[2] = starts[t[1]] /\ t[2] = starts[t[1]]
    BY <1>1, <1>6, <2>1, <2>2 DEF OneStart
  <2> QED
    BY <1>6, <2>1, <2>3
<1> QED
  BY <1>2, <1>3, <1>4, <1>5, <1>6

LEMMA NotifyOrder ==
    ASSUME BusShape, OneStart, MessagesKnown, InOrder, NEW t \in Threads, Notify(t),
           UNCHANGED <<said, submitted, inbox>>
    PROVE  MessagesKnown' /\ InOrder'
<1> DEFINE o == t[1]
           m == publisher[t].hand
<1>0. /\ publisher[t].at = "publishing" /\ publisher'[t].at = "ready" /\ m \in Nat
      /\ \A u \in Threads : u # t => publisher'[u] = publisher[u]
      /\ \A u \in Threads : notified'[u] \in {notified[u], Append(notified[u], m)}
      /\ UNCHANGED <<queue, requeued, hasty>>
  BY NotifyShape
<1>1. o \in Procs /\ \A u \in Threads : notified[u] \in Seq(Nat)
  BY ThreadsAre DEF BusShape
<1>2. /\ m \in InHand(o) /\ m \in Unsent(o) /\ m \in Mine(o) /\ m \in Messages
      /\ m \in Elements(submitted[o])
      /\ o \notin hasty =>
           \A u \in Threads : u[1] = o /\ publisher[u].at = "publishing" => u = t
  BY <1>0, HandKnown
<1> HIDE DEF m
<1>3. /\ \A q \in Procs : InHand(q)' \subseteq InHand(q)
      /\ o \notin hasty => InHand(o)' = {}
  BY <1>0, <1>2 DEF InHand
<1> HIDE DEF o
<1>4. \A p : Mine(p)' = Mine(p)
  BY MineStays
<1>5. \A p \in Procs : Unsent(p)' \subseteq Unsent(p)
  BY <1>0, <1>3 DEF Unsent
<1>6. \A u \in Threads : Elements(notified'[u]) \subseteq Elements(notified[u]) \cup {m}
  <2> TAKE u \in Threads
  <2>1. Elements(Append(notified[u], m)) = Elements(notified[u]) \cup {m}
    BY <1>1, ElementsAppend
  <2>2. notified'[u] = notified[u] \/ notified'[u] = Append(notified[u], m)
    BY <1>0
  <2> QED
    BY <2>1, <2>2
<1>7. /\ \A u \in Threads : Unread(o, u)' \subseteq Unread(o, u) \cup {m}
      /\ \A p \in Procs, u \in Threads : p # o => Unread(p, u)' \subseteq Unread(p, u)
  BY <1>2, <1>4, <1>6, MineOnce DEF Unread
<1>8. \A p \in Procs, c \in Clients : Seen(p, c)' = Seen(p, c)
  BY <1>4 DEF Seen
<1>9. MessagesKnown'
  <2>1. \A p \in Procs, u \in Threads : Unread(p, u)' \subseteq Elements(submitted[p])
    BY <1>2, <1>7 DEF MessagesKnown
  <2>2. \A u \in Threads : Elements(notified'[u]) \subseteq Messages
    BY <1>2, <1>6 DEF MessagesKnown
  <2>3. Messages' = Messages
    BY DEF Messages
  <2> QED
    BY <1>0, <1>4, <1>5, <1>8, <2>1, <2>2, <2>3 DEF MessagesKnown
<1>10. ASSUME ~requeued', NEW p \in Procs \ hasty'
       PROVE  /\ QueueInOrder(p)'
              /\ \A u \in Threads : ThreadInOrder(p, u)'
              /\ \A c \in Clients : Home[c] # p => ClientInOrder(p, c)'
  <2>1. /\ QueueInOrder(p) /\ \A u \in Threads : ThreadInOrder(p, u)
        /\ \A c \in Clients : Home[c] # p => ClientInOrder(p, c)
    BY <1>0, <1>10 DEF InOrder
  <2>2. QueueInOrder(p)'
    BY <1>0, <1>3, <1>4, <2>1 DEF QueueInOrder, AllBefore
  <2>3. ASSUME NEW u \in Threads PROVE ThreadInOrder(p, u)'
    <3>0. /\ Ordered(submitted[p], Mine(p), notified[u])
          /\ AllBefore(submitted[p], Unread(p, u), Unsent(p))
      BY <2>1 DEF ThreadInOrder
    <3>1. Ordered(submitted[p], Mine(p), notified'[u])
      <4>1. m \in Mine(p) => AllBefore(submitted[p], Elements(notified[u]) \cap Mine(p), {m})
        <5> SUFFICES ASSUME m \in Mine(p)
                     PROVE  AllBefore(submitted[p], Elements(notified[u]) \cap Mine(p), {m})
          OBVIOUS
        <5>1. p = o
          BY <1>2, MineOnce
        <5> QED
          BY <1>2, <3>0, <5>1 DEF AllBefore, Unread
      <4>2. Ordered(submitted[p], Mine(p), Append(notified[u], m))
        BY <1>1, <3>0, <4>1, OrderedAppend
      <4> QED
        BY <1>0, <3>0, <4>2
    <3>2. AllBefore(submitted[p], Unread(p, u)', Unsent(p)')
      <4>1. CASE p # o
        BY <1>5, <1>7, <3>0, <4>1 DEF AllBefore
      <4>2. CASE p = o
        <5>1. Unsent(p)' \subseteq Elements(queue[p])
          BY <1>0, <1>3, <1>10, <4>2 DEF Unsent
        <5>2. AllBefore(submitted[p], InHand(p), Elements(queue[p]))
          BY <2>1 DEF QueueInOrder
        <5> QED
          BY <1>2, <1>5, <1>7, <3>0, <4>2, <5>1, <5>2 DEF AllBefore
      <4> QED
        BY <4>1, <4>2
    <3> QED
      BY <1>4, <3>1, <3>2 DEF ThreadInOrder
  <2>4. ASSUME NEW c \in Clients, Home[c] # p PROVE ClientInOrder(p, c)'
    <3>1. ClientInOrder(p, c)
      BY <2>1, <2>4
    <3>2. AllBefore(submitted[p], Seen(p, c)', Unsent(p)')
      BY <1>5, <1>8, <3>1 DEF ClientInOrder, AllBefore
    <3>3. ASSUME Home[c] \notin hasty, NEW u \in Threads, u[1] = Home[c]
          PROVE  AllBefore(submitted[p], Seen(p, c)', Unread(p, u)')
      <4>1. /\ AllBefore(submitted[p], Seen(p, c), Unread(p, u))
            /\ AllBefore(submitted[p], Seen(p, c), Unsent(p))
        BY <3>1, <3>3 DEF ClientInOrder
      <4>2. Unread(p, u)' \subseteq Unread(p, u) \cup Unsent(p)
        BY <1>2, <1>7
      <4> QED
        BY <1>8, <4>1, <4>2 DEF AllBefore
    <3> QED
      BY <1>0, <1>4, <3>1, <3>2, <3>3 DEF ClientInOrder
  <2> QED
    BY <2>2, <2>3, <2>4
<1>11. InOrder'
  BY <1>10 DEF InOrder
<1> QED
  BY <1>9, <1>11

LEMMA NotifyFailsOrder ==
    ASSUME BusShape, OneStart, MessagesKnown, NEW t \in Threads, NotifyFails(t),
           UNCHANGED <<said, submitted, inbox>>
    PROVE  MessagesKnown' /\ InOrder'
<1> DEFINE o == t[1]
           m == publisher[t].hand
<1>0. /\ requeued' = TRUE
      /\ publisher[t].at = "publishing" /\ publisher'[t].at = "connecting" /\ m \in Nat
      /\ \A u \in Threads : u # t => publisher'[u] = publisher[u]
      /\ \A u \in Threads : notified'[u] \in {notified[u], Append(notified[u], m)}
      /\ queue'[o] \in {queue[o], Append(queue[o], m)}
      /\ \A q \in Procs : q # o => queue'[q] = queue[q]
  BY NotifyFailsShape
<1>1. /\ o \in Procs /\ \A u \in Threads : notified[u] \in Seq(Nat)
      /\ \A p \in Procs : queue[p] \in Seq(Nat)
  BY ThreadsAre DEF BusShape
<1>2. /\ m \in InHand(o) /\ m \in Unsent(o) /\ m \in Mine(o) /\ m \in Messages
      /\ m \in Elements(submitted[o])
  BY <1>0, HandKnown
<1> HIDE DEF m
<1>3. \A q \in Procs : InHand(q)' \subseteq InHand(q)
  BY <1>0 DEF InHand
<1> HIDE DEF o
<1>4. \A p : Mine(p)' = Mine(p)
  BY MineStays
<1>5. \A p \in Procs : Unsent(p)' \subseteq Unsent(p)
  <2>1. Elements(queue'[o]) \subseteq Elements(queue[o]) \cup {m}
    BY <1>0, <1>1, ElementsAppend
  <2> QED
    BY <1>0, <1>2, <1>3, <2>1 DEF Unsent
<1>6. \A u \in Threads : Elements(notified'[u]) \subseteq Elements(notified[u]) \cup {m}
  <2> TAKE u \in Threads
  <2>1. Elements(Append(notified[u], m)) = Elements(notified[u]) \cup {m}
    BY <1>1, ElementsAppend
  <2>2. notified'[u] = notified[u] \/ notified'[u] = Append(notified[u], m)
    BY <1>0
  <2> QED
    BY <2>1, <2>2
<1>7. /\ \A u \in Threads : Unread(o, u)' \subseteq Unread(o, u) \cup {m}
      /\ \A p \in Procs, u \in Threads : p # o => Unread(p, u)' \subseteq Unread(p, u)
  BY <1>2, <1>4, <1>6, MineOnce DEF Unread
<1>8. \A p \in Procs, c \in Clients : Seen(p, c)' = Seen(p, c)
  BY <1>4 DEF Seen
<1>9. \A p \in Procs, u \in Threads : Unread(p, u)' \subseteq Elements(submitted[p])
  BY <1>2, <1>7 DEF MessagesKnown
<1>10. MessagesKnown'
  <2>1. \A u \in Threads : Elements(notified'[u]) \subseteq Messages
    BY <1>2, <1>6 DEF MessagesKnown
  <2>2. Messages' = Messages
    BY DEF Messages
  <2> QED
    BY <1>4, <1>5, <1>8, <1>9, <2>1, <2>2 DEF MessagesKnown
<1>11. InOrder'
  BY <1>0 DEF InOrder
<1> QED
  BY <1>10, <1>11

LEMMA BusStep ==
    ASSUME BusShape, OneStart, MessagesKnown, InOrder, BusNext,
           UNCHANGED <<said, submitted, inbox>>
    PROVE  BusShape' /\ OneStart' /\ MessagesKnown' /\ InOrder'
<1>1. ASSUME NEW p \in Procs, StartBus(p)
      PROVE  BusShape' /\ OneStart' /\ MessagesKnown' /\ InOrder'
  BY <1>1, StartBusShape, QuietOrder
<1>2. ASSUME NEW p \in Procs, StopBus(p) \/ StopReturns(p)
      PROVE  BusShape' /\ OneStart' /\ MessagesKnown' /\ InOrder'
  <2>1. /\ BusShape' /\ OneStart'
        /\ UNCHANGED <<queue, publisher, listener, notified, requeued, hasty>>
    BY <1>2, StopShape
  <2>2. \A q \in Procs : InHand(q)' \subseteq InHand(q)
    BY <2>1 DEF InHand
  <2> QED
    BY <2>1, <2>2, QuietOrder
<1>3. ASSUME NEW t \in Threads,
             \/ PublisherEnds(t) \/ PublisherConnects(t)
             \/ ListenerEnds(t) \/ Listen(t) \/ ListenerFails(t)
      PROVE  BusShape' /\ OneStart' /\ MessagesKnown' /\ InOrder'
  BY <1>3, QuietThreadShape, QuietOrder
<1>4. ASSUME NEW t \in Threads, TakeMessage(t)
      PROVE  BusShape' /\ OneStart' /\ MessagesKnown' /\ InOrder'
  BY <1>4, TakeMessageShape, TakeMessageOrder
<1>5. ASSUME NEW t \in Threads, Notify(t)
      PROVE  BusShape' /\ OneStart' /\ MessagesKnown' /\ InOrder'
  BY <1>5, NotifyShape, NotifyOrder
<1>6. ASSUME NEW t \in Threads, NotifyFails(t)
      PROVE  BusShape' /\ OneStart' /\ MessagesKnown' /\ InOrder'
  BY <1>6, NotifyFailsShape, NotifyFailsOrder
<1> QED
  BY <1>1, <1>2, <1>3, <1>4, <1>5, <1>6 DEF BusNext

-----------------------------------------------------------------------------
(* A notification is delivered.                                            *)

\* An order among the messages a client has and the next one it gets.
LEMMA WrittenShape ==
    ASSUME FanoutShape, NEW p, NEW m \in Nat
    PROVE  /\ Written(p, m) \in [Clients -> Seq(Nat)]
           /\ \A c \in Clients :
                IF c \in Receivers(p) THEN Written(p, m)[c] = Append(inbox[c], m)
                ELSE Written(p, m)[c] = inbox[c]
           /\ \A c \in Clients : Elements(Written(p, m)[c]) \subseteq Elements(inbox[c]) \cup {m}
<1>1. \A c \in Clients : inbox[c] \in Seq(Nat) /\ Append(inbox[c], m) \in Seq(Nat)
  BY DEF FanoutShape
<1>2. /\ Written(p, m) \in [Clients -> Seq(Nat)]
      /\ \A c \in Clients :
           IF c \in Receivers(p) THEN Written(p, m)[c] = Append(inbox[c], m)
           ELSE Written(p, m)[c] = inbox[c]
  BY <1>1 DEF Written
<1>3. ASSUME NEW c \in Clients
      PROVE  Elements(Written(p, m)[c]) \subseteq Elements(inbox[c]) \cup {m}
  <2>1. Elements(Append(inbox[c], m)) = Elements(inbox[c]) \cup {m}
    BY <1>1, ElementsAppend
  <2> QED
    BY <1>2, <2>1
<1> QED
  BY <1>2, <1>3

LEMMA DeliverFacts ==
    ASSUME BusShape, OneStart, FanoutShape, ClientsKnown, MessagesKnown,
           NEW t \in Threads, Deliver(t)
    PROVE  /\ BusShape' /\ OneStart' /\ listener[t] = "listening" /\ notified[t] # <<>>
           /\ notified'[t] = Tail(notified[t])
           /\ \A u \in Threads : u # t => notified'[u] = notified[u]
           /\ UNCHANGED <<starts, listener, queue, publisher, requeued, hasty, life, task, said,
                          submitted, client, registered, token>>
           /\ Head(notified[t]) \in Messages /\ Head(notified[t]) \in Nat
           /\ inbox' \in [Clients -> Seq(Nat)]
           /\ \A c \in Clients :
                \/ inbox'[c] = inbox[c]
                \/ /\ inbox'[c] = Append(inbox[c], Head(notified[t]))
                   /\ Home[c] = t[1] /\ From(Head(notified[t])) # Home[c]
<1> DEFINE h == Head(notified[t])
<1>0. /\ BusShape' /\ OneStart' /\ listener[t] = "listening" /\ notified[t] # <<>>
      /\ notified'[t] = Tail(notified[t])
      /\ \A u \in Threads : u # t => notified'[u] = notified[u]
      /\ UNCHANGED <<starts, listener, queue, publisher, requeued, hasty>>
  BY ReadShape DEF Deliver
<1>1. /\ inbox' = IF AcceptedFrom(t[1], h) THEN Written(t[1], h) ELSE inbox
      /\ UNCHANGED <<life, task, said, submitted, client, registered, token>>
  BY DEF Deliver
<1>2. notified[t] \in Seq(Nat) /\ t[1] \in Procs
  BY ThreadsAre DEF BusShape
<1>3. h \in Elements(notified[t])
  BY <1>0, <1>2, ElementsTail
<1>4. h \in Messages
  BY <1>3 DEF MessagesKnown
<1>5. h \in Nat
  BY <1>4 DEF Messages
<1> HIDE DEF h
<1>6. /\ Written(t[1], h) \in [Clients -> Seq(Nat)]
      /\ \A c \in Clients :
           IF c \in Receivers(t[1]) THEN Written(t[1], h)[c] = Append(inbox[c], h)
           ELSE Written(t[1], h)[c] = inbox[c]
  BY <1>5, WrittenShape
<1>7. \A c \in Receivers(t[1]) : Home[c] = t[1]
  BY <1>2 DEF Receivers, ClientsKnown
<1>8. AcceptedFrom(t[1], h) => From(h) # t[1]
  BY DEF AcceptedFrom, From
<1>9. inbox' \in [Clients -> Seq(Nat)]
  BY <1>1, <1>6 DEF FanoutShape
<1>10. ASSUME NEW c \in Clients
       PROVE  \/ inbox'[c] = inbox[c]
              \/ inbox'[c] = Append(inbox[c], h) /\ Home[c] = t[1] /\ From(h) # Home[c]
  BY <1>1, <1>6, <1>7, <1>8
<1> QED
  BY <1>0, <1>1, <1>4, <1>5, <1>9, <1>10 DEF h

LEMMA DeliverOrder ==
    ASSUME BusShape, OneStart, FanoutShape, ClientsKnown, MessagesKnown, InOrder,
           NEW t \in Threads, Deliver(t)
    PROVE  MessagesKnown' /\ InOrder'
<1> DEFINE h == Head(notified[t])
<1>0. /\ listener[t] = "listening" /\ notified[t] # <<>>
      /\ notified'[t] = Tail(notified[t])
      /\ \A u \in Threads : u # t => notified'[u] = notified[u]
      /\ UNCHANGED <<starts, listener, queue, publisher, requeued, hasty, said, submitted>>
      /\ h \in Messages /\ h \in Nat
      /\ \A c \in Clients :
           \/ inbox'[c] = inbox[c]
           \/ inbox'[c] = Append(inbox[c], h) /\ Home[c] = t[1] /\ From(h) # Home[c]
  BY DeliverFacts
<1>1. /\ \A u \in Threads : notified[u] \in Seq(Nat)
      /\ \A c \in Clients : inbox[c] \in Seq(Nat)
  BY DEF BusShape, FanoutShape
<1>2. Elements(Tail(notified[t])) \subseteq Elements(notified[t]) /\ h \in Elements(notified[t])
  BY <1>0, <1>1, ElementsTail
<1>3. /\ \A p : Mine(p)' = Mine(p)
      /\ Messages' = Messages
  BY <1>0, MineStays DEF Messages
<1>4. \A p \in Procs : Unsent(p)' = Unsent(p) /\ InHand(p)' = InHand(p)
  BY <1>0 DEF Unsent, InHand
<1>5. \A u \in Threads : Elements(notified'[u]) \subseteq Elements(notified[u])
  BY <1>0, <1>2
<1>6. \A p \in Procs, u \in Threads : Unread(p, u)' \subseteq Unread(p, u)
  BY <1>3, <1>5 DEF Unread
<1>7. ASSUME NEW p \in Procs, h \in Mine(p)
      PROVE  h \in Unread(p, t) /\ h \in Elements(submitted[p])
  <2>1. h \in Unread(p, t)
    BY <1>2, <1>7 DEF Unread
  <2> QED
    BY <2>1 DEF MessagesKnown
<1>8. ASSUME NEW c \in Clients
      PROVE  Elements(inbox'[c]) \subseteq Elements(inbox[c]) \cup {h}
  <2>1. Elements(Append(inbox[c], h)) = Elements(inbox[c]) \cup {h}
    BY <1>1, ElementsAppend
  <2>2. inbox'[c] = inbox[c] \/ inbox'[c] = Append(inbox[c], h)
    BY <1>0
  <2> QED
    BY <2>1, <2>2
<1> HIDE DEF h
<1>9. \A p \in Procs, c \in Clients : Seen(p, c)' \subseteq Seen(p, c) \cup ({h} \cap Mine(p))
  BY <1>3, <1>8 DEF Seen
<1>10. MessagesKnown'
  <2>1. \A p \in Procs, u \in Threads : Unread(p, u)' \subseteq Elements(submitted[p])
    BY <1>6 DEF MessagesKnown
  <2>2. \A p \in Procs, c \in Clients : p # Home[c] => Seen(p, c)' \subseteq Elements(submitted[p])
    BY <1>7, <1>9 DEF MessagesKnown
  <2>3. /\ \A u \in Threads : Elements(notified'[u]) \subseteq Messages
        /\ \A c \in Clients : Elements(inbox'[c]) \subseteq Messages
    BY <1>0, <1>5, <1>8 DEF MessagesKnown
  <2> QED
    BY <1>0, <1>3, <1>4, <2>1, <2>2, <2>3 DEF MessagesKnown
<1>11. ASSUME ~requeued', NEW p \in Procs \ hasty'
       PROVE  /\ QueueInOrder(p)'
              /\ \A u \in Threads : ThreadInOrder(p, u)'
              /\ \A c \in Clients : Home[c] # p => ClientInOrder(p, c)'
  <2>1. /\ QueueInOrder(p) /\ \A u \in Threads : ThreadInOrder(p, u)
        /\ \A c \in Clients : Home[c] # p => ClientInOrder(p, c)
    BY <1>0, <1>11 DEF InOrder
  <2>2. QueueInOrder(p)'
    BY <1>0, <1>3, <1>4, <2>1 DEF QueueInOrder
  <2>3. /\ Ordered(submitted[p], Mine(p), Tail(notified[t]))
        /\ h \in Mine(p) =>
             AllBefore(submitted[p], {h}, Elements(Tail(notified[t])) \cap Mine(p))
    <3>1. Ordered(submitted[p], Mine(p), notified[t])
      BY <2>1 DEF ThreadInOrder
    <3> QED
      BY <1>0, <1>1, <3>1, OrderedTail DEF h
  <2>4. ASSUME NEW u \in Threads PROVE ThreadInOrder(p, u)'
    <3>1. ThreadInOrder(p, u)
      BY <2>1
    <3>2. Ordered(submitted[p], Mine(p), notified'[u])
      BY <1>0, <2>3, <3>1 DEF ThreadInOrder
    <3>3. AllBefore(submitted[p], Unread(p, u)', Unsent(p)')
      BY <1>4, <1>6, <3>1 DEF ThreadInOrder, AllBefore
    <3> QED
      BY <1>0, <1>3, <3>2, <3>3 DEF ThreadInOrder
  <2>5. ASSUME NEW c \in Clients, Home[c] # p PROVE ClientInOrder(p, c)'
    <3>1. /\ AllBefore(submitted[p], Seen(p, c), Unsent(p))
          /\ Home[c] \notin hasty =>
               /\ Ordered(submitted[p], Mine(p), inbox[c])
               /\ \A u \in Threads :
                    u[1] = Home[c] => AllBefore(submitted[p], Seen(p, c), Unread(p, u))
      BY <2>1, <2>5 DEF ClientInOrder
    <3>2. CASE inbox'[c] = inbox[c]
      <4>1. Seen(p, c)' = Seen(p, c)
        BY <1>3, <3>2 DEF Seen
      <4>2. \A u \in Threads : AllBefore(submitted[p], Seen(p, c), Unread(p, u)) =>
                               AllBefore(submitted[p], Seen(p, c), Unread(p, u)')
        BY <1>6 DEF AllBefore
      <4> QED
        BY <1>0, <1>3, <1>4, <3>1, <3>2, <4>1, <4>2 DEF ClientInOrder
    <3>3. CASE inbox'[c] = Append(inbox[c], h) /\ Home[c] = t[1]
      <4>1. AllBefore(submitted[p], Seen(p, c)', Unsent(p)')
        <5>1. AllBefore(submitted[p], Unread(p, t), Unsent(p))
          BY <2>1 DEF ThreadInOrder
        <5> QED
          BY <1>4, <1>7, <1>9, <3>1, <5>1 DEF AllBefore
      <4>2. ASSUME Home[c] \notin hasty
            PROVE  Ordered(submitted[p], Mine(p), inbox'[c])
        <5>1. h \in Mine(p) => AllBefore(submitted[p], Elements(inbox[c]) \cap Mine(p), {h})
          BY <1>7, <3>1, <3>3, <4>2 DEF AllBefore, Seen
        <5> QED
          BY <1>1, <3>1, <3>3, <4>2, <5>1, OrderedAppend
      <4>3. ASSUME Home[c] \notin hasty, NEW u \in Threads, u[1] = Home[c]
            PROVE  AllBefore(submitted[p], Seen(p, c)', Unread(p, u)')
        <5>1. AllBefore(submitted[p], Seen(p, c), Unread(p, u))
          BY <3>1, <4>3
        <5>2. CASE u = t
          <6>1. Unread(p, u)' = Elements(Tail(notified[t])) \cap Mine(p)
            BY <1>0, <1>3, <5>2 DEF Unread
          <6> QED
            BY <1>6, <1>9, <2>3, <5>1, <6>1 DEF AllBefore
        <5>3. CASE u # t
          <6>1. /\ u = <<u[1], u[2]>> /\ t = <<t[1], t[2]>> /\ t[1] \in Procs
                /\ u[2] \in 1..MaxStarts /\ t[2] \in 1..MaxStarts
            BY ThreadsAre
          <6>2. listener[u] # "listening"
            <7> SUFFICES ASSUME listener[u] = "listening" PROVE FALSE
              OBVIOUS
            <7>1. Running(u) /\ Running(t)
              BY <1>0 DEF Running
            <7>2. u[2] = starts[t[1]] /\ t[2] = starts[t[1]]
              BY <3>3, <4>3, <6>1, <7>1 DEF OneStart
            <7> QED
              BY <3>3, <4>3, <5>3, <6>1, <7>2
          <6>3. notified[u] = <<>>
            BY <6>2 DEF BusShape
          <6>4. Unread(p, u)' = {}
            BY <1>0, <5>3, <6>3, NothingInOrder DEF Unread
          <6> QED
            BY <6>4 DEF AllBefore
        <5> QED
          BY <5>2, <5>3
      <4> QED
        BY <1>0, <1>3, <4>1, <4>2, <4>3 DEF ClientInOrder
    <3> QED
      BY <1>0, <3>2, <3>3
  <2> QED
    BY <2>2, <2>4, <2>5
<1>12. InOrder'
  BY <1>11 DEF InOrder
<1> QED
  BY <1>10, <1>12

\* A message of another process that is appended to what a client has leaves
\* what holds of its own.
LEMMA DeliverKept ==
    ASSUME IInv, NEW t \in Threads, Deliver(t)
    PROVE  IInv'
<1> DEFINE h == Head(notified[t])
<1>0. /\ UNCHANGED <<life, task, said, submitted, client, registered, token>>
      /\ BusShape' /\ OneStart' /\ h \in Messages /\ inbox' \in [Clients -> Seq(Nat)]
      /\ \A c \in Clients :
           \/ inbox'[c] = inbox[c]
           \/ inbox'[c] = Append(inbox[c], h) /\ Home[c] = t[1] /\ From(h) # Home[c]
  BY DeliverFacts DEF IInv
<1>1. MessagesKnown' /\ InOrder'
  BY DeliverOrder DEF IInv
<1>2. t[1] \in Procs /\ notified[t] # <<>>
  BY ThreadsAre DEF Deliver, ReadNotification
<1> HIDE DEF h
<1>3. FanoutShape'
  BY <1>0 DEF IInv, FanoutShape
<1>4. TasksAsk' /\ SaidIsTrue'
  BY <1>0 DEF IInv, TasksAsk, SaidIsTrue
<1>5. ClientsKnown'
  <2>1. /\ inbox' = IF AcceptedFrom(t[1], Head(notified[t])) THEN Written(t[1], Head(notified[t]))
                    ELSE inbox
    BY DEF Deliver
  <2>2. ASSUME NEW c \in Clients, client[c] = "off" PROVE inbox'[c] = inbox[c]
    BY <2>1, <2>2 DEF Written, Receivers
  <2> QED
    BY <1>0, <2>2 DEF IInv, ClientsKnown
<1>6. ASSUME NEW c \in Clients
      PROVE  /\ DOMAIN inbox[c] = 1..Len(inbox[c]) /\ Len(inbox[c]) \in Nat
             /\ \A i \in DOMAIN inbox[c] : i \in DOMAIN inbox'[c] /\ inbox'[c][i] = inbox[c][i]
             /\ \A i \in DOMAIN inbox'[c] :
                  \/ i \in DOMAIN inbox[c] /\ inbox'[c][i] = inbox[c][i]
                  \/ From(inbox'[c][i]) # Home[c]
  <2>1. inbox[c] \in Seq(Nat)
    BY DEF IInv, FanoutShape
  <2>2. CASE inbox'[c] = inbox[c]
    BY <2>1, <2>2
  <2>3. CASE inbox'[c] = Append(inbox[c], h) /\ From(h) # Home[c]
    <3>1. /\ Len(inbox[c]) \in Nat /\ DOMAIN inbox[c] = 1..Len(inbox[c])
          /\ DOMAIN Append(inbox[c], h) = 1..(Len(inbox[c]) + 1)
          /\ \A i \in 1..Len(inbox[c]) : Append(inbox[c], h)[i] = inbox[c][i]
          /\ Append(inbox[c], h)[Len(inbox[c]) + 1] = h
      BY <2>1
    <3>2. \A i \in 1..(Len(inbox[c]) + 1) : i \in 1..Len(inbox[c]) \/ i = Len(inbox[c]) + 1
      BY <3>1
    <3>3. \A i \in 1..Len(inbox[c]) : i \in 1..(Len(inbox[c]) + 1)
      BY <3>1
    <3> QED
      BY <2>3, <3>1, <3>2, <3>3
  <2> QED
    BY <1>0, <2>2, <2>3
<1>7. Told'
  <2> SUFFICES ASSUME NEW c \in Clients, NEW a \in Alerts,
                      client[c] = "open", c \in registered[Home[c]], Owner[a] = Home[c],
                      task[<<a, "resolved">>].at \in {"alert", "done"},
                      NEW n \in DOMAIN inbox'[c], said[inbox'[c][n]].alert = a
               PROVE  \E k \in DOMAIN inbox'[c] :
                         said[inbox'[c][k]].alert = a /\ said[inbox'[c][k]].resolved
    BY <1>0 DEF Told
  <2>1. n \in DOMAIN inbox[c] /\ inbox'[c][n] = inbox[c][n]
    BY <1>6 DEF From
  <2>2. PICK k \in DOMAIN inbox[c] : said[inbox[c][k]].alert = a /\ said[inbox[c][k]].resolved
    BY <2>1 DEF IInv, Told
  <2> QED
    BY <1>6, <2>2
<1>8. LocalInOrder'
  <2> SUFFICES ASSUME NEW c \in Clients, NEW i \in DOMAIN inbox'[c], NEW j \in DOMAIN inbox'[c],
                      i < j, From(inbox'[c][i]) = Home[c], From(inbox'[c][j]) = Home[c]
               PROVE  /\ inbox'[c][i] < inbox'[c][j]
                      /\ /\ said[inbox'[c][i]].alert = said[inbox'[c][j]].alert
                         /\ said[inbox'[c][i]].resolved
                         => said[inbox'[c][j]].resolved
    BY <1>0, Zenon DEF LocalInOrder, From
  <2>1. /\ i \in DOMAIN inbox[c] /\ inbox'[c][i] = inbox[c][i]
        /\ j \in DOMAIN inbox[c] /\ inbox'[c][j] = inbox[c][j]
    BY <1>6
  <2> QED
    BY <2>1 DEF IInv, LocalInOrder
<1> QED
  BY <1>0, <1>1, <1>3, <1>4, <1>5, <1>7, <1>8 DEF IInv

-----------------------------------------------------------------------------
(* The steps of an event.                                                  *)

\* What a step of process_event may do: say the alert as it is by then to the
\* clients of its process, and submit a message of its process.
Says(e) ==
    /\ said' = Append(said, Dumped(e, life'))
    /\ inbox' = Written(Owner[e[1]], Len(said) + 1)

Submits(p, x) ==
    /\ x \in Messages' /\ Owner[said'[x].alert] = p /\ Len(queue[p]) < QueueSize
    /\ queue' = [queue EXCEPT ![p] = Append(@, x)]
    /\ submitted' = [submitted EXCEPT ![p] = Append(@, x)]

Asks(e) ==
    /\ task[e].to \subseteq task[e].asked
    /\ task[e].asked \subseteq {c \in Clients : Home[c] = Owner[e[1]]}
    /\ task[e].msg \in 0..Len(said)
    /\ task[e].at = "alert" => task[e].msg # 0 /\ said[task[e].msg].alert = e[1]
    /\ task[e].at # "none" /\ e[2] = "resolved" => life[e[1]] = "resolved"

EventMoves(e) ==
    /\ UNCHANGED <<Unqueued, client, token>>
    /\ life' \in [Alerts -> {"none", "active", "resolved"}]
    /\ \A a \in Alerts : life[a] = "resolved" => life'[a] = "resolved"
    /\ e[2] = "resolved" => life'[e[1]] = "resolved"
    /\ registered' \in [Procs -> SUBSET Clients]
    /\ \A q \in Procs : registered'[q] \subseteq registered[q]
    /\ task' \in [Events -> Tasks] /\ \A f \in Events : f # e => task'[f] = task[f]
    /\ Asks(e)'
    /\ \/ Says(e)
       \/ /\ UNCHANGED <<said, inbox>>
          /\ task'[e].at \in {"alert", "done"} => task[e].at = "alert"
    /\ \/ UNCHANGED <<queue, submitted>>
       \/ \E x \in Nat : Submits(Owner[e[1]], x)

LEMMA EventsAre ==
    ASSUME NEW e \in Events
    PROVE  /\ e[1] \in Alerts /\ e[2] \in {"created", "resolved"} /\ e = <<e[1], e[2]>>
           /\ Owner[e[1]] \in Procs
  BY FanoutAssumption, BusAssumption DEF Events

LEMMA SubmitCases ==
    ASSUME BusShape, FanoutShape, NEW p \in Procs, NEW m \in Nat, Submit(p, m)
    PROVE  \/ UNCHANGED <<queue, submitted>>
           \/ /\ Len(queue[p]) < QueueSize
              /\ queue' = [queue EXCEPT ![p] = Append(@, m)]
              /\ submitted' = [submitted EXCEPT ![p] = Append(@, m)]
<1>1. CASE queue'[p] = queue[p] /\ queue' = queue
  <2>1. submitted' = [submitted EXCEPT ![p] = @]
    BY <1>1 DEF Submit
  <2>2. submitted' = submitted
    BY <2>1 DEF FanoutShape
  <2> QED
    BY <1>1, <2>2
<1>2. CASE queue' # queue
  <2>1. Len(queue[p]) < QueueSize /\ queue' = [queue EXCEPT ![p] = Append(@, m)]
    BY <1>2 DEF Submit, Publish
  <2>2. CASE queue'[p] # queue[p]
    BY <2>1, <2>2 DEF Submit
  <2>3. CASE queue'[p] = queue[p]
    BY <1>2, <2>1, <2>3 DEF BusShape
  <2> QED
    BY <2>2, <2>3
<1> QED
  BY <1>1, <1>2

LEMMA SaidGrows ==
    ASSUME FanoutShape, NEW d \in [alert : Alerts, resolved : BOOLEAN],
           said' = Append(said, d)
    PROVE  /\ said' \in Seq([alert : Alerts, resolved : BOOLEAN])
           /\ Len(said) \in Nat /\ Len(said') = Len(said) + 1
           /\ DOMAIN said = Messages /\ DOMAIN said' = Messages \cup {Len(said) + 1}
           /\ Messages' = Messages \cup {Len(said) + 1}
           /\ \A n \in Messages : said'[n] = said[n] /\ n < Len(said) + 1
           /\ said'[Len(said) + 1] = d
<1>1. /\ Len(said) \in Nat /\ DOMAIN said = 1..Len(said)
      /\ said' \in Seq([alert : Alerts, resolved : BOOLEAN])
      /\ Len(said') = Len(said) + 1 /\ DOMAIN said' = 1..(Len(said) + 1)
      /\ \A n \in 1..Len(said) : said'[n] = said[n]
      /\ said'[Len(said) + 1] = d
  BY DEF FanoutShape
<1>2. /\ 1..(Len(said) + 1) = 1..Len(said) \cup {Len(said) + 1}
      /\ \A n \in 1..Len(said) : n < Len(said) + 1
  <2>1. \A k \in Nat : /\ 1..(k + 1) = 1..k \cup {k + 1}
                       /\ \A n \in 1..k : n < k + 1
    OBVIOUS
  <2> QED
    BY <1>1, <2>1, Zenon
<1> QED
  BY <1>1, <1>2 DEF Messages

\* The broadcast of an alert, which is one of its process.
LEMMA AlertIsSaid ==
    ASSUME BusShape, FanoutShape, ClientsKnown, NEW e \in Events, NEW clients,
           life' \in [Alerts -> {"none", "active", "resolved"}],
           clients \subseteq {c \in Clients : Home[c] = Owner[e[1]]},
           e[2] = "resolved" => life'[e[1]] = "resolved",
           BroadcastAlert(e, life', clients)
    PROVE  /\ Says(e) /\ Asks(e)'
           /\ task' \in [Events -> Tasks] /\ \A f \in Events : f # e => task'[f] = task[f]
           /\ \/ UNCHANGED <<queue, submitted>>
              \/ \E x \in Nat : Submits(Owner[e[1]], x)
<1> DEFINE p == Owner[e[1]]
           m == Len(said) + 1
           d == Dumped(e, life')
           to == {c \in clients : client[c] = "open"}
           done == [NoTask EXCEPT !.at = "done"]
           alert == [at |-> "alert", asked |-> clients, to |-> to, msg |-> m]
<1>0. /\ said' = Append(said, d) /\ inbox' = Written(p, m)
      /\ \/ /\ task' = [task EXCEPT ![e] = done]
            /\ Submit(p, m)
         \/ /\ task' = [task EXCEPT ![e] = alert]
            /\ UNCHANGED <<queue, submitted>>
  BY DEF BroadcastAlert
<1>1. p \in Procs /\ e[1] \in Alerts
  BY EventsAre
<1>2. /\ d \in [alert : Alerts, resolved : BOOLEAN] /\ d.alert = e[1]
      /\ d.resolved = (life'[e[1]] = "resolved")
  BY <1>1 DEF Dumped
<1>3. Says(e)
  BY <1>0 DEF Says
<1> HIDE DEF d
<1>4. /\ Len(said) \in Nat /\ Len(said') = m /\ m \in Nat /\ m # 0 /\ m \in 0..m /\ 0 \in 0..m
      /\ Messages' = Messages \cup {m} /\ said'[m] = d
  <2>1. /\ Len(said) \in Nat /\ Len(said') = m
        /\ Messages' = Messages \cup {m} /\ said'[m] = d
    BY <1>0, <1>2, SaidGrows
  <2>2. \A k \in Nat : k + 1 \in Nat /\ k + 1 # 0 /\ k + 1 \in 0..(k + 1) /\ 0 \in 0..(k + 1)
    OBVIOUS
  <2> QED
    BY <2>1, <2>2
<1> HIDE DEF m
<1>5. m \in Messages' /\ Owner[said'[m].alert] = p
  BY <1>2, <1>4
<1>6. /\ done \in Tasks /\ done.at = "done" /\ done.to = {} /\ done.asked = {} /\ done.msg = 0
      /\ alert \in Tasks /\ alert.at = "alert" /\ alert.to = to
      /\ alert.asked = clients /\ alert.msg = m
  BY <1>4 DEF Tasks, NoTask
<1> HIDE DEF done, alert
<1>7. CASE task' = [task EXCEPT ![e] = done] /\ Submit(p, m)
  <2>1. /\ task' \in [Events -> Tasks] /\ \A f \in Events : f # e => task'[f] = task[f]
        /\ task'[e] = done
    BY <1>6, <1>7 DEF FanoutShape
  <2>2. Asks(e)'
    BY <1>4, <1>6, <2>1 DEF Asks
  <2>3. \/ UNCHANGED <<queue, submitted>>
        \/ \E x \in Nat : Submits(p, x)
    <3>1. \/ UNCHANGED <<queue, submitted>>
          \/ /\ Len(queue[p]) < QueueSize
             /\ queue' = [queue EXCEPT ![p] = Append(@, m)]
             /\ submitted' = [submitted EXCEPT ![p] = Append(@, m)]
      BY <1>1, <1>4, <1>7, SubmitCases
    <3>2. PICK x \in Nat : x = m
      BY <1>4
    <3> QED
      BY <1>5, <3>1, <3>2 DEF Submits
  <2> QED
    BY <1>3, <2>1, <2>2, <2>3
<1>8. CASE task' = [task EXCEPT ![e] = alert] /\ UNCHANGED <<queue, submitted>>
  <2>1. /\ task' \in [Events -> Tasks] /\ \A f \in Events : f # e => task'[f] = task[f]
        /\ task'[e] = alert
    BY <1>6, <1>8 DEF FanoutShape
  <2>2. Asks(e)'
    BY <1>2, <1>4, <1>6, <2>1 DEF Asks
  <2> QED
    BY <1>3, <1>8, <2>1, <2>2
<1> QED
  BY <1>0, <1>7, <1>8

LEMMA ProcessEventMoves ==
    ASSUME IInv, NEW e \in Events, ProcessEvent(e)
    PROVE  EventMoves(e)
<1> DEFINE p == Owner[e[1]]
           v == [NoTask EXCEPT !.at = "telemetry", !.asked = registered[p], !.to = Receivers(p)]
<1>0. /\ life[e[1]] = IF e[2] = "created" THEN "none" ELSE "active"
      /\ life' = [life EXCEPT ![e[1]] = IF e[2] = "created" THEN "active" ELSE "resolved"]
      /\ \/ BroadcastAlert(e, life', {})
         \/ task' = [task EXCEPT ![e] = v] /\ UNCHANGED <<queue, submitted, said, inbox>>
      /\ UNCHANGED <<Unqueued, client, registered, token>>
  BY DEF ProcessEvent
<1>1. p \in Procs /\ e[1] \in Alerts /\ e[2] \in {"created", "resolved"}
  BY EventsAre
<1>2. /\ life' \in [Alerts -> {"none", "active", "resolved"}]
      /\ \A a \in Alerts : life[a] = "resolved" => life'[a] = "resolved"
      /\ e[2] = "resolved" => life'[e[1]] = "resolved"
  BY <1>0, <1>1 DEF IInv, FanoutShape
<1>3. /\ registered' \in [Procs -> SUBSET Clients]
      /\ \A q \in Procs : registered'[q] \subseteq registered[q]
  BY <1>0 DEF IInv, FanoutShape
<1>4. CASE BroadcastAlert(e, life', {})
  <2>1. /\ Says(e) /\ Asks(e)'
        /\ task' \in [Events -> Tasks] /\ \A f \in Events : f # e => task'[f] = task[f]
        /\ \/ UNCHANGED <<queue, submitted>>
           \/ \E x \in Nat : Submits(p, x)
    BY <1>2, <1>4, AlertIsSaid DEF IInv
  <2> QED
    BY <1>0, <1>2, <1>3, <2>1 DEF EventMoves
<1>5. CASE task' = [task EXCEPT ![e] = v] /\ UNCHANGED <<queue, submitted, said, inbox>>
  <2>1. /\ registered[p] \subseteq {c \in Clients : Home[c] = p}
        /\ Receivers(p) \subseteq registered[p]
    BY <1>1 DEF IInv, ClientsKnown, Receivers
  <2>2. /\ v \in Tasks /\ v.at = "telemetry" /\ v.asked = registered[p] /\ v.to = Receivers(p)
        /\ v.msg = 0
    BY <2>1 DEF Tasks, NoTask
  <2> HIDE DEF v
  <2>3. /\ task' \in [Events -> Tasks] /\ \A f \in Events : f # e => task'[f] = task[f]
        /\ task'[e] = v
    BY <1>5, <2>2 DEF IInv, FanoutShape
  <2>4. 0 \in 0..Len(said)
    BY LenProperties DEF IInv, FanoutShape
  <2>5. Asks(e)'
    BY <1>2, <1>5, <2>1, <2>2, <2>3, <2>4 DEF Asks
  <2> QED
    BY <1>0, <1>2, <1>3, <1>5, <2>2, <2>3, <2>5 DEF EventMoves
<1> QED
  BY <1>0, <1>4, <1>5

LEMMA TelemetrySentMoves ==
    ASSUME IInv, NEW e \in Events, TelemetrySent(e)
    PROVE  EventMoves(e)
<1> DEFINE p == Owner[e[1]]
<1>0. /\ task[e].at = "telemetry"
      /\ registered' = [registered EXCEPT ![p] = Remaining(p, task[e].asked)]
      /\ BroadcastAlert(e, life, registered'[p])
      /\ UNCHANGED <<Unqueued, life, client, token>>
  BY DEF TelemetrySent
<1>1. p \in Procs /\ e[1] \in Alerts
  BY EventsAre
<1>2. /\ life' \in [Alerts -> {"none", "active", "resolved"}]
      /\ \A a \in Alerts : life[a] = "resolved" => life'[a] = "resolved"
      /\ e[2] = "resolved" => life'[e[1]] = "resolved"
  BY <1>0, <1>1 DEF IInv, FanoutShape, TasksAsk
<1>3. /\ registered' \in [Procs -> SUBSET Clients]
      /\ \A q \in Procs : registered'[q] \subseteq registered[q]
  BY <1>0, <1>1 DEF IInv, FanoutShape, Remaining
<1>4. registered'[p] \subseteq {c \in Clients : Home[c] = Owner[e[1]]}
  BY <1>1, <1>3 DEF IInv, ClientsKnown
<1>5. BroadcastAlert(e, life', registered'[p])
  BY <1>0
<1>6. /\ Says(e) /\ Asks(e)'
      /\ task' \in [Events -> Tasks] /\ \A f \in Events : f # e => task'[f] = task[f]
      /\ \/ UNCHANGED <<queue, submitted>>
         \/ \E x \in Nat : Submits(p, x)
  BY <1>2, <1>4, <1>5, AlertIsSaid DEF IInv
<1> QED
  BY <1>0, <1>2, <1>3, <1>6 DEF EventMoves

LEMMA AlertSentMoves ==
    ASSUME IInv, NEW e \in Events, AlertSent(e)
    PROVE  EventMoves(e)
<1> DEFINE p == Owner[e[1]]
           m == task[e].msg
           done == [NoTask EXCEPT !.at = "done"]
<1>0. /\ task[e].at = "alert"
      /\ registered' = [registered EXCEPT ![p] = Remaining(p, task[e].asked)]
      /\ Submit(p, m)
      /\ task' = [task EXCEPT ![e] = done]
      /\ UNCHANGED <<Unqueued, life, said, client, inbox, token>>
  BY DEF AlertSent
<1>1. p \in Procs /\ e[1] \in Alerts
  BY EventsAre
<1>2. /\ life' \in [Alerts -> {"none", "active", "resolved"}]
      /\ \A a \in Alerts : life[a] = "resolved" => life'[a] = "resolved"
      /\ e[2] = "resolved" => life'[e[1]] = "resolved"
  BY <1>0, <1>1 DEF IInv, FanoutShape, TasksAsk
<1>3. /\ registered' \in [Procs -> SUBSET Clients]
      /\ \A q \in Procs : registered'[q] \subseteq registered[q]
  BY <1>0, <1>1 DEF IInv, FanoutShape, Remaining
<1>4. /\ done \in Tasks /\ done.at = "done" /\ done.to = {} /\ done.asked = {} /\ done.msg = 0
  BY DEF Tasks, NoTask
<1> HIDE DEF done
<1>5. /\ task' \in [Events -> Tasks] /\ \A f \in Events : f # e => task'[f] = task[f]
      /\ task'[e] = done
  BY <1>0, <1>4 DEF IInv, FanoutShape
<1>6. m \in 0..Len(said) /\ m # 0 /\ said[m].alert = e[1]
  BY <1>0 DEF IInv, TasksAsk
<1>7. Len(said) \in Nat
  BY LenProperties DEF IInv, FanoutShape
<1> HIDE DEF m
<1>8. m \in Nat /\ m \in Messages /\ From(m) = p /\ 0 \in 0..Len(said)
  BY <1>6, <1>7 DEF Messages, From
<1>9. m \in Messages' /\ Owner[said'[m].alert] = p
  BY <1>0, <1>8 DEF Messages, From
<1>10. Asks(e)'
  BY <1>0, <1>2, <1>4, <1>5, <1>8 DEF Asks
<1>11. \/ UNCHANGED <<queue, submitted>>
       \/ \E x \in Nat : Submits(p, x)
  <2>1. \/ UNCHANGED <<queue, submitted>>
        \/ /\ Len(queue[p]) < QueueSize
           /\ queue' = [queue EXCEPT ![p] = Append(@, m)]
           /\ submitted' = [submitted EXCEPT ![p] = Append(@, m)]
    BY <1>0, <1>1, <1>8, SubmitCases DEF IInv
  <2>2. PICK x \in Nat : x = m
    BY <1>8
  <2> QED
    BY <1>9, <2>1, <2>2 DEF Submits
<1> QED
  BY <1>0, <1>2, <1>3, <1>5, <1>10, <1>11 DEF EventMoves

\* What was said is said for good.
LEMMA SaidStays ==
    ASSUME FanoutShape, NEW e \in Events,
           life' \in [Alerts -> {"none", "active", "resolved"}],
           Says(e) \/ UNCHANGED <<said, inbox>>
    PROVE  /\ said' \in Seq([alert : Alerts, resolved : BOOLEAN])
           /\ Messages \subseteq Messages' /\ Len(said) <= Len(said') /\ Len(said') \in Nat
           /\ \A n \in Messages : said'[n] = said[n]
           /\ DOMAIN said = Messages
           /\ \A p : Mine(p) \subseteq Mine(p)'
           /\ \A p : \A n \in Mine(p)' : n \in Messages => n \in Mine(p)
           /\ inbox' \in [Clients -> Seq(Nat)]
           /\ \A c \in Clients :
                \/ inbox'[c] = inbox[c]
                \/ /\ Says(e) /\ c \in Receivers(Owner[e[1]])
                   /\ inbox'[c] = Append(inbox[c], Len(said) + 1)
<1>1. CASE UNCHANGED <<said, inbox>>
  <2>1. /\ Len(said) \in Nat /\ DOMAIN said = 1..Len(said)
        /\ Len(said) <= Len(said)
    BY DEF FanoutShape
  <2> QED
    BY <1>1, <2>1, MineStays DEF FanoutShape, Messages
<1>2. CASE Says(e)
  <2> DEFINE d == Dumped(e, life')
             m == Len(said) + 1
  <2>1. said' = Append(said, d) /\ inbox' = Written(Owner[e[1]], m)
    BY <1>2 DEF Says
  <2>2. d \in [alert : Alerts, resolved : BOOLEAN]
    BY EventsAre DEF Dumped
  <2> HIDE DEF d
  <2>3. /\ said' \in Seq([alert : Alerts, resolved : BOOLEAN])
        /\ Len(said) \in Nat /\ Len(said') = m
        /\ DOMAIN said = Messages /\ Messages' = Messages \cup {m}
        /\ \A n \in Messages : said'[n] = said[n] /\ n < m
    BY <2>1, <2>2, SaidGrows
  <2>4. Len(said) <= m /\ m \in Nat
    BY <2>3
  <2> HIDE DEF m
  <2>5. \A p : \A n \in Messages : n \in Mine(p)' <=> n \in Mine(p)
    BY <2>3 DEF Mine, From
  <2>6. \A p : Mine(p) \subseteq Messages
    BY DEF Mine
  <2>7. /\ Written(Owner[e[1]], m) \in [Clients -> Seq(Nat)]
        /\ \A c \in Clients :
             IF c \in Receivers(Owner[e[1]]) THEN Written(Owner[e[1]], m)[c] = Append(inbox[c], m)
             ELSE Written(Owner[e[1]], m)[c] = inbox[c]
    BY <2>4, WrittenShape
  <2>8. \A c \in Clients : \/ inbox'[c] = inbox[c]
                           \/ c \in Receivers(Owner[e[1]]) /\ inbox'[c] = Append(inbox[c], m)
    BY <2>1, <2>7
  <2> QED
    BY <1>2, <2>1, <2>3, <2>4, <2>5, <2>6, <2>7, <2>8 DEF m
<1> QED
  BY <1>1, <1>2

\* What a process submits is behind all that it submitted.
LEMMA SubmittedStays ==
    ASSUME BusShape, FanoutShape, NEW e \in Events, EventMoves(e), NEW p \in Procs
    PROVE  /\ queue'[p] \in Seq(Nat) /\ submitted'[p] \in Seq(Nat)
           /\ Len(queue'[p]) <= QueueSize
           /\ \A m, n : Before(submitted[p], m, n) => Before(submitted'[p], m, n)
           /\ Elements(submitted[p]) \subseteq Elements(submitted'[p])
           /\ \/ queue'[p] = queue[p] /\ submitted'[p] = submitted[p]
              \/ \E x \in Messages' :
                   /\ x \in Nat /\ Owner[said'[x].alert] = p
                   /\ queue'[p] = Append(queue[p], x)
                   /\ Elements(queue'[p]) = Elements(queue[p]) \cup {x}
                   /\ Elements(submitted'[p]) = Elements(submitted[p]) \cup {x}
                   /\ \A m \in Elements(submitted[p]) : Before(submitted'[p], m, x)
<1>1. /\ queue[p] \in Seq(Nat) /\ submitted[p] \in Seq(Nat) /\ Len(queue[p]) <= QueueSize
  BY DEF BusShape, FanoutShape
<1>2. CASE queue'[p] = queue[p] /\ submitted'[p] = submitted[p]
  BY <1>1, <1>2
<1>3. CASE ~(queue'[p] = queue[p] /\ submitted'[p] = submitted[p])
  <2>1. PICK x \in Nat : Submits(Owner[e[1]], x)
    BY <1>3 DEF EventMoves
  <2>2. /\ x \in Messages' /\ Owner[said'[x].alert] = p /\ Len(queue[p]) < QueueSize
        /\ queue'[p] = Append(queue[p], x) /\ submitted'[p] = Append(submitted[p], x)
    BY <1>3, <2>1 DEF Submits, BusShape, FanoutShape
  <2>3. /\ Elements(Append(queue[p], x)) = Elements(queue[p]) \cup {x}
        /\ Elements(Append(submitted[p], x)) = Elements(submitted[p]) \cup {x}
        /\ Len(Append(queue[p], x)) = Len(queue[p]) + 1
    BY <1>1, ElementsAppend
  <2>4. /\ \A m, n : Before(submitted[p], m, n) => Before(Append(submitted[p], x), m, n)
        /\ \A m \in Elements(submitted[p]) : Before(Append(submitted[p], x), m, x)
    BY <1>1, BeforeGrows
  <2>5. /\ Append(queue[p], x) \in Seq(Nat) /\ Append(submitted[p], x) \in Seq(Nat)
    BY <1>1
  <2>6. Len(queue[p]) + 1 <= QueueSize
    BY <1>1, <2>2, BusAssumption
  <2> QED
    BY <2>2, <2>3, <2>4, <2>5, <2>6
<1> QED
  BY <1>2, <1>3

LEMMA EventShape ==
    ASSUME IInv, NEW e \in Events, EventMoves(e)
    PROVE  BusShape' /\ OneStart' /\ FanoutShape'
<1>1. /\ UNCHANGED <<starts, handles, stopFlag, loop, joining, publisher, listener, notified,
                     failures, requeued, hasty, client, token>>
  BY DEF EventMoves, Unqueued
<1>2. \A p \in Procs : /\ queue'[p] \in Seq(Nat) /\ submitted'[p] \in Seq(Nat)
                       /\ Len(queue'[p]) <= QueueSize
  BY SubmittedStays DEF IInv
<1>3. queue' \in [Procs -> Seq(Nat)] /\ submitted' \in [Procs -> Seq(Nat)]
  <2>1. CASE UNCHANGED <<queue, submitted>>
    BY <2>1 DEF IInv, BusShape, FanoutShape
  <2>2. CASE \E x \in Nat : Submits(Owner[e[1]], x)
    <3>1. PICK x \in Nat : /\ queue' = [queue EXCEPT ![Owner[e[1]]] = Append(@, x)]
                           /\ submitted' = [submitted EXCEPT ![Owner[e[1]]] = Append(@, x)]
      BY <2>2 DEF Submits
    <3>2. \A s \in Seq(Nat) : Append(s, x) \in Seq(Nat)
      OBVIOUS
    <3> QED
      BY <3>1, <3>2 DEF IInv, BusShape, FanoutShape
  <2> QED
    BY <2>1, <2>2 DEF EventMoves
<1>4. BusShape'
  BY <1>1, <1>2, <1>3 DEF IInv, BusShape
<1>5. OneStart'
  BY <1>1, ThreadsGoOn DEF IInv
<1>6. /\ life' \in [Alerts -> {"none", "active", "resolved"}] /\ task' \in [Events -> Tasks]
      /\ registered' \in [Procs -> SUBSET Clients]
      /\ Says(e) \/ UNCHANGED <<said, inbox>>
  BY DEF EventMoves
<1>7. /\ said' \in Seq([alert : Alerts, resolved : BOOLEAN])
      /\ inbox' \in [Clients -> Seq(Nat)]
  BY <1>6, SaidStays DEF IInv
<1>8. FanoutShape'
  BY <1>1, <1>3, <1>6, <1>7 DEF IInv, FanoutShape
<1> QED
  BY <1>4, <1>5, <1>8

LEMMA EventOrder ==
    ASSUME IInv, NEW e \in Events, EventMoves(e)
    PROVE  MessagesKnown' /\ InOrder'
<1>0. /\ UNCHANGED <<publisher, notified, requeued, hasty>>
      /\ life' \in [Alerts -> {"none", "active", "resolved"}]
      /\ Says(e) \/ UNCHANGED <<said, inbox>>
  BY DEF EventMoves, Unqueued
<1>1. /\ Messages \subseteq Messages'
      /\ \A n \in Messages : said'[n] = said[n]
      /\ \A p : Mine(p) \subseteq Mine(p)'
      /\ \A p : \A n \in Mine(p)' : n \in Messages => n \in Mine(p)
      /\ \A c \in Clients :
           \/ inbox'[c] = inbox[c]
           \/ /\ Says(e) /\ c \in Receivers(Owner[e[1]])
              /\ inbox'[c] = Append(inbox[c], Len(said) + 1)
  BY <1>0, SaidStays DEF IInv
<1>2. /\ \A p \in Procs : queue[p] \in Seq(Nat)
      /\ \A c \in Clients : inbox[c] \in Seq(Nat)
  BY DEF IInv, BusShape, FanoutShape
<1>3. \A p \in Procs : InHand(p)' = InHand(p)
  BY <1>0 DEF InHand
<1>4. ASSUME NEW p \in Procs, NEW t \in Threads
      PROVE  Unread(p, t)' = Unread(p, t)
  BY <1>0, <1>1 DEF Unread, IInv, MessagesKnown
<1>5. ASSUME NEW c \in Clients, inbox'[c] # inbox[c]
      PROVE  /\ Home[c] = Owner[e[1]] /\ Says(e) /\ Len(said) + 1 \in Messages'
             /\ inbox'[c] = Append(inbox[c], Len(said) + 1)
             /\ Owner[said'[Len(said) + 1].alert] = Home[c]
             /\ Elements(inbox'[c]) = Elements(inbox[c]) \cup {Len(said) + 1}
  <2> DEFINE d == Dumped(e, life')
  <2>1. /\ Says(e) /\ c \in Receivers(Owner[e[1]])
        /\ inbox'[c] = Append(inbox[c], Len(said) + 1)
    BY <1>1, <1>5
  <2>2. Home[c] = Owner[e[1]]
    BY <2>1, EventsAre DEF Receivers, IInv, ClientsKnown
  <2>3. said' = Append(said, d)
    BY <2>1 DEF Says
  <2>4. d \in [alert : Alerts, resolved : BOOLEAN] /\ d.alert = e[1]
    BY EventsAre DEF Dumped
  <2> HIDE DEF d
  <2>5. Len(said) + 1 \in Messages' /\ said'[Len(said) + 1] = d
    BY <2>3, <2>4, SaidGrows DEF IInv
  <2>6. Elements(Append(inbox[c], Len(said) + 1)) = Elements(inbox[c]) \cup {Len(said) + 1}
    BY <1>2, ElementsAppend
  <2> QED
    BY <2>1, <2>2, <2>4, <2>5, <2>6
<1>6. ASSUME NEW p \in Procs, NEW c \in Clients, p # Home[c]
      PROVE  Seen(p, c)' = Seen(p, c)
  <2>1. Elements(inbox[c]) \subseteq Messages
    BY DEF IInv, MessagesKnown
  <2>2. CASE inbox'[c] = inbox[c]
    BY <1>1, <2>1, <2>2 DEF Seen
  <2>3. CASE inbox'[c] # inbox[c]
    <3>1. /\ Elements(inbox'[c]) = Elements(inbox[c]) \cup {Len(said) + 1}
          /\ Owner[said'[Len(said) + 1].alert] = Home[c]
      BY <1>5, <2>3
    <3>2. Len(said) + 1 \notin Mine(p)'
      BY <1>6, <3>1 DEF Mine, From
    <3> QED
      BY <1>1, <2>1, <3>1, <3>2 DEF Seen
  <2> QED
    BY <2>2, <2>3
<1>7. ASSUME NEW p \in Procs
      PROVE  /\ \A m, n : Before(submitted[p], m, n) => Before(submitted'[p], m, n)
             /\ Elements(submitted[p]) \subseteq Elements(submitted'[p])
             /\ \/ queue'[p] = queue[p] /\ submitted'[p] = submitted[p]
                \/ \E x \in Messages' :
                     /\ x \in Nat /\ Owner[said'[x].alert] = p
                     /\ queue'[p] = Append(queue[p], x)
                     /\ Elements(queue'[p]) = Elements(queue[p]) \cup {x}
                     /\ Elements(submitted'[p]) = Elements(submitted[p]) \cup {x}
                     /\ \A m \in Elements(submitted[p]) : Before(submitted'[p], m, x)
  BY SubmittedStays DEF IInv
<1>8. ASSUME NEW p \in Procs
      PROVE  /\ Elements(submitted'[p]) \subseteq Mine(p)'
             /\ Unsent(p)' \subseteq Elements(submitted'[p])
  <2>1. Elements(submitted[p]) \subseteq Mine(p) /\ Unsent(p) \subseteq Elements(submitted[p])
    BY DEF IInv, MessagesKnown
  <2>2. CASE queue'[p] = queue[p] /\ submitted'[p] = submitted[p]
    <3>1. Unsent(p)' = Unsent(p)
      BY <1>3, <2>2 DEF Unsent
    <3> QED
      BY <1>1, <2>1, <2>2, <3>1
  <2>3. CASE ~(queue'[p] = queue[p] /\ submitted'[p] = submitted[p])
    <3>1. PICK x \in Messages' :
             /\ Owner[said'[x].alert] = p
             /\ Elements(queue'[p]) = Elements(queue[p]) \cup {x}
             /\ Elements(submitted'[p]) = Elements(submitted[p]) \cup {x}
      BY <1>7, <2>3
    <3>2. x \in Mine(p)'
      BY <3>1 DEF Mine, From
    <3>3. Unsent(p)' = Unsent(p) \cup {x}
      BY <1>3, <3>1 DEF Unsent
    <3> QED
      BY <1>1, <2>1, <3>1, <3>2, <3>3
  <2> QED
    BY <2>2, <2>3
<1>9. MessagesKnown'
  <2>1. \A t \in Threads : Elements(notified'[t]) \subseteq Messages'
    BY <1>0, <1>1 DEF IInv, MessagesKnown
  <2>2. ASSUME NEW c \in Clients PROVE Elements(inbox'[c]) \subseteq Messages'
    <3>1. Elements(inbox[c]) \subseteq Messages'
      BY <1>1 DEF IInv, MessagesKnown
    <3> QED
      BY <1>5, <3>1
  <2>3. \A p \in Procs, t \in Threads : Unread(p, t)' \subseteq Elements(submitted'[p])
    BY <1>4, <1>7 DEF IInv, MessagesKnown
  <2>4. \A p \in Procs, c \in Clients :
          p # Home[c] => Seen(p, c)' \subseteq Elements(submitted'[p])
    BY <1>6, <1>7 DEF IInv, MessagesKnown
  <2> QED
    BY <1>8, <2>1, <2>2, <2>3, <2>4 DEF MessagesKnown
<1>10. ASSUME ~requeued', NEW p \in Procs \ hasty'
       PROVE  /\ QueueInOrder(p)'
              /\ \A t \in Threads : ThreadInOrder(p, t)'
              /\ \A c \in Clients : Home[c] # p => ClientInOrder(p, c)'
  <2>1. /\ QueueInOrder(p) /\ \A t \in Threads : ThreadInOrder(p, t)
        /\ \A c \in Clients : Home[c] # p => ClientInOrder(p, c)
    BY <1>0, <1>10 DEF IInv, InOrder
  <2>2. /\ Unsent(p) \subseteq Elements(submitted[p])
        /\ InHand(p) \subseteq Unsent(p) /\ Elements(queue[p]) \subseteq Unsent(p)
        /\ Unsent(p) \subseteq Messages
    BY DEF IInv, MessagesKnown, Unsent, Mine
  <2>3. ASSUME NEW S, S \subseteq Elements(submitted[p]), AllBefore(submitted[p], S, Unsent(p))
        PROVE  AllBefore(submitted'[p], S, Unsent(p)')
    <3>1. CASE queue'[p] = queue[p] /\ submitted'[p] = submitted[p]
      BY <1>3, <2>3, <3>1 DEF Unsent
    <3>2. CASE ~(queue'[p] = queue[p] /\ submitted'[p] = submitted[p])
      <4>1. PICK x \in Messages' :
               /\ Elements(queue'[p]) = Elements(queue[p]) \cup {x}
               /\ \A m \in Elements(submitted[p]) : Before(submitted'[p], m, x)
        BY <1>7, <3>2
      <4>2. Unsent(p)' = Unsent(p) \cup {x}
        BY <1>3, <4>1 DEF Unsent
      <4> QED
        BY <1>7, <2>3, <4>1, <4>2 DEF AllBefore
    <3> QED
      BY <3>1, <3>2
  <2>4. QueueInOrder(p)'
    <3>1. /\ Ordered(submitted[p], Mine(p), queue[p])
          /\ AllBefore(submitted[p], InHand(p), Elements(queue[p]))
      BY <2>1 DEF QueueInOrder
    <3>2. Ordered(submitted'[p], Mine(p)', queue[p])
      BY <1>1, <1>7, <2>2, <3>1, OrderedStays
    <3>3. CASE queue'[p] = queue[p] /\ submitted'[p] = submitted[p]
      BY <1>3, <3>1, <3>2, <3>3 DEF QueueInOrder
    <3>4. CASE ~(queue'[p] = queue[p] /\ submitted'[p] = submitted[p])
      <4>1. PICK x \in Messages' :
               /\ queue'[p] = Append(queue[p], x)
               /\ Elements(queue'[p]) = Elements(queue[p]) \cup {x}
               /\ \A m \in Elements(submitted[p]) : Before(submitted'[p], m, x)
        BY <1>7, <3>4
      <4>2. AllBefore(submitted'[p], Elements(queue[p]) \cap Mine(p)', {x})
        BY <2>2, <4>1 DEF AllBefore
      <4>3. Ordered(submitted'[p], Mine(p)', queue'[p])
        <5>1. Ordered(submitted'[p], Mine(p)', Append(queue[p], x))
          BY <1>2, <3>2, <4>2, OrderedAppend
        <5> QED
          BY <4>1, <5>1
      <4>4. AllBefore(submitted'[p], InHand(p)', Elements(queue'[p]))
        BY <1>3, <1>7, <2>2, <3>1, <4>1 DEF AllBefore
      <4> QED
        BY <4>3, <4>4 DEF QueueInOrder
    <3> QED
      BY <3>3, <3>4
  <2>5. ASSUME NEW t \in Threads PROVE ThreadInOrder(p, t)'
    <3>1. /\ Ordered(submitted[p], Mine(p), notified[t])
          /\ AllBefore(submitted[p], Unread(p, t), Unsent(p))
          /\ Unread(p, t) \subseteq Elements(submitted[p])
          /\ Elements(notified[t]) \subseteq Messages
      BY <2>1 DEF ThreadInOrder, IInv, MessagesKnown
    <3>2. Ordered(submitted'[p], Mine(p)', notified[t])
      BY <1>1, <1>7, <3>1, OrderedStays
    <3>3. AllBefore(submitted'[p], Unread(p, t)', Unsent(p)')
      BY <1>4, <2>3, <3>1
    <3> QED
      BY <1>0, <3>2, <3>3 DEF ThreadInOrder
  <2>6. ASSUME NEW c \in Clients, Home[c] # p PROVE ClientInOrder(p, c)'
    <3>1. /\ AllBefore(submitted[p], Seen(p, c), Unsent(p))
          /\ Home[c] \notin hasty =>
               /\ Ordered(submitted[p], Mine(p), inbox[c])
               /\ \A t \in Threads :
                    t[1] = Home[c] => AllBefore(submitted[p], Seen(p, c), Unread(p, t))
          /\ Seen(p, c) \subseteq Elements(submitted[p])
          /\ Elements(inbox[c]) \subseteq Messages
      BY <2>1, <2>6 DEF ClientInOrder, IInv, MessagesKnown
    <3>2. Seen(p, c)' = Seen(p, c)
      BY <1>6, <2>6
    <3>3. AllBefore(submitted'[p], Seen(p, c)', Unsent(p)')
      BY <2>3, <3>1, <3>2
    <3>4. ASSUME Home[c] \notin hasty, NEW t \in Threads, t[1] = Home[c]
          PROVE  AllBefore(submitted'[p], Seen(p, c)', Unread(p, t)')
      <4>1. Unread(p, t)' = Unread(p, t)
        BY <1>4
      <4>2. AllBefore(submitted[p], Seen(p, c), Unread(p, t))
        BY <3>1, <3>4
      <4>3. AllBefore(submitted'[p], Seen(p, c), Unread(p, t))
        BY <1>7, <4>2, AllBeforeStays
      <4> QED
        BY <3>2, <4>1, <4>3
    <3>5. ASSUME Home[c] \notin hasty
          PROVE  Ordered(submitted'[p], Mine(p)', inbox'[c])
      <4>1. Ordered(submitted'[p], Mine(p)', inbox[c])
        BY <1>1, <1>7, <3>1, <3>5, OrderedStays
      <4>2. CASE inbox'[c] # inbox[c]
        <5>1. /\ inbox'[c] = Append(inbox[c], Len(said) + 1)
              /\ Owner[said'[Len(said) + 1].alert] = Home[c]
          BY <1>5, <4>2
        <5>2. Len(said) + 1 \notin Mine(p)'
          BY <2>6, <5>1 DEF Mine, From
        <5>3. Ordered(submitted'[p], Mine(p)', Append(inbox[c], Len(said) + 1))
          BY <1>2, <4>1, <5>2, OrderedAppend
        <5> QED
          BY <5>1, <5>3
      <4> QED
        BY <4>1, <4>2
    <3> QED
      BY <1>0, <3>3, <3>4, <3>5 DEF ClientInOrder
  <2> QED
    BY <2>4, <2>5, <2>6
<1>11. InOrder'
  BY <1>10 DEF InOrder
<1> QED
  BY <1>9, <1>11

\* An event leaves what holds of the clients of its process.
LEMMA EventKept ==
    ASSUME IInv, NEW e \in Events, EventMoves(e)
    PROVE  IInv'
<1> DEFINE p == Owner[e[1]]
           m == Len(said) + 1
           d == Dumped(e, life')
<1>0. /\ client' = client /\ p \in Procs /\ e[1] \in Alerts /\ e = <<e[1], e[2]>>
      /\ life' \in [Alerts -> {"none", "active", "resolved"}]
      /\ \A a \in Alerts : life[a] = "resolved" => life'[a] = "resolved"
      /\ \A q \in Procs : registered'[q] \subseteq registered[q]
      /\ \A f \in Events : f # e => task'[f] = task[f]
      /\ Asks(e)'
      /\ \/ Says(e)
         \/ /\ UNCHANGED <<said, inbox>>
            /\ task'[e].at \in {"alert", "done"} => task[e].at = "alert"
      /\ e[2] = "resolved" => life'[e[1]] = "resolved"
  BY EventsAre DEF EventMoves
<1>1. BusShape' /\ OneStart' /\ FanoutShape'
  BY EventShape
<1>2. MessagesKnown' /\ InOrder'
  BY EventOrder
<1>3. /\ Messages \subseteq Messages' /\ Len(said) <= Len(said')
      /\ \A n \in Messages : said'[n] = said[n]
      /\ DOMAIN said = Messages
      /\ Len(said') \in Nat
  BY <1>0, SaidStays DEF IInv
<1>4. /\ d \in [alert : Alerts, resolved : BOOLEAN] /\ d.alert = e[1]
      /\ d.resolved = (life'[e[1]] = "resolved")
  BY <1>0 DEF Dumped
<1>5. ASSUME Says(e)
      PROVE  /\ said' = Append(said, d)
             /\ DOMAIN said' = Messages \cup {m} /\ said'[m] = d /\ m \in Nat
             /\ \A n \in Messages : n < m
  <2>1. said' = Append(said, d)
    BY <1>5 DEF Says
  <2> HIDE DEF d
  <2>2. Len(said) \in Nat /\ DOMAIN said' = Messages \cup {m} /\ said'[m] = d
        /\ \A n \in Messages : n < m
    BY <1>4, <2>1, SaidGrows DEF IInv
  <2> QED
    BY <2>1, <2>2
<1> HIDE DEF d
<1>6. ASSUME NEW c \in Clients
      PROVE  /\ DOMAIN inbox[c] = 1..Len(inbox[c]) /\ Len(inbox[c]) \in Nat
             /\ \A n \in DOMAIN inbox[c] : inbox[c][n] \in Messages
             /\ \A n \in DOMAIN inbox[c] : n \in DOMAIN inbox'[c] /\ inbox'[c][n] = inbox[c][n]
             /\ \/ inbox'[c] = inbox[c]
                \/ /\ Says(e) /\ c \in Receivers(p) /\ c \in registered[p] /\ client[c] = "open"
                   /\ Home[c] = p
                   /\ DOMAIN inbox'[c] = DOMAIN inbox[c] \cup {Len(inbox[c]) + 1}
                   /\ inbox'[c][Len(inbox[c]) + 1] = m
                   /\ \A n \in DOMAIN inbox[c] : n < Len(inbox[c]) + 1
             /\ Says(e) /\ c \in Receivers(p) => inbox'[c] # inbox[c]
  <2>1. inbox[c] \in Seq(Nat)
    BY DEF IInv, FanoutShape
  <2>2. \A n \in DOMAIN inbox[c] : inbox[c][n] \in Messages
    BY DEF IInv, MessagesKnown, Elements
  <2>3. /\ Len(inbox[c]) \in Nat /\ DOMAIN inbox[c] = 1..Len(inbox[c])
        /\ DOMAIN Append(inbox[c], m) = 1..(Len(inbox[c]) + 1)
        /\ \A n \in 1..Len(inbox[c]) : Append(inbox[c], m)[n] = inbox[c][n]
        /\ Append(inbox[c], m)[Len(inbox[c]) + 1] = m
    BY <2>1
  <2>4. \A k \in Nat : 1..(k + 1) = 1..k \cup {k + 1} /\ \A n \in 1..k : n < k + 1
    OBVIOUS
  <2>5. Append(inbox[c], m) # inbox[c]
    BY <2>1, ElementsAppend
  <2>6. \/ inbox'[c] = inbox[c]
        \/ Says(e) /\ c \in Receivers(p) /\ inbox'[c] = Append(inbox[c], m)
    BY <1>0, SaidStays DEF IInv
  <2>7. Says(e) /\ c \in Receivers(p) => inbox'[c] = Append(inbox[c], m)
    BY DEF Says, Written
  <2>8. c \in Receivers(p) => c \in registered[p] /\ client[c] = "open" /\ Home[c] = p
    BY <1>0 DEF Receivers, IInv, ClientsKnown
  <2>9. CASE inbox'[c] = inbox[c]
    BY <2>2, <2>3, <2>5, <2>7, <2>9
  <2>10. CASE Says(e) /\ c \in Receivers(p) /\ inbox'[c] = Append(inbox[c], m)
    <3>1. /\ DOMAIN inbox'[c] = DOMAIN inbox[c] \cup {Len(inbox[c]) + 1}
          /\ \A n \in DOMAIN inbox[c] : n < Len(inbox[c]) + 1
      BY <2>3, <2>4, <2>10
    <3> QED
      BY <2>2, <2>3, <2>5, <2>8, <2>10, <3>1
  <2> QED
    BY <2>6, <2>9, <2>10
<1> HIDE DEF m
<1>7. TasksAsk'
  <2> SUFFICES ASSUME NEW f \in Events PROVE Asks(f)'
    BY DEF TasksAsk, Asks
  <2>1. CASE f = e
    BY <1>0, <2>1
  <2>2. CASE f # e
    <3>1. Asks(f) /\ task'[f] = task[f]
      BY <1>0, <2>2 DEF IInv, TasksAsk, Asks
    <3>2. Len(said) \in Nat
      BY LenProperties DEF IInv, FanoutShape
    <3>3. task[f].msg \in 0..Len(said')
      BY <1>3, <3>1, <3>2 DEF Asks
    <3>4. task[f].msg # 0 => task[f].msg \in Messages
      BY <3>1, <3>2 DEF Asks, Messages
    <3>5. task[f].at = "alert" => said'[task[f].msg].alert = f[1]
      BY <1>3, <3>1, <3>4 DEF Asks
    <3>6. task[f].at # "none" /\ f[2] = "resolved" => life'[f[1]] = "resolved"
      BY <1>0, <3>1, EventsAre DEF Asks
    <3> QED
      BY <3>1, <3>3, <3>5, <3>6 DEF Asks
  <2> QED
    BY <2>1, <2>2
<1>8. SaidIsTrue'
  <2>1. ASSUME NEW n \in Messages, said'[n].resolved PROVE life'[said'[n].alert] = "resolved"
    <3>1. said'[n] = said[n] /\ said[n].alert \in Alerts
      <4>1. said \in Seq([alert : Alerts, resolved : BOOLEAN]) /\ n \in 1..Len(said)
        BY DEF IInv, FanoutShape, Messages
      <4>2. said[n] \in [alert : Alerts, resolved : BOOLEAN]
        BY <4>1, ElementOfSeq
      <4> QED
        BY <1>3, <4>2
    <3> QED
      BY <1>0, <1>3, <2>1, <3>1 DEF IInv, SaidIsTrue
  <2>2. CASE UNCHANGED <<said, inbox>>
    BY <1>3, <2>1, <2>2 DEF SaidIsTrue
  <2>3. CASE Says(e)
    BY <1>4, <1>5, <2>1, <2>3 DEF SaidIsTrue
  <2> QED
    BY <1>0, <2>2, <2>3
<1>9. ClientsKnown'
  <2>1. \A q \in Procs : registered'[q] \subseteq {c \in Clients : Home[c] = q}
    BY <1>0 DEF IInv, ClientsKnown
  <2>2. ASSUME NEW c \in Clients
        PROVE  /\ c \in registered'[Home[c]] => client'[c] # "off"
               /\ client'[c] = "off" => inbox'[c] = <<>>
    BY <1>0, <1>6, FanoutAssumption DEF IInv, ClientsKnown
  <2> QED
    BY <2>1, <2>2 DEF ClientsKnown
<1>10. Told'
  <2> SUFFICES ASSUME NEW c \in Clients, NEW a \in Alerts,
                      client[c] = "open", c \in registered'[Home[c]], Owner[a] = Home[c],
                      task'[<<a, "resolved">>].at \in {"alert", "done"},
                      NEW n \in DOMAIN inbox'[c], said'[inbox'[c][n]].alert = a
               PROVE  \E k \in DOMAIN inbox'[c] :
                         said'[inbox'[c][k]].alert = a /\ said'[inbox'[c][k]].resolved
    BY <1>0 DEF Told
  <2>1. c \in registered[Home[c]] /\ Home[c] \in Procs /\ <<a, "resolved">> \in Events
    BY <1>0, FanoutAssumption DEF Events
  <2>2. ASSUME NEW k \in DOMAIN inbox[c], said[inbox[c][k]].alert = a, said[inbox[c][k]].resolved
        PROVE  \E i \in DOMAIN inbox'[c] :
                  said'[inbox'[c][i]].alert = a /\ said'[inbox'[c][i]].resolved
    BY <1>3, <1>6, <2>2
  <2>3. ASSUME Says(e), e[1] = a, life'[a] = "resolved"
        PROVE  \E i \in DOMAIN inbox'[c] :
                  said'[inbox'[c][i]].alert = a /\ said'[inbox'[c][i]].resolved
    <3>1. c \in Receivers(p)
      BY <2>1, <2>3 DEF Receivers
    <3>2. /\ Len(inbox[c]) + 1 \in DOMAIN inbox'[c] /\ inbox'[c][Len(inbox[c]) + 1] = m
      BY <1>6, <2>3, <3>1
    <3>3. said'[m].alert = a /\ said'[m].resolved
      BY <1>4, <1>5, <2>3
    <3> QED
      BY <3>2, <3>3
  <2>4. CASE e = <<a, "resolved">>
    <3>1. e[1] = a /\ e[2] = "resolved"
      BY <2>4
    <3>2. CASE Says(e)
      BY <1>0, <2>3, <3>1, <3>2
    <3>3. CASE UNCHANGED <<said, inbox>> /\ task[e].at = "alert"
      <4>1. n \in DOMAIN inbox[c] /\ said[inbox[c][n]].alert = a
        BY <3>3
      <4>2. task[<<a, "resolved">>].at \in {"alert", "done"}
        BY <2>4, <3>3
      <4>3. PICK k \in DOMAIN inbox[c] :
               said[inbox[c][k]].alert = a /\ said[inbox[c][k]].resolved
        BY <2>1, <4>1, <4>2 DEF IInv, Told
      <4> QED
        BY <2>2, <4>3
    <3> QED
      BY <1>0, <2>4, <3>2, <3>3
  <2>5. CASE e # <<a, "resolved">>
    <3>1. task[<<a, "resolved">>].at \in {"alert", "done"}
      BY <1>0, <2>1, <2>5
    <3>2. CASE n \in DOMAIN inbox[c]
      <4>1. said[inbox[c][n]].alert = a
        BY <1>3, <1>6, <3>2
      <4>2. PICK k \in DOMAIN inbox[c] :
               said[inbox[c][k]].alert = a /\ said[inbox[c][k]].resolved
        BY <2>1, <3>1, <3>2, <4>1 DEF IInv, Told
      <4> QED
        BY <2>2, <4>2
    <3>3. CASE n \notin DOMAIN inbox[c]
      <4>1. Says(e) /\ inbox'[c][n] = m
        BY <1>6, <3>3
      <4>2. e[1] = a
        BY <1>4, <1>5, <4>1
      <4>3. life[a] = "resolved"
        <5>1. <<a, "resolved">>[1] = a /\ <<a, "resolved">>[2] = "resolved"
          OBVIOUS
        <5>2. task[<<a, "resolved">>].at # "none"
          BY <3>1
        <5> QED
          BY <2>1, <5>1, <5>2 DEF IInv, TasksAsk
      <4> QED
        BY <1>0, <2>3, <4>1, <4>2, <4>3
    <3> QED
      BY <3>2, <3>3
  <2> QED
    BY <2>4, <2>5
<1>11. LocalInOrder'
  <2> SUFFICES ASSUME NEW c \in Clients, NEW i \in DOMAIN inbox'[c], NEW j \in DOMAIN inbox'[c],
                      i < j, Owner[said'[inbox'[c][i]].alert] = Home[c],
                      Owner[said'[inbox'[c][j]].alert] = Home[c]
               PROVE  /\ inbox'[c][i] < inbox'[c][j]
                      /\ /\ said'[inbox'[c][i]].alert = said'[inbox'[c][j]].alert
                         /\ said'[inbox'[c][i]].resolved
                         => said'[inbox'[c][j]].resolved
    BY Zenon DEF LocalInOrder, From
  <2>1. CASE i \in DOMAIN inbox[c] /\ j \in DOMAIN inbox[c]
    <3>1. /\ inbox'[c][i] = inbox[c][i] /\ inbox'[c][j] = inbox[c][j]
          /\ said'[inbox[c][i]] = said[inbox[c][i]] /\ said'[inbox[c][j]] = said[inbox[c][j]]
      BY <1>3, <1>6, <2>1
    <3> QED
      BY <2>1, <3>1 DEF IInv, LocalInOrder, From
  <2>2. CASE ~(i \in DOMAIN inbox[c] /\ j \in DOMAIN inbox[c])
    <3>1. /\ Says(e) /\ Len(inbox[c]) \in Nat /\ DOMAIN inbox[c] = 1..Len(inbox[c])
          /\ DOMAIN inbox'[c] = DOMAIN inbox[c] \cup {Len(inbox[c]) + 1}
          /\ inbox'[c][Len(inbox[c]) + 1] = m
          /\ \A n \in DOMAIN inbox[c] : n < Len(inbox[c]) + 1
          /\ Home[c] = p
      BY <1>6, <2>2
    <3>2. j = Len(inbox[c]) + 1 /\ i \in DOMAIN inbox[c]
      BY <2>2, <3>1
    <3>3. /\ inbox'[c][j] = m /\ inbox'[c][i] = inbox[c][i] /\ inbox[c][i] \in Messages
          /\ said'[m] = d /\ inbox[c][i] < m /\ said'[inbox[c][i]] = said[inbox[c][i]]
      BY <1>3, <1>5, <1>6, <3>1, <3>2
    <3>4. ASSUME said[inbox[c][i]].alert = e[1], said[inbox[c][i]].resolved
          PROVE  d.resolved
      <4>1. life[e[1]] = "resolved"
        BY <1>3, <3>3, <3>4 DEF IInv, SaidIsTrue
      <4> QED
        BY <1>0, <1>4, <4>1
    <3> QED
      BY <1>4, <3>3, <3>4
  <2> QED
    BY <2>1, <2>2
<1> QED
  BY <1>1, <1>2, <1>7, <1>8, <1>9, <1>10, <1>11 DEF IInv

-----------------------------------------------------------------------------
(* The steps of the clients.                                               *)

\* A client may take what waits for it, come and go; one that is registered
\* anew has been told nothing.
ClientMoves ==
    /\ UNCHANGED <<busVars, life, said, submitted, inbox>>
    /\ task' \in [Events -> Tasks]
    /\ \A e \in Events : /\ task'[e].at = task[e].at /\ task'[e].asked = task[e].asked
                         /\ task'[e].msg = task[e].msg /\ task'[e].to \subseteq task[e].to
    /\ client' \in [Clients -> {"off", "open", "closed"}]
    /\ registered' \in [Procs -> SUBSET Clients]
    /\ token' \in [Clients -> Procs \cup {NoToken}]
    /\ \A q \in Procs : registered'[q] \subseteq {c \in Clients : Home[c] = q}
    /\ \A c \in Clients :
         /\ client'[c] = "off" => client[c] = "off"
         /\ c \in registered'[Home[c]] => client'[c] # "off"
         /\ client'[c] = "open" /\ c \in registered'[Home[c]] =>
              \/ client[c] = "open" /\ c \in registered[Home[c]]
              \/ inbox[c] = <<>>

LEMMA SettledFacts ==
    ASSUME FanoutShape, NEW c \in Clients
    PROVE  /\ Settled(c) \in [Events -> Tasks]
           /\ \A e \in Events :
                /\ Settled(c)[e].at = task[e].at /\ Settled(c)[e].asked = task[e].asked
                /\ Settled(c)[e].msg = task[e].msg /\ Settled(c)[e].to \subseteq task[e].to
<1>1. ASSUME NEW e \in Events
      PROVE  LET v == [task[e] EXCEPT !.to = @ \ {c}]
             IN  /\ v \in Tasks /\ v.at = task[e].at /\ v.asked = task[e].asked
                 /\ v.msg = task[e].msg /\ v.to \subseteq task[e].to
  <2>1. task[e] \in Tasks
    BY DEF FanoutShape
  <2> QED
    BY <2>1 DEF Tasks
<1> QED
  BY <1>1 DEF Settled

LEMMA ClientStepMoves ==
    ASSUME IInv, NEW c \in Clients, NEW p \in Procs,
           \/ IssueToken(c, p) \/ Reject(c) \/ Connect(c) \/ Take(c) \/ Close(c)
           \/ Unregister(c) \/ DisconnectAll(p)
    PROVE  ClientMoves
<1>0. /\ Home[c] \in Procs /\ \A k \in Clients : Home[k] \in Procs
      /\ task \in [Events -> Tasks]
      /\ client \in [Clients -> {"off", "open", "closed"}]
      /\ registered \in [Procs -> SUBSET Clients]
      /\ token \in [Clients -> Procs \cup {NoToken}]
      /\ \A q \in Procs : registered[q] \subseteq {k \in Clients : Home[k] = q}
      /\ \A k \in Clients :
           /\ k \in registered[Home[k]] => client[k] # "off"
           /\ client[k] = "off" => inbox[k] = <<>>
  BY FanoutAssumption DEF IInv, FanoutShape, ClientsKnown
<1>1. CASE IssueToken(c, p) \/ Reject(c)
  <2>1. /\ token' \in [Clients -> Procs \cup {NoToken}]
        /\ UNCHANGED <<busVars, life, task, said, submitted, client, inbox, registered>>
    BY <1>0, <1>1 DEF IssueToken, Reject
  <2> QED
    BY <1>0, <2>1 DEF ClientMoves
<1>2. CASE Connect(c)
  <2>1. /\ client[c] = "off" /\ token' \in [Clients -> Procs \cup {NoToken}]
        /\ client' = [client EXCEPT ![c] = "open"]
        /\ registered' = [registered EXCEPT ![Home[c]] = @ \cup {c}]
        /\ UNCHANGED <<busVars, life, task, said, submitted, inbox>>
    BY <1>0, <1>2 DEF Connect
  <2>2. /\ client' \in [Clients -> {"off", "open", "closed"}]
        /\ client'[c] = "open" /\ \A k \in Clients : k # c => client'[k] = client[k]
        /\ registered' \in [Procs -> SUBSET Clients]
        /\ registered'[Home[c]] = registered[Home[c]] \cup {c}
        /\ \A q \in Procs : q # Home[c] => registered'[q] = registered[q]
    BY <1>0, <2>1
  <2>3. \A q \in Procs : registered'[q] \subseteq {k \in Clients : Home[k] = q}
    BY <1>0, <2>2
  <2>4. \A k \in Clients : k # c /\ k \in registered'[Home[k]] => k \in registered[Home[k]]
    BY <1>0, <2>2
  <2> QED
    BY <1>0, <2>1, <2>2, <2>3, <2>4 DEF ClientMoves
<1>3. CASE Take(c)
  <2>1. /\ task' = Settled(c)
        /\ UNCHANGED <<busVars, life, said, submitted, client, inbox, registered, token>>
    BY <1>3 DEF Take
  <2> QED
    BY <1>0, <2>1, SettledFacts DEF ClientMoves, IInv
<1>4. CASE Close(c)
  <2>1. /\ client[c] = "open" /\ client' = [client EXCEPT ![c] = "closed"] /\ task' = Settled(c)
        /\ UNCHANGED <<busVars, life, said, submitted, inbox, registered, token>>
    BY <1>4 DEF Close
  <2>2. /\ client' \in [Clients -> {"off", "open", "closed"}]
        /\ client'[c] = "closed" /\ \A k \in Clients : k # c => client'[k] = client[k]
    BY <1>0, <2>1
  <2>3. /\ task' \in [Events -> Tasks]
        /\ \A e \in Events : /\ task'[e].at = task[e].at /\ task'[e].asked = task[e].asked
                             /\ task'[e].msg = task[e].msg /\ task'[e].to \subseteq task[e].to
    BY <2>1, SettledFacts DEF IInv
  <2> QED
    BY <1>0, <2>1, <2>2, <2>3 DEF ClientMoves
<1>5. CASE Unregister(c) \/ DisconnectAll(p)
  <2>1. /\ UNCHANGED <<busVars, life, task, said, submitted, client, inbox, token>>
        /\ \/ registered' = [registered EXCEPT ![Home[c]] = @ \ {c}]
           \/ registered' = [registered EXCEPT ![p] = {}]
    BY <1>5 DEF Unregister, DisconnectAll
  <2>2. /\ registered' \in [Procs -> SUBSET Clients]
        /\ \A q \in Procs : registered'[q] \subseteq registered[q]
    BY <1>0, <2>1
  <2> QED
    BY <1>0, <2>1, <2>2 DEF ClientMoves
<1> QED
  BY <1>1, <1>2, <1>3, <1>4, <1>5

LEMMA ClientKept ==
    ASSUME IInv, ClientMoves
    PROVE  IInv'
<1>0. /\ UNCHANGED <<starts, handles, stopFlag, loop, joining, queue, publisher, listener,
                     notified, failures, requeued, hasty>>
      /\ UNCHANGED <<life, said, submitted, inbox>>
  BY DEF ClientMoves, busVars
<1>1. BusShape'
  BY <1>0 DEF IInv, BusShape
<1>2. OneStart'
  BY <1>0 DEF IInv, OneStart, Running
<1>3. FanoutShape'
  BY <1>0 DEF IInv, FanoutShape, ClientMoves
<1>4. TasksAsk'
  <2> SUFFICES ASSUME NEW e \in Events PROVE Asks(e)'
    BY DEF TasksAsk, Asks
  <2>1. Asks(e)
    BY DEF IInv, TasksAsk, Asks
  <2>2. /\ task'[e].at = task[e].at /\ task'[e].asked = task[e].asked
        /\ task'[e].msg = task[e].msg /\ task'[e].to \subseteq task[e].to
    BY DEF ClientMoves
  <2> QED
    BY <1>0, <2>1, <2>2 DEF Asks
<1>5. SaidIsTrue'
  BY <1>0 DEF IInv, SaidIsTrue
<1>6. ClientsKnown'
  BY <1>0 DEF IInv, ClientsKnown, ClientMoves
<1>7. Told'
  <2> SUFFICES ASSUME NEW c \in Clients, NEW a \in Alerts,
                      client'[c] = "open", c \in registered'[Home[c]], Owner[a] = Home[c],
                      task'[<<a, "resolved">>].at \in {"alert", "done"},
                      NEW n \in DOMAIN inbox[c], said[inbox[c][n]].alert = a
               PROVE  \E k \in DOMAIN inbox[c] :
                         said[inbox[c][k]].alert = a /\ said[inbox[c][k]].resolved
    BY <1>0 DEF Told
  <2>1. client[c] = "open" /\ c \in registered[Home[c]]
    <3>1. inbox[c] # <<>>
      OBVIOUS
    <3> QED
      BY <3>1 DEF ClientMoves
  <2>2. task[<<a, "resolved">>].at \in {"alert", "done"}
    <3>1. <<a, "resolved">> \in Events
      BY DEF Events
    <3> QED
      BY <3>1 DEF ClientMoves
  <2> QED
    BY <2>1, <2>2 DEF IInv, Told
<1>8. LocalInOrder'
  BY <1>0, Zenon DEF IInv, LocalInOrder, From
<1>9. MessagesKnown' /\ InOrder'
  <2>1. \A p \in Procs : InHand(p)' \subseteq InHand(p)
    BY <1>0 DEF InHand
  <2> QED
    BY <1>0, <2>1, QuietOrder DEF IInv
<1> QED
  BY <1>1, <1>2, <1>3, <1>4, <1>5, <1>6, <1>7, <1>8, <1>9 DEF IInv

-----------------------------------------------------------------------------
(* The invariant holds.                                                    *)

LEMMA BusKept ==
    ASSUME IInv, BusNext, UNCHANGED fanoutVars
    PROVE  IInv'
<1>0. UNCHANGED <<life, task, said, submitted, client, inbox, registered, token>>
  BY DEF fanoutVars
<1>1. BusShape' /\ OneStart' /\ MessagesKnown' /\ InOrder'
  BY <1>0, BusStep DEF IInv
<1>2. FanoutShape' /\ TasksAsk' /\ SaidIsTrue' /\ ClientsKnown'
  BY <1>0 DEF IInv, FanoutShape, TasksAsk, SaidIsTrue, ClientsKnown
<1>3. Told'
  BY <1>0 DEF IInv, Told
<1>4. LocalInOrder'
  BY <1>0, Zenon DEF IInv, LocalInOrder, From
<1> QED
  BY <1>1, <1>2, <1>3, <1>4 DEF IInv

LEMMA StutterKept ==
    ASSUME IInv, UNCHANGED vars
    PROVE  IInv'
<1>0. /\ UNCHANGED <<starts, handles, stopFlag, loop, joining, queue, publisher, listener,
                     notified, failures, requeued, hasty>>
      /\ UNCHANGED <<life, task, said, submitted, client, inbox, registered, token>>
  BY DEF vars, busVars, fanoutVars
<1>1. ClientMoves
  BY <1>0 DEF ClientMoves, busVars, IInv, FanoutShape, ClientsKnown
<1> QED
  BY <1>1, ClientKept

LEMMA StepKept ==
    ASSUME IInv, [Next]_vars
    PROVE  IInv'
<1>1. ASSUME NEW e \in Events, ProcessEvent(e) \/ TelemetrySent(e) \/ AlertSent(e)
      PROVE  IInv'
  BY <1>1, ProcessEventMoves, TelemetrySentMoves, AlertSentMoves, EventKept
<1>2. ASSUME NEW t \in Threads, Deliver(t)
      PROVE  IInv'
  BY <1>2, DeliverKept
<1>3. ASSUME NEW c \in Clients, \/ Reject(c) \/ Connect(c) \/ Take(c) \/ Close(c)
                                \/ Unregister(c)
      PROVE  IInv'
  <2>1. Home[c] \in Procs
    BY FanoutAssumption
  <2> QED
    BY <1>3, <2>1, ClientStepMoves, ClientKept
<1>4. ASSUME NEW c \in Clients, NEW p \in Procs, IssueToken(c, p)
      PROVE  IInv'
  BY <1>4, ClientStepMoves, ClientKept
<1>5. ASSUME NEW p \in Procs, DisconnectAll(p)
      PROVE  IInv'
  <2>1. PICK c \in Clients : TRUE
    BY <1>5 DEF DisconnectAll, IInv, FanoutShape
  <2> QED
    BY <1>5, <2>1, ClientStepMoves, ClientKept
<1>6. CASE BusNext /\ UNCHANGED fanoutVars
  BY <1>6, BusKept
<1>7. CASE UNCHANGED vars
  BY <1>7, StutterKept
<1> QED
  BY <1>1, <1>2, <1>3, <1>4, <1>5, <1>6, <1>7 DEF Next

LEMMA InitKept == Init => IInv
<1> SUFFICES ASSUME Init PROVE IInv
  OBVIOUS
<1>0. /\ 1 \in 0..MaxStarts /\ 0 \in 0..MaxStarts /\ 0 \in 0..MaxFailures /\ 0 <= QueueSize
      /\ 1 \in 1..MaxStarts /\ \A n \in 1..MaxStarts : n > 1 => n # 1
  BY BusAssumption
<1>1. <<>> \in Seq(Nat) /\ Len(<<>>) = 0 /\ DOMAIN <<>> = {}
      /\ <<>> \in Seq([alert : Alerts, resolved : BOOLEAN])
  OBVIOUS
<1>2. /\ starts = [p \in Procs |-> 1] /\ handles = [p \in Procs |-> 1]
      /\ stopFlag = [p \in Procs |-> FALSE] /\ loop = [p \in Procs |-> TRUE]
      /\ joining = [p \in Procs |-> 0] /\ queue = [p \in Procs |-> <<>>]
      /\ listener = [t \in Threads |-> IF t[2] = 1 THEN "listening" ELSE "none"]
      /\ notified = [t \in Threads |-> <<>>]
      /\ failures = 0 /\ requeued = FALSE /\ hasty = {}
  BY DEF Init, BusInit
<1>3. /\ publisher \in [Threads -> Publishers]
      /\ \A t \in Threads : publisher[t].at \in {"none", "ready"}
      /\ \A t \in Threads : t[2] # 1 => publisher[t].at = "none"
  <2>1. /\ Unstarted \in Publishers /\ Unstarted.at = "none"
        /\ [Unstarted EXCEPT !.at = "ready"] \in Publishers
        /\ [Unstarted EXCEPT !.at = "ready"].at = "ready"
    BY DEF Unstarted, Publishers, PublisherStates
  <2>2. publisher = [t \in Threads |->
           IF t[2] = 1 /\ t[1] \in Talkers THEN [Unstarted EXCEPT !.at = "ready"] ELSE Unstarted]
    BY DEF Init, BusInit
  <2> QED
    BY <2>1, <2>2
<1>4. BusShape
  <2>1. /\ starts \in [Procs -> 0..MaxStarts] /\ handles \in [Procs -> 0..MaxStarts]
        /\ joining \in [Procs -> 0..MaxStarts] /\ stopFlag \in [Procs -> BOOLEAN]
        /\ loop \in [Procs -> BOOLEAN]
    BY <1>0, <1>2
  <2>2. /\ queue \in [Procs -> Seq(Nat)] /\ \A p \in Procs : Len(queue[p]) <= QueueSize
        /\ notified \in [Threads -> Seq(Nat)] /\ \A t \in Threads : notified[t] = <<>>
    BY <1>0, <1>1, <1>2
  <2>3. listener \in [Threads -> ListenerStates] /\ failures \in 0..MaxFailures
        /\ requeued \in BOOLEAN /\ hasty \subseteq Procs
    BY <1>0, <1>2 DEF ListenerStates
  <2> QED
    BY <1>3, <2>1, <2>2, <2>3 DEF BusShape, Publishers
<1>5. OneStart
  <2> SUFFICES ASSUME NEW p \in Procs
               PROVE  /\ \A n \in 1..MaxStarts :
                           n > starts[p] => /\ publisher[<<p, n>>].at = "none"
                                            /\ listener[<<p, n>>] = "none"
                      /\ \A n \in 1..MaxStarts : Running(<<p, n>>) => n = starts[p]
                      /\ joining[p] = 0 /\ loop[p] /\ ~stopFlag[p]
    BY DEF OneStart
  <2>1. \A n \in 1..MaxStarts :
          n # 1 => publisher[<<p, n>>].at = "none" /\ listener[<<p, n>>] = "none"
    BY <1>2, <1>3, ThreadsAre
  <2>2. \A n \in 1..MaxStarts : Running(<<p, n>>) => n = 1
    BY <2>1 DEF Running
  <2> QED
    BY <1>0, <1>2, <2>1, <2>2
<1>6. /\ life = [a \in Alerts |-> "none"] /\ task = [e \in Events |-> NoTask]
      /\ said = <<>> /\ submitted = [p \in Procs |-> <<>>]
      /\ client = [c \in Clients |-> "off"] /\ inbox = [c \in Clients |-> <<>>]
      /\ registered = [p \in Procs |-> {}] /\ token = [c \in Clients |-> NoToken]
  BY DEF Init
<1>7. FanoutShape
  <2>1. NoTask \in Tasks
    BY DEF NoTask, Tasks
  <2> QED
    BY <1>1, <1>6, <2>1 DEF FanoutShape
<1>8. TasksAsk
  <2>1. \A e \in Events : task[e] = NoTask
    BY <1>6
  <2>2. 0 \in 0..Len(said)
    BY <1>1, <1>6
  <2> QED
    BY <2>1, <2>2 DEF TasksAsk, NoTask
<1>9. SaidIsTrue /\ ClientsKnown /\ Told
  <2>1. SaidIsTrue
    BY <1>1, <1>6 DEF SaidIsTrue
  <2>2. ClientsKnown
    BY <1>6, FanoutAssumption DEF ClientsKnown
  <2>3. Told
    BY <1>6 DEF Told
  <2> QED
    BY <2>1, <2>2, <2>3
<1>10. LocalInOrder
  BY <1>1, <1>6 DEF LocalInOrder
<1>11. /\ \A p \in Procs : InHand(p) = {} /\ Elements(queue[p]) = {} /\ Unsent(p) = {}
       /\ \A p \in Procs, t \in Threads : Unread(p, t) = {} /\ notified[t] = <<>>
       /\ \A p \in Procs, c \in Clients : Seen(p, c) = {} /\ inbox[c] = <<>>
       /\ \A p \in Procs : Elements(submitted[p]) = {} /\ queue[p] = <<>>
       /\ \A t \in Threads : Elements(notified[t]) = {}
       /\ \A c \in Clients : Elements(inbox[c]) = {}
  <2>1. \A p \in Procs : InHand(p) = {}
    BY <1>3 DEF InHand
  <2>2. Elements(<<>>) = {}
    BY NothingInOrder
  <2> QED
    BY <1>2, <1>6, <2>1, <2>2 DEF Unsent, Unread, Seen
<1>12. MessagesKnown
  BY <1>11 DEF MessagesKnown
<1>13. InOrder
  <2> SUFFICES ASSUME NEW p \in Procs
               PROVE  /\ QueueInOrder(p) /\ \A t \in Threads : ThreadInOrder(p, t)
                      /\ \A c \in Clients : ClientInOrder(p, c)
    BY DEF InOrder
  <2>1. QueueInOrder(p)
    BY <1>11, NothingInOrder DEF QueueInOrder, AllBefore
  <2>2. \A t \in Threads : ThreadInOrder(p, t)
    BY <1>11, NothingInOrder DEF ThreadInOrder, AllBefore
  <2>3. \A c \in Clients : ClientInOrder(p, c)
    BY <1>11, NothingInOrder DEF ClientInOrder, AllBefore
  <2> QED
    BY <2>1, <2>2, <2>3
<1> QED
  BY <1>4, <1>5, <1>7, <1>8, <1>9, <1>10, <1>12, <1>13 DEF IInv

LEMMA Invariance == Spec => []IInv
  BY InitKept, StepKept, PTL DEF Spec

-----------------------------------------------------------------------------
(* The theorems.                                                           *)

\* The bus and the broadcasts keep the types of what they hold: no queue is
\* longer than its bound, nothing is left unread on a connection that does
\* not listen, and a broadcast waits for clients of its own process alone.
THEOREM TypeCorrect == Spec => []TypeOK
<1>1. IInv => TypeOK
  <2> SUFFICES ASSUME IInv PROVE TypeOK
    OBVIOUS
  <2>1. BusTypeOK
    <3>1. {stopFlag[p] : p \in Procs} \cup {loop[p] : p \in Procs} \subseteq BOOLEAN
      BY DEF IInv, BusShape
    <3>2. \A t \in Threads :
            /\ publisher[t].at \in {"none", "connecting", "ready", "publishing", "ended"}
            /\ listener[t] \in {"none", "connecting", "listening", "ended"}
            /\ notified[t] # <<>> => listener[t] = "listening"
      BY DEF IInv, BusShape, PublisherStates, ListenerStates
    <3> QED
      BY <3>1, <3>2 DEF IInv, BusShape, BusTypeOK
  <2>2. \A e \in Events :
          /\ task[e].at \in {"none", "telemetry", "alert", "done"}
          /\ task[e].to \subseteq task[e].asked
          /\ task[e].asked \subseteq {c \in Clients : Home[c] = Owner[e[1]]}
          /\ task[e].msg \in 0..Len(said)
    BY DEF IInv, FanoutShape, Tasks, TasksAsk
  <2>3. \A n \in DOMAIN said : said[n] \in [alert : Alerts, resolved : BOOLEAN]
    <3>1. said \in Seq([alert : Alerts, resolved : BOOLEAN]) /\ DOMAIN said = 1..Len(said)
      BY DEF IInv, FanoutShape
    <3> QED
      BY <3>1, ElementOfSeq
  <2>4. \A c \in Clients : \A n \in DOMAIN inbox[c] : inbox[c][n] \in DOMAIN said
    <3>1. DOMAIN said = Messages
      BY DEF IInv, FanoutShape, Messages
    <3> QED
      BY <3>1 DEF IInv, MessagesKnown, Elements
  <2>5. /\ \A p \in Procs : registered[p] \subseteq {c \in Clients : Home[c] = p}
        /\ \A c \in Clients : c \in registered[Home[c]] => client[c] # "off"
    BY DEF IInv, ClientsKnown
  <2>6. /\ life \in [Alerts -> {"none", "active", "resolved"}]
        /\ client \in [Clients -> {"off", "open", "closed"}]
        /\ token \in [Clients -> Procs \cup {NoToken}]
    BY DEF IInv, FanoutShape
  <2> QED
    BY <2>1, <2>2, <2>3, <2>4, <2>5, <2>6 DEF TypeOK
<1> QED
  BY <1>1, Invariance, PTL

\* A client gets the messages of its own process in the order of their dumps
\* and each once, and never sees an alert active after it saw it resolved.
THEOREM LocalOrder == Spec => []LocalInOrder
<1>1. IInv => LocalInOrder
  BY DEF IInv
<1> QED
  BY <1>1, Invariance, PTL

\* A registered client that saw an alert of its process has seen it resolved
\* once both of its events are through.
THEOREM ResolutionIsSeen == Spec => []SeesResolution
<1>1. IInv => SeesResolution
  BY DEF IInv, Told, SeesResolution
<1> QED
  BY <1>1, Invariance, PTL

\* The clients of other processes get the messages of a process in the order
\* in which it queued them, which need not be that of their dumps, and each
\* once, unless a publish failed or one of the two was started over threads
\* that were still there.
THEOREM PeersKeepOrder == Spec => []PeersInOrder
<1>1. IInv => PeersInOrder
  <2> SUFFICES ASSUME IInv, ~requeued, NEW c \in Clients, NEW p \in Procs \ {Home[c]},
                      {p, Home[c]} \cap hasty = {},
                      NEW i \in DOMAIN inbox[c], NEW j \in DOMAIN inbox[c], i < j,
                      From(inbox[c][i]) = p, From(inbox[c][j]) = p
               PROVE  Before(submitted[p], inbox[c][i], inbox[c][j])
    BY DEF PeersInOrder, Before
  <2>1. ClientInOrder(p, c) /\ Home[c] \notin hasty
    BY DEF IInv, InOrder
  <2>2. inbox[c][i] \in Mine(p) /\ inbox[c][j] \in Mine(p)
    BY DEF IInv, MessagesKnown, Elements, Mine
  <2> QED
    BY <2>1, <2>2 DEF ClientInOrder, Ordered
<1> QED
  BY <1>1, Invariance, PTL

\* A process whose bus is started has its event loop and no stop flag, so its
\* listener hands on what it reads, unless the start was made over a stop()
\* or threads of an earlier one.
THEOREM StartedBusHears == Spec => []NeverDeaf
<1>1. IInv => NeverDeaf
  BY DEF IInv, OneStart, NeverDeaf
<1> QED
  BY <1>1, Invariance, PTL

=============================================================================
