---------------------- MODULE MCNotificationDispatcher ----------------------
(***************************************************************************)
(* A small instance of NotificationDispatcher: one channel wants an event, *)
(* which is emitted under two ids, and may be deleted; another one is      *)
(* created and tested.                                                     *)
(***************************************************************************)
EXTENDS NotificationDispatcher

CONSTANTS d1, d2, d4, c1, c2, e1, t1

MCChannelOrder == <<c1, c2>>
MCChannelOf == [d \in Deliveries |-> IF d = d4 THEN c2 ELSE c1]
MCEventOf == [d \in Deliveries |-> IF d = d4 THEN t1 ELSE e1]
MCWanted == [c \in {c1, c2} |-> IF c = c1 THEN {e1} ELSE {}]
MCMayBecome == [c \in {c1, c2} |-> IF c = c1 THEN {"deleted"} ELSE {}]

\* The two ids the event is emitted under are alike: the first is drawn first.
\* The database fails the worker once in each process, unless a retry was
\* given up before.
MCNext ==
    /\ Next
    /\ d2 \in drawn' => d1 \in drawn'
    /\ TakeJobFails \/ DeliveryFails => stranded = {}

MCFairSpec == Init /\ [][MCNext]_vars /\ Fairness
=============================================================================
