---------------------------- MODULE MCLiveFanout ----------------------------
(***************************************************************************)
(* Small instances of LiveFanout.                                          *)
(***************************************************************************)
EXTENDS LiveFanout

CONSTANTS p1, p2, c1, c2

OneOwner == [a \in Alerts |-> p1]
TwoHomes == [c \in Clients |-> IF c = c1 THEN p1 ELSE p2]
=============================================================================
