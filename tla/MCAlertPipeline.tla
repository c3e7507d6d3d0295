-------------------------- MODULE MCAlertPipeline --------------------------
(***************************************************************************)
(* Small instances of AlertPipeline.                                       *)
(***************************************************************************)
EXTENDS AlertPipeline, TLC

CONSTANTS a1, a2, a3, k1, k2, h1

MCKeyOf == [a \in Alerts |-> IF a = a3 THEN k2 ELSE k1]
IncidentSymmetry == Permutations(Incidents)

MCHostOf == [k \in Keys |-> h1]
=============================================================================
