------------------------ MODULE MCTelemetryIngestion ------------------------
(***************************************************************************)
(* Small instances of TelemetryIngestion.                                  *)
(***************************************************************************)
EXTENDS TelemetryIngestion, TLC

Sustained ==
    [op |-> ">=", threshold |-> 1, duration |-> 1, cooldown |-> 0, enabled |-> TRUE]

OneConfig == {Sustained}
OneRule == <<Sustained>>

SlotSymmetry == Permutations(Slots)
=============================================================================
