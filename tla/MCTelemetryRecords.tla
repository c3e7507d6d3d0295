------------------------- MODULE MCTelemetryRecords -------------------------
(***************************************************************************)
(* Small instances of TelemetryRecords.                                    *)
(***************************************************************************)
EXTENDS TelemetryRecords
=============================================================================
