------------------------- MODULE MCTelemetryRuntime -------------------------
(***************************************************************************)
(* Small instances of TelemetryRuntime.                                    *)
(***************************************************************************)
EXTENDS TelemetryRuntime, TLC

CallerSymmetry == Permutations(Callers)
=============================================================================
