------------------------------ MODULE MCBackend -----------------------------
(***************************************************************************)
(* Small instances of Backend.                                             *)
(***************************************************************************)
EXTENDS Backend
=============================================================================
