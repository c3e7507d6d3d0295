---------------------------- MODULE MCRegistries ----------------------------
(***************************************************************************)
(* Small instances of the two registries whose requests look before they   *)
(* write, Users and ServiceTopology.  They share no state, so one run has  *)
(* the behaviours of either: those of one leave the other where it began.  *)
(***************************************************************************)
EXTENDS Users, ServiceTopology, TLC

VARIABLE registry \* the one that steps

RegistriesInit == UsersInit /\ Init /\ registry \in {"users", "services"}

RegistriesNext ==
    /\ UNCHANGED registry
    /\ \/ registry = "users" /\ UsersNext /\ UNCHANGED vars
       \/ registry = "services" /\ Next /\ UNCHANGED userVars

RegistriesSpec == RegistriesInit /\ [][RegistriesNext]_<<userVars, vars, registry>>

\* Accounts and services have the same names here, and so have the requests
\* of either, so that a permutation serves both.
NameSymmetry == Permutations(Ids \ {FirstAdmin}) \cup Permutations(Requests)
=============================================================================
