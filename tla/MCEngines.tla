------------------------------ MODULE MCEngines -----------------------------
(***************************************************************************)
(* Small instances of the two engines, AlertRules and IncidentCorrelation. *)
(* They share no state, so one run has the behaviours of either: those of  *)
(* one leave the other where it began.                                     *)
(***************************************************************************)
EXTENDS AlertRules, IncidentCorrelation, TLC

\* The condition has to hold for one unit of time; a new alert waits for two.
Sustained ==
    [op |-> ">", threshold |-> 0, duration |-> 1, cooldown |-> 2, enabled |-> TRUE]
Low ==
    [op |-> "<", threshold |-> 1, duration |-> 0, cooldown |-> 2, enabled |-> TRUE]
Disabled == [Sustained EXCEPT !.enabled = FALSE]

SomeConfigs == {Sustained, Low, Disabled}
SecondNew == <<Sustained, New>>

\* The one that steps: the rules, edited while the first samples arrive; the
\* first rule alone, which nobody edits, with all samples; or the incidents.
VARIABLE engine

CONSTANT SamplesEdited \* samples that arrive beside edits

EnginesInit ==
    /\ Arrivals /\ Init
    /\ engine \in {"edited rules", "rules", "incidents"}
    /\ \A i \in DOMAIN sample :
         \/ engine = "rules"
         \/ engine = "edited rules" /\ i <= SamplesEdited
         \/ sample[i].value = 0

EnginesNext ==
    /\ UNCHANGED engine
    /\ \/ /\ engine = "edited rules" /\ ArrivalNext /\ UNCHANGED vars
          /\ log' # log => log'[Len(log')] <= SamplesEdited
       \/ engine = "rules" /\ ArrivalNext /\ UNCHANGED <<vars, edits>>
       \/ engine = "incidents" /\ Next /\ UNCHANGED <<sample, ruleVars>>

EnginesSpec == EnginesInit /\ [][EnginesNext]_<<sample, ruleVars, vars, engine>>

AlertSymmetry == Permutations(Alerts)
=============================================================================
