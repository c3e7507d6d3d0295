---------------------------- MODULE SampleLedger ----------------------------
(***************************************************************************)
(* What ingestion promises: the set of stored samples only grows, and each *)
(* stored sample goes through live processing at most once, whatever is    *)
(* sent twice, answered late or interrupted.                               *)
(***************************************************************************)
EXTENDS Sequences, Naturals

CONSTANT Sample

VARIABLES
    stored,     \* the samples with a row
    processed   \* the samples processed live, in order

ledgerVars == <<stored, processed>>

Init ==
    /\ stored = {}
    /\ processed = <<>>

Store ==
    /\ stored \subseteq stored'
    /\ stored' \subseteq Sample

Process(s) ==
    /\ s \in stored'
    /\ \A n \in DOMAIN processed : processed[n] # s
    /\ processed' = Append(processed, s)

\* A batch is stored and its first sample processed in one go; the others
\* follow one by one.
Next ==
    /\ Store
    /\ (\E s \in Sample : Process(s)) \/ UNCHANGED processed

Spec == Init /\ [][Next]_ledgerVars

=============================================================================
