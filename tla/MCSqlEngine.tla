---------------------------- MODULE MCSqlEngine -----------------------------
(* Instances of SqlEngine for TLC.                                         *)
EXTENDS SqlEngine, TLC

\* Workers are interchangeable, and so are payloads.
Symmetry == Permutations(Workers) \cup Permutations(Fingerprints)

=============================================================================
