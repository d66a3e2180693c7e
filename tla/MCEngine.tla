------------------------------ MODULE MCEngine ------------------------------
(* Instances of Engine for TLC.                                            *)
EXTENDS Engine, TLC

\* Workers are interchangeable, and so are payloads.
Symmetry == Permutations(Workers) \cup Permutations(Fingerprints)

=============================================================================
