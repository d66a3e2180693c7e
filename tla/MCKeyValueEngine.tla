-------------------------- MODULE MCKeyValueEngine --------------------------
(* Instances of KeyValueEngine for TLC: all the remote stores at once.     *)
EXTENDS KeyValueEngine, TLC

\* Workers are interchangeable, and so are payloads.
Symmetry == Permutations(Workers) \cup Permutations(Fingerprints)

=============================================================================
