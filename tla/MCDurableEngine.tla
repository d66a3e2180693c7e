-------------------------- MODULE MCDurableEngine ---------------------------
(* Instances of DurableEngine for TLC.                                     *)
EXTENDS DurableEngine, TLC

\* The object's keys are interchangeable.
Symmetry == Permutations(Keys)

=============================================================================
