-------------------------- MODULE MCJobProcessor --------------------------
(* Small instances of JobProcessor: jobs j1 and j2 are 1 and 2, the second one interactive. *)
EXTENDS JobProcessor, TLC

Symmetry == Permutations(Workers) \cup Permutations(Slots)
============================================================================
