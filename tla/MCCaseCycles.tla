---------------------------- MODULE MCCaseCycles ----------------------------
EXTENDS CaseCycles, TLC
Symmetry == Permutations(Cycles) \cup Permutations(Operators)
=============================================================================
