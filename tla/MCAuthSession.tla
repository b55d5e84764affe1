--------------------------- MODULE MCAuthSession ---------------------------
(* Small instances of AuthSession. *)
EXTENDS AuthSession, TLC

Symmetry == Permutations(Requests)
============================================================================
