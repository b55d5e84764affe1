-------------------------- MODULE MCRecordNumbers --------------------------
(* Small instances of RecordNumbers: the tables by name, with the padding of the code. *)
EXTENDS RecordNumbers, TLC

CodePad == [t \in Tables |-> IF t = "case" THEN 3 ELSE 4]
CodeIssued == [t \in Tables |-> IF t = "case" THEN 6 ELSE 2]
Symmetry == Permutations(Producers)
============================================================================
