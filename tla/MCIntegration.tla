--------------------------- MODULE MCIntegration ---------------------------
(* Instances of Integration for TLC. *)
EXTENDS Integration, TLC

CONSTANTS t1, t2

TwoTasks == {t1, t2}

Symmetry == Permutations(Task)
=============================================================================
