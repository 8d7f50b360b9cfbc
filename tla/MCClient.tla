------------------------------ MODULE MCClient ------------------------------
(* Instances of Client for TLC. *)
EXTENDS Client

CONSTANTS t1, t2, f1, f2

TwoTasks == {t1, t2}
TwoFields == {f1, f2}
AllKinds == {"plain", "patch", "raw", "poll"}
=============================================================================
