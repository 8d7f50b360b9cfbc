---------------------------- MODULE MCTransport ----------------------------
(* Instances of Transport for TLC. *)
EXTENDS Transport, TLC

CONSTANTS t1, t2, t3, r1, r2

TwoTasks == {t1, t2}
ThreeTasks == {t1, t2, t3}
OneReg == {r1}
TwoRegs == {r1, r2}
ReadWrite == {"read", "write"}
NoRaws == {}
Raws == {"open", "payload", "commit", "cancel"}
AllKinds == {"read", "write", "connect", "close"}

\* Tasks and blocks are interchangeable.
Symmetry == Permutations(Task) \cup Permutations(Reg)
=============================================================================
