----------------------------- MODULE MCSnapshot -----------------------------
(* Snapshot for TLC: its constants are numbers, given in the configuration. *)
EXTENDS Snapshot
=============================================================================
