----------------------------- MODULE MCControls -----------------------------
(* Instances of Controls for TLC. *)
EXTENDS Controls

Temps == {30, 65}
Automatic == {[setpoint |-> 30, heating |-> 0, dhw |-> 0, offset |-> 30]}
=============================================================================
