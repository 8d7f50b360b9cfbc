----------------------------- MODULE AtomicBlock -----------------------------
(***************************************************************************)
(* What the client promises the callers of set_heating_curve and           *)
(* set_hysteresis: the fields that a call changes get its value in one     *)
(* step, or never, and no other field changes with them.  Nothing is seen  *)
(* of blocks that are read, written back as a whole, staged or left behind *)
(* by a call that was cancelled.                                           *)
(***************************************************************************)
EXTENDS Naturals

CONSTANTS
  Field,  \* the fields of the block
  Call    \* the calls, by numbers other than 0

VARIABLES
  block,    \* the call that each field has its value from
  pending,  \* what each call may still change
  called    \* the calls so far

vars == <<block, pending, called>>

Init ==
  /\ block = [f \in Field |-> 0]
  /\ pending = [c \in Call |-> {}]
  /\ called = {}

\* A call that is to change the fields of w, perhaps none.
Begin(c, w) ==
  /\ c \notin called /\ called' = called \cup {c}
  /\ pending' = [pending EXCEPT ![c] = w]
  /\ UNCHANGED block

\* Its change takes effect.
Apply(c) ==
  /\ pending[c] # {}
  /\ block' = [f \in Field |-> IF f \in pending[c] THEN c ELSE block[f]]
  /\ pending' = [pending EXCEPT ![c] = {}]
  /\ UNCHANGED called

\* The changes of some calls never will.
Drop(C) ==
  /\ pending' = [c \in Call |-> IF c \in C THEN {} ELSE pending[c]]
  /\ UNCHANGED <<block, called>>

Next ==
  \/ \E c \in Call, w \in SUBSET Field : Begin(c, w)
  \/ \E c \in Call : Apply(c)
  \/ \E C \in SUBSET Call : Drop(C)

Spec == Init /\ [][Next]_vars
=============================================================================
