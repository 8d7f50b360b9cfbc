------------------------------ MODULE MCBlocks ------------------------------
(* Instances of Blocks for TLC: blocks with distinct values, so that one    *)
(* that gets to a wrong place is seen.                                      *)
EXTENDS Blocks

Values == {0, 35}
Hours == {-1, 0, 23, 24}
Minutes == {0, 59, 60}

Distinct ==
  {[cmd |-> c, values |-> [i \in 1..Count[c] |-> 100 + i]] : c \in DOMAIN Count}
=============================================================================
