----------------------------- MODULE MCReadLoop -----------------------------
(* Instances of ReadLoop for TLC: the first query of a poll, whose reply   *)
(* has several lines, and twice the curve, which a poll and                *)
(* set_heating_curve read.                                                 *)
EXTENDS ReadLoop

Commands == {"1800", "1100", "3400"}

Poll == <<"1800", "3400", "3400">>
NextPoll == <<"3400", "1800">>

Counts == [c \in Commands |-> IF c = "3400" THEN 2 ELSE 1]

Answers ==
  [c \in Commands |->
     CASE c = "1800" -> <<"1800", "v", "w", "end", "1100", "v", "w", "end">>
       [] c = "1100" -> <<"1100", "v", "w", "end">>
       [] c = "3400" -> <<"3400", "v", "w", "v", "w", "end">>]

\* The last value of the curve contains the digits 779, as 1779 does.
Answers779 == [Answers EXCEPT !["3400"] = <<"3400", "v", "w", "v", "w779", "end">>]
=============================================================================
