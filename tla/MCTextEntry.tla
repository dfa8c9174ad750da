----------------------------- MODULE MCTextEntry -----------------------------
(* Two documents of one item each for TLC: both items have the same id.      *)
EXTENDS TextEntry

CONSTANTS a, b

TwoDocs == {1, 2}
Owners == [i \in {a, b} |-> IF i = b THEN 2 ELSE 1]
Parents == [i \in {a, b} |-> NoItem]
SameIds == [i \in {a, b} |-> 1]
==============================================================================
