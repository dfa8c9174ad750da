----------------------------- MODULE MCGuiControl ----------------------------
(* Three documents for TLC, the first with one item below another.           *)
EXTENDS GuiControl

CONSTANTS a, b, c

ThreeDocs == {1, 2, 3}
Owners == [i \in {a, b, c} |-> IF i = c THEN 2 ELSE 1]
Parents == [i \in {a, b, c} |-> IF i = b THEN a ELSE NoItem]
==============================================================================
