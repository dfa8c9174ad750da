------------------------------ MODULE MCItemView ------------------------------
(* Documents of one and of three items for TLC.                                *)
EXTENDS ItemView, TLC

CONSTANTS a, b, c

One == AddAsChild(EmptyTree, Root, a, Nil)

\* Two items below each other, and a third one after the first: a fourth one
\* created below the last makes a fold inside a fold.
Nested == AddAsChild(AddAsChild(One, a, b, Nil), Root, c, a)

Documents == {One, Nested}
================================================================================
