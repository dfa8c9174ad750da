-------------------------- MODULE MCClientDocument --------------------------
(* Instances of ClientDocument for TLC.                                    *)
EXTENDS ClientDocument, TLC

\* A new document, as the server makes it: one item.  Any item will do, they
\* are interchangeable.
NewDocument == {AddAsChild(EmptyTree, Root, i, Nil) : i \in Item}
ItemSymmetry == Permutations(Item)
=============================================================================
