--------------------------- MODULE MCDocumentSync ---------------------------
(* Instances of DocumentSync for TLC.                                      *)
EXTENDS DocumentSync, TLC

CONSTANTS a, b, c

\* The document is empty until the server sends it.
NotLoaded == {EmptyTree}

Copy(t, ids, texts, marked) ==
  [tree |-> t, heap |-> InTree(t),
   text |-> [x \in Item |-> IF x \in DOMAIN texts THEN texts[x] ELSE EmptyText],
   done |-> [x \in Item |-> x \in marked],
   id |-> [x \in Node |-> IF x \in DOMAIN ids THEN ids[x] ELSE NoId]]

One == AddAsChild(EmptyTree, Root, a, Nil)
Flat == AddAsChild(One, Root, b, a)
Nested == AddAsChild(One, a, b, Nil)
Full == CHOOSE s \in Text : s # EmptyText

\* Two items in a row, or one below the other; ids in the order of creation or
\* not.
SmallCopies == {Copy(Flat, (a :> 3 @@ b :> 2), (a :> Full), {}),
                Copy(Nested, (a :> 1 @@ b :> 2), (a :> Full), {})}

\* Every way to nest three items, with all kinds of texts.
ThreeItems ==
  {AddAsChild(Flat, Root, c, b), AddAsChild(Flat, a, c, Nil), AddAsChild(Flat, b, c, Nil),
   AddAsChild(Nested, a, c, b), AddAsChild(Nested, b, c, Nil)}
LargeCopies == {Copy(t, (a :> 3 @@ b :> 1 @@ c :> 2), (a :> Full @@ c :> Full), {a, b}) : t \in ThreeItems}
=============================================================================
