----------------------- MODULE ClientDocumentHistory ------------------------
(***************************************************************************)
(* ClientDocument with history variables that remember what the user saw,  *)
(* and the claim that it implements EditHistory.  Nothing in the code has  *)
(* these variables; no action of the document depends on them.             *)
(***************************************************************************)
EXTENDS ClientDocument

VARIABLES before,  \* for each entry of actionList, the view it was made in
          after,   \* for each entry of redoActionList, the view it was undone in
          remade   \* a CreateAction was made a second time

historyVars == <<before, after, remade>>

\* The tree the user sees, with its texts.
DocumentView == LET shown == InTree(tree) IN
  [x \in shown |-> [child |-> tree.firstChild[x], next |-> tree.next[x],
                    text |-> IF x = Root THEN EmptyText ELSE text[x]]]

Pop(s) == SubSeq(s, 1, Len(s) - 1)

HInit == Init /\ before = <<>> /\ after = <<>> /\ remade = FALSE

HNext ==
  \/ Command /\ before' = Append(before, DocumentView) /\ after' = <<>> /\ UNCHANGED remade
  \/ UndoLastAction /\ before' = Pop(before) /\ after' = Append(after, DocumentView)
                    /\ UNCHANGED remade
  \/ /\ RedoAction
     /\ before' = Append(before, DocumentView)
     /\ after' = Pop(after)
     /\ remade' = (remade \/ Last(redoActionList).kind = "create")
  \/ Save /\ UNCHANGED historyVars

HSpec == HInit /\ [][HNext]_<<vars, historyVars>>

---------------------------------------------------------------------------

EH == INSTANCE EditHistory WITH past <- before, present <- DocumentView,
                                future <- after, broken <- remade

\* Undo brings back exactly the tree and texts the last command found, redo
\* those the last undo left, whatever was done in between and from wherever
\* the items are now, until a creation is redone (CreateAction::make makes a
\* new item): the pointers an action captured still name the right places.
ImplementsEditHistory == EH!Spec

\* What the user sees is the document: an item has its widget on screen if and
\* only if findItem reaches it from the root.  Once a creation is redone after
\* an item that is out of the tree, the new item is on screen only.
ScreenIsDocument == remade \/ OnScreen = InTree(tree) \ {Root}
=============================================================================
