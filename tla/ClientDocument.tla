--------------------------- MODULE ClientDocument ---------------------------
(***************************************************************************)
(* ClientDocument (client/core.cpp): the item tree of one open document,   *)
(* the commands the user gives it, and its undo and redo lists.  Commands  *)
(* run one after the other on the GUI thread.  Every command but the edit  *)
(* of a text names an item whose widget is on screen, so the part of       *)
(* GuiControl that puts widgets on the screen and takes them off is here   *)
(* too (plugged).  Items are the ClientItem objects themselves: their ids  *)
(* belong to DocumentSync.                                                 *)
(***************************************************************************)
EXTENDS ItemTree

CONSTANTS MaxActions,  \* bound: entries of the undo and redo lists together
          InitialTrees \* what RemoteDB loaded before the first command

ASSUME MaxActionsAssumption == MaxActions \in Nat
ASSUME InitialTreesAssumption == \A t \in InitialTrees :
  /\ t \in Tree /\ LinksAgree(t) /\ ChainsEnd(t)
  /\ \A x \in Item \ InTree(t) : Unlinked(t, x)

VARIABLES tree,            \* rootItem and everything allocated below it
          text,            \* ClientItem::text
          heap,            \* the ClientItem objects allocated so far
          actionList,      \* done commands, the last one is undone first
          redoActionList,  \* undone commands, the last one is redone first
          modified,        \* ClientDocument::modified
          signals,         \* what the last step emitted, in order
          plugged          \* items whose newest widget sits in its parent's

docVars == <<tree, text, heap, actionList, redoActionList, modified>>
vars == <<docVars, signals, plugged>>

---------------------------------------------------------------------------
(* The four ClientAction classes.  The pointers are captured when the      *)
(* action is constructed and never refreshed, but for CreateAction::item.  *)

CreateAction == [kind : {"create"}, item : Item, parent : Node, prev : ItemOrNil]
DeleteAction == [kind : {"delete"}, item : Item, parent : Node, prev : ItemOrNil]
EditAction == [kind : {"edit"}, item : Item, before : Text, after : Text]
MoveAction == [kind : {"move"}, item : Item, oldParent : Node, oldPrev : ItemOrNil,
               newParent : Node, newPrev : ItemOrNil]

Action == CreateAction \cup DeleteAction \cup EditAction \cup MoveAction

Signal == [name : {"itemAdded", "itemCreated", "itemDeleted", "itemTextChanged",
                   "itemModified", "itemDoneChanged"}, item : Item]
          \cup [name : {"docSaved"}]

Sig(n, i) == [name |-> n, item |-> i]

\* The widgets of GuiControl: itemAdded makes a new widget, which holds no
\* child yet, itemDeleted unplugs the widget, itemModified plugs it again.
AddWidget(i) == [x \in Item |-> x = i \/ (plugged[x] /\ tree'.parent[x] # i)]
LeavePlugged(i) == plugged  \* the bug of forgetting to
UnplagItem(i) == [plugged EXCEPT ![i] = FALSE]
UpdateItemPosition(i) == [plugged EXCEPT ![i] = TRUE]

---------------------------------------------------------------------------
(* make() and revert().  Make(a, i): a is made, on the item i.             *)

\* A new item every time: redoing a creation does not bring the item back.
MakeCreate(p, i, b) ==
  /\ i \notin heap
  /\ tree' = AddAsChild(tree, p, i, b)
  /\ heap' = heap \cup {i}
  /\ text' = [text EXCEPT ![i] = EmptyText]
  /\ signals' = <<Sig("itemAdded", i), Sig("itemCreated", i)>>
  /\ plugged' = AddWidget(i)

DetachItem(i) ==
  /\ tree' = DetachFromTree(tree, i)
  /\ signals' = <<Sig("itemDeleted", i)>>
  /\ plugged' = UnplagItem(i)
  /\ UNCHANGED <<heap, text>>

MakeEdit(i, s) ==
  /\ text' = [text EXCEPT ![i] = s]
  /\ signals' = <<Sig("itemTextChanged", i)>>
  /\ UNCHANGED <<tree, heap, plugged>>

\* The bug of moving an item without taking it out first.
MakeMoveAttached(i, p, b) ==
  /\ tree' = AddAsChild(tree, p, i, b)
  /\ signals' = <<Sig("itemModified", i)>>
  /\ plugged' = UpdateItemPosition(i)
  /\ UNCHANGED <<heap, text>>

MakeMove(i, p, b) ==
  /\ tree' = AddAsChild(DetachFromTree(tree, i), p, i, b)
  /\ signals' = <<Sig("itemModified", i)>>
  /\ plugged' = UpdateItemPosition(i)
  /\ UNCHANGED <<heap, text>>

\* The action as it is after make().
On(a, i) ==
  IF a.kind = "create"
  THEN [kind |-> "create", item |-> i, parent |-> a.parent, prev |-> a.prev]
  ELSE a

Make(a, i) ==
  \/ a.kind = "create" /\ MakeCreate(a.parent, i, a.prev)
  \/ a.kind = "delete" /\ i = a.item /\ DetachItem(i)
  \/ a.kind = "edit" /\ i = a.item /\ MakeEdit(i, a.after)
  \/ a.kind = "move" /\ i = a.item /\ MakeMove(i, a.newParent, a.newPrev)

\* The bug of putting an item back first among its siblings.
AddItemFirst(i, p, b) ==
  /\ tree' = AddAsChild(tree, p, i, Nil)
  /\ signals' = <<Sig("itemAdded", i)>>
  /\ plugged' = AddWidget(i)
  /\ UNCHANGED <<heap, text>>

\* ClientDocument::addItem: only itemAdded, which the server is not told of.
AddItem(i, p, b) ==
  /\ tree' = AddAsChild(tree, p, i, b)
  /\ signals' = <<Sig("itemAdded", i)>>
  /\ plugged' = AddWidget(i)
  /\ UNCHANGED <<heap, text>>

Revert(a) ==
  \/ a.kind = "create" /\ DetachItem(a.item)
  \/ a.kind = "delete" /\ AddItem(a.item, a.parent, a.prev)
  \/ a.kind = "edit" /\ MakeEdit(a.item, a.before)
  \/ a.kind = "move" /\ MakeMove(a.item, a.oldParent, a.oldPrev)

---------------------------------------------------------------------------
(* The slots of ClientDocument.                                            *)

\* An item is on screen when its widget and those above it are plugged.
ClosedOnScreen(S) ==
  \A x \in Item : plugged[x] /\ tree.parent[x] \in S \cup {Root} => x \in S

OnScreen == {x \in Item : \A S \in SUBSET Item : x \in S \/ ~ClosedOnScreen(S)}

\* The bug of keeping what was undone when a new command arrives.
DoActionKeepingRedo(a) ==
  /\ Len(actionList) + Len(redoActionList) < MaxActions
  /\ \E i \in Item :
       Make(a, i) /\ actionList' = Append(actionList, On(a, i))
  /\ UNCHANGED redoActionList
  /\ modified' = TRUE

DoAction(a) ==
  /\ Len(actionList) < MaxActions
  /\ \E i \in Item :
       Make(a, i) /\ actionList' = Append(actionList, On(a, i))
  /\ redoActionList' = <<>>
  /\ modified' = TRUE

Create(p, b) ==
  DoAction([kind |-> "create", item |-> Nil, parent |-> p, prev |-> b])

Move(i, p, b) ==
  DoAction([kind |-> "move", item |-> i, oldParent |-> tree.parent[i],
            oldPrev |-> tree.prev[i], newParent |-> p, newPrev |-> b])

\* Ctrl+Return on an item.
NewChild == \E p \in OnScreen : Create(p, Nil)

\* Shift+Return on an item.
NewSibling == \E i \in OnScreen : Create(tree.parent[i], i)

RemoveItem == \E i \in OnScreen :
  /\ tree.firstChild[i] = Nil
  /\ DoAction([kind |-> "delete", item |-> i, parent |-> tree.parent[i],
               prev |-> tree.prev[i]])

\* A text field hands its text over up to a second after the last key, when the
\* item may be out of the tree already.
SetItemText == \E i \in heap \ {Root}, s \in Text :
  DoAction([kind |-> "edit", item |-> i, before |-> text[i], after |-> s])

MoveUp == \E i \in OnScreen :
  /\ tree.prev[i] # Nil
  /\ Move(i, tree.parent[i], tree.prev[tree.prev[i]])

MoveDown == \E i \in OnScreen :
  /\ tree.next[i] # Nil
  /\ Move(i, tree.parent[i], tree.next[i])

MoveLeft == \E i \in OnScreen :
  /\ tree.parent[i] # Root
  /\ Move(i, tree.parent[tree.parent[i]], tree.parent[i])

MoveRight == \E i \in OnScreen :
  /\ tree.prev[i] # Nil
  /\ Move(i, tree.prev[i], LastChild(tree, tree.prev[i]))

Save ==
  /\ signals' = <<[name |-> "docSaved"]>>
  /\ modified' = FALSE
  /\ UNCHANGED <<tree, text, heap, actionList, redoActionList, plugged>>

\* The bug of taking an undone document for one that is saved.
UndoLastActionKeepingModified ==
  /\ actionList # <<>>
  /\ LET done == actionList[Len(actionList)] IN
     Revert(done) /\ redoActionList' = Append(redoActionList, done)
  /\ actionList' = SubSeq(actionList, 1, Len(actionList) - 1)
  /\ UNCHANGED modified

UndoLastAction ==
  /\ actionList # <<>>
  /\ LET done == actionList[Len(actionList)] IN
     Revert(done) /\ redoActionList' = Append(redoActionList, done)
  /\ actionList' = SubSeq(actionList, 1, Len(actionList) - 1)
  /\ modified' = TRUE

RedoAction ==
  /\ redoActionList # <<>>
  /\ LET undone == redoActionList[Len(redoActionList)] IN
     \E i \in Item :
       Make(undone, i) /\ actionList' = Append(actionList, On(undone, i))
  /\ redoActionList' = SubSeq(redoActionList, 1, Len(redoActionList) - 1)
  /\ modified' = TRUE

---------------------------------------------------------------------------
Init ==
  /\ tree \in InitialTrees
  /\ text = [x \in Item |-> EmptyText]
  /\ heap = InTree(tree)
  /\ actionList = <<>>
  /\ redoActionList = <<>>
  /\ modified = FALSE
  /\ signals = <<>>
  /\ plugged = [x \in Item |-> x \in heap]

Command == \/ NewChild \/ NewSibling \/ RemoveItem \/ SetItemText
           \/ MoveUp \/ MoveDown \/ MoveLeft \/ MoveRight

Next == Command \/ Save \/ UndoLastAction \/ RedoAction

Spec == Init /\ [][Next]_vars

---------------------------------------------------------------------------
(* Properties.                                                             *)

\* Every variable has its type: the lists hold whole actions on real items,
\* so no command, undo or redo works on a null item or a null parent.
TypeOK ==
  /\ tree \in Tree
  /\ text \in [Item -> Text]
  /\ heap \in SUBSET Node /\ Root \in heap
  /\ actionList \in Seq(Action)
  /\ redoActionList \in Seq(Action)
  /\ modified \in BOOLEAN
  /\ signals \in Seq(Signal)
  /\ plugged \in [Item -> BOOLEAN]

\* Whatever was done, undone and redone, next and prev stay inverse to each
\* other, first children are first, and siblings share their parent, for the
\* items in the tree and for the detached ones the lists still point to
\* (detachFromTree and addAsChild, called by make() and revert()).
LinksConsistent == LinksAgree(tree)

\* Every loop over siblings, "while (child) child = child->getNext()", ends.
ChainsFinite == ChainsEnd(tree)

\* findItem and fillGui meet every item once: a command redone on items that
\* are not where they were makes no cycle and puts no item in two places.
TreeWellFormed == EnteredOnce(tree)

Last(s) == s[Len(s)]

\* The position undo and redo put an item back to still exists: the item it
\* goes after is a child of the parent it goes to, so addAsChild never logs
\* "Error: after->parent != this" and never puts an item first instead.
PlaceKept ==
  /\ \A x \in {Last(redoActionList) : k \in {1} \cap DOMAIN redoActionList} :
       /\ x.kind = "create" => ~WrongAfter(tree, x.parent, x.prev)
       /\ x.kind = "move" => ~WrongAfter(tree, x.newParent, x.newPrev)
  /\ \A x \in {Last(actionList) : k \in {1} \cap DOMAIN actionList} :
       /\ x.kind = "delete" => ~WrongAfter(tree, x.parent, x.prev)
       /\ x.kind = "move" => ~WrongAfter(tree, x.oldParent, x.oldPrev)

(* The strengthening that makes LinksConsistent inductive.                 *)

\* The items an action links next to each other when it is made or reverted.
Neighbours(x) ==
  CASE x.kind = "create" -> {x.prev} \ {Nil}
    [] x.kind = "delete" -> {x.prev} \ {Nil}
    [] x.kind = "move" -> {x.oldPrev, x.newPrev} \ {Nil}
    [] OTHER -> {}

Parents(x) ==
  CASE x.kind \in {"create", "delete"} -> {x.parent}
    [] x.kind = "move" -> {x.oldParent, x.newParent}
    [] OTHER -> {}

\* The items whose links an action writes or relies on; an edit has none.
Uses(x) == IF x.kind = "edit" THEN {} ELSE {x.item} \cup Neighbours(x)

Deletes(x, i) == x.kind = "delete" /\ x.item = i

\* An item that was never allocated is linked to nothing.
FreshUnlinked == \A x \in Item \ heap : Unlinked(tree, x) /\ ~plugged[x]

ListsAllocated == \A x \in {actionList[k] : k \in DOMAIN actionList}
                           \cup {redoActionList[k] : k \in DOMAIN redoActionList} :
  /\ {x.item} \cup Uses(x) \cup Parents(x) \subseteq heap
  /\ x.kind # "create" => x.item \notin Neighbours(x)

\* What a command of the undo list deleted is out of the tree and the screen.
DeletedDetached == \A k \in DOMAIN actionList : \A i \in Item :
  Deletes(actionList[k], i) => Detached(tree, i) /\ ~plugged[i]

\* No action that comes after a deletion links anything to the deleted item.
NoUseAfterDelete ==
  /\ \A j, k \in DOMAIN actionList : \A i \in Item :
       j < k /\ Deletes(actionList[j], i) => i \notin Uses(actionList[k])
  /\ \A j \in DOMAIN actionList, k \in DOMAIN redoActionList : \A i \in Item :
       Deletes(actionList[j], i) => i \notin Uses(redoActionList[k])
  /\ \A j, k \in DOMAIN redoActionList : \A i \in Item :
       k < j /\ Deletes(redoActionList[j], i) => i \notin Uses(redoActionList[k])

\* What make() and revert() of any listed action may rely on when they run: with
\* these the links survive every command, undo and redo.
IndInv ==
  /\ TypeOK
  /\ LinksConsistent
  /\ ChainsFinite
  /\ FreshUnlinked
  /\ ListsAllocated
  /\ DeletedDetached
  /\ NoUseAfterDelete
=============================================================================
