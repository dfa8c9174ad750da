------------------------ MODULE ClientDocumentProofs ------------------------
(***************************************************************************)
(* Through any number of commands, undos and redos the sibling links of a  *)
(* document stay consistent, for any heap, any texts and any bound.        *)
(*                                                                         *)
(* The only risky step is DeleteAction::revert, which links an item        *)
(* without detaching it first.  It is safe because whatever is done after  *)
(* a deletion never links anything to the deleted item (NoUseAfterDelete), *)
(* also when it is undone and redone.                                      *)
(*                                                                         *)
(* From consistent links it follows that a traversal from the root meets   *)
(* every item once.  That every undo and redo finds the place it goes back *)
(* to is a second induction, over the parents all items had when each      *)
(* listed action was made.                                                 *)
(***************************************************************************)
EXTENDS ClientDocument, ItemTreeProofs, SequenceTheorems, FiniteSetTheorems

\* The part of the invariant that does not speak of the two lists.
HeapOK ==
  /\ tree \in Tree /\ text \in [Item -> Text]
  /\ heap \in SUBSET Node /\ Root \in heap
  /\ signals \in Seq(Signal) /\ plugged \in [Item -> BOOLEAN]
  /\ LinksConsistent /\ ChainsFinite /\ FreshUnlinked

\* Out of the tree and off the screen.
Gone(d) == Detached(tree, d) /\ ~plugged[d]

\* What is gone stays gone, but for the items in U.
Keeps(U) == \A d \in Item \ U : Gone(d) => Gone(d)'

\* Taking an item out writes to allocated items only.
LEMMA DetachFresh ==
  ASSUME HeapOK, NEW i \in Item, i \in heap, NEW x \in Item \ heap
  PROVE  Unlinked(DetachFromTree(tree, i), x)
<1>1. Unlinked(tree, x) /\ x # i
  BY DEF HeapOK, FreshUnlinked
<1>2. x # tree.prev[i] /\ x # tree.next[i]
  BY <1>1, NodeAssumption DEF HeapOK, LinksConsistent, LinksAgree, Unlinked, Item
<1>3. tree.firstChild[x] # i
  BY <1>1, NodeAssumption DEF Unlinked, Item
<1>4. QED BY <1>1, <1>2, <1>3, DetachFields DEF HeapOK, Unlinked, Item

\* So does linking one.
LEMMA AddFresh ==
  ASSUME NEW t \in Tree, LinksAgree(t), NEW H \in SUBSET Node,
         \A x \in Item \ H : Unlinked(t, x),
         NEW p \in H, NEW i \in Item, NEW a \in ItemOrNil, a \in H \cup {Nil},
         NEW x \in Item \ H, x # i
  PROVE  Unlinked(AddAsChild(t, p, i, a), x)
<1> DEFINE b == IF WrongAfter(t, p, a) THEN Nil ELSE a
           f == IF b = Nil THEN t.firstChild[p] ELSE t.next[b]
<1>1. b \in ItemOrNil /\ AddAsChild(t, p, i, a) = InsertAfter(t, p, i, b)
  BY DEF AddAsChild, ItemOrNil
<1>2. Unlinked(t, x) /\ x # p /\ x # b /\ x \in Node /\ x # Nil
  BY NodeAssumption DEF Item
<1>3. x # f
  BY <1>1, <1>2, NodeAssumption DEF LinksAgree, Unlinked, ItemOrNil, Item
<1> HIDE DEF b
<1>4. QED BY <1>1, <1>2, <1>3, InsertFields DEF Unlinked

---------------------------------------------------------------------------
(* The four ways a step changes the heap.                                  *)

\* CreateAction::make
LEMMA MakeCreateKeeps ==
  ASSUME HeapOK, NEW p \in heap, NEW i \in Item, NEW b \in ItemOrNil,
         b \in heap \cup {Nil}, MakeCreate(p, i, b)
  PROVE  HeapOK' /\ heap \subseteq heap' /\ i \in heap' \ heap /\ Keeps({i, b})
<1>1. Unlinked(tree, i) /\ i \notin heap /\ i \in Node /\ i # Nil /\ b # i /\ p \in Node
  BY NodeAssumption DEF HeapOK, FreshUnlinked, MakeCreate, Item, ItemOrNil
<1>2. Detached(tree, i)
  BY <1>1, NodeAssumption DEF HeapOK, LinksConsistent, LinksAgree, Detached, Unlinked, Item
<1>3. /\ tree' \in Tree /\ LinksConsistent' /\ ChainsFinite'
      /\ \A d \in Item \ {i, b} : Detached(tree, d) => Detached(tree', d)
  BY <1>1, <1>2, AddAsChildKeeps DEF HeapOK, LinksConsistent, ChainsFinite, MakeCreate
<1>4. \A x \in Item : x # i /\ ~plugged[x] => ~plugged'[x]
  BY DEF MakeCreate, AddWidget
<1>5. FreshUnlinked'
  <2>1. SUFFICES ASSUME NEW x \in Item \ heap' PROVE Unlinked(tree', x) /\ ~plugged'[x]
    BY DEF FreshUnlinked
  <2>2. x \in Item \ heap /\ x # i
    BY DEF MakeCreate
  <2>3. QED BY <2>2, <1>4, AddFresh DEF HeapOK, LinksConsistent, FreshUnlinked, MakeCreate
<1>6. /\ text' \in [Item -> Text] /\ heap' \in SUBSET Node /\ Root \in heap'
      /\ signals' \in Seq(Signal) /\ plugged' \in [Item -> BOOLEAN]
      /\ heap \subseteq heap' /\ i \in heap' \ heap
  <2>1. signals' \in Seq(Signal)
    BY DEF MakeCreate, Sig, Signal
  <2>2. plugged' \in [Item -> BOOLEAN]
    BY DEF MakeCreate, AddWidget, HeapOK
  <2>3. QED BY <2>1, <2>2, <1>1, TextAssumption DEF MakeCreate, HeapOK
<1>7. QED BY <1>3, <1>4, <1>5, <1>6 DEF HeapOK, Keeps, Gone

\* DeleteAction::make and CreateAction::revert
LEMMA DetachItemKeeps ==
  ASSUME HeapOK, NEW i \in Item, i \in heap, DetachItem(i)
  PROVE  HeapOK' /\ heap \subseteq heap' /\ Keeps({i}) /\ Gone(i)'
<1>1. /\ tree' \in Tree /\ LinksConsistent' /\ ChainsFinite' /\ Detached(tree', i)
      /\ \A d \in Item \ {i} : Detached(tree, d) => Detached(tree', d)
  BY DetachTyped, DetachLinks, DetachChains, DetachDetaches, DetachKeepsDetached
     DEF HeapOK, LinksConsistent, ChainsFinite, DetachItem
<1>2. FreshUnlinked'
  BY DetachFresh DEF DetachItem, UnplagItem, HeapOK, FreshUnlinked
<1>3. signals' \in Seq(Signal)
  BY DEF DetachItem, Sig, Signal
<1>4. /\ text' \in [Item -> Text] /\ heap' = heap /\ plugged' \in [Item -> BOOLEAN]
      /\ ~plugged'[i] /\ \A x \in Item : ~plugged[x] => ~plugged'[x]
  BY DEF DetachItem, UnplagItem, HeapOK
<1>5. QED BY <1>1, <1>2, <1>3, <1>4 DEF HeapOK, Keeps, Gone

\* EditAction::make and revert
LEMMA MakeEditKeeps ==
  ASSUME HeapOK, NEW i \in Item, NEW s \in Text, MakeEdit(i, s)
  PROVE  HeapOK' /\ heap \subseteq heap' /\ Keeps({})
<1>1. signals' \in Seq(Signal)
  BY DEF MakeEdit, Sig, Signal
<1>2. text' \in [Item -> Text] /\ UNCHANGED <<tree, heap, plugged>>
  BY DEF MakeEdit, HeapOK
<1>3. QED
  BY <1>1, <1>2 DEF HeapOK, Keeps, Gone, LinksConsistent, ChainsFinite, FreshUnlinked

\* MoveAction::make and revert: the item is detached before it is linked.
LEMMA MakeMoveKeeps ==
  ASSUME HeapOK, NEW p \in heap, NEW i \in Item, i \in heap, NEW b \in ItemOrNil,
         b \in heap \cup {Nil}, b # i, MakeMove(i, p, b)
  PROVE  HeapOK' /\ heap \subseteq heap' /\ Keeps({i, b})
<1> DEFINE t == DetachFromTree(tree, i)
<1>1. /\ t \in Tree /\ LinksAgree(t) /\ ChainsEnd(t) /\ Detached(t, i) /\ p \in Node
      /\ \A d \in Item \ {i} : Detached(tree, d) => Detached(t, d)
  BY DetachTyped, DetachLinks, DetachChains, DetachDetaches, DetachKeepsDetached
     DEF HeapOK, LinksConsistent, ChainsFinite
<1>2. \A x \in Item \ heap : Unlinked(t, x)
  BY DetachFresh
<1>3. tree' = AddAsChild(t, p, i, b)
  BY DEF MakeMove
<1> HIDE DEF t
<1>4. /\ tree' \in Tree /\ LinksConsistent' /\ ChainsFinite'
      /\ \A d \in Item \ {i, b} : Detached(t, d) => Detached(tree', d)
  BY <1>1, <1>3, AddAsChildKeeps DEF LinksConsistent, ChainsFinite
<1>5. /\ text' \in [Item -> Text] /\ heap' = heap /\ plugged' \in [Item -> BOOLEAN]
      /\ \A x \in Item : x # i /\ ~plugged[x] => ~plugged'[x]
  BY DEF MakeMove, UpdateItemPosition, HeapOK
<1>6. FreshUnlinked'
  <2>1. SUFFICES ASSUME NEW x \in Item \ heap PROVE Unlinked(tree', x) /\ ~plugged'[x]
    BY <1>5 DEF FreshUnlinked
  <2>2. Unlinked(tree', x)
    BY <1>1, <1>2, <1>3, AddFresh DEF HeapOK
  <2>3. QED BY <2>2, <1>5 DEF HeapOK, FreshUnlinked
<1>7. signals' \in Seq(Signal)
  BY DEF MakeMove, Sig, Signal
<1>8. QED BY <1>1, <1>4, <1>5, <1>6, <1>7 DEF HeapOK, Keeps, Gone

\* DeleteAction::revert: nothing is detached first, so the item must be.
LEMMA AddItemKeeps ==
  ASSUME HeapOK, NEW p \in heap, NEW i \in Item, i \in heap, NEW b \in ItemOrNil,
         b \in heap \cup {Nil}, b # i, Detached(tree, i), AddItem(i, p, b)
  PROVE  HeapOK' /\ heap \subseteq heap' /\ Keeps({i, b})
<1>1. /\ tree' \in Tree /\ LinksConsistent' /\ ChainsFinite'
      /\ \A d \in Item \ {i, b} : Detached(tree, d) => Detached(tree', d)
  BY AddAsChildKeeps DEF HeapOK, LinksConsistent, ChainsFinite, AddItem
<1>2. /\ text' \in [Item -> Text] /\ heap' = heap /\ plugged' \in [Item -> BOOLEAN]
      /\ \A x \in Item : x # i /\ ~plugged[x] => ~plugged'[x]
  BY DEF AddItem, AddWidget, HeapOK
<1>3. FreshUnlinked'
  <2>1. SUFFICES ASSUME NEW x \in Item \ heap PROVE Unlinked(tree', x) /\ ~plugged'[x]
    BY <1>2 DEF FreshUnlinked
  <2>2. Unlinked(tree', x)
    BY AddFresh DEF HeapOK, LinksConsistent, FreshUnlinked, AddItem
  <2>3. QED BY <2>2, <1>2 DEF HeapOK, FreshUnlinked
<1>4. signals' \in Seq(Signal)
  BY DEF AddItem, Sig, Signal
<1>5. QED BY <1>1, <1>2, <1>3, <1>4 DEF HeapOK, Keeps, Gone

---------------------------------------------------------------------------
(* make() and revert() of any action.                                      *)

\* What ListsAllocated says of one action, and of one not yet made.
Allocated(x) == /\ {x.item} \cup Uses(x) \cup Parents(x) \subseteq heap
                /\ x.kind # "create" => x.item \notin Neighbours(x)

Makeable(x) ==
  \/ /\ x.kind = "create" /\ x.parent \in heap /\ x.prev \in ItemOrNil
     /\ x.prev \in heap \cup {Nil}
  \/ x \in Action /\ x.kind # "create" /\ Allocated(x)

\* The items in an action: all are real, and none is null.
LEMMA ActionItems ==
  ASSUME NEW x \in Action
  PROVE  x.item \in Item /\ Uses(x) \subseteq Item /\ Nil \notin Uses(x)
BY NodeAssumption
   DEF Action, CreateAction, DeleteAction, EditAction, MoveAction, Uses, Neighbours,
       ItemOrNil, Item

\* Making an action keeps the heap in order and what is gone gone, but for the
\* items it uses; a deletion makes its item gone.
LEMMA MakeKeeps ==
  ASSUME HeapOK, NEW x, Makeable(x), NEW i \in Item, Make(x, i)
  PROVE  LET y == On(x, i) IN
         /\ HeapOK' /\ heap \subseteq heap'
         /\ y \in Action /\ Allocated(y)' /\ Keeps(Uses(y))
         /\ x.kind = "create" => Uses(y) = {i} \cup Neighbours(x) /\ i \notin heap
         /\ x.kind # "create" => y = x
         /\ x.kind = "delete" => Gone(x.item)'
<1> DEFINE y == On(x, i)
<1>1. CASE x.kind = "create"
  <2>1. x.parent \in heap /\ x.prev \in ItemOrNil /\ x.prev \in heap \cup {Nil}
    BY <1>1 DEF Makeable
  <2>2. /\ y = [kind |-> "create", item |-> i, parent |-> x.parent, prev |-> x.prev]
        /\ y \in CreateAction /\ y \in Action
    BY <1>1, <2>1 DEF On, Action, CreateAction, HeapOK
  <2>3. Uses(y) = {i} \cup ({x.prev} \ {Nil}) /\ Parents(y) = {x.parent}
    BY <2>2 DEF Uses, Neighbours, Parents
  <2>4. HeapOK' /\ heap \subseteq heap' /\ i \in heap' \ heap /\ Keeps({i, x.prev})
    BY <1>1, <2>1, MakeCreateKeeps DEF Make
  <2>5. Allocated(y)' /\ Keeps(Uses(y))
    <3>1. Allocated(y)'
      BY <2>1, <2>2, <2>3, <2>4 DEF Allocated
    <3>2. \A d \in Item : d \notin Uses(y) => d \notin {i, x.prev}
      BY <2>3, NodeAssumption DEF Item
    <3>3. QED BY <3>1, <3>2, <2>4 DEF Keeps
  <2>6. Neighbours(x) = {x.prev} \ {Nil}
    BY <1>1 DEF Neighbours
  <2>7. QED BY <1>1, <2>2, <2>3, <2>4, <2>5, <2>6
<1>2. CASE x.kind # "create"
  <2>1. /\ x \in Action /\ Allocated(x) /\ y = x /\ i = x.item /\ i \in heap
        /\ (x.kind # "edit" => x.item \in Uses(x))
    BY <1>2 DEF Makeable, On, Make, Allocated, Uses
  <2>2. CASE x.kind = "delete"
    <3>1. HeapOK' /\ heap \subseteq heap' /\ Keeps({i}) /\ Gone(i)'
      BY <2>1, <2>2, DetachItemKeeps DEF Make
    <3>2. QED BY <1>2, <2>1, <3>1 DEF Keeps, Allocated
  <2>3. CASE x.kind = "edit"
    <3>1. x.after \in Text
      BY <2>1, <2>3 DEF Action, CreateAction, DeleteAction, EditAction, MoveAction
    <3>2. HeapOK' /\ heap \subseteq heap' /\ Keeps({})
      BY <2>3, <3>1, MakeEditKeeps DEF Make
    <3>3. QED BY <1>2, <2>1, <2>3, <3>2 DEF Keeps, Allocated
  <2>4. CASE x.kind = "move"
    <3>1. /\ x.newParent \in heap /\ x.newPrev \in ItemOrNil
          /\ x.newPrev \in heap \cup {Nil} /\ x.newPrev # i
          /\ x.newPrev # Nil => x.newPrev \in Uses(x)
      BY <2>1, <2>4, NodeAssumption
         DEF Action, CreateAction, DeleteAction, EditAction, MoveAction,
             Allocated, Uses, Neighbours, Parents, Item
    <3>2. HeapOK' /\ heap \subseteq heap' /\ Keeps({i, x.newPrev})
      BY <2>1, <2>4, <3>1, MakeMoveKeeps DEF Make
    <3>3. \A d \in Item : d \notin Uses(x) => d \notin {i, x.newPrev}
      BY <2>1, <2>4, <3>1, NodeAssumption DEF Item
    <3>4. QED BY <1>2, <2>1, <2>4, <3>2, <3>3 DEF Keeps, Allocated
  <2>5. QED BY <1>2, <2>2, <2>3, <2>4 DEF Make
<1>3. QED BY <1>1, <1>2

\* So does reverting one; a deletion is reverted when its item is still gone.
LEMMA RevertKeeps ==
  ASSUME HeapOK, NEW x \in Action, Allocated(x), Revert(x),
         x.kind = "delete" => Detached(tree, x.item)
  PROVE  HeapOK' /\ heap \subseteq heap' /\ Keeps(Uses(x))
<1>1. x.item \in Item /\ x.item \in heap /\ (x.kind # "edit" => x.item \in Uses(x))
  BY ActionItems DEF Allocated, Uses
<1>2. CASE x.kind = "create"
  BY <1>1, <1>2, DetachItemKeeps DEF Revert, Keeps
<1>3. CASE x.kind = "delete"
  <2>1. /\ x.parent \in heap /\ x.prev \in ItemOrNil
        /\ x.prev \in heap \cup {Nil} /\ x.prev # x.item
        /\ x.prev # Nil => x.prev \in Uses(x)
    BY <1>3, <1>1, NodeAssumption
       DEF Action, CreateAction, DeleteAction, EditAction, MoveAction,
           Allocated, Uses, Neighbours, Parents, Item
  <2>2. HeapOK' /\ heap \subseteq heap' /\ Keeps({x.item, x.prev})
    BY <1>1, <1>3, <2>1, AddItemKeeps DEF Revert
  <2>3. QED BY <1>1, <1>3, <2>1, <2>2, NodeAssumption DEF Keeps, Item
<1>4. CASE x.kind = "edit"
  <2>1. x.before \in Text
    BY <1>4 DEF Action, CreateAction, DeleteAction, EditAction, MoveAction
  <2>2. QED BY <1>1, <1>4, <2>1, MakeEditKeeps DEF Revert, Keeps
<1>5. CASE x.kind = "move"
  <2>1. /\ x.oldParent \in heap /\ x.oldPrev \in ItemOrNil
        /\ x.oldPrev \in heap \cup {Nil} /\ x.oldPrev # x.item
        /\ x.oldPrev # Nil => x.oldPrev \in Uses(x)
    BY <1>5, <1>1, NodeAssumption
       DEF Action, CreateAction, DeleteAction, EditAction, MoveAction,
           Allocated, Uses, Neighbours, Parents, Item
  <2>2. HeapOK' /\ heap \subseteq heap' /\ Keeps({x.item, x.oldPrev})
    BY <1>1, <1>5, <2>1, MakeMoveKeeps DEF Revert
  <2>3. QED BY <1>1, <1>5, <2>1, <2>2, NodeAssumption DEF Keeps, Item
<1>6. QED BY <1>2, <1>3, <1>4, <1>5 DEF Revert

---------------------------------------------------------------------------
(* The two lists.                                                          *)

\* The parts of the invariant, as the lemmas above use them.
LEMMA Parts ==
  ASSUME TypeOK
  PROVE  IndInv <=> /\ HeapOK
                    /\ \A k \in 1..Len(actionList) : Allocated(actionList[k])
                    /\ \A k \in 1..Len(redoActionList) : Allocated(redoActionList[k])
                    /\ \A k \in 1..Len(actionList) : \A d \in Item :
                         Deletes(actionList[k], d) => Gone(d)
                    /\ NoUseAfterDelete
<1>1. DOMAIN actionList = 1..Len(actionList) /\ DOMAIN redoActionList = 1..Len(redoActionList)
  BY DEF TypeOK
<1>2. ListsAllocated <=> /\ \A k \in 1..Len(actionList) : Allocated(actionList[k])
                         /\ \A k \in 1..Len(redoActionList) : Allocated(redoActionList[k])
  BY <1>1 DEF ListsAllocated, Allocated
<1>3. DeletedDetached <=> \A k \in 1..Len(actionList) : \A d \in Item :
                            Deletes(actionList[k], d) => Gone(d)
  BY <1>1 DEF DeletedDetached, Gone
<1>4. QED BY <1>2, <1>3 DEF IndInv, HeapOK, TypeOK

\* They make up the invariant again after a step.
LEMMA Reassemble ==
  ASSUME TypeOK', HeapOK', NoUseAfterDelete',
         \A k \in 1..Len(actionList') : Allocated(actionList[k])',
         \A k \in 1..Len(redoActionList') : Allocated(redoActionList[k])',
         \A k \in 1..Len(actionList') : \A d \in Item :
           Deletes(actionList'[k], d) => Gone(d)'
  PROVE  IndInv'
<1>1. /\ DOMAIN actionList' = 1..Len(actionList')
      /\ DOMAIN redoActionList' = 1..Len(redoActionList')
  BY DEF TypeOK
<1>2. ListsAllocated'
  BY <1>1 DEF ListsAllocated, Allocated
<1>3. DeletedDetached'
  BY <1>1 DEF DeletedDetached, Gone
<1>4. QED BY <1>2, <1>3 DEF IndInv, HeapOK

\* Popping the last entry of a list keeps the others.
LEMMA PopProperties ==
  ASSUME NEW S, NEW s \in Seq(S), s # <<>>
  PROVE  LET r == SubSeq(s, 1, Len(s) - 1) IN
         /\ Len(s) \in Nat /\ Len(s) > 0 /\ s[Len(s)] \in S
         /\ r \in Seq(S) /\ Len(r) = Len(s) - 1
         /\ \A k \in 1..Len(s) - 1 : r[k] = s[k]
<1>1. Len(s) \in Nat /\ Len(s) > 0
  OBVIOUS
<1>2. 1 \in 1..Len(s) + 1 /\ Len(s) - 1 \in 0..Len(s)
  BY <1>1
<1>3. s[Len(s)] \in S
  BY <1>1
<1>4. PICK n \in Nat : n = Len(s) - 1 /\ 1 \in Int /\ n \in Int
  BY <1>1
<1>5. \A k \in 1..n : s[k] \in S
  BY <1>1, <1>4
<1>6. SubSeq(s, 1, n) \in Seq(S)
  BY <1>4, <1>5, SubSeqProperties
<1>7. /\ Len(SubSeq(s, 1, n)) = n
      /\ \A k \in 1..n : SubSeq(s, 1, n)[k] = s[k]
  BY <1>1, <1>4
<1>8. QED BY <1>1, <1>3, <1>4, <1>6, <1>7

\* Pushing an entry does too.
LEMMA PushProperties ==
  ASSUME NEW S, NEW s \in Seq(S), NEW e \in S
  PROVE  LET r == Append(s, e) IN
         /\ r \in Seq(S) /\ Len(r) = Len(s) + 1 /\ r[Len(s) + 1] = e
         /\ \A k \in 1..Len(s) : r[k] = s[k]
OBVIOUS

\* More objects on the heap do no harm to an action.
LEMMA StaysAllocated ==
  ASSUME heap \subseteq heap'
  PROVE  \A x : Allocated(x) => /\ {x.item} \cup Uses(x) \cup Parents(x) \subseteq heap'
                                /\ x.kind # "create" => x.item \notin Neighbours(x)
BY DEF Allocated

\* doAction, for an action that uses nothing the undo list deleted.
LEMMA DoActionKeeps ==
  ASSUME IndInv, NEW x, Makeable(x), DoAction(x),
         \A d \in Item : Gone(d) => d \notin Uses(x)
  PROVE  IndInv'
<1>1. PICK i \in Item : Make(x, i) /\ actionList' = Append(actionList, On(x, i))
  BY DEF DoAction
<1> DEFINE y == On(x, i)
           n == Len(actionList)
<1>2. HeapOK /\ actionList \in Seq(Action) /\ n \in Nat
  BY Parts DEF IndInv, TypeOK
<1>3. /\ HeapOK' /\ heap \subseteq heap' /\ y \in Action /\ Allocated(y)' /\ Keeps(Uses(y))
      /\ x.kind = "create" => Uses(y) = {i} \cup Neighbours(x) /\ i \notin heap
      /\ x.kind # "create" => y = x
      /\ x.kind = "delete" => Gone(x.item)'
  BY <1>1, <1>2, MakeKeeps
<1>4. /\ actionList' \in Seq(Action) /\ Len(actionList') = n + 1
      /\ actionList'[n + 1] = y /\ \A k \in 1..n : actionList'[k] = actionList[k]
      /\ redoActionList' = <<>> /\ modified' = TRUE
  BY <1>1, <1>2, <1>3 DEF DoAction
<1> HIDE DEF y, n
<1>5. TypeOK'
  BY <1>3, <1>4 DEF TypeOK, HeapOK
<1>6. \A k \in 1..n : /\ Allocated(actionList[k]) /\ actionList[k].item \in heap
                       /\ \A d \in Item : Deletes(actionList[k], d) => Gone(d) /\ d \in heap
  BY Parts DEF IndInv, n, Allocated, Uses, Deletes
<1>7. \A k \in 1..n : \A d \in Item : Deletes(actionList[k], d) => d \notin Uses(y)
  BY <1>3, <1>6 DEF Uses
<1>8. \A k \in 1..Len(actionList') : Allocated(actionList[k])'
  BY <1>2, <1>3, <1>4, <1>6 DEF Allocated
<1>9. \A k \in 1..Len(actionList') : \A d \in Item : Deletes(actionList'[k], d) => Gone(d)'
  <2>1. \A k \in 1..n : \A d \in Item : Deletes(actionList'[k], d) => Gone(d)'
    BY <1>3, <1>4, <1>6, <1>7 DEF Keeps
  <2>2. \A d \in Item : Deletes(y, d) => Gone(d)'
    <3>1. x.kind = "create" => y.kind = "create"
      BY DEF On, y
    <3>2. QED BY <1>3, <3>1 DEF Deletes
  <2>3. QED BY <2>1, <2>2, <1>2, <1>4
<1>10. NoUseAfterDelete'
  <2>1. \A j, k \in 1..n + 1 : \A d \in Item :
          j < k /\ Deletes(actionList'[j], d) => d \notin Uses(actionList'[k])
    <3>1. \A j, k \in 1..n : \A d \in Item :
            j < k /\ Deletes(actionList[j], d) => d \notin Uses(actionList[k])
      BY <1>2 DEF IndInv, NoUseAfterDelete, n
    <3>2. QED BY <3>1, <1>2, <1>4, <1>7
  <2>2. DOMAIN actionList' = 1..n + 1 /\ DOMAIN redoActionList' = {}
    BY <1>2, <1>4
  <2>3. QED BY <2>1, <2>2 DEF NoUseAfterDelete
<1>11. \A k \in 1..Len(redoActionList') : Allocated(redoActionList[k])'
  BY <1>4
<1>12. QED BY <1>3, <1>5, <1>8, <1>9, <1>10, <1>11, Reassemble

\* Undo: the entry leaves the undo list for the redo list.
LEMMA UndoKeeps ==
  ASSUME IndInv, UndoLastAction
  PROVE  IndInv'
<1>1. HeapOK /\ actionList \in Seq(Action) /\ redoActionList \in Seq(Action) /\ actionList # <<>>
  BY Parts DEF IndInv, TypeOK, UndoLastAction
<1>2. PICK n \in Nat, m \in Nat, x \in Action :
        n > 0 /\ n = Len(actionList) /\ m = Len(redoActionList) /\ x = actionList[n]
  BY <1>1, PopProperties
<1>3. /\ \A k \in 1..n : Allocated(actionList[k])
      /\ \A k \in 1..m : Allocated(redoActionList[k])
      /\ \A k \in 1..n : \A d \in Item : Deletes(actionList[k], d) => Gone(d)
      /\ \A j, k \in 1..n : \A d \in Item :
           j < k /\ Deletes(actionList[j], d) => d \notin Uses(actionList[k])
      /\ \A j \in 1..n, k \in 1..m : \A d \in Item :
           Deletes(actionList[j], d) => d \notin Uses(redoActionList[k])
      /\ \A j, k \in 1..m : \A d \in Item :
           k < j /\ Deletes(redoActionList[j], d) => d \notin Uses(redoActionList[k])
  BY <1>1, <1>2, Parts DEF IndInv, NoUseAfterDelete
<1>4. /\ actionList' \in Seq(Action) /\ Len(actionList') = n - 1
      /\ \A k \in 1..n - 1 : actionList'[k] = actionList[k]
  BY <1>1, <1>2, PopProperties DEF UndoLastAction
<1>5. /\ redoActionList' \in Seq(Action) /\ Len(redoActionList') = m + 1
      /\ redoActionList'[m + 1] = x
      /\ \A k \in 1..m : redoActionList'[k] = redoActionList[k]
  BY <1>1, <1>2, PushProperties DEF UndoLastAction
<1>6. Allocated(x) /\ (x.kind = "delete" => Gone(x.item)) /\ Revert(x)
  BY <1>2, <1>3, ActionItems DEF Deletes, UndoLastAction
<1>7. HeapOK' /\ heap \subseteq heap' /\ Keeps(Uses(x))
  BY <1>1, <1>6, RevertKeeps DEF Gone
<1>8. TypeOK'
  BY <1>4, <1>5, <1>7 DEF TypeOK, HeapOK, UndoLastAction
<1>9. \A k \in 1..Len(actionList') : Allocated(actionList[k])'
  <2>1. \A k \in 1..n - 1 : Allocated(actionList'[k])
    BY <1>2, <1>3, <1>4
  <2>2. QED BY <2>1, <1>4, <1>7, StaysAllocated DEF Allocated
<1>10. \A k \in 1..Len(redoActionList') : Allocated(redoActionList[k])'
  <2>1. \A k \in 1..m + 1 : Allocated(redoActionList'[k])
    BY <1>2, <1>3, <1>5, <1>6
  <2>2. QED BY <2>1, <1>5, <1>7, StaysAllocated DEF Allocated
<1>11. \A k \in 1..Len(actionList') : \A d \in Item : Deletes(actionList'[k], d) => Gone(d)'
  BY <1>2, <1>3, <1>4, <1>7 DEF Keeps
<1>12. NoUseAfterDelete'
  <2>1. \A j, k \in 1..n - 1 : \A d \in Item :
          j < k /\ Deletes(actionList'[j], d) => d \notin Uses(actionList'[k])
    BY <1>2, <1>3, <1>4
  <2>2. \A j \in 1..n - 1, k \in 1..m + 1 : \A d \in Item :
          Deletes(actionList'[j], d) => d \notin Uses(redoActionList'[k])
    BY <1>2, <1>3, <1>4, <1>5
  <2>3. \A j, k \in 1..m + 1 : \A d \in Item :
          k < j /\ Deletes(redoActionList'[j], d) => d \notin Uses(redoActionList'[k])
    <3>1. \A k \in 1..m : \A d \in Item :
            Deletes(redoActionList'[m + 1], d) => d \notin Uses(redoActionList'[k])
      BY <1>2, <1>3, <1>5
    <3>2. \A j, k \in 1..m : \A d \in Item :
            k < j /\ Deletes(redoActionList'[j], d) => d \notin Uses(redoActionList'[k])
      BY <1>3, <1>5
    <3>3. QED BY <3>1, <3>2, <1>2
  <2>4. DOMAIN actionList' = 1..n - 1 /\ DOMAIN redoActionList' = 1..m + 1
    BY <1>4, <1>5
  <2>5. QED BY <2>1, <2>2, <2>3, <2>4 DEF NoUseAfterDelete
<1>13. QED BY <1>7, <1>8, <1>9, <1>10, <1>11, <1>12, Reassemble

\* Redo: the entry leaves the redo list for the undo list, a creation with a
\* new item.
LEMMA RedoKeeps ==
  ASSUME IndInv, RedoAction
  PROVE  IndInv'
<1>1. HeapOK /\ actionList \in Seq(Action) /\ redoActionList \in Seq(Action) /\ redoActionList # <<>>
  BY Parts DEF IndInv, TypeOK, RedoAction
<1>2. PICK n \in Nat, m \in Nat, x \in Action :
        m > 0 /\ n = Len(actionList) /\ m = Len(redoActionList) /\ x = redoActionList[m]
  BY <1>1, PopProperties
<1>3. /\ \A k \in 1..n : Allocated(actionList[k])
      /\ \A k \in 1..m : Allocated(redoActionList[k])
      /\ \A k \in 1..n : \A d \in Item : Deletes(actionList[k], d) => Gone(d)
      /\ \A j, k \in 1..n : \A d \in Item :
           j < k /\ Deletes(actionList[j], d) => d \notin Uses(actionList[k])
      /\ \A j \in 1..n, k \in 1..m : \A d \in Item :
           Deletes(actionList[j], d) => d \notin Uses(redoActionList[k])
      /\ \A j, k \in 1..m : \A d \in Item :
           k < j /\ Deletes(redoActionList[j], d) => d \notin Uses(redoActionList[k])
  BY <1>1, <1>2, Parts DEF IndInv, NoUseAfterDelete
<1>4. PICK i \in Item : Make(x, i) /\ actionList' = Append(actionList, On(x, i))
  BY <1>2 DEF RedoAction
<1>5. PICK y : y = On(x, i)
  OBVIOUS
<1>6. Makeable(x)
  <2>1. Allocated(x)
    BY <1>2, <1>3
  <2>2. CASE x.kind = "create"
    <3>1. x \in CreateAction
      BY <2>2 DEF Action, CreateAction, DeleteAction, EditAction, MoveAction
    <3>2. QED
      BY <2>1, <2>2, <3>1 DEF Makeable, Allocated, Uses, Neighbours, Parents, CreateAction
  <2>3. QED BY <2>1, <2>2 DEF Makeable
<1>7. /\ HeapOK' /\ heap \subseteq heap' /\ y \in Action /\ Keeps(Uses(y))
      /\ x.kind = "create" => Uses(y) = {i} \cup Neighbours(x) /\ i \notin heap
      /\ x.kind # "create" => y = x
      /\ x.kind = "delete" => Gone(x.item)'
      /\ Allocated(y)'
  BY <1>1, <1>4, <1>5, <1>6, MakeKeeps
<1>8. x.kind = "create" => y.kind = "create"
  BY <1>5 DEF On
<1>9. /\ actionList' \in Seq(Action) /\ Len(actionList') = n + 1
      /\ actionList'[n + 1] = y /\ \A k \in 1..n : actionList'[k] = actionList[k]
  BY <1>1, <1>2, <1>4, <1>5, <1>7, PushProperties
<1>10. /\ redoActionList' \in Seq(Action) /\ Len(redoActionList') = m - 1
       /\ \A k \in 1..m - 1 : redoActionList'[k] = redoActionList[k]
  BY <1>1, <1>2, PopProperties DEF RedoAction
<1>11. TypeOK'
  BY <1>7, <1>9, <1>10 DEF TypeOK, HeapOK, RedoAction
<1>12. \A k \in 1..n : \A d \in Item :
         Deletes(actionList[k], d) => Gone(d) /\ d \notin Uses(y)
  <2>1. \A k \in 1..n : \A d \in Item : Deletes(actionList[k], d) => d \in heap
    BY <1>3 DEF Allocated, Uses, Deletes
  <2>2. x.kind = "create" => Neighbours(x) \subseteq Uses(x)
    BY DEF Uses
  <2>3. \A k \in 1..n : \A d \in Item : Deletes(actionList[k], d) => d \notin Uses(x)
    BY <1>2, <1>3
  <2>4. QED BY <1>3, <1>7, <2>1, <2>2, <2>3
<1>13. \A k \in 1..Len(actionList') : Allocated(actionList[k])'
  <2>1. \A k \in 1..n : Allocated(actionList'[k])
    BY <1>3, <1>9
  <2>2. \A k \in 1..n : Allocated(actionList[k])'
    BY <2>1, <1>7, StaysAllocated DEF Allocated
  <2>3. Allocated(actionList[n + 1])'
    BY <1>7, <1>9 DEF Allocated
  <2>4. QED BY <2>2, <2>3, <1>2, <1>9
<1>14. \A k \in 1..Len(redoActionList') : Allocated(redoActionList[k])'
  <2>1. \A k \in 1..m - 1 : Allocated(redoActionList'[k])
    BY <1>2, <1>3, <1>10
  <2>2. QED BY <2>1, <1>7, <1>10, StaysAllocated DEF Allocated
<1>15. \A k \in 1..Len(actionList') : \A d \in Item : Deletes(actionList'[k], d) => Gone(d)'
  <2>1. \A k \in 1..n : \A d \in Item : Deletes(actionList'[k], d) => Gone(d)'
    BY <1>7, <1>9, <1>12 DEF Keeps
  <2>2. \A d \in Item : Deletes(actionList'[n + 1], d) => Gone(d)'
    <3>1. ASSUME NEW d \in Item, Deletes(y, d) PROVE Gone(d)'
      <4>1. y.kind = "delete" /\ y.item = d /\ x = y
        BY <3>1, <1>7, <1>8 DEF Deletes
      <4>2. QED BY <4>1, <1>7
    <3>2. QED BY <3>1, <1>9
  <2>3. QED BY <2>1, <2>2, <1>2, <1>9
<1>16. NoUseAfterDelete'
  <2>1. \A j, k \in 1..n + 1 : \A d \in Item :
          j < k /\ Deletes(actionList'[j], d) => d \notin Uses(actionList'[k])
    <3>1. \A j \in 1..n : \A d \in Item :
            Deletes(actionList'[j], d) => d \notin Uses(actionList'[n + 1])
      BY <1>9, <1>12
    <3>2. \A j, k \in 1..n : \A d \in Item :
            j < k /\ Deletes(actionList'[j], d) => d \notin Uses(actionList'[k])
      BY <1>3, <1>9
    <3>3. QED BY <3>1, <3>2, <1>2
  <2>2. \A k \in 1..m - 1 : \A d \in Item : Deletes(y, d) => d \notin Uses(redoActionList[k])
    <3>1. \A k \in 1..m - 1 : \A d \in Item : Deletes(x, d) => d \notin Uses(redoActionList[k])
      BY <1>2, <1>3
    <3>2. QED BY <3>1, <1>7, <1>8 DEF Deletes
  <2>3. \A j \in 1..n + 1, k \in 1..m - 1 : \A d \in Item :
          Deletes(actionList'[j], d) => d \notin Uses(redoActionList'[k])
    BY <1>2, <1>3, <1>9, <1>10, <2>2
  <2>4. \A j, k \in 1..m - 1 : \A d \in Item :
          k < j /\ Deletes(redoActionList'[j], d) => d \notin Uses(redoActionList'[k])
    <3>1. \A j, k \in 1..m - 1 : \A d \in Item :
            k < j /\ Deletes(redoActionList[j], d) => d \notin Uses(redoActionList[k])
      BY <1>2, <1>3
    <3>2. QED BY <3>1, <1>10
  <2>5. DOMAIN actionList' = 1..n + 1 /\ DOMAIN redoActionList' = 1..m - 1
    BY <1>9, <1>10
  <2>6. QED BY <2>1, <2>3, <2>4, <2>5 DEF NoUseAfterDelete
<1>17. QED BY <1>7, <1>11, <1>13, <1>14, <1>15, <1>16, Reassemble

---------------------------------------------------------------------------
(* Places.  The place an action goes back to is told by parent pointers.    *)

\* With the parents s the item b is a child of p, if there is one.
Beside(s, p, b) == b # Nil => s[b] = p

\* With the parents s an action finds what it captured.
Ready(x, s) ==
  /\ x.kind \in {"create", "delete"} => Beside(s, x.parent, x.prev)
  /\ x.kind = "delete" => s[x.item] = x.parent
  /\ x.kind = "move" => /\ s[x.item] = x.oldParent
                        /\ Beside(s, x.oldParent, x.oldPrev) /\ Beside(s, x.newParent, x.newPrev)

\* An item on the screen, or one with a link to it or from it.
Hangs(b) == \/ b \in OnScreen
            \/ tree.next[b] # Nil \/ tree.prev[b] # Nil
            \/ \E p \in Node : tree.firstChild[p] = b

\* With the parents s the node p is the parent of i, the parent of that, or a
\* sibling of i.
Near(s, i, p) == \/ p = s[i]
                 \/ (s[i] \in Item /\ p = s[s[i]])
                 \/ (p \in Item \ {i} /\ s[p] = s[i])

\* What an action captured is so.
Taken(x) ==
  /\ x.kind = "create" => /\ x.parent \in OnScreen \cup {Root}
                          /\ x.prev = Nil \/ Hangs(x.prev)
  /\ x.kind = "delete" => /\ x.item \in OnScreen /\ tree.firstChild[x.item] = Nil
                          /\ x.parent = tree.parent[x.item] /\ x.prev = tree.prev[x.item]
  /\ x.kind = "edit" => x.before = text[x.item]
  /\ x.kind = "move" => /\ x.item \in OnScreen
                        /\ x.oldParent = tree.parent[x.item] /\ x.oldPrev = tree.prev[x.item]
                        /\ Near(tree.parent, x.item, x.newParent)
                        /\ (x.newParent = Root \/ Hangs(x.newParent))
                        /\ (x.newPrev = Nil \/ Hangs(x.newPrev))

\* What a command makes is an action on places that exist, which uses nothing
\* that is gone.
Commanded(x) == /\ Makeable(x) /\ DoAction(x) /\ Ready(x, tree.parent) /\ Taken(x)
                /\ \A d \in Item : Gone(d) => d \notin Uses(x)

---------------------------------------------------------------------------
(* What the commands may use.                                              *)

\* An item on the screen hangs below the root by items on the screen.
LEMMA OnScreenFacts ==
  ASSUME IndInv, NEW i \in OnScreen
  PROVE  /\ i \in Item /\ i \in heap /\ ~Gone(i)
         /\ tree.parent[i] \in OnScreen \cup {Root} /\ tree.parent[i] \in heap
         /\ tree.parent[i] # i
<1> DEFINE par(x) == tree.parent[x]
           T == {x \in OnScreen : plugged[x] /\ par(x) \in OnScreen \cup {Root}}
           U == OnScreen \ {i}
<1>1. /\ OnScreen \subseteq Item
      /\ \A S \in SUBSET Item : ClosedOnScreen(S) => OnScreen \subseteq S
  BY DEF OnScreen
<1>2. ClosedOnScreen(OnScreen)
  BY <1>1 DEF OnScreen, ClosedOnScreen
<1>3. ClosedOnScreen(T)
  BY <1>2 DEF ClosedOnScreen
<1>4. i \in T
  BY <1>1, <1>3
<1>5. \A x \in OnScreen : plugged[x] /\ x \in heap /\ x \in Item
  BY <1>1, <1>3 DEF IndInv, FreshUnlinked
<1>6. par(i) # i
  <2>1. SUFFICES ASSUME par(i) = i PROVE FALSE
    OBVIOUS
  <2>2. i # Root
    BY <1>1 DEF Item
  <2>3. ClosedOnScreen(U)
    BY <1>2, <2>1, <2>2 DEF ClosedOnScreen
  <2>4. QED BY <1>1, <2>3
<1>7. par(i) \in heap
  BY <1>4, <1>5 DEF IndInv, TypeOK
<1>8. QED BY <1>4, <1>5, <1>6, <1>7 DEF Gone

\* The siblings and the first child of an item are allocated and not gone.
LEMMA LinkedFacts ==
  ASSUME IndInv, NEW i \in Item
  PROVE  /\ tree.prev[i] \in ItemOrNil /\ tree.next[i] \in ItemOrNil
         /\ tree.prev[i] \in heap \cup {Nil} /\ tree.next[i] \in heap \cup {Nil}
         /\ \A d \in Item : Gone(d) => d # tree.prev[i] /\ d # tree.next[i]
         /\ tree.prev[i] # i /\ tree.next[i] # i
         /\ Beside(tree.parent, tree.parent[i], tree.prev[i])
         /\ Beside(tree.parent, tree.parent[i], tree.next[i])
<1>1. tree \in Tree /\ LinksAgree(tree) /\ ChainsEnd(tree) /\ FreshUnlinked
  BY DEF IndInv, TypeOK, LinksConsistent, ChainsFinite
<1>2. tree.prev[i] \in ItemOrNil /\ tree.next[i] \in ItemOrNil
  BY <1>1 DEF Tree, Item
<1>3. tree.prev[i] # Nil => tree.next[tree.prev[i]] = i
  BY <1>1 DEF LinksAgree, Item
<1>4. tree.next[i] # Nil => tree.prev[tree.next[i]] = i
  BY <1>1 DEF LinksAgree, Item
<1>5. i # Nil
  BY NodeAssumption DEF Item
<1>6. tree.prev[i] \in heap \cup {Nil} /\ tree.next[i] \in heap \cup {Nil}
  BY <1>1, <1>2, <1>3, <1>4, <1>5 DEF FreshUnlinked, Unlinked, ItemOrNil
<1>7. \A d \in Item : Gone(d) => d # tree.prev[i] /\ d # tree.next[i]
  BY <1>3, <1>4, <1>5, NodeAssumption DEF Gone, Detached, Item
<1>8. /\ Beside(tree.parent, tree.parent[i], tree.prev[i])
      /\ Beside(tree.parent, tree.parent[i], tree.next[i])
  <2>1. tree.prev[i] # Nil => tree.parent[tree.prev[i]] = tree.parent[i]
    BY <1>1, <1>2, <1>3, <1>5 DEF LinksAgree, ItemOrNil, Item
  <2>2. tree.next[i] # Nil => tree.parent[tree.next[i]] = tree.parent[i]
    BY <1>1 DEF LinksAgree, Item
  <2>3. QED BY <2>1, <2>2 DEF Beside
<1>9. QED BY <1>1, <1>2, <1>6, <1>7, <1>8, NotOwnSibling

\* A new item below a parent, after one of its children or first.
LEMMA CreateCommanded ==
  ASSUME IndInv, NEW p \in heap, NEW b \in ItemOrNil, b \in heap \cup {Nil},
         Create(p, b), Beside(tree.parent, p, b), b = Nil \/ Hangs(b),
         p \in OnScreen \cup {Root},
         \A d \in Item : Gone(d) => d # b
  PROVE  \E x : Commanded(x)
<1> DEFINE x == [kind |-> "create", item |-> Nil, parent |-> p, prev |-> b]
<1>1. Makeable(x)
  BY DEF Makeable
<1>2. Uses(x) = {Nil} \cup ({b} \ {Nil})
  BY DEF Uses, Neighbours
<1>3. \A d \in Item : Gone(d) => d \notin Uses(x)
  BY <1>2, NodeAssumption DEF Item
<1>4. DoAction(x)
  BY DEF Create
<1>5. Ready(x, tree.parent) /\ Taken(x)
  BY DEF Ready, Taken
<1> HIDE DEF x
<1>6. QED BY <1>1, <1>3, <1>4, <1>5 DEF Commanded

\* An item moved below a parent, after another item or first.
LEMMA MoveCommanded ==
  ASSUME IndInv, NEW i \in OnScreen, NEW p \in heap, NEW b \in ItemOrNil,
         b \in heap \cup {Nil}, b # i, Move(i, p, b), Beside(tree.parent, p, b),
         Near(tree.parent, i, p), p = Root \/ Hangs(p), b = Nil \/ Hangs(b),
         \A d \in Item : Gone(d) => d # b
  PROVE  \E x : Commanded(x)
<1> DEFINE x == [kind |-> "move", item |-> i, oldParent |-> tree.parent[i],
                 oldPrev |-> tree.prev[i], newParent |-> p, newPrev |-> b]
<1>1. i \in Item /\ i \in heap /\ ~Gone(i) /\ tree.parent[i] \in heap
  BY OnScreenFacts
<1>2. /\ tree.prev[i] \in ItemOrNil /\ tree.prev[i] \in heap \cup {Nil}
      /\ tree.prev[i] # i /\ \A d \in Item : Gone(d) => d # tree.prev[i]
      /\ Beside(tree.parent, tree.parent[i], tree.prev[i])
  BY <1>1, LinkedFacts
<1>3. /\ Uses(x) = {i} \cup ({tree.prev[i], b} \ {Nil})
      /\ Neighbours(x) = {tree.prev[i], b} \ {Nil}
      /\ Parents(x) = {tree.parent[i], p}
  BY DEF Uses, Neighbours, Parents
<1>4. x \in Action
  BY <1>1, <1>2 DEF IndInv, TypeOK, Action, MoveAction
<1>5. Allocated(x) /\ x.kind # "create"
  BY <1>1, <1>2, <1>3 DEF Allocated
<1>6. \A d \in Item : Gone(d) => d \notin Uses(x)
  BY <1>1, <1>2, <1>3
<1>7. DoAction(x)
  BY DEF Move
<1>8. Ready(x, tree.parent) /\ Taken(x)
  BY <1>2 DEF Ready, Taken
<1> HIDE DEF x
<1>9. QED BY <1>4, <1>5, <1>6, <1>7, <1>8 DEF Commanded, Makeable

\* Removing an item that has no children.
LEMMA RemoveCommanded ==
  ASSUME IndInv, NEW i \in OnScreen, tree.firstChild[i] = Nil,
         DoAction([kind |-> "delete", item |-> i, parent |-> tree.parent[i],
                   prev |-> tree.prev[i]])
  PROVE  \E x : Commanded(x)
<1> DEFINE x == [kind |-> "delete", item |-> i, parent |-> tree.parent[i],
                 prev |-> tree.prev[i]]
<1>1. i \in Item /\ i \in heap /\ ~Gone(i) /\ tree.parent[i] \in heap
  BY OnScreenFacts
<1>2. /\ tree.prev[i] \in ItemOrNil /\ tree.prev[i] \in heap \cup {Nil}
      /\ tree.prev[i] # i /\ \A d \in Item : Gone(d) => d # tree.prev[i]
      /\ Beside(tree.parent, tree.parent[i], tree.prev[i])
  BY <1>1, LinkedFacts
<1>3. /\ Uses(x) = {i} \cup ({tree.prev[i]} \ {Nil})
      /\ Neighbours(x) = {tree.prev[i]} \ {Nil} /\ Parents(x) = {tree.parent[i]}
  BY DEF Uses, Neighbours, Parents
<1>4. x \in Action
  BY <1>1, <1>2 DEF IndInv, TypeOK, Action, DeleteAction
<1>5. Allocated(x) /\ x.kind # "create"
  BY <1>1, <1>2, <1>3 DEF Allocated
<1>6. \A d \in Item : Gone(d) => d \notin Uses(x)
  BY <1>1, <1>2, <1>3
<1>7. Ready(x, tree.parent) /\ Taken(x) /\ DoAction(x)
  BY <1>2 DEF Ready, Taken
<1> HIDE DEF x
<1>8. QED BY <1>4, <1>5, <1>6, <1>7 DEF Commanded, Makeable

\* Editing an item, which may be out of the tree.
LEMMA EditCommanded ==
  ASSUME IndInv, NEW i \in heap \ {Root}, NEW s \in Text,
         DoAction([kind |-> "edit", item |-> i, before |-> text[i], after |-> s])
  PROVE  \E x : Commanded(x)
<1> DEFINE x == [kind |-> "edit", item |-> i, before |-> text[i], after |-> s]
<1>1. i \in Item /\ i \in heap
  BY DEF IndInv, TypeOK, Item
<1>2. Uses(x) = {} /\ Neighbours(x) = {} /\ Parents(x) = {}
  BY DEF Uses, Neighbours, Parents
<1>3. x \in Action
  BY <1>1 DEF IndInv, TypeOK, Action, EditAction
<1>4. Allocated(x) /\ x.kind # "create"
  BY <1>1, <1>2 DEF Allocated
<1>5. \A d \in Item : Gone(d) => d \notin Uses(x)
  BY <1>1, <1>2
<1>6. Ready(x, tree.parent) /\ Taken(x) /\ DoAction(x)
  BY DEF Ready, Taken
<1> HIDE DEF x
<1>7. QED BY <1>3, <1>4, <1>5, <1>6 DEF Commanded, Makeable

\* Every command of the user.
LEMMA CommandMakes ==
  ASSUME IndInv, Command
  PROVE  \E x : Commanded(x)
<1>1. Root \in heap /\ Nil \in ItemOrNil /\ \A d \in Item : d # Nil
  BY NodeAssumption DEF IndInv, TypeOK, ItemOrNil, Item
<1>2. CASE NewChild
  <2>1. PICK p \in OnScreen : Create(p, Nil)
    BY <1>2 DEF NewChild
  <2>2. p \in heap
    BY OnScreenFacts
  <2>3. QED BY <1>1, <2>1, <2>2, CreateCommanded DEF Beside
<1>3. CASE NewSibling
  <2>1. PICK i \in OnScreen : Create(tree.parent[i], i)
    BY <1>3 DEF NewSibling
  <2>2. /\ i \in ItemOrNil /\ i \in heap /\ ~Gone(i) /\ tree.parent[i] \in heap
        /\ tree.parent[i] \in OnScreen \cup {Root}
    BY OnScreenFacts DEF ItemOrNil
  <2>3. QED BY <2>1, <2>2, CreateCommanded DEF Beside, Hangs
<1>4. CASE RemoveItem
  BY <1>4, RemoveCommanded DEF RemoveItem
<1>5. CASE SetItemText
  BY <1>5, EditCommanded DEF SetItemText
<1>6. CASE MoveUp
  <2>1. PICK i \in OnScreen :
          tree.prev[i] # Nil /\ Move(i, tree.parent[i], tree.prev[tree.prev[i]])
    BY <1>6 DEF MoveUp
  <2>2. PICK b : b = tree.prev[i]
    OBVIOUS
  <2>3. i \in Item /\ i \in heap /\ tree.parent[i] \in heap
    BY OnScreenFacts
  <2>4. b \in Item /\ b # i
    BY <2>1, <2>2, <2>3, LinkedFacts DEF ItemOrNil
  <2>5. /\ tree.prev[b] \in ItemOrNil /\ tree.prev[b] \in heap \cup {Nil}
        /\ \A d \in Item : Gone(d) => d # tree.prev[b]
        /\ Beside(tree.parent, tree.parent[i], tree.prev[b])
    <3>1. tree.parent[b] = tree.parent[i]
      BY <2>1, <2>2, <2>3, LinkedFacts DEF Beside
    <3>2. QED BY <2>4, <3>1, LinkedFacts
  <2>6. tree.prev[b] # i
    <3>1. SUFFICES ASSUME tree.prev[b] = i PROVE FALSE
      OBVIOUS
    <3>2. tree.next[b] = i /\ tree.next[i] = b
      BY <2>1, <2>2, <2>3, <2>4, <3>1, NodeAssumption
         DEF IndInv, LinksConsistent, LinksAgree, Item
    <3>3. {i, b} \in (SUBSET Node) \ {{}}
      BY <2>3, <2>4 DEF Item
    <3>4. QED BY <3>2, <3>3 DEF IndInv, ChainsFinite, ChainsEnd
  <2>7. tree.prev[b] = Nil \/ Hangs(tree.prev[b])
    BY <2>4, NodeAssumption DEF IndInv, LinksConsistent, LinksAgree, Hangs, Item
  <2>8. tree.parent[i] = Root \/ Hangs(tree.parent[i])
    BY OnScreenFacts DEF Hangs
  <2>9. QED BY <2>1, <2>2, <2>3, <2>5, <2>6, <2>7, <2>8, MoveCommanded DEF Near
<1>7. CASE MoveDown
  <2>1. PICK i \in OnScreen :
          tree.next[i] # Nil /\ Move(i, tree.parent[i], tree.next[i])
    BY <1>7 DEF MoveDown
  <2>2. i \in Item /\ i \in heap /\ tree.parent[i] \in heap
    BY OnScreenFacts
  <2>3. Hangs(tree.next[i])
    BY <2>1, <2>2, NodeAssumption DEF IndInv, LinksConsistent, LinksAgree, Hangs, Item
  <2>4. tree.parent[i] = Root \/ Hangs(tree.parent[i])
    BY OnScreenFacts DEF Hangs
  <2>5. QED BY <2>1, <2>2, <2>3, <2>4, LinkedFacts, MoveCommanded DEF Near
<1>8. CASE MoveLeft
  <2>1. PICK i \in OnScreen :
          tree.parent[i] # Root /\ Move(i, tree.parent[tree.parent[i]], tree.parent[i])
    BY <1>8 DEF MoveLeft
  <2>2. PICK p : p = tree.parent[i]
    OBVIOUS
  <2>3. p \in OnScreen /\ p # i /\ p \in heap
    BY <2>1, <2>2, OnScreenFacts
  <2>4. p \in ItemOrNil /\ ~Gone(p) /\ tree.parent[p] \in heap
    BY <2>3, OnScreenFacts DEF ItemOrNil
  <2>5. Beside(tree.parent, tree.parent[p], p) /\ Hangs(p)
    BY <2>3 DEF Beside, Hangs
  <2>6. Near(tree.parent, i, tree.parent[p])
    BY <2>1, <2>2, <2>3, OnScreenFacts DEF Near
  <2>7. tree.parent[p] = Root \/ Hangs(tree.parent[p])
    BY <2>3, OnScreenFacts DEF Hangs
  <2>8. QED BY <2>1, <2>2, <2>3, <2>4, <2>5, <2>6, <2>7, MoveCommanded
<1>9. CASE MoveRight
  <2>1. PICK i \in OnScreen : /\ tree.prev[i] # Nil
                              /\ Move(i, tree.prev[i], LastChild(tree, tree.prev[i]))
    BY <1>9 DEF MoveRight
  <2>2. PICK p, c : p = tree.prev[i] /\ c = LastChild(tree, p)
    OBVIOUS
  <2>3. i \in Item /\ tree.parent[i] \in OnScreen \cup {Root}
    BY OnScreenFacts
  <2>4. p \in Item /\ p \in heap /\ p # Nil /\ p # i
    BY <2>1, <2>2, <2>3, LinkedFacts DEF ItemOrNil
  <2>5. tree.parent[p] = tree.parent[i]
    BY <2>1, <2>2, <2>3, <2>4, NodeAssumption
       DEF IndInv, LinksConsistent, LinksAgree, Item
  <2>9. Near(tree.parent, i, p) /\ Hangs(p)
    <3>1. tree.next[p] = i /\ i # Nil
      BY <2>1, <2>2, <2>3, NodeAssumption DEF IndInv, LinksConsistent, LinksAgree, Item
    <3>2. QED BY <2>4, <2>5, <3>1 DEF Near, Hangs
  <2>6. CASE c = Nil
    <3>1. Move(i, p, c) /\ c \in ItemOrNil /\ c \in heap \cup {Nil} /\ c # i
      BY <1>1, <2>1, <2>2, <2>3, <2>6
    <3>2. \A d \in Item : Gone(d) => d # c
      BY <1>1, <2>6
    <3>3. Beside(tree.parent, p, c)
      BY <2>6 DEF Beside
    <3>4. QED BY <2>4, <2>6, <2>9, <3>1, <3>2, <3>3, MoveCommanded
  <2>7. CASE c # Nil
    <3>1. /\ c \in Item /\ tree.parent[c] = p
          /\ c = tree.firstChild[p] \/ tree.prev[c] # Nil
      BY <2>2, <2>4, <2>7, LastChildFacts
         DEF IndInv, TypeOK, LinksConsistent, ChainsFinite, Item
    <3>2. c # i
      <4>1. SUFFICES ASSUME c = i PROVE FALSE
        OBVIOUS
      <4>2. tree.parent[i] = p /\ tree.parent[p] = p
        BY <2>5, <3>1, <4>1
      <4>3. p \in OnScreen
        BY <2>3, <2>4, <4>2 DEF Item
      <4>4. QED BY <4>2, <4>3, OnScreenFacts
    <3>3. c \in heap /\ c \in ItemOrNil
      BY <2>4, <3>1, NodeAssumption
         DEF IndInv, FreshUnlinked, Unlinked, ItemOrNil, Item
    <3>4. ~Gone(c)
      BY <2>4, <3>1 DEF Gone, Detached, Item
    <3>5. Beside(tree.parent, p, c)
      BY <3>1 DEF Beside
    <3>6. Hangs(c)
      BY <2>4, <3>1 DEF Hangs, Item
    <3>7. QED BY <2>1, <2>2, <2>4, <2>9, <3>1, <3>2, <3>3, <3>4, <3>5, <3>6, MoveCommanded
  <2>8. QED BY <2>6, <2>7
<1>10. QED
  BY <1>2, <1>3, <1>4, <1>5, <1>6, <1>7, <1>8, <1>9 DEF Command

\* So the links survive it.
LEMMA CommandKeeps ==
  ASSUME IndInv, Command
  PROVE  IndInv'
BY CommandMakes, DoActionKeeps DEF Commanded

\* Saving touches nothing but the flag.
LEMMA SaveKeeps ==
  ASSUME IndInv, Save
  PROVE  IndInv'
<1>1. signals' \in Seq(Signal)
  BY DEF Save, Signal
<1>2. UNCHANGED <<tree, text, heap, actionList, redoActionList, plugged>> /\ modified' = FALSE
  BY DEF Save
<1>3. QED
  BY <1>1, <1>2 DEF IndInv, TypeOK, LinksConsistent, ChainsFinite, FreshUnlinked,
                    ListsAllocated, DeletedDetached, NoUseAfterDelete

\* Neither does a stuttering step.
LEMMA StutterKeeps ==
  ASSUME IndInv, UNCHANGED vars
  PROVE  IndInv'
BY DEF IndInv, TypeOK, LinksConsistent, ChainsFinite, FreshUnlinked, ListsAllocated,
       DeletedDetached, NoUseAfterDelete, vars, docVars

\* A document just loaded has empty lists.
LEMMA InitInv ==
  ASSUME Init
  PROVE  IndInv
<1>1. /\ tree \in Tree /\ LinksAgree(tree) /\ ChainsEnd(tree)
      /\ \A x \in Item \ InTree(tree) : Unlinked(tree, x)
  BY InitialTreesAssumption DEF Init
<1>2. Root \in InTree(tree) /\ InTree(tree) \subseteq Node
  BY NodeAssumption DEF InTree, ClosedBelow
<1>3. TypeOK
  <2>1. text \in [Item -> Text] /\ plugged \in [Item -> BOOLEAN]
    BY TextAssumption DEF Init
  <2>2. /\ actionList \in Seq(Action) /\ redoActionList \in Seq(Action)
        /\ signals \in Seq(Signal) /\ modified \in BOOLEAN
    <3>1. \A S : <<>> \in Seq(S)
      OBVIOUS
    <3>2. QED BY <3>1 DEF Init
  <2>3. heap \in SUBSET Node /\ Root \in heap
    BY <1>2 DEF Init
  <2>4. QED BY <1>1, <2>1, <2>2, <2>3 DEF TypeOK
<1>4. FreshUnlinked
  BY <1>1 DEF Init, FreshUnlinked
<1>5. DOMAIN actionList = {} /\ DOMAIN redoActionList = {}
  BY DEF Init
<1>6. ListsAllocated /\ DeletedDetached /\ NoUseAfterDelete
  BY <1>5 DEF ListsAllocated, DeletedDetached, NoUseAfterDelete
<1>7. QED BY <1>1, <1>3, <1>4, <1>6 DEF IndInv, LinksConsistent, ChainsFinite

---------------------------------------------------------------------------
\* The inductive invariant holds in every reachable state (every slot of
\* ClientDocument, make() and revert() of every ClientAction).
THEOREM IndInvHolds == Spec => []IndInv
<1>1. Init => IndInv
  BY InitInv
<1>2. IndInv /\ [Next]_vars => IndInv'
  BY CommandKeeps, SaveKeeps, UndoKeeps, RedoKeeps, StutterKeeps DEF Next
<1>3. QED BY <1>1, <1>2, PTL DEF Spec

\* No command, undo or redo works on a null item or a null parent: the lists
\* hold whole actions, and the pointers point to items.
THEOREM TypeCorrect == Spec => []TypeOK
<1>1. IndInv => TypeOK
  BY DEF IndInv
<1>2. QED BY <1>1, IndInvHolds, PTL

\* The sibling, parent and first-child pointers of every item that was ever
\* allocated agree with each other (detachFromTree, addAsChild).
THEOREM LinksStayConsistent == Spec => []LinksConsistent
<1>1. IndInv => LinksConsistent
  BY DEF IndInv
<1>2. QED BY <1>1, IndInvHolds, PTL

\* Every loop along the siblings ends.
THEOREM ChainsStayFinite == Spec => []ChainsFinite
<1>1. IndInv => ChainsFinite
  BY DEF IndInv
<1>2. QED BY <1>1, IndInvHolds, PTL

---------------------------------------------------------------------------
(* Trees and traversals.                                                   *)

\* No command, undo or redo puts an item in two places, or makes a cycle.
THEOREM TreeStaysWellFormed == Spec => []TreeWellFormed
<1>1. IndInv => TreeWellFormed
  BY AgreeingEnteredOnce DEF IndInv, TypeOK, LinksConsistent, TreeWellFormed
<1>2. QED BY <1>1, IndInvHolds, PTL

---------------------------------------------------------------------------
(* Places, again: what the parents were when each listed action was made is *)
(* what they are when it is reverted or made once more.                     *)

\* The parents it leaves.  Those of a new item count as set from the start.
Moved(x, s) == IF x.kind = "move" THEN [s EXCEPT ![x.item] = x.newParent] ELSE s

Fits(x, s, u) == Ready(x, s) /\ u = Moved(x, s)

\* The parents behind and before each entry of a list: V[k] with k entries left.
Done(list, V) == \A k \in 1..Len(list) : Fits(list[k], V[k - 1], V[k])
Undone(list, W) == \A k \in 1..Len(list) : Fits(list[k], W[k], W[k - 1])

Parent == [Node -> NodeOrNil]
Past(V) == V \in [Nat -> Parent] /\ V[Len(actionList)] = tree.parent /\ Done(actionList, V)
Future(W) == /\ W \in [Nat -> Parent] /\ W[Len(redoActionList)] = tree.parent
             /\ Undone(redoActionList, W)

PlacesKnown == \E V, W : Past(V) /\ Future(W)

\* The parts of an action.
LEMMA ActionParts ==
  ASSUME NEW x \in Action, Allocated(x)
  PROVE  /\ x.kind \in {"create", "delete", "edit", "move"}
         /\ x.item \in Item /\ x.item \in heap
         /\ x.kind \in {"create", "delete"} =>
              /\ x.parent \in heap /\ x.prev \in ItemOrNil /\ x.prev \in heap \cup {Nil}
         /\ x.kind = "delete" => x.prev # x.item
         /\ x.kind = "move" =>
              /\ x.oldParent \in heap /\ x.newParent \in heap
              /\ x.oldPrev \in ItemOrNil /\ x.oldPrev \in heap \cup {Nil} /\ x.oldPrev # x.item
              /\ x.newPrev \in ItemOrNil /\ x.newPrev \in heap \cup {Nil} /\ x.newPrev # x.item
<1>1. x.item \in Item /\ x.item \in heap
  BY ActionItems DEF Allocated
<1>2. CASE x \in CreateAction
  BY <1>1, <1>2 DEF CreateAction, Allocated, Uses, Neighbours, Parents
<1>3. CASE x \in DeleteAction
  BY <1>1, <1>3, NodeAssumption DEF DeleteAction, Allocated, Uses, Neighbours, Parents, Item
<1>4. CASE x \in EditAction
  BY <1>1, <1>4 DEF EditAction
<1>5. CASE x \in MoveAction
  BY <1>1, <1>5, NodeAssumption DEF MoveAction, Allocated, Uses, Neighbours, Parents, Item
<1>6. QED BY <1>2, <1>3, <1>4, <1>5 DEF Action

\* A new item does not count for what was there before it.
Born(s, i, p) == [s EXCEPT ![i] = p]

\* What fitted then fits with the new item.
LEMMA FitsWithNew ==
  ASSUME IndInv, NEW x \in Action, Allocated(x), NEW i \in Item, i \notin heap, NEW p \in Node,
         NEW s \in Parent, NEW u \in Parent, Fits(x, s, u)
  PROVE  Fits(x, Born(s, i, p), Born(u, i, p))
<1>1. /\ i \in Node /\ i # x.item
      /\ x.kind \in {"create", "delete"} => x.prev # i /\ x.prev \in Node \cup {Nil}
      /\ x.kind = "move" => /\ x.oldPrev # i /\ x.oldPrev \in Node \cup {Nil}
                            /\ x.newPrev # i /\ x.newPrev \in Node \cup {Nil}
  BY ActionParts, NodeAssumption DEF Item, ItemOrNil
<1>2. \A y \in Node : y # i => Born(s, i, p)[y] = s[y]
  BY DEF Born, Parent
<1>3. x.item \in Node
  BY ActionParts DEF Item
<1>4. Ready(x, Born(s, i, p))
  BY <1>1, <1>2, <1>3 DEF Fits, Ready, Beside
<1>5. Born(u, i, p) = Moved(x, Born(s, i, p))
  <2>1. CASE x.kind = "move"
    <3>1. u = [s EXCEPT ![x.item] = x.newParent]
      BY <2>1 DEF Fits, Moved
    <3>2. Born(u, i, p) = [Born(s, i, p) EXCEPT ![x.item] = x.newParent]
      BY <1>1, <1>3, <3>1 DEF Born, Parent
    <3>3. QED BY <2>1, <3>2 DEF Moved
  <2>2. CASE x.kind # "move"
    BY <2>2 DEF Fits, Moved
  <2>3. QED BY <2>1, <2>2
<1>6. QED BY <1>4, <1>5 DEF Fits

\* Detaching leaves the parents.
LEMMA ParentsLeft ==
  ASSUME NEW t, NEW i
  PROVE  DetachFromTree(t, i).parent = t.parent
BY DEF DetachFromTree

\* Linking sets one parent.
LEMMA ParentsSet ==
  ASSUME NEW t, NEW p, NEW i, NEW b
  PROVE  AddAsChild(t, p, i, b).parent = [t.parent EXCEPT ![i] = p]
<1>1. \A a : InsertAfter(t, p, i, a).parent = [t.parent EXCEPT ![i] = p]
  BY DEF InsertAfter
<1>2. QED BY <1>1 DEF AddAsChild

\* Making an action moves the parent pointer of its item, if any.
LEMMA MadeParents ==
  ASSUME IndInv, NEW x, Makeable(x), NEW i \in Item, Make(x, i)
  PROVE  /\ tree.parent \in Parent /\ tree'.parent \in Parent
         /\ x.kind = "create" => /\ tree'.parent = Born(tree.parent, i, x.parent)
                                 /\ x.parent \in Node /\ i \notin heap
         /\ x.kind # "create" => /\ tree'.parent = Moved(x, tree.parent)
                                 /\ x \in Action /\ Allocated(x) /\ On(x, i) = x
<1>1. tree \in Tree /\ HeapOK /\ heap \subseteq Node
  BY Parts DEF IndInv, TypeOK
<1>2. tree' \in Tree
  BY <1>1, MakeKeeps DEF HeapOK
<1>3. tree.parent \in Parent /\ tree'.parent \in Parent
  BY <1>1, <1>2 DEF Tree, Parent
<1>4. CASE x.kind = "create"
  <2>1. x.parent \in Node /\ i \notin heap /\ tree' = AddAsChild(tree, x.parent, i, x.prev)
    BY <1>1, <1>4 DEF Makeable, Make, MakeCreate
  <2>2. tree'.parent = [tree.parent EXCEPT ![i] = x.parent]
    BY <2>1, ParentsSet
  <2>3. QED BY <1>3, <1>4, <2>1, <2>2 DEF Born
<1>5. CASE x.kind = "delete"
  <2>1. tree' = DetachFromTree(tree, i) /\ x \in Action /\ Allocated(x) /\ On(x, i) = x
    BY <1>5 DEF Makeable, On, Make, DetachItem
  <2>2. tree'.parent = tree.parent
    BY <2>1, ParentsLeft
  <2>3. QED BY <1>3, <1>5, <2>1, <2>2 DEF Moved
<1>6. CASE x.kind = "edit"
  BY <1>3, <1>6 DEF Makeable, On, Make, MakeEdit, Moved
<1>7. CASE x.kind = "move"
  <2>1. PICK t : t = DetachFromTree(tree, i)
    OBVIOUS
  <2>2. /\ tree' = AddAsChild(t, x.newParent, i, x.newPrev) /\ i = x.item
        /\ x \in Action /\ Allocated(x) /\ On(x, i) = x
    BY <1>7, <2>1 DEF Makeable, On, Make, MakeMove
  <2>3. t.parent = tree.parent
    BY <2>1, ParentsLeft
  <2>4. tree'.parent = [t.parent EXCEPT ![i] = x.newParent]
    <3>1. PICK p, b : p = x.newParent /\ b = x.newPrev
      OBVIOUS
    <3>2. tree' = AddAsChild(t, p, i, b)
      BY <2>2, <3>1
    <3>3. QED BY <3>1, <3>2, ParentsSet
  <2>5. QED BY <1>3, <1>7, <2>2, <2>3, <2>4 DEF Moved
<1>8. QED BY <1>4, <1>5, <1>6, <1>7 DEF Make

\* So does reverting one.
LEMMA RevertedParents ==
  ASSUME IndInv, NEW x \in Action, Allocated(x), Revert(x), NEW s \in Parent,
         Fits(x, s, tree.parent)
  PROVE  tree'.parent = s
<1>1. x.item \in Node /\ tree.parent \in Parent
  BY ActionParts DEF Item, IndInv, TypeOK, Tree, Parent
<1>2. CASE x.kind = "create"
  <2>1. tree' = DetachFromTree(tree, x.item)
    BY <1>2 DEF Revert, DetachItem
  <2>2. tree'.parent = tree.parent /\ s = tree.parent
    BY <1>2, <2>1, ParentsLeft DEF Fits, Moved
  <2>3. QED BY <2>2
<1>3. CASE x.kind = "delete"
  <2>1. tree'.parent = [tree.parent EXCEPT ![x.item] = x.parent]
    <3>1. tree' = AddAsChild(tree, x.parent, x.item, x.prev)
      BY <1>3 DEF Revert, AddItem
    <3>2. QED BY <3>1, ParentsSet
  <2>2. s = tree.parent /\ s[x.item] = x.parent
    BY <1>3 DEF Fits, Ready, Moved
  <2>3. QED BY <1>1, <2>1, <2>2 DEF Parent
<1>4. CASE x.kind = "edit"
  BY <1>4 DEF Revert, MakeEdit, Fits, Moved
<1>5. CASE x.kind = "move"
  <2>1. tree'.parent = [tree.parent EXCEPT ![x.item] = x.oldParent]
    <3>1. PICK t : t = DetachFromTree(tree, x.item)
      OBVIOUS
    <3>2. tree' = AddAsChild(t, x.oldParent, x.item, x.oldPrev)
      BY <1>5, <3>1 DEF Revert, MakeMove
    <3>3. t.parent = tree.parent
      BY <3>1, ParentsLeft
    <3>4. tree'.parent = [t.parent EXCEPT ![x.item] = x.oldParent]
      <4>1. PICK p, i, b : p = x.oldParent /\ i = x.item /\ b = x.oldPrev
        OBVIOUS
      <4>2. tree' = AddAsChild(t, p, i, b)
        BY <3>2, <4>1
      <4>3. QED BY <4>1, <4>2, ParentsSet
    <3>5. QED BY <3>3, <3>4
  <2>2. tree.parent = [s EXCEPT ![x.item] = x.newParent] /\ s[x.item] = x.oldParent
    BY <1>5 DEF Fits, Ready, Moved
  <2>3. QED BY <1>1, <2>1, <2>2 DEF Parent
<1>6. QED BY <1>2, <1>3, <1>4, <1>5 DEF Revert

\* The parents behind each entry, as they are once an item is new.
Since(V, x, i) == IF x.kind = "create" THEN [k \in Nat |-> Born(V[k], i, x.parent)] ELSE V

\* They still are what the entries found and left.
LEMMA SinceFits ==
  ASSUME IndInv, NEW x, Makeable(x), NEW i \in Item, Make(x, i),
         NEW y \in Action, Allocated(y), NEW V \in [Nat -> Parent],
         NEW j \in Nat, NEW k \in Nat, Fits(y, V[j], V[k])
  PROVE  Fits(y, Since(V, x, i)[j], Since(V, x, i)[k])
<1>1. CASE x.kind = "create"
  <2>1. /\ Since(V, x, i)[j] = Born(V[j], i, x.parent) /\ Since(V, x, i)[k] = Born(V[k], i, x.parent)
        /\ V[j] \in Parent /\ V[k] \in Parent
    BY <1>1 DEF Since
  <2>2. i \notin heap /\ x.parent \in Node
    BY <1>1, MadeParents
  <2>3. QED BY <2>1, <2>2, FitsWithNew
<1>2. CASE x.kind # "create"
  BY <1>2 DEF Since
<1>3. QED BY <1>1, <1>2

\* The last of them are those after the step, or before it.
LEMMA SinceType ==
  ASSUME IndInv, NEW x, Makeable(x), NEW i \in Item, Make(x, i), NEW V \in [Nat -> Parent]
  PROVE  /\ Since(V, x, i) \in [Nat -> Parent]
         /\ \A k \in Nat : V[k] = tree.parent =>
              Since(V, x, i)[k] = IF x.kind = "create" THEN tree'.parent ELSE tree.parent
<1>1. CASE x.kind = "create"
  <2>1. /\ tree'.parent = Born(tree.parent, i, x.parent) /\ x.parent \in Node /\ i \in Node
    BY <1>1, MadeParents DEF Item
  <2>2. \A k \in Nat : V[k] \in Parent /\ Born(V[k], i, x.parent) \in Parent
    BY <2>1 DEF Parent, Born, NodeOrNil
  <2>3. Since(V, x, i) = [k \in Nat |-> Born(V[k], i, x.parent)]
    BY <1>1 DEF Since
  <2>4. QED BY <1>1, <2>1, <2>2, <2>3
<1>2. CASE x.kind # "create"
  BY <1>2 DEF Since
<1>3. QED BY <1>1, <1>2

\* One entry more: it has found the parents it was made for.
LEMMA PastGrows ==
  ASSUME IndInv, IndInv', NEW x, Makeable(x), NEW i \in Item, Make(x, i), Ready(x, tree.parent),
         actionList' = Append(actionList, On(x, i)), NEW V, Past(V)
  PROVE  \E U : Past(U)' /\ \A k \in Nat : U[k] = Since(V, x, i)[k] \/ U[k] = tree'.parent
<1> DEFINE y == On(x, i)
<1>1. PICK n \in Nat : n = Len(actionList)
  BY DEF IndInv, TypeOK
<1>2. /\ V \in [Nat -> Parent] /\ V[n] = tree.parent
      /\ \A k \in 1..n : Fits(actionList[k], V[k - 1], V[k])
  BY <1>1 DEF Past, Done
<1>3. PICK S : S = Since(V, x, i)
  OBVIOUS
<1>4. S \in [Nat -> Parent] /\ S[n] = IF x.kind = "create" THEN tree'.parent ELSE tree.parent
  BY <1>1, <1>2, <1>3, SinceType
<1>5. PICK U : U = [S EXCEPT ![n + 1] = tree'.parent]
  OBVIOUS
<1>6. tree'.parent \in Parent
  BY MadeParents
<1>7. /\ U \in [Nat -> Parent] /\ U[n + 1] = tree'.parent
      /\ \A k \in 0..n : U[k] = S[k]
  BY <1>1, <1>4, <1>5, <1>6
<1>8. /\ Len(actionList') = n + 1 /\ actionList'[n + 1] = y
      /\ \A k \in 1..n : actionList'[k] = actionList[k] /\ actionList[k] \in Action
  <2>1. actionList \in Seq(Action)
    BY DEF IndInv, TypeOK
  <2>2. y \in Action
    BY MakeKeeps, Parts DEF IndInv, TypeOK
  <2>3. QED BY <1>1, <2>1, <2>2, PushProperties
<1>9. \A k \in 1..n : Fits(actionList'[k], U[k - 1], U[k])
  <2>1. SUFFICES ASSUME NEW k \in 1..n PROVE Fits(actionList[k], S[k - 1], S[k])
    BY <1>1, <1>7, <1>8
  <2>2. Allocated(actionList[k]) /\ actionList[k] \in Action
    BY <1>1, <1>8, Parts DEF IndInv
  <2>3. k - 1 \in Nat /\ k \in Nat /\ Fits(actionList[k], V[k - 1], V[k])
    BY <1>2
  <2>4. QED BY <1>2, <1>3, <2>2, <2>3, SinceFits
<1>10. Fits(y, U[n], U[n + 1])
  <2>1. U[n] = S[n] /\ U[n + 1] = tree'.parent
    BY <1>1, <1>7
  <2>2. CASE x.kind = "create"
    <3>1. y = [kind |-> "create", item |-> i, parent |-> x.parent, prev |-> x.prev]
      BY <2>2 DEF On
    <3>2. /\ tree'.parent = Born(tree.parent, i, x.parent) /\ tree.parent \in Parent
          /\ i \notin heap /\ Beside(tree.parent, x.parent, x.prev)
      BY <2>2, MadeParents DEF Ready
    <3>3. x.prev \in heap \cup {Nil} /\ heap \subseteq Node
      BY <2>2 DEF Makeable, IndInv, TypeOK
    <3>4. Beside(tree'.parent, x.parent, x.prev)
      BY <3>2, <3>3 DEF Beside, Born, Parent
    <3>5. Fits(y, tree'.parent, tree'.parent)
      BY <3>1, <3>4 DEF Fits, Ready, Moved
    <3>6. QED BY <1>4, <2>1, <2>2, <3>5
  <2>3. CASE x.kind # "create"
    <3>1. y = x /\ tree'.parent = Moved(x, tree.parent)
      BY <2>3, MadeParents
    <3>2. QED BY <1>4, <2>1, <2>3, <3>1 DEF Fits
  <2>4. QED BY <2>2, <2>3
<1> HIDE DEF y
<1>11. \A k \in 1..n + 1 : Fits(actionList'[k], U[k - 1], U[k])
  BY <1>1, <1>8, <1>9, <1>10
<1>12. Past(U)'
  BY <1>1, <1>7, <1>8, <1>11 DEF Past, Done
<1>13. \A k \in Nat : U[k] = S[k] \/ U[k] = tree'.parent
  BY <1>1, <1>4, <1>5
<1>14. QED BY <1>3, <1>12, <1>13

\* A list that is cut short is behind what it was.
LEMMA PastShrinks ==
  ASSUME IndInv, UndoLastAction, NEW V, Past(V)
  PROVE  /\ Past(V)' /\ \E k \in Nat : tree'.parent = V[k]
         /\ \E x \in Action : /\ Allocated(x) /\ Fits(x, tree'.parent, tree.parent)
                              /\ redoActionList' = Append(redoActionList, x)
<1>1. actionList \in Seq(Action) /\ actionList # <<>>
  BY DEF IndInv, TypeOK, UndoLastAction
<1>2. PICK n \in Nat, x \in Action : n > 0 /\ n = Len(actionList) /\ x = actionList[n]
  BY <1>1, PopProperties
<1>3. /\ Len(actionList') = n - 1 /\ \A k \in 1..n - 1 : actionList'[k] = actionList[k]
  BY <1>1, <1>2, PopProperties DEF UndoLastAction
<1>4. /\ V \in [Nat -> Parent] /\ V[n] = tree.parent
      /\ \A k \in 1..n : Fits(actionList[k], V[k - 1], V[k])
  BY <1>2 DEF Past, Done
<1>5. Fits(x, V[n - 1], tree.parent) /\ V[n - 1] \in Parent
  BY <1>2, <1>4
<1>6. Allocated(x) /\ Revert(x) /\ redoActionList' = Append(redoActionList, x)
  BY <1>2, Parts DEF IndInv, UndoLastAction
<1>7. tree'.parent = V[n - 1]
  BY <1>5, <1>6, RevertedParents
<1>8. Past(V)'
  BY <1>2, <1>3, <1>4, <1>7 DEF Past, Done
<1>9. \E k \in Nat : tree'.parent = V[k]
  BY <1>2, <1>7
<1>10. QED BY <1>5, <1>6, <1>7, <1>8, <1>9

\* What is undone comes again as it was.
LEMMA FutureGrows ==
  ASSUME IndInv, tree'.parent \in Parent, NEW x \in Action, Fits(x, tree'.parent, tree.parent),
         redoActionList' = Append(redoActionList, x), NEW W, Future(W)
  PROVE  \E U : Future(U)' /\ \A k \in Nat : U[k] = W[k] \/ U[k] = tree'.parent
<1>1. PICK m \in Nat : m = Len(redoActionList)
  BY DEF IndInv, TypeOK
<1>2. /\ Len(redoActionList') = m + 1 /\ redoActionList'[m + 1] = x
      /\ \A k \in 1..m : redoActionList'[k] = redoActionList[k]
  BY <1>1, PushProperties DEF IndInv, TypeOK
<1>3. /\ W \in [Nat -> Parent] /\ W[m] = tree.parent
      /\ \A k \in 1..m : Fits(redoActionList[k], W[k], W[k - 1])
  BY <1>1 DEF Future, Undone
<1>4. PICK U : U = [W EXCEPT ![m + 1] = tree'.parent]
  OBVIOUS
<1>5. /\ U \in [Nat -> Parent] /\ U[m + 1] = tree'.parent
      /\ \A k \in 0..m : U[k] = W[k]
  BY <1>1, <1>3, <1>4
<1>6. \A k \in 1..m : Fits(redoActionList'[k], U[k], U[k - 1])
  BY <1>1, <1>2, <1>3, <1>5
<1>7. Fits(redoActionList'[m + 1], U[m + 1], U[m])
  BY <1>1, <1>2, <1>3, <1>5
<1>8. \A k \in 1..m + 1 : Fits(redoActionList'[k], U[k], U[k - 1])
  BY <1>1, <1>6, <1>7
<1>9. Future(U)'
  BY <1>1, <1>2, <1>5, <1>8 DEF Future, Undone
<1>10. \A k \in Nat : U[k] = W[k] \/ U[k] = tree'.parent
  BY <1>1, <1>3, <1>4
<1>11. QED BY <1>9, <1>10

\* A command has nothing undone before it.
LEMMA FutureEnds ==
  ASSUME tree'.parent \in Parent, redoActionList' = <<>>
  PROVE  \E U : Future(U)' /\ \A k \in Nat : U[k] = tree'.parent
<1>1. PICK U : U = [k \in Nat |-> tree'.parent]
  OBVIOUS
<1>2. U \in [Nat -> Parent] /\ U[0] = tree'.parent /\ Len(redoActionList') = 0
  BY <1>1
<1>3. \A k \in 1..Len(redoActionList') : FALSE
  BY <1>2
<1>4. Future(U)'
  BY <1>2, <1>3 DEF Future, Undone
<1>5. QED BY <1>1, <1>4

\* What is redone leaves the rest as it was, and finds what it captured.
LEMMA FutureShrinks ==
  ASSUME IndInv, NEW W, Future(W), redoActionList # <<>>, NEW i \in Item,
         Make(Last(redoActionList), i),
         redoActionList' = SubSeq(redoActionList, 1, Len(redoActionList) - 1)
  PROVE  /\ Makeable(Last(redoActionList)) /\ Ready(Last(redoActionList), tree.parent)
         /\ \E U : /\ Future(U)' /\ U = Since(W, Last(redoActionList), i)
                  /\ \E k \in Nat : tree'.parent = U[k]
<1>1. redoActionList \in Seq(Action)
  BY DEF IndInv, TypeOK
<1>2. PICK m \in Nat, x \in Action :
        m > 0 /\ m = Len(redoActionList) /\ x = redoActionList[m] /\ x = Last(redoActionList)
  BY <1>1, PopProperties DEF Last
<1>3. /\ Len(redoActionList') = m - 1
      /\ \A k \in 1..m - 1 : redoActionList'[k] = redoActionList[k]
  BY <1>1, <1>2, PopProperties
<1>4. /\ W \in [Nat -> Parent] /\ W[m] = tree.parent
      /\ \A k \in 1..m : Fits(redoActionList[k], W[k], W[k - 1])
  BY <1>2 DEF Future, Undone
<1>5. \A k \in 1..m : redoActionList[k] \in Action /\ Allocated(redoActionList[k])
  BY <1>1, <1>2, Parts DEF IndInv
<1>6. Makeable(x) /\ Fits(x, tree.parent, W[m - 1])
  <2>1. m \in 1..m
    BY <1>2
  <2>2. /\ Allocated(x)
        /\ x.kind = "create" =>
             x.parent \in heap /\ x.prev \in ItemOrNil /\ x.prev \in heap \cup {Nil}
    BY <1>2, <1>5, <2>1, ActionParts
  <2>3. Fits(x, W[m], W[m - 1])
    BY <1>2, <1>4, <2>1
  <2>4. QED BY <1>4, <2>1, <2>2, <2>3 DEF Makeable
<1>7. PICK U : U = Since(W, x, i)
  OBVIOUS
<1>8. Make(x, i)
  BY <1>2
<1>9. U \in [Nat -> Parent] /\ U[m - 1] = tree'.parent
  <2>1. m - 1 \in Nat
    BY <1>2
  <2>2. CASE x.kind = "create"
    <3>1. W[m - 1] = tree.parent
      BY <1>6, <2>2 DEF Fits, Moved
    <3>2. QED BY <1>4, <1>6, <1>7, <1>8, <2>1, <2>2, <3>1, SinceType
  <2>3. CASE x.kind # "create"
    <3>1. tree'.parent = Moved(x, tree.parent)
      BY <1>6, <1>8, <2>3, MadeParents
    <3>2. U = W
      BY <1>7, <2>3 DEF Since
    <3>3. QED BY <1>4, <1>6, <3>1, <3>2 DEF Fits
  <2>4. QED BY <2>2, <2>3
<1>10. ASSUME NEW k \in 1..m - 1 PROVE Fits(redoActionList'[k], U[k], U[k - 1])
  <2>1. k \in Nat /\ k - 1 \in Nat /\ k \in 1..m
    BY <1>2
  <2>2. Fits(redoActionList[k], W[k], W[k - 1])
    BY <1>4, <2>1
  <2>3. Fits(redoActionList[k], Since(W, x, i)[k], Since(W, x, i)[k - 1])
    BY <1>4, <1>5, <1>6, <1>8, <2>1, <2>2, SinceFits
  <2>4. QED BY <1>3, <1>7, <2>3
<1>11. Future(U)'
  BY <1>2, <1>3, <1>9, <1>10 DEF Future, Undone
<1>12. \E k \in Nat : tree'.parent = U[k]
  BY <1>2, <1>9
<1>13. QED BY <1>2, <1>6, <1>7, <1>11, <1>12 DEF Fits

\* A document just loaded has nothing to go back to.
LEMMA InitPlaces ==
  ASSUME Init
  PROVE  PlacesKnown
<1>1. tree.parent \in Parent
  BY InitInv DEF IndInv, TypeOK, Tree, Parent
<1>2. PICK V : V = [k \in Nat |-> tree.parent]
  OBVIOUS
<1>3. V \in [Nat -> Parent] /\ V[0] = tree.parent
  BY <1>1, <1>2
<1>4. /\ Len(actionList) = 0 /\ Len(redoActionList) = 0
      /\ \A k \in 1..Len(actionList) : FALSE
      /\ \A k \in 1..Len(redoActionList) : FALSE
  BY DEF Init
<1>5. Past(V) /\ Future(V)
  BY <1>3, <1>4 DEF Past, Future, Done, Undone
<1>6. QED BY <1>5 DEF PlacesKnown

\* Every step keeps them.
LEMMA PlacesKept ==
  ASSUME IndInv, IndInv', PlacesKnown, [Next]_vars
  PROVE  PlacesKnown'
<1>1. PICK V, W : Past(V) /\ Future(W)
  BY DEF PlacesKnown
<1>2. CASE Command
  <2>1. PICK x : Commanded(x)
    BY <1>2, CommandMakes
  <2>2. PICK i \in Item : Make(x, i) /\ actionList' = Append(actionList, On(x, i))
    BY <2>1 DEF Commanded, DoAction
  <2>3. Makeable(x) /\ Ready(x, tree.parent) /\ redoActionList' = <<>>
    BY <2>1 DEF Commanded, DoAction
  <2>4. \E U : Past(U)'
    BY <1>1, <2>2, <2>3, PastGrows
  <2>5. tree'.parent \in Parent
    BY <2>2, <2>3, MadeParents
  <2>6. \E U : Future(U)'
    BY <2>3, <2>5, FutureEnds
  <2>7. QED BY <2>4, <2>6 DEF PlacesKnown
<1>3. CASE UndoLastAction
  <2>1. /\ Past(V)'
        /\ \E x \in Action : /\ Allocated(x) /\ Fits(x, tree'.parent, tree.parent)
                             /\ redoActionList' = Append(redoActionList, x)
    BY <1>1, <1>3, PastShrinks
  <2>2. tree'.parent \in Parent
    BY DEF IndInv, TypeOK, Tree, Parent
  <2>3. \E U : Future(U)'
    BY <1>1, <2>1, <2>2, FutureGrows
  <2>4. QED BY <2>1, <2>3 DEF PlacesKnown
<1>4. CASE RedoAction
  <2>1. PICK x : x = Last(redoActionList)
    OBVIOUS
  <2>2. PICK i \in Item : Make(x, i) /\ actionList' = Append(actionList, On(x, i))
    BY <1>4, <2>1 DEF RedoAction, Last
  <2>3. /\ redoActionList # <<>>
        /\ redoActionList' = SubSeq(redoActionList, 1, Len(redoActionList) - 1)
    BY <1>4 DEF RedoAction
  <2>4. Makeable(x) /\ Ready(x, tree.parent) /\ \E U : Future(U)'
    BY <1>1, <2>1, <2>2, <2>3, FutureShrinks
  <2>5. \E U : Past(U)'
    BY <1>1, <2>2, <2>4, PastGrows
  <2>6. QED BY <2>4, <2>5 DEF PlacesKnown
<1>5. CASE Save \/ UNCHANGED vars
  <2>1. UNCHANGED <<tree, actionList, redoActionList>>
    BY <1>5 DEF Save, vars, docVars
  <2>2. Past(V)' /\ Future(W)'
    BY <1>1, <2>1 DEF Past, Future, Done, Undone
  <2>3. QED BY <2>2 DEF PlacesKnown
<1>6. QED BY <1>2, <1>3, <1>4, <1>5 DEF Next

\* Parents that are allocated, and lead from no node back to itself; every item
\* that is allocated has one.
Sane(s, H) == /\ \A x \in Node : s[x] \in H \cup {Nil}
              /\ \A x \in H \ {Root} : s[x] # Nil
              /\ \A S \in SUBSET Node : (\A x \in S : s[x] \in S) => S = {}

\* They do so with a new item below any of them.
LEMMA BornSane ==
  ASSUME NEW H \in SUBSET Node, NEW s \in Parent, Sane(s, H), NEW i \in Node \ H, NEW p \in H
  PROVE  Sane(Born(s, i, p), H \cup {i})
<1>1. PICK u : u = Born(s, i, p)
  OBVIOUS
<1>2. \A x \in Node : u[x] = IF x = i THEN p ELSE s[x]
  BY <1>1 DEF Born, Parent
<1>3. \A x \in Node : u[x] \in H \cup {i} \cup {Nil}
  BY <1>2 DEF Sane
<1>4. ASSUME NEW S \in SUBSET Node, \A x \in S : u[x] \in S PROVE S = {}
  <2>1. PICK T \in SUBSET Node : T = S \ {i}
    OBVIOUS
  <2>2. ASSUME NEW x \in T PROVE s[x] \in T
    <3>1. s[x] \in S /\ s[x] \in H \cup {Nil}
      BY <1>2, <1>4, <2>1, <2>2 DEF Sane
    <3>2. i # Nil
      BY NodeAssumption
    <3>3. QED BY <2>1, <3>1, <3>2
  <2>3. T = {}
    BY <2>2 DEF Sane
  <2>4. i \notin S
    BY <1>2, <1>4, <2>1, <2>3
  <2>5. QED BY <2>1, <2>3, <2>4
<1>5. \A x \in (H \cup {i}) \ {Root} : u[x] # Nil
  BY <1>2, NodeAssumption DEF Sane
<1>6. QED BY <1>1, <1>3, <1>4, <1>5 DEF Sane

\* And with an item moved to one near it.
LEMMA MovedSane ==
  ASSUME NEW H \in SUBSET Node, NEW s \in Parent, Sane(s, H), NEW i \in Node, NEW p \in H,
         Near(s, i, p)
  PROVE  Sane([s EXCEPT ![i] = p], H)
<1>1. PICK u : u = [s EXCEPT ![i] = p]
  OBVIOUS
<1>2. \A x \in Node : u[x] = IF x = i THEN p ELSE s[x]
  BY <1>1 DEF Parent
<1>3. \A x \in Node : u[x] \in H \cup {Nil}
  BY <1>2 DEF Sane
<1>4. \A S \in SUBSET Node : (\A x \in S : s[x] \in S) => S = {}
  BY DEF Sane
<1>5. ASSUME NEW S \in SUBSET Node, \A x \in S : u[x] \in S PROVE S = {}
  <2>1. CASE i \notin S \/ p = s[i]
    <3>1. \A x \in S : s[x] \in S
      BY <1>2, <1>5, <2>1
    <3>2. QED BY <1>4, <3>1
  <2>2. CASE i \in S /\ s[i] \in Item /\ p = s[s[i]]
    <3>1. PICK T \in SUBSET Node : T = S \cup {s[i]}
      BY <2>2 DEF Item
    <3>2. \A x \in T : s[x] \in T
      BY <1>2, <1>5, <2>2, <3>1
    <3>3. QED BY <1>4, <3>1, <3>2
  <2>3. CASE i \in S /\ p \in Item \ {i} /\ s[p] = s[i]
    <3>1. p \in S /\ s[p] = u[p]
      BY <1>2, <1>5, <2>3
    <3>2. s[i] \in S
      BY <1>5, <2>3, <3>1
    <3>3. \A x \in S : s[x] \in S
      BY <1>2, <1>5, <3>2
    <3>4. QED BY <1>4, <3>3
  <2>4. QED BY <2>1, <2>2, <2>3 DEF Near
<1>6. \A x \in H \ {Root} : u[x] # Nil
  BY <1>2, NodeAssumption DEF Sane
<1>7. QED BY <1>1, <1>3, <1>5, <1>6 DEF Sane

\* The parents behind and before each entry are all like that.
PlacesSane == \E V, W : /\ Past(V) /\ Future(W)
                       /\ \A k \in Nat : Sane(V[k], heap) /\ Sane(W[k], heap)

\* So are they since an action was made.
LEMMA SinceSane ==
  ASSUME IndInv, NEW x, Makeable(x), NEW i \in Item, Make(x, i), NEW V \in [Nat -> Parent],
         \A k \in Nat : Sane(V[k], heap)
  PROVE  \A k \in Nat : Sane(Since(V, x, i)[k], heap')
<1>1. heap \in SUBSET Node /\ \A k \in Nat : V[k] \in Parent
  BY DEF IndInv, TypeOK
<1>2. CASE x.kind = "create"
  <2>1. i \notin heap /\ heap' = heap \cup {i} /\ x.parent \in heap
    BY <1>2 DEF Make, MakeCreate, Makeable
  <2>2. \A k \in Nat : Sane(Born(V[k], i, x.parent), heap \cup {i})
    BY <1>1, <2>1, BornSane DEF Item
  <2>3. QED BY <1>2, <2>1, <2>2 DEF Since
<1>3. CASE x.kind # "create"
  <2>1. heap' = heap
    BY <1>3 DEF Make, DetachItem, MakeEdit, MakeMove
  <2>2. QED BY <1>3, <2>1 DEF Since
<1>4. QED BY <1>2, <1>3

\* Every command, undo and redo keeps them so.
LEMMA SanePlacesKept ==
  ASSUME IndInv, IndInv', PlacesSane, Command \/ UndoLastAction \/ RedoAction
  PROVE  PlacesSane'
<1>1. PICK V, W : /\ Past(V) /\ Future(W)
                  /\ \A k \in Nat : Sane(V[k], heap) /\ Sane(W[k], heap)
  BY DEF PlacesSane
<1>2. /\ V \in [Nat -> Parent] /\ W \in [Nat -> Parent] /\ Len(actionList) \in Nat
      /\ V[Len(actionList)] = tree.parent /\ heap \in SUBSET Node
  BY <1>1 DEF Past, Future, IndInv, TypeOK
<1>3. tree.parent \in Parent /\ Sane(tree.parent, heap)
  BY <1>1, <1>2
<1>4. CASE Command
  <2>1. PICK x : Commanded(x)
    BY <1>4, CommandMakes
  <2>2. PICK i \in Item : Make(x, i) /\ actionList' = Append(actionList, On(x, i))
    BY <2>1 DEF Commanded, DoAction
  <2>3. Makeable(x) /\ Ready(x, tree.parent) /\ Taken(x) /\ redoActionList' = <<>>
    BY <2>1 DEF Commanded, DoAction
  <2>4. PICK U : Past(U)' /\ \A k \in Nat : U[k] = Since(V, x, i)[k] \/ U[k] = tree'.parent
    BY <1>1, <2>2, <2>3, PastGrows
  <2>5. tree'.parent \in Parent
    BY <2>2, <2>3, MadeParents
  <2>6. PICK Y : Future(Y)' /\ \A k \in Nat : Y[k] = tree'.parent
    BY <2>3, <2>5, FutureEnds
  <2>7. \A k \in Nat : Sane(Since(V, x, i)[k], heap')
    BY <1>1, <1>2, <2>2, <2>3, SinceSane
  <2>8. Sane(tree'.parent, heap')
    <3>1. CASE x.kind = "create"
      <4>1. Since(V, x, i)[Len(actionList)] = tree'.parent
        BY <1>2, <2>2, <2>3, <3>1, SinceType
      <4>2. QED BY <1>2, <2>7, <4>1
    <3>2. CASE x.kind # "create"
      <4>1. /\ tree'.parent = Moved(x, tree.parent) /\ x \in Action /\ Allocated(x)
        BY <2>2, <2>3, <3>2, MadeParents
      <4>2. heap' = heap
        BY <2>2, <3>2 DEF Make, DetachItem, MakeEdit, MakeMove
      <4>3. CASE x.kind = "move"
        <5>1. PICK j \in Node, p \in heap : j = x.item /\ p = x.newParent
          BY <4>1, <4>3, ActionParts DEF Item
        <5>2. Near(tree.parent, j, p)
          BY <2>3, <4>3, <5>1 DEF Taken
        <5>3. Sane([tree.parent EXCEPT ![j] = p], heap)
          BY <1>2, <1>3, <5>2, MovedSane
        <5>4. QED BY <4>1, <4>2, <4>3, <5>1, <5>3 DEF Moved
      <4>4. CASE x.kind # "move"
        BY <1>3, <4>1, <4>2, <4>4 DEF Moved
      <4>5. QED BY <4>3, <4>4
    <3>3. QED BY <3>1, <3>2
  <2>9. \A k \in Nat : Sane(U[k], heap') /\ Sane(Y[k], heap')
    <3>1. SUFFICES ASSUME NEW k \in Nat PROVE Sane(U[k], heap') /\ Sane(Y[k], heap')
      OBVIOUS
    <3>2. Sane(Y[k], heap')
      BY <2>6, <2>8
    <3>3. Sane(U[k], heap')
      <4>1. CASE U[k] = Since(V, x, i)[k]
        BY <2>7, <4>1
      <4>2. CASE U[k] = tree'.parent
        BY <2>8, <4>2
      <4>3. QED BY <2>4, <4>1, <4>2
    <3>4. QED BY <3>2, <3>3
  <2>10. QED BY <2>4, <2>6, <2>9 DEF PlacesSane
<1>5. CASE UndoLastAction
  <2>1. /\ Past(V)' /\ \E k \in Nat : tree'.parent = V[k]
        /\ \E x \in Action : /\ Allocated(x) /\ Fits(x, tree'.parent, tree.parent)
                             /\ redoActionList' = Append(redoActionList, x)
    BY <1>1, <1>5, PastShrinks
  <2>2. tree'.parent \in Parent
    BY DEF IndInv, TypeOK, Tree, Parent
  <2>3. PICK U : Future(U)' /\ \A k \in Nat : U[k] = W[k] \/ U[k] = tree'.parent
    BY <1>1, <2>1, <2>2, FutureGrows
  <2>4. heap' = heap
    BY <1>5 DEF UndoLastAction, Revert, DetachItem, AddItem, MakeEdit, MakeMove
  <2>5. Sane(tree'.parent, heap)
    BY <1>1, <2>1
  <2>6. \A k \in Nat : Sane(V[k], heap') /\ Sane(U[k], heap')
    <3>1. SUFFICES ASSUME NEW k \in Nat PROVE Sane(V[k], heap) /\ Sane(U[k], heap)
      BY <2>4
    <3>2. CASE U[k] = W[k]
      BY <1>1, <3>2
    <3>3. CASE U[k] = tree'.parent
      BY <1>1, <2>5, <3>3
    <3>4. QED BY <2>3, <3>2, <3>3
  <2>7. QED BY <2>1, <2>3, <2>6 DEF PlacesSane
<1>6. CASE RedoAction
  <2>1. PICK x : x = Last(redoActionList)
    OBVIOUS
  <2>2. PICK i \in Item : Make(x, i) /\ actionList' = Append(actionList, On(x, i))
    BY <1>6, <2>1 DEF RedoAction, Last
  <2>3. /\ redoActionList # <<>>
        /\ redoActionList' = SubSeq(redoActionList, 1, Len(redoActionList) - 1)
    BY <1>6 DEF RedoAction
  <2>4. Makeable(x) /\ Ready(x, tree.parent)
    BY <1>1, <2>1, <2>2, <2>3, FutureShrinks
  <2>5. PICK U : /\ Future(U)' /\ U = Since(W, x, i)
                 /\ \E k \in Nat : tree'.parent = U[k]
    BY <1>1, <2>1, <2>2, <2>3, FutureShrinks
  <2>6. PICK Y : Past(Y)' /\ \A k \in Nat : Y[k] = Since(V, x, i)[k] \/ Y[k] = tree'.parent
    BY <1>1, <2>2, <2>4, PastGrows
  <2>7. \A k \in Nat : Sane(Since(V, x, i)[k], heap')
    BY <1>1, <1>2, <2>2, <2>4, SinceSane
  <2>8. \A k \in Nat : Sane(U[k], heap')
    <3>1. \A k \in Nat : Sane(Since(W, x, i)[k], heap')
      BY <1>1, <1>2, <2>2, <2>4, SinceSane
    <3>2. QED BY <2>5, <3>1
  <2>9. Sane(tree'.parent, heap')
    BY <2>5, <2>8
  <2>10. \A k \in Nat : Sane(Y[k], heap') /\ Sane(U[k], heap')
    <3>1. SUFFICES ASSUME NEW k \in Nat PROVE Sane(Y[k], heap')
      BY <2>8
    <3>2. CASE Y[k] = Since(V, x, i)[k]
      BY <2>7, <3>2
    <3>3. CASE Y[k] = tree'.parent
      BY <2>9, <3>3
    <3>4. QED BY <2>6, <3>2, <3>3
  <2>11. QED BY <2>5, <2>6, <2>10 DEF PlacesSane
<1>7. QED BY <1>4, <1>5, <1>6

\* Then no traversal of the tree, or of what is out of it, goes on for ever.
LEMMA SaneGrounded ==
  ASSUME IndInv, PlacesSane
  PROVE  Grounded(tree)
<1>1. PICK V, W : Past(V) /\ \A k \in Nat : Sane(V[k], heap)
  BY DEF PlacesSane
<1>2. Sane(tree.parent, heap)
  BY <1>1 DEF Past, IndInv, TypeOK
<1>3. tree \in Tree /\ OnwardAgree(tree) /\ ChainsEnd(tree)
  BY AgreeOnward DEF IndInv, TypeOK, LinksConsistent, ChainsFinite
<1>4. \A S \in SUBSET Node : (\A x \in S : tree.parent[x] \in S) => S = {}
  BY <1>2 DEF Sane
<1>5. GroundedIn(tree, Node)
  <2>1. Node \in SUBSET Node
    OBVIOUS
  <2>2. QED BY <1>3, <1>4, <2>1, ParentsGround
<1>6. QED BY <1>5 DEF GroundedIn, Grounded

\* With them no place is wrong.
LEMMA KnownPlaces ==
  ASSUME IndInv, PlacesKnown
  PROVE  PlaceKept
<1>1. PICK V, W : Past(V) /\ Future(W)
  BY DEF PlacesKnown
<1>2. \A p, b : Beside(tree.parent, p, b) => ~WrongAfter(tree, p, b)
  BY DEF Beside, WrongAfter
<1>3. actionList \in Seq(Action) /\ redoActionList \in Seq(Action)
  BY DEF IndInv, TypeOK
<1>4. ASSUME 1 \in DOMAIN redoActionList, NEW x, x = Last(redoActionList)
      PROVE  /\ x.kind = "create" => ~WrongAfter(tree, x.parent, x.prev)
             /\ x.kind = "move" => ~WrongAfter(tree, x.newParent, x.newPrev)
  <2>1. PICK m \in Nat : m > 0 /\ m = Len(redoActionList) /\ x = redoActionList[m]
    BY <1>3, <1>4 DEF Last
  <2>2. m \in 1..Len(redoActionList)
    BY <2>1
  <2>3. Fits(x, W[m], W[m - 1]) /\ W[m] = tree.parent
    BY <1>1, <2>1, <2>2 DEF Future, Undone
  <2>4. QED BY <1>2, <2>3 DEF Fits, Ready
<1>5. ASSUME 1 \in DOMAIN actionList, NEW x, x = Last(actionList)
      PROVE  /\ x.kind = "delete" => ~WrongAfter(tree, x.parent, x.prev)
             /\ x.kind = "move" => ~WrongAfter(tree, x.oldParent, x.oldPrev)
  <2>1. PICK n \in Nat : n > 0 /\ n = Len(actionList) /\ x = actionList[n]
    BY <1>3, <1>5 DEF Last
  <2>2. n \in 1..Len(actionList)
    BY <2>1
  <2>3. Fits(x, V[n - 1], tree.parent) /\ V[n - 1] \in Parent
    BY <1>1, <2>1, <2>2 DEF Past, Done
  <2>4. x \in Action /\ Allocated(x)
    BY <1>3, <2>1, <2>2, Parts DEF IndInv
  <2>5. CASE x.kind = "delete"
    BY <1>2, <2>3, <2>5 DEF Fits, Ready, Moved
  <2>6. CASE x.kind = "move"
    <3>1. /\ tree.parent = [V[n - 1] EXCEPT ![x.item] = x.newParent]
          /\ Beside(V[n - 1], x.oldParent, x.oldPrev)
      BY <2>3, <2>6 DEF Fits, Ready, Moved
    <3>2. x.oldPrev # x.item /\ x.oldPrev \in Node \cup {Nil}
      BY <2>4, <2>6, ActionParts DEF ItemOrNil, Item
    <3>3. Beside(tree.parent, x.oldParent, x.oldPrev)
      BY <2>3, <3>1, <3>2 DEF Beside, Parent
    <3>4. QED BY <1>2, <2>6, <3>3
  <2>7. QED BY <2>5, <2>6
<1>6. QED BY <1>4, <1>5 DEF PlaceKept

\* The place an undo or a redo puts an item back to always exists: addAsChild
\* never falls back to the first place (revert and make of every ClientAction),
\* through creations that are made once more as well.
THEOREM PlacesStayKept == Spec => []PlaceKept
<1>1. Init => IndInv /\ PlacesKnown
  BY InitInv, InitPlaces
<1>2. IndInv /\ PlacesKnown /\ [Next]_vars => IndInv' /\ PlacesKnown'
  <2>1. IndInv /\ [Next]_vars => IndInv'
    BY CommandKeeps, SaveKeeps, UndoKeeps, RedoKeeps, StutterKeeps DEF Next
  <2>2. QED BY <2>1, PlacesKept
<1>3. IndInv /\ PlacesKnown => PlaceKept
  BY KnownPlaces
<1>4. QED BY <1>1, <1>2, <1>3, PTL DEF Spec

---------------------------------------------------------------------------
(* What an action does, forth and back.                                    *)

\* A document: all the links ever made, and the texts.
Doc == {s \in [tree : Tree, text : [Item -> Text]] :
          LinksAgree(s.tree) /\ ChainsEnd(s.tree) /\ Hung(s.tree)}

Current == [tree |-> tree, text |-> text]

View(s) == LET shown == InTree(s.tree) IN
  [x \in shown |-> [child |-> s.tree.firstChild[x], next |-> s.tree.next[x],
                    text |-> IF x = Root THEN EmptyText ELSE s.text[x]]]

\* In it items that are not allocated yet are linked to nothing, and empty.
Fresh(s) == \A x \in Item \ heap : Detached(s.tree, x) /\ s.text[x] = EmptyText

\* The same document, with another parent for an item that is out of it.
With(s, i, p) == [tree |-> Reparented(s.tree, i, p), text |-> s.text]

\* The place of an item in the tree.
Captured(t, i, p, b) == t.parent[i] = p /\ t.prev[i] = b /\ Linked(t, i)

\* The action found the document s and left the document u.  The parent of an
\* item that it made counts as set before.
Did(x, s, u) ==
  \/ /\ x.kind = "create" /\ x.prev # x.item
     /\ Detached(s.tree, x.item) /\ s.tree.parent[x.item] = x.parent
     /\ u.tree = AddAsChild(s.tree, x.parent, x.item, x.prev) /\ u.text = s.text
  \/ /\ x.kind = "delete"
     /\ Captured(s.tree, x.item, x.parent, x.prev) /\ s.tree.firstChild[x.item] = Nil
     /\ u.tree = DetachFromTree(s.tree, x.item) /\ u.text = s.text
  \/ /\ x.kind = "edit"
     /\ s.text[x.item] = x.before
     /\ u.tree = s.tree /\ u.text = [s.text EXCEPT ![x.item] = x.after]
  \/ /\ x.kind = "move"
     /\ Captured(s.tree, x.item, x.oldParent, x.oldPrev)
     /\ u.tree = AddAsChild(DetachFromTree(s.tree, x.item), x.newParent, x.item, x.newPrev)
     /\ u.text = s.text

---------------------------------------------------------------------------
(* One action, forth and back.                                             *)

\* Moving back an item that was moved gives the tree it was in.
LEMMA MoveUndoesMove ==
  ASSUME NEW t \in Tree, LinksAgree(t), ChainsEnd(t), NEW i \in Item, NEW p \in Node,
         NEW b \in ItemOrNil, Captured(t, i, p, b), NEW q \in Node, NEW c \in ItemOrNil, c # i
  PROVE  AddAsChild(DetachFromTree(AddAsChild(DetachFromTree(t, i), q, i, c), i), p, i, b) = t
<1>1. PICK d \in Tree : /\ d = DetachFromTree(t, i) /\ Detached(d, i)
                        /\ LinksAgree(d) /\ ChainsEnd(d)
  BY DetachTyped, DetachDetaches, DetachLinks, DetachChains
<1>2. DetachFromTree(AddAsChild(d, q, i, c), i) = Reparented(d, i, q)
  BY <1>1, DetachUndoesAdd
<1>3. b # i
  BY NotOwnSibling DEF Captured
<1>4. AddAsChild(Reparented(d, i, q), p, i, b) = AddAsChild(d, p, i, b)
  BY <1>3, AddForgetsParent
<1>5. AddAsChild(d, p, i, b) = t
  BY <1>1, AddUndoesDetach DEF Captured
<1>6. QED BY <1>1, <1>2, <1>4, <1>5

\* A new parent that an item has already is none.
LEMMA SameParent ==
  ASSUME NEW t \in Tree, NEW i \in Item, NEW p \in Node, t.parent[i] = p
  PROVE  Reparented(t, i, p) = t
BY DEF Reparented, Tree, Item

\* revert() after make().
LEMMA DidReverted ==
  ASSUME IndInv, NEW x \in Action, Allocated(x), NEW s \in Doc, Did(x, s, Current), Revert(x)
  PROVE  Current' = s
<1>1. /\ s.tree \in Tree /\ LinksAgree(s.tree) /\ ChainsEnd(s.tree) /\ s.text \in [Item -> Text]
      /\ s = [tree |-> s.tree, text |-> s.text]
      /\ Current.tree = tree /\ Current.text = text
  BY DEF Doc, Current
<1>2. PICK i : i = x.item /\ i \in Item
  BY ActionParts
<1>3. heap \subseteq Node
  BY DEF IndInv, TypeOK
<1>4. CASE x.kind = "create"
  <2>1. PICK p, b : p = x.parent /\ b = x.prev
    OBVIOUS
  <2>2. p \in Node /\ b \in ItemOrNil
    BY <1>3, <1>4, <2>1, ActionParts
  <2>3. /\ Detached(s.tree, i) /\ s.tree.parent[i] = p /\ text = s.text
        /\ tree = AddAsChild(s.tree, p, i, b) /\ b # i
    BY <1>1, <1>2, <1>4, <2>1 DEF Did
  <2>4. tree' = DetachFromTree(tree, i) /\ text' = text
    BY <1>2, <1>4 DEF Revert, DetachItem
  <2>5. tree' = s.tree
    BY <1>1, <1>2, <2>2, <2>3, <2>4, DetachUndoesAdd, SameParent
  <2>6. QED BY <1>1, <2>3, <2>4, <2>5 DEF Current
<1>5. CASE x.kind = "delete"
  <2>1. PICK p, b : p = x.parent /\ b = x.prev
    OBVIOUS
  <2>2. p \in Node /\ b \in ItemOrNil
    BY <1>3, <1>5, <2>1, ActionParts
  <2>3. Captured(s.tree, i, p, b) /\ tree = DetachFromTree(s.tree, i) /\ text = s.text
    BY <1>1, <1>2, <1>5, <2>1 DEF Did
  <2>4. tree' = AddAsChild(tree, p, i, b) /\ text' = text
    BY <1>2, <1>5, <2>1 DEF Revert, AddItem
  <2>5. tree' = s.tree
    BY <1>1, <1>2, <2>2, <2>3, <2>4, AddUndoesDetach DEF Captured
  <2>6. QED BY <1>1, <2>3, <2>4, <2>5 DEF Current
<1>6. CASE x.kind = "edit"
  <2>1. s.text[i] = x.before /\ tree = s.tree /\ text = [s.text EXCEPT ![i] = x.after]
    BY <1>1, <1>2, <1>6 DEF Did
  <2>2. text' = [text EXCEPT ![i] = x.before] /\ tree' = tree
    BY <1>2, <1>6 DEF Revert, MakeEdit
  <2>3. text' = s.text
    BY <1>1, <1>2, <2>1, <2>2
  <2>4. QED BY <1>1, <2>1, <2>2, <2>3 DEF Current
<1>7. CASE x.kind = "move"
  <2>1. PICK p, b, q, c : p = x.oldParent /\ b = x.oldPrev /\ q = x.newParent /\ c = x.newPrev
    OBVIOUS
  <2>2. p \in Node /\ q \in Node /\ b \in ItemOrNil /\ c \in ItemOrNil /\ c # i
    BY <1>2, <1>3, <1>7, <2>1, ActionParts
  <2>3. /\ Captured(s.tree, i, p, b) /\ text = s.text
        /\ tree = AddAsChild(DetachFromTree(s.tree, i), q, i, c)
    BY <1>1, <1>2, <1>7, <2>1 DEF Did
  <2>4. tree' = AddAsChild(DetachFromTree(tree, i), p, i, b) /\ text' = text
    BY <1>2, <1>7, <2>1 DEF Revert, MakeMove
  <2>5. tree' = s.tree
    BY <1>1, <1>2, <2>2, <2>3, <2>4, MoveUndoesMove
  <2>6. QED BY <1>1, <2>3, <2>4, <2>5 DEF Current
<1>8. QED BY <1>4, <1>5, <1>6, <1>7 DEF Revert

\* make() once more, but of a creation.
LEMMA DidMade ==
  ASSUME NEW x, x.kind # "create", NEW u \in Doc, Did(x, Current, u), NEW i, Make(x, i)
  PROVE  Current' = u
<1>1. u = [tree |-> u.tree, text |-> u.text] /\ Current.tree = tree /\ Current.text = text
  BY DEF Doc, Current
<1>2. u.tree = tree' /\ u.text = text'
  <2>1. CASE x.kind = "delete"
    BY <1>1, <2>1 DEF Did, Make, DetachItem
  <2>2. CASE x.kind = "edit"
    BY <1>1, <2>2 DEF Did, Make, MakeEdit
  <2>3. CASE x.kind = "move"
    BY <1>1, <2>3 DEF Did, Make, MakeMove
  <2>4. QED BY <2>1, <2>2, <2>3 DEF Make
<1>3. QED BY <1>1, <1>2 DEF Current

\* What was done before an item was made was done with it as well.
LEMMA DidWith ==
  ASSUME IndInv, NEW x \in Action, Allocated(x), NEW s \in Doc, NEW u \in Doc, Did(x, s, u),
         NEW j \in Item, j \notin heap, NEW p \in Node
  PROVE  Did(x, With(s, j, p), With(u, j, p))
<1>1. s.tree \in Tree /\ u.tree \in Tree /\ heap \subseteq Node
  BY DEF Doc, IndInv, TypeOK
<1>2. PICK i : i = x.item /\ i \in Item /\ i # j /\ i \in Node
  BY ActionParts DEF Item
<1>a. PICK t \in Tree : t = s.tree
  BY <1>1
<1>b. PICK r \in Tree : /\ r = Reparented(t, j, p)
                        /\ \A y \in Node : r.parent[y] = IF y = j THEN p ELSE t.parent[y]
                        /\ r.firstChild = t.firstChild /\ r.next = t.next /\ r.prev = t.prev
  BY ReparentedFields
<1>3. /\ t = s.tree /\ r = Reparented(t, j, p) /\ t \in Tree
      /\ r \in Tree /\ r.parent[i] = t.parent[i]
      /\ r.firstChild = t.firstChild /\ r.next = t.next /\ r.prev = t.prev
  BY <1>2, <1>a, <1>b
<1>4. /\ With(s, j, p).tree = r /\ With(s, j, p).text = s.text
      /\ With(u, j, p).tree = Reparented(u.tree, j, p) /\ With(u, j, p).text = u.text
  BY <1>3 DEF With
<1>5. /\ Detached(t, i) => Detached(r, i)
      /\ \A q, b : Captured(t, i, q, b) => Captured(r, i, q, b)
  BY <1>3 DEF Detached, Captured, Linked
<1>6. CASE x.kind = "create"
  <2>1. PICK q, b : q = x.parent /\ b = x.prev
    OBVIOUS
  <2>2. q \in Node /\ b \in ItemOrNil /\ b # j
    BY <1>1, <1>6, <2>1, ActionParts, NodeAssumption DEF Item
  <2>3. /\ b # i /\ Detached(t, i) /\ t.parent[i] = q
        /\ u.tree = AddAsChild(t, q, i, b) /\ u.text = s.text
    BY <1>2, <1>3, <1>6, <2>1 DEF Did
  <2>4. Reparented(u.tree, j, p) = AddAsChild(r, q, i, b)
    BY <1>2, <1>3, <2>2, <2>3, AddReparented
  <2>5. QED BY <1>2, <1>3, <1>4, <1>5, <1>6, <2>1, <2>3, <2>4 DEF Did
<1>7. CASE x.kind = "delete"
  <2>1. /\ Captured(t, i, x.parent, x.prev) /\ t.firstChild[i] = Nil
        /\ u.tree = DetachFromTree(t, i) /\ u.text = s.text
    BY <1>2, <1>3, <1>7 DEF Did
  <2>2. Reparented(u.tree, j, p) = DetachFromTree(r, i)
    BY <1>2, <1>3, <2>1, DetachReparented
  <2>3. Captured(r, i, x.parent, x.prev) /\ r.firstChild[i] = Nil
    BY <1>3, <1>5, <2>1
  <2>4. QED BY <1>2, <1>4, <1>7, <2>1, <2>2, <2>3 DEF Did
<1>8. CASE x.kind = "edit"
  <2>1. s.text[i] = x.before /\ u.tree = t /\ u.text = [s.text EXCEPT ![i] = x.after]
    BY <1>2, <1>3, <1>8 DEF Did
  <2>2. QED BY <1>2, <1>3, <1>4, <1>8, <2>1 DEF Did
<1>9. CASE x.kind = "move"
  <2>1. PICK q, b : q = x.newParent /\ b = x.newPrev
    OBVIOUS
  <2>2. q \in Node /\ b \in ItemOrNil /\ b # j /\ b # i
    BY <1>1, <1>2, <1>9, <2>1, ActionParts, NodeAssumption DEF Item
  <2>3. PICK d \in Tree : d = DetachFromTree(t, i)
    BY <1>2, <1>3, DetachTyped
  <2>4. /\ Captured(t, i, x.oldParent, x.oldPrev)
        /\ u.tree = AddAsChild(d, q, i, b) /\ u.text = s.text
    BY <1>2, <1>3, <1>9, <2>1, <2>3 DEF Did
  <2>5. DetachFromTree(r, i) = Reparented(d, j, p)
    BY <1>2, <1>3, <2>3, DetachReparented
  <2>6. Reparented(u.tree, j, p) = AddAsChild(DetachFromTree(r, i), q, i, b)
    BY <1>2, <2>2, <2>3, <2>4, <2>5, AddReparented
  <2>7. Captured(r, i, x.oldParent, x.oldPrev)
    BY <1>5, <2>4
  <2>8. QED BY <1>2, <1>4, <1>9, <2>1, <2>4, <2>6, <2>7 DEF Did
<1>10. QED BY <1>6, <1>7, <1>8, <1>9 DEF Did

\* The user does not see the difference.
LEMMA WithDoc ==
  ASSUME NEW s \in Doc, Fresh(s), NEW j \in Item, j \notin heap, NEW p \in Node
  PROVE  /\ With(s, j, p) \in Doc /\ Fresh(With(s, j, p))
         /\ View(With(s, j, p)) = View(s)
<1>1. /\ s.tree \in Tree /\ LinksAgree(s.tree) /\ ChainsEnd(s.tree) /\ Hung(s.tree)
      /\ s.text \in [Item -> Text] /\ Detached(s.tree, j)
  BY DEF Doc, Fresh
<1>2. PICK r : /\ r = Reparented(s.tree, j, p)
               /\ r \in Tree /\ LinksAgree(r) /\ ChainsEnd(r)
               /\ \A x : Detached(r, x) <=> Detached(s.tree, x)
               /\ InTree(r) = InTree(s.tree)
  BY <1>1, ReparentedKeeps
<1>3. r.firstChild = s.tree.firstChild /\ r.next = s.tree.next
  BY <1>2 DEF Reparented
<1>4. With(s, j, p) = [tree |-> r, text |-> s.text]
  BY <1>2 DEF With
<1>5. With(s, j, p) \in Doc
  <2>1. Hung(r)
    BY <1>1, <1>2, <1>3 DEF Hung
  <2>2. QED BY <1>1, <1>2, <1>4, <2>1 DEF Doc
<1>6. Fresh(With(s, j, p))
  BY <1>2, <1>4 DEF Fresh
<1>7. View(With(s, j, p)) = View(s)
  BY <1>2, <1>3, <1>4 DEF View
<1>8. QED BY <1>5, <1>6, <1>7

---------------------------------------------------------------------------
(* The screen.                                                             *)

\* A widget sits in its parent's if and only if its item is linked.
Screened == \A x \in Item : plugged[x] <=> Linked(tree, x)

\* An item that is not allocated yet is linked to nothing, and has no child.
LEMMA FreshDetached ==
  ASSUME IndInv, NEW i \in Item \ heap
  PROVE  Detached(tree, i) /\ tree.firstChild[i] = Nil
<1>1. Unlinked(tree, i) /\ LinksAgree(tree) /\ i # Nil
  BY NodeAssumption DEF IndInv, FreshUnlinked, LinksConsistent, Item
<1>2. \A p \in Node : tree.firstChild[p] # i
  BY <1>1, NodeAssumption DEF LinksAgree, Unlinked
<1>3. QED BY <1>1, <1>2 DEF Detached, Unlinked

\* An item is linked, and its new widget holds no child.
LEMMA ScreenAdds ==
  ASSUME IndInv, Screened, Whole(tree), NEW i \in Item, Detached(tree, i), tree.firstChild[i] = Nil,
         NEW p \in Node, NEW b \in ItemOrNil, b # i,
         tree' = AddAsChild(tree, p, i, b), plugged' = AddWidget(i)
  PROVE  Screened'
<1>1. tree \in Tree /\ LinksAgree(tree) /\ ChainsEnd(tree)
  BY DEF IndInv, TypeOK, LinksConsistent, ChainsFinite
<1>2. Linked(tree', i) /\ \A x \in Item \ {i} : Linked(tree', x) <=> Linked(tree, x)
  BY <1>1, AddLinked
<1>3. plugged'[i]
  BY DEF AddWidget
<1>4. ASSUME NEW x \in Item \ {i} PROVE plugged'[x] <=> Linked(tree', x)
  <2>1. tree'.parent[x] = tree.parent[x]
    <3>1. PICK a \in ItemOrNil : tree' = InsertAfter(tree, p, i, a)
      BY DEF AddAsChild, ItemOrNil
    <3>2. QED BY <1>1, <3>1, InsertFields DEF Item
  <2>2. Linked(tree, x) => tree.parent[x] # i
    BY <1>1, HeapFinite, NoChildren DEF Item
  <2>3. plugged'[x] <=> plugged[x] /\ tree'.parent[x] # i
    BY DEF AddWidget
  <2>4. QED BY <1>2, <2>1, <2>2, <2>3 DEF Screened
<1>5. QED BY <1>2, <1>3, <1>4 DEF Screened

\* An item is taken out.
LEMMA ScreenRemoves ==
  ASSUME IndInv, Screened, Whole(tree), NEW i \in Item, DetachItem(i)
  PROVE  Screened' /\ Whole(tree)'
<1>1. tree \in Tree /\ LinksAgree(tree) /\ ChainsEnd(tree) /\ plugged \in [Item -> BOOLEAN]
  BY DEF IndInv, TypeOK, LinksConsistent, ChainsFinite
<1>2. tree' = DetachFromTree(tree, i) /\ plugged' = [plugged EXCEPT ![i] = FALSE]
  BY DEF DetachItem, UnplagItem
<1>3. /\ ~Linked(tree', i) /\ Whole(tree')
      /\ \A x \in Item \ {i} : Linked(tree', x) <=> Linked(tree, x)
  BY <1>1, <1>2, DetachLinked
<1>4. \A x \in Item : plugged'[x] <=> x # i /\ plugged[x]
  BY <1>1, <1>2
<1>5. QED BY <1>3, <1>4 DEF Screened

\* An item is moved.
LEMMA ScreenMoves ==
  ASSUME IndInv, Screened, Whole(tree), NEW i \in Item, NEW p \in Node, NEW b \in ItemOrNil, b # i,
         MakeMove(i, p, b)
  PROVE  Screened' /\ ((b # Nil => Linked(tree, b)) => Whole(tree)')
<1>1. tree \in Tree /\ LinksAgree(tree) /\ ChainsEnd(tree) /\ plugged \in [Item -> BOOLEAN]
  BY DEF IndInv, TypeOK, LinksConsistent, ChainsFinite
<1>2. PICK d \in Tree : /\ d = DetachFromTree(tree, i) /\ Detached(d, i)
                        /\ LinksAgree(d) /\ ChainsEnd(d)
  BY <1>1, DetachTyped, DetachDetaches, DetachLinks, DetachChains
<1>3. Whole(d) /\ \A x \in Item \ {i} : Linked(d, x) <=> Linked(tree, x)
  BY <1>1, <1>2, DetachLinked
<1>4. tree' = AddAsChild(d, p, i, b) /\ plugged' = [plugged EXCEPT ![i] = TRUE]
  BY <1>2 DEF MakeMove, UpdateItemPosition
<1>5. /\ Linked(tree', i) /\ \A x \in Item \ {i} : Linked(tree', x) <=> Linked(d, x)
      /\ Whole(d) /\ (b # Nil => Linked(d, b)) => Whole(tree')
  BY <1>2, <1>4, AddLinked
<1>6. \A x \in Item : plugged'[x] <=> x = i \/ plugged[x]
  BY <1>1, <1>4
<1>7. Screened'
  BY <1>3, <1>5, <1>6 DEF Screened
<1>8. (b # Nil => Linked(tree, b)) => Whole(tree')
  BY <1>3, <1>5 DEF ItemOrNil
<1>9. QED BY <1>7, <1>8

\* make() of any action that can be made.
LEMMA ScreenMade ==
  ASSUME IndInv, Screened, Whole(tree), NEW x, Makeable(x), NEW i \in Item, Make(x, i)
  PROVE  Screened'
<1>1. heap \subseteq Node /\ tree \in Tree /\ LinksAgree(tree) /\ FreshUnlinked
  BY DEF IndInv, TypeOK, LinksConsistent
<1>2. CASE x.kind = "create"
  <2>1. PICK p, b : p = x.parent /\ b = x.prev
    OBVIOUS
  <2>2. p \in Node /\ b \in ItemOrNil /\ b \in heap \cup {Nil}
    BY <1>1, <1>2, <2>1 DEF Makeable
  <2>3. MakeCreate(p, i, b)
    BY <1>2, <2>1 DEF Make
  <2>4. i \notin heap /\ tree' = AddAsChild(tree, p, i, b) /\ plugged' = AddWidget(i)
    BY <2>3 DEF MakeCreate
  <2>5. b # i
    BY <2>2, <2>4, NodeAssumption DEF Item
  <2>6. Detached(tree, i) /\ tree.firstChild[i] = Nil
    BY <1>1, <2>4, FreshDetached
  <2>7. QED BY <2>2, <2>4, <2>5, <2>6, ScreenAdds
<1>3. CASE x.kind = "delete"
  BY <1>3, ScreenRemoves DEF Make
<1>4. CASE x.kind = "edit"
  BY <1>4 DEF Make, MakeEdit, Screened
<1>5. CASE x.kind = "move"
  <2>1. PICK p, b : p = x.newParent /\ b = x.newPrev
    OBVIOUS
  <2>2. x \in Action /\ Allocated(x) /\ i = x.item /\ MakeMove(i, p, b)
    BY <1>5, <2>1 DEF Makeable, Make
  <2>3. p \in Node /\ b \in ItemOrNil /\ b # i
    BY <1>1, <1>5, <2>1, <2>2, ActionParts
  <2>4. QED BY <2>2, <2>3, ScreenMoves
<1>6. QED BY <1>2, <1>3, <1>4, <1>5 DEF Make

\* revert() of the last action.
LEMMA ScreenReverted ==
  ASSUME IndInv, Screened, Whole(tree), NEW x \in Action, Allocated(x), Revert(x),
         NEW s \in Doc, Did(x, s, Current)
  PROVE  Screened'
<1>1. heap \subseteq Node /\ x.item \in Item
  BY ActionParts DEF IndInv, TypeOK
<1>2. CASE x.kind = "create"
  BY <1>1, <1>2, ScreenRemoves DEF Revert
<1>3. CASE x.kind = "delete"
  <2>1. PICK i, p, b : i = x.item /\ p = x.parent /\ b = x.prev
    OBVIOUS
  <2>2. i \in Item /\ p \in Node /\ b \in ItemOrNil /\ b # i
    BY <1>1, <1>3, <2>1, ActionParts
  <2>3. tree' = AddAsChild(tree, p, i, b) /\ plugged' = AddWidget(i)
    BY <1>3, <2>1 DEF Revert, AddItem
  <2>4. s.tree.firstChild[i] = Nil /\ tree = DetachFromTree(s.tree, i)
    BY <1>3, <2>1 DEF Did, Current
  <2>5. s.tree \in Tree /\ LinksAgree(s.tree) /\ ChainsEnd(s.tree)
    BY DEF Doc
  <2>6. Detached(tree, i) /\ tree.firstChild[i] = Nil
    <3>1. Detached(tree, i)
      BY <2>2, <2>4, <2>5, DetachDetaches
    <3>2. tree.firstChild[i] = Nil
      BY <2>2, <2>4, <2>5, DetachFields, NodeAssumption DEF Item
    <3>3. QED BY <3>1, <3>2
  <2>7. QED BY <2>2, <2>3, <2>6, ScreenAdds
<1>4. CASE x.kind = "edit"
  BY <1>4 DEF Revert, MakeEdit, Screened
<1>5. CASE x.kind = "move"
  <2>1. PICK i, p, b : i = x.item /\ p = x.oldParent /\ b = x.oldPrev
    OBVIOUS
  <2>2. i \in Item /\ p \in Node /\ b \in ItemOrNil /\ b # i
    BY <1>1, <1>5, <2>1, ActionParts
  <2>3. MakeMove(i, p, b)
    BY <1>5, <2>1 DEF Revert
  <2>4. QED BY <2>2, <2>3, ScreenMoves
<1>6. QED BY <1>2, <1>3, <1>4, <1>5 DEF Revert

---------------------------------------------------------------------------
(* A command.                                                              *)

\* What a command may link an item after is linked.
LEMMA HangingLinked ==
  ASSUME IndInv, Screened, Whole(tree), NEW b \in Item, Hangs(b)
  PROVE  Linked(tree, b)
<1>1. CASE b \in OnScreen
  <2>1. Detached(tree, b) => plugged[b]
    BY <1>1, OnScreenFacts DEF Gone
  <2>2. Detached(tree, b) => ~Linked(tree, b)
    BY DEF Detached, Linked
  <2>3. ~Detached(tree, b)
    BY <2>1, <2>2 DEF Screened
  <2>4. QED BY <2>3 DEF Detached, Linked, Whole, Item
<1>2. CASE b \notin OnScreen
  BY <1>2 DEF Hangs, Linked, Whole, Item
<1>3. QED BY <1>1, <1>2

\* The document as an action finds it.
FoundBy(x, i) == IF x.kind = "create" THEN With(Current, i, x.parent) ELSE Current

\* A creation leaves its item linked.
LEMMA CreateDid ==
  ASSUME IndInv, Screened, Whole(tree), NEW p \in heap, NEW b \in ItemOrNil, b \in heap \cup {Nil},
         b = Nil \/ Hangs(b), NEW i \in Item, MakeCreate(p, i, b)
  PROVE  /\ b # i /\ (Hung(tree) /\ p \in InTree(tree) => Hung(tree)')
         /\ LET r == Reparented(tree, i, p) IN
            /\ Detached(r, i) /\ r.parent[i] = p
            /\ tree' = AddAsChild(r, p, i, b)
<1>1. /\ tree \in Tree /\ LinksAgree(tree) /\ ChainsEnd(tree) /\ p \in Node
      /\ i \in Item \ heap /\ tree' = AddAsChild(tree, p, i, b)
  BY DEF IndInv, TypeOK, LinksConsistent, ChainsFinite, MakeCreate
<1>2. b # i /\ Detached(tree, i)
  BY <1>1, FreshDetached, NodeAssumption DEF Item
<1>3. b # Nil => Linked(tree, b)
  BY HangingLinked DEF ItemOrNil
<1>4. Hung(tree) /\ p \in InTree(tree) => Hung(tree')
  BY <1>1, <1>2, <1>3, FreshDetached, HungAdds
<1>5. tree' = AddAsChild(Reparented(tree, i, p), p, i, b)
  BY <1>1, <1>2, AddForgetsParent
<1>6. Detached(Reparented(tree, i, p), i) /\ Reparented(tree, i, p).parent[i] = p
  BY <1>1, <1>2, ReparentedKeeps, ReparentedFields DEF Item
<1>7. QED BY <1>2, <1>4, <1>5, <1>6

\* An item on the screen is where its parent and previous sibling say.
LEMMA OnScreenCaptured ==
  ASSUME IndInv, Screened, Whole(tree), NEW i \in OnScreen
  PROVE  i \in Item /\ Captured(tree, i, tree.parent[i], tree.prev[i])
BY OnScreenFacts, HangingLinked DEF Captured, Hangs

\* Every command does what its action says, and leaves a document.
LEMMA CommandDid ==
  ASSUME IndInv, IndInv', Screened, Fresh(Current), Hung(tree),
         NEW x, Commanded(x), NEW i \in Item, Make(x, i)
  PROVE  /\ Did(On(x, i), FoundBy(x, i), Current') /\ Current' \in Doc
         /\ Fresh(Current)'
<1>1. Makeable(x) /\ Taken(x) /\ heap \subseteq Node
  BY DEF Commanded, IndInv, TypeOK
<1>2. /\ Current.tree = tree /\ Current.text = text
      /\ Current'.tree = tree' /\ Current'.text = text'
  BY DEF Current
<1>7. /\ tree \in Tree /\ LinksAgree(tree) /\ ChainsEnd(tree) /\ Whole(tree)
      /\ \A y \in OnScreen : y \in InTree(tree) \ {Root} /\ y \in Item
  <2>1. tree \in Tree /\ LinksAgree(tree) /\ ChainsEnd(tree)
    BY DEF IndInv, TypeOK, LinksConsistent, ChainsFinite
  <2>2. Whole(tree)
    BY <2>1, HungWhole
  <2>3. \A y \in OnScreen : y \in Item /\ Linked(tree, y)
    BY <2>2, OnScreenCaptured DEF Captured
  <2>4. QED BY <2>1, <2>2, <2>3, HungLinked DEF Item
<1>3. Did(On(x, i), FoundBy(x, i), Current') /\ Hung(tree)'
  <2>1. CASE x.kind = "create"
    <3>1. PICK p, b : p = x.parent /\ b = x.prev
      OBVIOUS
    <3>2. p \in heap /\ b \in ItemOrNil /\ b \in heap \cup {Nil} /\ (b = Nil \/ Hangs(b))
      BY <1>1, <2>1, <3>1 DEF Makeable, Taken
    <3>3. MakeCreate(p, i, b)
      BY <2>1, <3>1 DEF Make
    <3>4. PICK r : r = Reparented(tree, i, p)
      OBVIOUS
    <3>12. p \in InTree(tree)
      BY <1>1, <1>7, <2>1, <3>1, InTreeLeast DEF Taken
    <3>5. /\ b # i /\ Hung(tree)' /\ Detached(r, i) /\ r.parent[i] = p
          /\ tree' = AddAsChild(r, p, i, b)
      BY <1>7, <3>2, <3>3, <3>4, <3>12, CreateDid
    <3>6. text' = text
      <4>1. text' = [text EXCEPT ![i] = EmptyText] /\ i \notin heap
        BY <3>3 DEF MakeCreate
      <4>2. text[i] = EmptyText
        BY <1>2, <4>1 DEF Fresh
      <4>3. QED BY <4>1, <4>2 DEF IndInv, TypeOK
    <3>7. PICK y : y = On(x, i)
      OBVIOUS
    <3>8. y.kind = "create" /\ y.item = i /\ y.parent = p /\ y.prev = b
      BY <2>1, <3>1, <3>7 DEF On
    <3>9. PICK s : s = FoundBy(x, i) /\ s.tree = r /\ s.text = text
      <4>1. FoundBy(x, i) = [tree |-> Reparented(tree, i, p), text |-> text]
        BY <2>1, <3>1 DEF FoundBy, With, Current
      <4>2. QED BY <3>4, <4>1
    <3>10. Did(y, s, Current')
      BY <1>2, <3>5, <3>6, <3>8, <3>9 DEF Did
    <3>11. QED BY <3>5, <3>7, <3>9, <3>10
  <2>2. CASE x.kind = "delete"
    <3>1. i = x.item /\ DetachItem(i)
      BY <2>2 DEF Make
    <3>2. /\ i \in OnScreen /\ tree.firstChild[i] = Nil
          /\ x.parent = tree.parent[i] /\ x.prev = tree.prev[i]
      BY <1>1, <2>2, <3>1 DEF Taken
    <3>3. Captured(tree, i, x.parent, x.prev)
      BY <1>7, <3>2, OnScreenCaptured
    <3>4. Hung(tree)' /\ tree' = DetachFromTree(tree, i) /\ text' = text
      BY <1>7, <3>1, <3>2, HungRemoves DEF DetachItem
    <3>5. QED BY <1>2, <2>2, <3>1, <3>2, <3>3, <3>4 DEF Did, FoundBy, On
  <2>3. CASE x.kind = "edit"
    <3>1. i = x.item /\ tree' = tree /\ text' = [text EXCEPT ![i] = x.after] /\ text[i] = x.before
      BY <1>1, <2>3 DEF Make, MakeEdit, Taken
    <3>2. QED BY <1>2, <2>3, <3>1 DEF Did, FoundBy, On
  <2>4. CASE x.kind = "move"
    <3>1. PICK p, b : p = x.newParent /\ b = x.newPrev
      OBVIOUS
    <3>2. x \in Action /\ Allocated(x) /\ i = x.item /\ MakeMove(i, p, b)
      BY <1>1, <2>4, <3>1 DEF Makeable, Make
    <3>3. p \in Node /\ b \in ItemOrNil /\ b # i
      BY <1>1, <2>4, <3>1, <3>2, ActionParts
    <3>4. /\ i \in OnScreen /\ x.oldParent = tree.parent[i] /\ x.oldPrev = tree.prev[i]
          /\ b = Nil \/ Hangs(b)
      BY <1>1, <2>4, <3>1, <3>2 DEF Taken
    <3>5. Captured(tree, i, x.oldParent, x.oldPrev)
      BY <1>7, <3>4, OnScreenCaptured
    <3>7. tree' = AddAsChild(DetachFromTree(tree, i), p, i, b) /\ text' = text
      BY <3>2 DEF MakeMove
    <3>6. Hung(tree)'
      <4>1. i \in InTree(tree) \ {Root} /\ (b # Nil => Linked(tree, b))
        BY <1>7, <3>3, <3>4, HangingLinked DEF ItemOrNil
      <4>2. p \in InTree(tree)
        <5>1. p = Root \/ (p \in Item /\ Hangs(p))
          BY <1>1, <2>4, <3>1, <3>3 DEF Taken, Item
        <5>2. p = Root \/ Linked(tree, p)
          BY <1>7, <5>1, HangingLinked
        <5>3. QED BY <1>7, <3>3, <5>2, HungLinked, InTreeLeast
      <4>3. /\ p = tree.parent[i] \/ (tree.parent[i] # Root /\ p = tree.parent[tree.parent[i]])
               \/ (p # Root /\ tree.parent[p] = tree.parent[i])
            /\ p # i
        <5>1. Near(tree.parent, i, p)
          BY <1>1, <2>4, <3>1, <3>2 DEF Taken
        <5>2. tree.parent[i] \in InTree(tree)
          BY <1>7, <4>1, InTreeBack, AgreeOnward
        <5>3. tree.parent[i] # i /\ (tree.parent[i] # Root => tree.parent[tree.parent[i]] # i)
          <6>1. \A S \in SUBSET InTree(tree) :
                  Root \notin S /\ (\A y \in S : tree.parent[y] \in S) => S = {}
            BY <1>7, NoParentLoop, AgreeOnward
          <6>2. {i} # {} /\ {i, tree.parent[i]} # {}
            OBVIOUS
          <6>3. QED BY <4>1, <5>2, <6>1, <6>2
        <5>4. QED BY <5>1, <5>3 DEF Near, Item
      <4>4. \A S \in SUBSET (InTree(tree) \ {Root}) :
              (\A y \in S : (IF y = i THEN p ELSE tree.parent[y]) \in S) => S = {}
        BY <1>7, <4>1, <4>2, <4>3, NearMoves
      <4>5. QED BY <1>7, <3>3, <3>7, <4>1, <4>2, <4>3, <4>4, HungMoves
    <3>8. QED BY <1>2, <2>4, <3>1, <3>2, <3>5, <3>6, <3>7 DEF Did, FoundBy, On
  <2>5. QED BY <2>1, <2>2, <2>3, <2>4 DEF Make
<1>4. Current' \in Doc
  BY <1>2, <1>3 DEF IndInv, TypeOK, LinksConsistent, ChainsFinite, Doc, Current
<1>5. Fresh(Current)'
  <2>1. SUFFICES ASSUME NEW j \in Item \ heap'
                 PROVE  Detached(tree', j) /\ text'[j] = EmptyText
    BY <1>2 DEF Fresh
  <2>2. Detached(tree', j)
    <3>1. Unlinked(tree', j) /\ LinksAgree(tree') /\ j # Nil
      BY NodeAssumption DEF IndInv, FreshUnlinked, LinksConsistent, Item
    <3>2. \A p \in Node : tree'.firstChild[p] # j
      BY <3>1, NodeAssumption DEF LinksAgree, Unlinked
    <3>3. QED BY <3>1, <3>2 DEF Detached, Unlinked
  <2>3. j \notin heap /\ j \in Item /\ text[j] = EmptyText
    <3>1. heap \subseteq heap'
      BY <1>1, Parts, MakeKeeps DEF IndInv
    <3>2. QED BY <1>2, <3>1 DEF Fresh
  <2>4. text'[j] = text[j]
    <3>1. text \in [Item -> Text] /\ (x.kind # "create" => x.item \in heap)
      BY <1>1 DEF IndInv, TypeOK, Makeable, Allocated
    <3>2. x.kind = "create" => i \in heap' /\ text' = [text EXCEPT ![i] = EmptyText]
      BY DEF Make, MakeCreate
    <3>3. x.kind = "edit" => i = x.item /\ text' = [text EXCEPT ![i] = x.after]
      BY DEF Make, MakeEdit
    <3>4. x.kind \notin {"create", "edit"} => text' = text
      BY DEF Make, DetachItem, MakeMove
    <3>5. QED BY <2>1, <2>3, <3>1, <3>2, <3>3, <3>4
  <2>5. QED BY <2>2, <2>3, <2>4
<1>6. QED BY <1>3, <1>4, <1>5

---------------------------------------------------------------------------
(* The documents behind each entry of the two lists.                       *)

Behind(V) == /\ V \in [Nat -> Doc] /\ V[Len(actionList)] = Current
             /\ \A k \in Nat : Fresh(V[k])
             /\ \A k \in 1..Len(actionList) : Did(actionList[k], V[k - 1], V[k])

Ahead(W) == /\ W \in [Nat -> Doc] /\ W[Len(redoActionList)] = Current
            /\ \A k \in Nat : Fresh(W[k])
            /\ \A k \in 1..Len(redoActionList) : Did(redoActionList[k], W[k], W[k - 1])

\* The documents so far, once an item is new.
HadBeen(V, x, i) == IF x.kind = "create" THEN [k \in Nat |-> With(V[k], i, x.parent)] ELSE V

\* They look the same, and the actions did the same.
LEMMA HadBeenTyped ==
  ASSUME IndInv, NEW x, Makeable(x), NEW i \in Item, Make(x, i),
         NEW V \in [Nat -> Doc], \A k \in Nat : Fresh(V[k])
  PROVE  /\ HadBeen(V, x, i) \in [Nat -> Doc]
         /\ \A k \in Nat : /\ Fresh(HadBeen(V, x, i)[k])
                           /\ View(HadBeen(V, x, i)[k]) = View(V[k])
                           /\ V[k] = Current => HadBeen(V, x, i)[k] = FoundBy(x, i)
<1>1. CASE x.kind = "create"
  <2>1. i \notin heap /\ x.parent \in Node
    BY <1>1 DEF Make, MakeCreate, Makeable, IndInv, TypeOK
  <2>2. PICK p \in Node : p = x.parent
    BY <2>1
  <2>3. \A k \in Nat : /\ With(V[k], i, p) \in Doc /\ Fresh(With(V[k], i, p))
                       /\ View(With(V[k], i, p)) = View(V[k])
    BY <2>1, WithDoc
  <2>4. HadBeen(V, x, i) = [k \in Nat |-> With(V[k], i, p)]
    BY <1>1, <2>2 DEF HadBeen
  <2>5. FoundBy(x, i) = With(Current, i, p)
    BY <1>1, <2>2 DEF FoundBy
  <2>6. QED BY <2>3, <2>4, <2>5
<1>2. CASE x.kind # "create"
  BY <1>2 DEF HadBeen, FoundBy
<1>3. QED BY <1>1, <1>2

\* What an action did then it did with the new item as well.
LEMMA HadBeenDid ==
  ASSUME IndInv, NEW x, Makeable(x), NEW i \in Item, Make(x, i), NEW V \in [Nat -> Doc],
         NEW y \in Action, Allocated(y), NEW j \in Nat, NEW k \in Nat, Did(y, V[j], V[k])
  PROVE  Did(y, HadBeen(V, x, i)[j], HadBeen(V, x, i)[k])
<1>1. CASE x.kind = "create"
  <2>1. i \notin heap /\ x.parent \in Node
    BY <1>1 DEF Make, MakeCreate, Makeable, IndInv, TypeOK
  <2>2. PICK p \in Node : p = x.parent
    BY <2>1
  <2>3. Did(y, With(V[j], i, p), With(V[k], i, p))
    BY <2>1, DidWith
  <2>4. QED BY <1>1, <2>2, <2>3 DEF HadBeen
<1>2. CASE x.kind # "create"
  BY <1>2 DEF HadBeen
<1>3. QED BY <1>1, <1>2

\* One entry more.
LEMMA BehindGrows ==
  ASSUME IndInv, NEW x, Makeable(x), NEW i \in Item, Make(x, i),
         actionList' = Append(actionList, On(x, i)),
         Did(On(x, i), FoundBy(x, i), Current'), Current' \in Doc, Fresh(Current)',
         NEW V, Behind(V)
  PROVE  \E U : Behind(U)' /\ \A k \in 0..Len(actionList) : View(U[k]) = View(V[k])
<1>1. PICK n \in Nat : n = Len(actionList)
  BY DEF IndInv, TypeOK
<1>2. /\ V \in [Nat -> Doc] /\ V[n] = Current /\ \A k \in Nat : Fresh(V[k])
      /\ \A k \in 1..n : Did(actionList[k], V[k - 1], V[k])
  BY <1>1 DEF Behind
<1>3. PICK S : S = HadBeen(V, x, i)
  OBVIOUS
<1>4. /\ S \in [Nat -> Doc] /\ S[n] = FoundBy(x, i)
      /\ \A k \in Nat : Fresh(S[k]) /\ View(S[k]) = View(V[k])
  BY <1>1, <1>2, <1>3, HadBeenTyped
<1>5. PICK c : c = Current'
  OBVIOUS
<1>6. PICK U : U = [S EXCEPT ![n + 1] = c]
  OBVIOUS
<1>7. /\ U \in [Nat -> Doc] /\ U[n + 1] = c
      /\ \A k \in Nat : k # n + 1 => U[k] = S[k]
      /\ \A k \in 0..n : U[k] = S[k]
  BY <1>1, <1>4, <1>5, <1>6
<1>8. heap \subseteq heap' /\ On(x, i) \in Action
  BY Parts, MakeKeeps DEF IndInv
<1>9. ASSUME NEW k \in Nat PROVE Fresh(U[k])'
  <2>1. CASE k = n + 1
    BY <1>5, <1>7, <2>1 DEF Fresh
  <2>2. CASE k # n + 1
    BY <1>4, <1>7, <1>8, <2>2 DEF Fresh
  <2>3. QED BY <2>1, <2>2
<1>10. /\ Len(actionList') = n + 1 /\ actionList'[n + 1] = On(x, i)
       /\ \A k \in 1..n : actionList'[k] = actionList[k] /\ actionList[k] \in Action
  <2>1. PICK a \in Seq(Action) : a = actionList
    BY DEF IndInv, TypeOK
  <2>2. PICK y \in Action : y = On(x, i)
    BY <1>8
  <2>3. /\ Len(Append(a, y)) = Len(a) + 1 /\ Append(a, y)[Len(a) + 1] = y
        /\ \A k \in 1..Len(a) : Append(a, y)[k] = a[k]
    BY PushProperties
  <2>4. \A k \in 1..Len(a) : a[k] \in Action
    OBVIOUS
  <2>5. actionList' = Append(a, y) /\ Len(a) = n
    BY <1>1, <2>1, <2>2
  <2>6. QED BY <2>1, <2>2, <2>3, <2>4, <2>5
<1>12. ASSUME NEW k \in 1..n
       PROVE  Did(actionList'[k], U[k - 1], U[k])
  <2>1. k - 1 \in Nat /\ k \in Nat /\ k - 1 \in 0..n /\ k \in 0..n
    BY <1>1
  <2>2. actionList[k] \in Action /\ Allocated(actionList[k])
    BY <1>1, <1>10, Parts DEF IndInv
  <2>3. Did(actionList[k], S[k - 1], S[k])
    BY <1>2, <1>3, <2>1, <2>2, HadBeenDid
  <2>5. QED BY <1>7, <1>10, <2>1, <2>3
<1>13. Did(actionList'[n + 1], U[n], U[n + 1])
  <2>1. U[n] = S[n]
    BY <1>1, <1>7
  <2>2. QED BY <1>4, <1>5, <1>7, <1>10, <2>1
<1>14. \A k \in 1..n + 1 : Did(actionList'[k], U[k - 1], U[k])
  <2>1. \A k \in 1..n + 1 : k \in 1..n \/ k = n + 1
    BY <1>1
  <2>2. (n + 1) - 1 = n
    BY <1>1
  <2>3. QED BY <1>12, <1>13, <2>1, <2>2
<1>15. U[Len(actionList')] = Current'
  BY <1>5, <1>7, <1>10
<1>17. \A k \in 0..n : View(U[k]) = View(V[k])
  BY <1>4, <1>7
<1>16. QED BY <1>1, <1>7, <1>9, <1>10, <1>14, <1>15, <1>17 DEF Behind

\* Undo brings back the document the action found.
LEMMA BehindShrinks ==
  ASSUME IndInv, UndoLastAction, NEW V, Behind(V)
  PROVE  /\ Behind(V)' /\ Current' = V[Len(actionList) - 1]
         /\ \E x \in Action : /\ Allocated(x) /\ Revert(x) /\ Did(x, Current', Current)
                              /\ redoActionList' = Append(redoActionList, x)
                              /\ x = Last(actionList)
         /\ Current' \in Doc /\ heap' = heap /\ Fresh(Current)' /\ Current \in Doc
<1>1. actionList \in Seq(Action) /\ actionList # <<>>
  BY DEF IndInv, TypeOK, UndoLastAction
<1>2. PICK n \in Nat, x \in Action : n > 0 /\ n = Len(actionList) /\ x = actionList[n]
  BY <1>1, PopProperties
<1>3. n \in 1..n /\ n - 1 \in Nat /\ n \in 1..Len(actionList)
  BY <1>2
<1>4. /\ V \in [Nat -> Doc] /\ V[n] = Current /\ \A k \in Nat : Fresh(V[k])
      /\ \A k \in 1..n : Did(actionList[k], V[k - 1], V[k])
  BY <1>2 DEF Behind
<1>5. PICK s \in Doc : s = V[n - 1] /\ Did(x, s, Current) /\ Fresh(s)
  BY <1>2, <1>3, <1>4
<1>6. /\ Allocated(x) /\ Revert(x) /\ redoActionList' = Append(redoActionList, x)
      /\ x = Last(actionList)
  BY <1>2, <1>3, Parts DEF IndInv, UndoLastAction, Last
<1>7. Current' = s
  BY <1>5, <1>6, DidReverted
<1>8. heap' = heap
  BY <1>6 DEF Revert, DetachItem, AddItem, MakeEdit, MakeMove
<1>9. /\ Len(actionList') = n - 1 /\ \A k \in 1..n - 1 : actionList'[k] = actionList[k]
  BY <1>1, <1>2, PopProperties DEF UndoLastAction
<1>11. ASSUME NEW k \in Nat PROVE Fresh(V[k])'
  BY <1>4, <1>8 DEF Fresh
<1>12. V[Len(actionList')] = Current'
  BY <1>5, <1>7, <1>9
<1>13. ASSUME NEW k \in 1..n - 1
       PROVE  Did(actionList'[k], V[k - 1], V[k])
  <2>1. k \in 1..n
    BY <1>2
  <2>2. actionList'[k] = actionList[k]
    BY <1>9
  <2>3. QED BY <1>4, <2>1, <2>2
<1>14. Behind(V)'
  <2>1. V \in [Nat -> Doc] /\ Len(actionList') = n - 1
    BY <1>4, <1>9
  <2>2. \A k \in 1..Len(actionList') : Did(actionList'[k], V[k - 1], V[k])
    BY <1>13, <2>1
  <2>3. QED BY <1>11, <1>12, <2>1, <2>2 DEF Behind
<1>16. Fresh(Current)'
  BY <1>5, <1>7, <1>8 DEF Fresh
<1>18. QED BY <1>2, <1>4, <1>5, <1>6, <1>7, <1>8, <1>14, <1>16

\* What is undone comes back as it was.
LEMMA AheadGrows ==
  ASSUME IndInv, heap' = heap,
         Current' \in Doc, Fresh(Current)', NEW x \in Action, Did(x, Current', Current),
         redoActionList' = Append(redoActionList, x), NEW W, Ahead(W)
  PROVE  \E U : Ahead(U)' /\ \A k \in 0..Len(redoActionList) : U[k] = W[k]
<1>1. PICK m \in Nat : m = Len(redoActionList)
  BY DEF IndInv, TypeOK
<1>2. /\ W \in [Nat -> Doc] /\ W[m] = Current /\ \A k \in Nat : Fresh(W[k])
      /\ \A k \in 1..m : Did(redoActionList[k], W[k], W[k - 1])
  BY <1>1 DEF Ahead
<1>3. PICK c : c = Current'
  OBVIOUS
<1>4. PICK U : U = [W EXCEPT ![m + 1] = c]
  OBVIOUS
<1>5. /\ U \in [Nat -> Doc] /\ U[m + 1] = c
      /\ \A k \in Nat : k # m + 1 => U[k] = W[k]
      /\ \A k \in 0..m : U[k] = W[k]
  BY <1>1, <1>2, <1>3, <1>4
<1>6. ASSUME NEW k \in Nat PROVE Fresh(U[k])'
  <2>1. CASE k = m + 1
    BY <1>3, <1>5, <2>1 DEF Fresh
  <2>2. CASE k # m + 1
    BY <1>2, <1>5, <2>2 DEF Fresh
  <2>3. QED BY <2>1, <2>2
<1>7. /\ Len(redoActionList') = m + 1 /\ redoActionList'[m + 1] = x
      /\ \A k \in 1..m : redoActionList'[k] = redoActionList[k]
  <2>1. PICK r \in Seq(Action) : r = redoActionList
    BY DEF IndInv, TypeOK
  <2>2. /\ Len(Append(r, x)) = Len(r) + 1 /\ Append(r, x)[Len(r) + 1] = x
        /\ \A k \in 1..Len(r) : Append(r, x)[k] = r[k]
    BY PushProperties
  <2>3. QED BY <1>1, <2>1, <2>2
<1>9. ASSUME NEW k \in 1..m
      PROVE  Did(redoActionList'[k], U[k], U[k - 1])
  <2>1. k - 1 \in 0..m /\ k \in 0..m
    BY <1>1
  <2>2. QED BY <1>2, <1>5, <1>7, <2>1
<1>10. Did(redoActionList'[m + 1], U[m + 1], U[m])
  <2>1. U[m] = Current
    BY <1>1, <1>2, <1>5
  <2>2. QED BY <1>3, <1>5, <1>7, <2>1
<1>11. \A k \in 1..m + 1 : Did(redoActionList'[k], U[k], U[k - 1])
  <2>1. \A k \in 1..m + 1 : k \in 1..m \/ k = m + 1
    BY <1>1
  <2>2. (m + 1) - 1 = m
    BY <1>1
  <2>3. QED BY <1>9, <1>10, <2>1, <2>2
<1>12. U[Len(redoActionList')] = Current'
  BY <1>3, <1>5, <1>7
<1>13. QED BY <1>1, <1>5, <1>6, <1>7, <1>11, <1>12 DEF Ahead

\* Nothing is undone after a command.
LEMMA AheadEnds ==
  ASSUME Current' \in Doc, Fresh(Current)', redoActionList' = <<>>
  PROVE  \E U : Ahead(U)'
<1>1. PICK c : c = Current'
  OBVIOUS
<1>2. PICK U : U = [k \in Nat |-> c]
  OBVIOUS
<1>3. U \in [Nat -> Doc] /\ U[0] = Current' /\ Len(redoActionList') = 0
  BY <1>1, <1>2
<1>4. ASSUME NEW k \in Nat PROVE Fresh(U[k])'
  BY <1>1, <1>2 DEF Fresh
<1>5. \A k \in 1..Len(redoActionList') : FALSE
  BY <1>3
<1>6. QED BY <1>3, <1>4, <1>5 DEF Ahead

\* Redoing anything but a creation leaves the document the action left before.
LEMMA AheadShrinks ==
  ASSUME IndInv, NEW W, Ahead(W), redoActionList # <<>>, NEW i \in Item,
         Last(redoActionList).kind # "create", Make(Last(redoActionList), i),
         redoActionList' = SubSeq(redoActionList, 1, Len(redoActionList) - 1)
  PROVE  LET x == Last(redoActionList) IN
         /\ Makeable(x) /\ Did(x, Current, Current')
         /\ Current' \in Doc /\ Fresh(Current)'
         /\ Ahead(W)' /\ Current' = W[Len(redoActionList) - 1]
<1>1. redoActionList \in Seq(Action)
  BY DEF IndInv, TypeOK
<1>2. PICK m \in Nat, x \in Action :
        m > 0 /\ m = Len(redoActionList) /\ x = redoActionList[m] /\ x = Last(redoActionList)
  BY <1>1, PopProperties DEF Last
<1>3. m \in 1..m /\ m - 1 \in Nat /\ m \in 1..Len(redoActionList)
  BY <1>2
<1>4. /\ W \in [Nat -> Doc] /\ W[m] = Current /\ \A k \in Nat : Fresh(W[k])
      /\ \A k \in 1..m : Did(redoActionList[k], W[k], W[k - 1])
  BY <1>2 DEF Ahead
<1>5. PICK u \in Doc : u = W[m - 1] /\ Did(x, Current, u) /\ Fresh(u)
  BY <1>2, <1>3, <1>4
<1>6. Makeable(x) /\ Make(x, i) /\ x.kind # "create"
  BY <1>2, <1>3, Parts DEF IndInv, Makeable
<1>7. Current' = u
  BY <1>5, <1>6, DidMade
<1>8. heap' = heap
  BY <1>6 DEF Make, DetachItem, MakeEdit, MakeMove
<1>9. /\ Len(redoActionList') = m - 1
      /\ \A k \in 1..m - 1 : redoActionList'[k] = redoActionList[k]
  BY <1>1, <1>2, PopProperties
<1>11. ASSUME NEW k \in Nat PROVE Fresh(W[k])'
  BY <1>4, <1>8 DEF Fresh
<1>12. W[Len(redoActionList')] = Current'
  BY <1>5, <1>7, <1>9
<1>13. \A k \in 1..m - 1 : Did(redoActionList'[k], W[k], W[k - 1])
  BY <1>2, <1>4, <1>9
<1>14. Ahead(W)'
  BY <1>4, <1>9, <1>11, <1>12, <1>13 DEF Ahead
<1>16. Fresh(Current)'
  BY <1>5, <1>7, <1>8 DEF Fresh
<1>18. QED BY <1>2, <1>5, <1>6, <1>7, <1>14, <1>16

\* With each item plugged in that is linked, the screen shows the tree.
LEMMA ScreenShowsTree ==
  ASSUME IndInv, Screened, Whole(tree)
  PROVE  OnScreen = InTree(tree) \ {Root}
<1>1. /\ tree \in Tree /\ LinksAgree(tree) /\ ChainsEnd(tree)
      /\ \A y \in Node : tree.firstChild[y] \in ItemOrNil /\ tree.next[y] \in ItemOrNil
      /\ Root \in Node /\ Nil \notin Node
  BY NodeAssumption DEF IndInv, TypeOK, LinksConsistent, ChainsFinite, Tree
<1>2. /\ InTree(tree) \subseteq Node /\ Root \in InTree(tree)
      /\ \A S \in SUBSET Node : ClosedBelow(tree, S) => InTree(tree) \subseteq S
  BY <1>1, InTreeLeast
<1>3. /\ OnScreen \subseteq Item /\ ClosedOnScreen(OnScreen)
      /\ \A S \in SUBSET Item : ClosedOnScreen(S) => OnScreen \subseteq S
  BY DEF OnScreen, ClosedOnScreen
<1>4. OnScreen \subseteq InTree(tree) \ {Root}
  <2>1. PICK S \in SUBSET Item : S = InTree(tree) \ {Root}
    BY <1>2 DEF Item
  <2>2. ASSUME NEW x \in Item, plugged[x], tree.parent[x] \in S \cup {Root} PROVE x \in S
    <3>1. Linked(tree, x) /\ tree.parent[x] \in InTree(tree)
      BY <1>2, <2>1, <2>2 DEF Screened
    <3>2. x \in InTree(tree)
      BY <1>1, <3>1, HeapFinite, LinkedReached DEF Item
    <3>3. QED BY <2>1, <3>2 DEF Item
  <2>3. QED BY <1>3, <2>1, <2>2 DEF ClosedOnScreen
<1>5. InTree(tree) \subseteq OnScreen \cup {Root}
  <2>1. PICK S \in SUBSET Node : S = OnScreen \cup {Root}
    BY <1>1, <1>3 DEF Item
  <2>2. ASSUME NEW c \in Item, Linked(tree, c), tree.parent[c] \in S PROVE c \in S
    BY <1>3, <2>1, <2>2 DEF Screened, ClosedOnScreen
  <2>3. ASSUME NEW x \in S, tree.firstChild[x] # Nil PROVE tree.firstChild[x] \in S
    <3>1. PICK c \in Item : c = tree.firstChild[x]
      BY <1>1, <2>3 DEF ItemOrNil
    <3>2. tree.parent[c] = x
      BY <1>1, <2>3, <3>1 DEF LinksAgree
    <3>3. Linked(tree, c)
      BY <3>1 DEF Linked
    <3>4. QED BY <2>2, <3>1, <3>2, <3>3
  <2>4. ASSUME NEW x \in S \ {Root}, tree.next[x] # Nil PROVE tree.next[x] \in S
    <3>1. PICK c \in Item : c = tree.next[x]
      BY <1>1, <2>4 DEF ItemOrNil
    <3>2. tree.prev[c] = x /\ tree.parent[c] = tree.parent[x]
      BY <1>1, <2>4, <3>1 DEF LinksAgree
    <3>3. x # Nil /\ tree.parent[x] \in S
      BY <1>1, <2>1, OnScreenFacts
    <3>4. Linked(tree, c)
      BY <3>2, <3>3 DEF Linked
    <3>5. QED BY <2>2, <3>1, <3>2, <3>3, <3>4
  <2>5. ClosedBelow(tree, S)
    BY <2>1, <2>3, <2>4 DEF ClosedBelow
  <2>6. QED BY <1>2, <2>1, <2>5
<1>6. QED BY <1>3, <1>4, <1>5 DEF Item

---------------------------------------------------------------------------
(* What every command, undo and redo keeps, but for a creation made again. *)

\* The screen shows the document, and the lists know what is behind each entry.
Held == Screened /\ \E V, W : Behind(V) /\ Ahead(W)

\* Then everything that is not in the tree is without children.
LEMMA HeldShows ==
  ASSUME IndInv, Held
  PROVE  /\ Current \in Doc /\ Fresh(Current) /\ Hung(tree) /\ Whole(tree) /\ Screened
         /\ OnScreen = InTree(tree) \ {Root}
         /\ tree \in Tree /\ LinksAgree(tree) /\ ChainsEnd(tree)
<1>1. Screened /\ tree \in Tree /\ LinksAgree(tree) /\ ChainsEnd(tree)
  BY DEF Held, IndInv, TypeOK, LinksConsistent, ChainsFinite
<1>2. PICK V, W : Behind(V) /\ Ahead(W)
  BY DEF Held
<1>3. PICK n \in Nat : n = Len(actionList)
  BY DEF IndInv, TypeOK
<1>4. Current \in Doc /\ Fresh(Current)
  BY <1>2, <1>3 DEF Behind
<1>5. Hung(tree)
  BY <1>4 DEF Doc, Current
<1>6. Whole(tree)
  BY <1>1, <1>5, HungWhole
<1>7. QED BY <1>1, <1>4, <1>5, <1>6, ScreenShowsTree

\* A command.
LEMMA CommandHeld ==
  ASSUME IndInv, IndInv', Held, Command
  PROVE  Held'
<1>1. PICK x : Commanded(x)
  BY CommandMakes
<1>2. PICK i \in Item : Make(x, i) /\ actionList' = Append(actionList, On(x, i))
  BY <1>1 DEF Commanded, DoAction
<1>3. Makeable(x) /\ redoActionList' = <<>>
  BY <1>1 DEF Commanded, DoAction
<1>4. Screened /\ Whole(tree) /\ Hung(tree) /\ Fresh(Current)
  BY HeldShows
<1>5. Screened'
  BY <1>2, <1>3, <1>4, ScreenMade
<1>6. /\ Did(On(x, i), FoundBy(x, i), Current') /\ Current' \in Doc /\ Fresh(Current)'
  BY <1>1, <1>2, <1>4, CommandDid
<1>7. PICK V : Behind(V)
  BY DEF Held
<1>8. \E U : Behind(U)'
  BY <1>2, <1>3, <1>6, <1>7, BehindGrows
<1>9. \E U : Ahead(U)'
  BY <1>3, <1>6, AheadEnds
<1>10. QED BY <1>5, <1>8, <1>9 DEF Held

\* An undo.
LEMMA UndoHeld ==
  ASSUME IndInv, Held, UndoLastAction
  PROVE  /\ Held'
         /\ \E x \in Action : /\ Allocated(x) /\ Revert(x) /\ Did(x, Current', Current)
                              /\ x = Last(actionList) /\ Current' \in Doc
<1>1. PICK V, W : Behind(V) /\ Ahead(W)
  BY DEF Held
<1>2. /\ Behind(V)'
      /\ Current' \in Doc /\ heap' = heap /\ Fresh(Current)' /\ Current \in Doc
  BY <1>1, BehindShrinks
<1>3. PICK x \in Action : /\ Allocated(x) /\ Revert(x) /\ Did(x, Current', Current)
                          /\ redoActionList' = Append(redoActionList, x)
                          /\ x = Last(actionList)
  BY <1>1, BehindShrinks
<1>5. Screened /\ Whole(tree)
  BY HeldShows
<1>6. Screened'
  BY <1>2, <1>3, <1>5, ScreenReverted
<1>7. \E U : Ahead(U)'
  BY <1>1, <1>2, <1>3, AheadGrows
<1>8. QED BY <1>2, <1>3, <1>6, <1>7 DEF Held

\* A redo of anything but a creation.
LEMMA RedoHeld ==
  ASSUME IndInv, Held, RedoAction, Last(redoActionList).kind # "create"
  PROVE  /\ Held'
         /\ \E x : /\ Makeable(x) /\ Did(x, Current, Current') /\ x.kind # "create"
                   /\ \E i \in Item : Make(x, i)
<1>1. redoActionList \in Seq(Action) /\ redoActionList # <<>>
  BY DEF IndInv, TypeOK, RedoAction
<1>2. PICK x : x = Last(redoActionList)
  OBVIOUS
<1>3. PICK i \in Item : Make(x, i) /\ actionList' = Append(actionList, On(x, i))
  BY <1>2 DEF RedoAction, Last
<1>4. redoActionList' = SubSeq(redoActionList, 1, Len(redoActionList) - 1)
  BY DEF RedoAction
<1>5. PICK V, W : Behind(V) /\ Ahead(W)
  BY DEF Held
<1>6. Screened /\ Whole(tree)
  BY HeldShows
<1>7. /\ Makeable(x) /\ Did(x, Current, Current') /\ Current' \in Doc /\ Fresh(Current)'
      /\ Ahead(W)'
  BY <1>1, <1>2, <1>3, <1>4, <1>5, AheadShrinks
<1>8. Screened'
  BY <1>3, <1>6, <1>7, ScreenMade
<1>9. On(x, i) = x /\ FoundBy(x, i) = Current
  BY <1>2 DEF On, FoundBy
<1>10. \E U : Behind(U)'
  BY <1>3, <1>5, <1>7, <1>9, BehindGrows
<1>11. QED BY <1>2, <1>3, <1>7, <1>8, <1>10 DEF Held

\* What a loaded document starts from.
LEMMA HeldBegins ==
  ASSUME IndInv, heap = InTree(tree), \A x \in Item \ heap : Unlinked(tree, x) /\ text[x] = EmptyText,
         actionList = <<>>, redoActionList = <<>>, plugged = [x \in Item |-> x \in heap]
  PROVE  Held
<1>1. tree \in Tree /\ LinksAgree(tree) /\ ChainsEnd(tree) /\ text \in [Item -> Text]
  BY DEF IndInv, TypeOK, LinksConsistent, ChainsFinite
<1>2. ASSUME NEW x \in Item PROVE x \in InTree(tree) <=> Linked(tree, x)
  <2>1. x \in InTree(tree) => Linked(tree, x)
    BY <1>1, ReachedLinked DEF Item
  <2>2. x \notin InTree(tree) => ~Linked(tree, x)
    <3>1. SUFFICES ASSUME x \notin InTree(tree) PROVE ~Linked(tree, x)
      OBVIOUS
    <3>2. Detached(tree, x)
      BY <3>1, FreshDetached
    <3>3. QED BY <3>2 DEF Detached, Linked
  <2>3. QED BY <2>1, <2>2
<1>3. Screened
  BY <1>2 DEF Screened
<1>4. Hung(tree)
  BY InTreeLeast, <1>1 DEF Hung, Unlinked, Item
<1>5. Current \in Doc
  BY <1>1, <1>4 DEF Doc, Current
<1>6. Fresh(Current)
  BY FreshDetached DEF Fresh, Current
<1>7. PICK V : V = [k \in Nat |-> Current]
  OBVIOUS
<1>8. V \in [Nat -> Doc] /\ V[0] = Current /\ \A k \in Nat : Fresh(V[k])
  BY <1>5, <1>6, <1>7
<1>9. /\ Len(actionList) = 0 /\ Len(redoActionList) = 0
      /\ \A k \in 1..Len(actionList) : FALSE
      /\ \A k \in 1..Len(redoActionList) : FALSE
  OBVIOUS
<1>10. Behind(V) /\ Ahead(V)
  BY <1>8, <1>9 DEF Behind, Ahead
<1>11. QED BY <1>3, <1>10 DEF Held
=============================================================================
