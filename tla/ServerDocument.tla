--------------------------- MODULE ServerDocument ---------------------------
(***************************************************************************)
(* The server's copy of a document: the LogItem tree of ServerDocument     *)
(* (server/servercore.cpp) and what the handlers of TodoServer             *)
(* (server/server.cpp) do to it when a packet arrives.  A packet names     *)
(* items by id; the handler finds them in the tree.                        *)
(*                                                                         *)
(* A copy is a record of the links, the texts, the done flags, the objects *)
(* allocated and the id of each object; the root has id 0, which as a      *)
(* prevId stands for "first".  The docId of a packet always names an open  *)
(* document here.                                                          *)
(***************************************************************************)
EXTENDS ItemTree, FiniteSetsExt

NoId == 0

Found(s, i) == FindItem(s.tree, s.id, i)

PrevFound(s, packet) == IF packet.prev = NoId THEN Nil ELSE Found(s, packet.prev)

\* createItem: it never asks whether the id is taken.
CreateItem(s, packet) ==
  LET parent == Found(s, packet.parent)
      new == NextFree(s.heap)
      born == [s.tree EXCEPT !.parent = [@ EXCEPT ![new] = parent]]
  IN IF parent = Nil THEN s
     ELSE [tree |-> ServerAddAsChild(born, parent, new, PrevFound(s, packet)),
           text |-> [s.text EXCEPT ![new] = EmptyText],
           done |-> [s.done EXCEPT ![new] = FALSE],
           heap |-> s.heap \cup {new},
           id |-> [s.id EXCEPT ![new] = packet.item]]

\* removeItem: what is below the item goes with it.
RemoveItemById(s, packet) ==
  LET i == Found(s, packet.item) IN
  IF i = Nil THEN s ELSE [s EXCEPT !.tree = DetachFromTree(@, i)]

SetText(s, packet) ==
  LET i == Found(s, packet.item) IN
  IF i = Nil THEN s ELSE [s EXCEPT !.text = [@ EXCEPT ![i] = packet.text]]

\* The bug of marking what is below the item as well.
SetDoneBelow(s, packet) ==
  LET i == Found(s, packet.item) IN
  IF i = Nil THEN s
  ELSE [s EXCEPT !.done = [x \in DOMAIN @ |-> IF x = i \/ s.tree.parent[x] = i THEN packet.done
                                             ELSE @[x]]]

\* setItemDone: the client sends a packet for each item it marked.
SetDone(s, packet) ==
  LET i == Found(s, packet.item) IN
  IF i = Nil THEN s ELSE [s EXCEPT !.done = [@ EXCEPT ![i] = packet.done]]

\* The bug of dropping the place among the new siblings.
MoveItemFirst(s, packet) ==
  LET i == Found(s, packet.item)
      parent == Found(s, packet.parent)
  IN IF i = Nil \/ parent = Nil THEN s
     ELSE [s EXCEPT !.tree = ServerAddAsChild(DetachFromTree(@, i), parent, i, Nil)]

MoveItem(s, packet) ==
  LET i == Found(s, packet.item)
      parent == Found(s, packet.parent)
  IN IF i = Nil \/ parent = Nil THEN s
     ELSE [s EXCEPT !.tree =
             ServerAddAsChild(DetachFromTree(@, i), parent, i, PrevFound(s, packet))]

\* incomingMessage, as far as it changes the copy; a request changes nothing.
Handle(s, packet) ==
  CASE packet.type = "PT_ITEM_CREATED" -> CreateItem(s, packet)
    [] packet.type = "PT_ITEM_DELETED" -> RemoveItemById(s, packet)
    [] packet.type = "PT_ITEM_CHANGED" -> SetText(s, packet)
    [] packet.type = "PT_ITEM_MOVED" -> MoveItem(s, packet)
    [] packet.type = "PT_ITEM_DONE_CHANGED" -> SetDone(s, packet)
    [] OTHER -> s

\* sendItem: no answer when the item is not in the tree any more.
SendItem(s, packet) ==
  LET i == Found(s, packet.item) IN
  IF i = Nil THEN <<>>
  ELSE <<[type |-> "PT_GET_ITEM", item |-> packet.item, text |-> s.text[i],
          request |-> packet.request]>>

\* The bug of not answering when there are no children.
SendSomeChildrenIds(s, packet) ==
  LET parent == Found(s, packet.item)
      children == IF parent = Nil THEN <<>> ELSE Children(s.tree, parent)
  IN IF children = <<>> THEN <<>>
     ELSE <<[type |-> "PT_GET_CHILDREN", item |-> packet.item,
             children |-> [k \in DOMAIN children |-> [id |-> s.id[children[k]],
                              done |-> s.done[children[k]],
                              prev |-> IF k = 1 THEN NoId ELSE s.id[children[k - 1]]]],
             request |-> packet.request]>>

\* sendChildrenIds: no children when the item is not in the tree any more.
SendChildrenIds(s, packet) ==
  LET parent == Found(s, packet.item)
      children == IF parent = Nil THEN <<>> ELSE Children(s.tree, parent)
      Id(x) == IF x = Nil THEN NoId ELSE s.id[x]
  IN <<[type |-> "PT_GET_CHILDREN", item |-> packet.item,
        children |-> [k \in DOMAIN children |-> [id |-> s.id[children[k]],
                       done |-> s.done[children[k]], prev |-> Id(s.tree.prev[children[k]])]],
        request |-> packet.request]>>

\* LogItem::setNextId(maxId + 1) comes first, and LogItem's constructor uses
\* nextId, which may be higher by then: the least it can be is taken here.
CreateNewChild(s) ==
  LET new == NextFree(s.heap) IN
  [s EXCEPT !.tree = ServerAddAsChild(@, Root, new, Nil),
            !.heap = @ \cup {new},
            !.id = [@ EXCEPT ![new] = Max({s.id[x] : x \in s.heap}) + 1]]

\* What the server writes back: an answer, nothing for a save, or the code a
\* change ended with.
Reply(s, packet) ==
  CASE packet.type = "PT_GET_ITEM" -> SendItem(s, packet)
    [] packet.type = "PT_GET_CHILDREN" -> SendChildrenIds(s, packet)
    [] packet.type = "PT_DOC_SAVE" -> <<>>
    [] OTHER -> <<[type |-> "PT_RESPONSE"]>>

\* The copy once every packet of a sequence has been handled.
HandleAll(s, packets) ==
  LET after[k \in 0..Len(packets)] ==
        IF k = 0 THEN s ELSE Handle(after[k - 1], packets[k])
  IN after[Len(packets)]
=============================================================================
