-------------------------- MODULE DocumentSyncProofs --------------------------
(***************************************************************************)
(* Both sides of a connection.  Whatever is edited, marked, saved, loaded  *)
(* and lost, in any order, each copy stays a sound tree, every packet is   *)
(* well formed, and each request is answered at most once and by its owner.*)
(* A document loads as a part of the server's copy that grows until all of *)
(* it is there, with unique ids.  Once it is loaded, and as long as nothing*)
(* happens after which nothing is promised, the server's copy mirrors it:  *)
(* what is under way makes of the one what the user sees in the other, what*)
(* is saved is what the client had, and a restart brings it back.          *)
(***************************************************************************)
EXTENDS DocumentSession, ClientDocumentProofs

\* A copy whose links lead back as they lead on, with an id for every item.
ServerCopy == [tree : Tree, text : [Item -> Text], done : [Item -> BOOLEAN],
               heap : SUBSET Node, id : [Node -> Nat]]
Coherent(s) == /\ s \in ServerCopy
               /\ OnwardAgree(s.tree) /\ ChainsEnd(s.tree)
               /\ Root \in s.heap /\ s.id[Root] = NoId
               /\ \A x \in s.heap \ {Root} : s.id[x] # NoId
               /\ \A x \in Node \ s.heap : Unlinked(s.tree, x)

\* What is sent to the server, and what it answers.
Id == Nat \ {NoId}
Packet == [type : {"PT_ITEM_CREATED", "PT_ITEM_DELETED", "PT_ITEM_MOVED"}, item : Id,
           parent : Nat, prev : Nat]
          \cup [type : {"PT_ITEM_CHANGED"}, item : Id, text : Text]
          \cup [type : {"PT_ITEM_DONE_CHANGED"}, item : Id, done : BOOLEAN]
          \cup [type : {"PT_DOC_SAVE"}]
          \cup [type : {"PT_GET_CHILDREN"}, item : Nat, request : Nat]
          \cup [type : {"PT_GET_ITEM"}, item : Id, request : Nat]
Entry == [id : Id, done : BOOLEAN, prev : Nat]
Answer == [type : {"PT_GET_CHILDREN"}, item : Nat, children : Seq(Entry), request : Nat]
          \cup [type : {"PT_GET_ITEM"}, item : Id, text : Text, request : Nat]
          \cup [type : {"PT_RESPONSE"}]

\* The parts of a copy.
LEMMA CopyParts ==
  ASSUME NEW s, Coherent(s)
  PROVE  /\ s.tree \in Tree /\ s.text \in [Item -> Text] /\ s.done \in [Item -> BOOLEAN]
         /\ s.heap \in SUBSET Node /\ s.id \in [Node -> Nat]
         /\ s = [tree |-> s.tree, text |-> s.text, done |-> s.done, heap |-> s.heap, id |-> s.id]
         /\ InTree(s.tree) \subseteq s.heap
<1>1. /\ s.tree \in Tree /\ s.text \in [Item -> Text] /\ s.done \in [Item -> BOOLEAN]
      /\ s.heap \in SUBSET Node /\ s.id \in [Node -> Nat]
      /\ s = [tree |-> s.tree, text |-> s.text, done |-> s.done, heap |-> s.heap, id |-> s.id]
  BY DEF Coherent, ServerCopy
<1>2. ASSUME NEW x \in InTree(s.tree) PROVE x \in s.heap
  <2>1. CASE x = Root
    BY <2>1 DEF Coherent
  <2>2. CASE x # Root
    <3>1. x \in Node /\ s.tree.parent[x] \in Node
      BY <1>1, <2>2, InTreeBack, InTreeLeast DEF Coherent
    <3>2. QED BY <3>1, NodeAssumption DEF Coherent, Unlinked
  <2>3. QED BY <2>1, <2>2
<1>3. QED BY <1>1, <1>2

\* An id is looked for in the tree, and only the root has none.
LEMMA FoundIn ==
  ASSUME NEW s, Coherent(s), NEW i
  PROVE  /\ Found(s, i) \in InTree(s.tree) \cup {Nil}
         /\ Found(s, i) # Nil => Found(s, i) \in s.heap /\ Found(s, i) \in Node /\ s.id[Found(s, i)] = i
         /\ i # NoId => Found(s, i) # Root /\ Found(s, i) \in ItemOrNil
         /\ Found(s, i) = Nil => \A x \in InTree(s.tree) : s.id[x] # i
<1>1. PICK t, M : t = s.tree /\ M = InTree(t)
  OBVIOUS
<1>2. t \in Tree /\ OnwardAgree(t) /\ ChainsEnd(t) /\ M \subseteq s.heap /\ M \in SUBSET Node
  BY <1>1, CopyParts, InTreeLeast DEF Coherent
<1>3. GroundedIn(t, M)
  BY <1>1, <1>2, TreeGrounded
<1>4. Root \in M /\ \A x \in M : {t.firstChild[x], t.next[x]} \ {Nil} \subseteq M
  <2>1. ClosedBelow(t, M) /\ Root \in M
    BY <1>1, <1>2, InTreeLeast
  <2>2. t.next[Root] = Nil
    BY <1>2, NodeAssumption DEF OnwardAgree, Tree, ItemOrNil, Item
  <2>3. QED BY <2>1, <2>2 DEF ClosedBelow
<1>5. /\ Found(s, i) \in M \cup {Nil}
      /\ Found(s, i) # Nil => s.id[Found(s, i)] = i
      /\ Found(s, i) = Nil => \A x \in M : s.id[x] # i
  BY <1>1, <1>2, <1>3, <1>4, FindItemAmong DEF Found
<1>6. i # NoId => Found(s, i) # Root
  BY <1>5, NodeAssumption DEF Coherent
<1>7. QED BY <1>1, <1>2, <1>5, <1>6 DEF ItemOrNil, Item

\* A new node for a heap with room.
LEMMA Allocates ==
  ASSUME NEW H \in SUBSET Node, Root \in H, H # Node
  PROVE  NextFree(H) \in Item /\ NextFree(H) \notin H /\ NextFree(H) \in Node
<1>1. ~(Node \subseteq H) /\ \E x \in Item : x \notin H
  BY DEF Item
<1>2. QED BY <1>1 DEF NextFree, Item

\* What was never linked stays so.
LEMMA OnwardFresh ==
  ASSUME NEW t \in Tree, OnwardAgree(t), NEW x \in Node, Unlinked(t, x)
  PROVE  /\ \A i \in InTree(t) \ {Root} : x # i => Unlinked(DetachFromTree(t, i), x)
         /\ \A p \in Node, i \in Item, a \in ItemOrNil :
              x \notin {p, i, a} => Unlinked(InsertAfter(t, p, i, a), x)
<1>1. x # Nil
  BY NodeAssumption
<1>2. ASSUME NEW i \in InTree(t) \ {Root}, x # i PROVE Unlinked(DetachFromTree(t, i), x)
  <2>1. i \in Node /\ i \in Item /\ i # Nil
    BY InTreeLeast, NodeAssumption DEF Item
  <2>2. x # t.prev[i] /\ t.firstChild[x] # i
    BY <1>1, <2>1, InTreeBack DEF Unlinked
  <2>3. x # t.next[i]
    BY <1>1, <2>1 DEF OnwardAgree, Unlinked
  <2>4. QED BY <1>2, <2>1, <2>2, <2>3, DetachFields DEF Unlinked
<1>3. ASSUME NEW p \in Node, NEW i \in Item, NEW a \in ItemOrNil, x \notin {p, i, a}
      PROVE  Unlinked(InsertAfter(t, p, i, a), x)
  <2>1. PICK f : f = IF a = Nil THEN t.firstChild[p] ELSE t.next[a]
    OBVIOUS
  <2>2. f # x
    BY <1>1, <2>1, NodeAssumption DEF OnwardAgree, Unlinked, ItemOrNil, Item
  <2>3. QED BY <1>3, <2>1, <2>2, InsertFields DEF Unlinked
<1>4. QED BY <1>2, <1>3

\* The sibling a packet names.
LEMMA PrevFoundIn ==
  ASSUME NEW s, Coherent(s), NEW packet
  PROVE  /\ PrevFound(s, packet) \in ItemOrNil
         /\ PrevFound(s, packet) # Nil => PrevFound(s, packet) \in s.heap
<1>1. CASE packet.prev = NoId
  BY <1>1 DEF PrevFound, ItemOrNil
<1>2. CASE packet.prev # NoId
  BY <1>2, FoundIn DEF PrevFound
<1>3. QED BY <1>1, <1>2

\* A new item on the server.
LEMMA CreateCoherent ==
  ASSUME NEW s, Coherent(s), NEW packet, packet.item \in Id, s.heap # Node
  PROVE  Coherent(CreateItem(s, packet))
<1>1. CASE Found(s, packet.parent) = Nil
  BY <1>1 DEF CreateItem
<1>2. CASE Found(s, packet.parent) # Nil
  <2>1. PICK p, n, a, t, born, u :
          /\ p \in Node /\ p = Found(s, packet.parent) /\ n = NextFree(s.heap) /\ a = PrevFound(s, packet)
          /\ t = s.tree /\ born = [t EXCEPT !.parent = [@ EXCEPT ![n] = p]]
          /\ u = ServerAddAsChild(born, p, n, a)
    BY <1>2, FoundIn
  <2>2. /\ p \in Node /\ n \in Item /\ n \in Node /\ n \notin s.heap /\ p \in s.heap /\ a \in ItemOrNil
        /\ a # Nil => a \in s.heap
    BY <1>2, <2>1, FoundIn, PrevFoundIn, Allocates, CopyParts DEF Coherent
  <2>3. t \in Tree /\ OnwardAgree(t) /\ ChainsEnd(t) /\ \A x \in Node \ s.heap : Unlinked(t, x)
    BY <2>1, CopyParts DEF Coherent
  <2>4. /\ born.next = t.next /\ born.prev = t.prev /\ born.firstChild = t.firstChild
        /\ \A x \in Node : born.parent[x] = IF x = n THEN p ELSE t.parent[x]
        /\ born \in Tree
    BY <2>1, <2>2, <2>3 DEF Tree, NodeOrNil
  <2>5. Unlinked(t, n) /\ n # Nil
    BY <2>2, <2>3, NodeAssumption
  <2>6. Loose(t, n)
    BY <2>2, <2>3, <2>5, NodeAssumption DEF Loose, Unlinked, OnwardAgree
  <2>7. /\ OnwardAgree(born) /\ ChainsEnd(born) /\ Loose(born, n)
        /\ born.next[n] = Nil /\ born.prev[n] = Nil
    <3>1. OnwardAgree(born)
      <4>1. \A x \in Node : /\ t.next[x] # Nil => t.next[x] \in Node
                            /\ t.firstChild[x] # Nil => t.firstChild[x] \in Node
        BY <2>3 DEF Tree, ItemOrNil, Item
      <4>2. ASSUME NEW x \in Node, born.next[x] # Nil
            PROVE  born.prev[born.next[x]] = x /\ born.parent[born.next[x]] = born.parent[x]
        <5>1. t.next[x] # Nil /\ x # n /\ t.next[x] # n /\ t.next[x] \in Node
          BY <2>4, <2>5, <2>6, <4>1, <4>2 DEF Loose, Unlinked
        <5>2. QED BY <2>3, <2>4, <5>1 DEF OnwardAgree
      <4>3. ASSUME NEW x \in Node, born.firstChild[x] # Nil
            PROVE  born.parent[born.firstChild[x]] = x /\ born.prev[born.firstChild[x]] = Nil
        <5>1. t.firstChild[x] # Nil /\ t.firstChild[x] # n /\ t.firstChild[x] \in Node
          BY <2>4, <2>6, <4>1, <4>3 DEF Loose
        <5>2. QED BY <2>3, <2>4, <5>1 DEF OnwardAgree
      <4>4. QED BY <4>2, <4>3 DEF OnwardAgree
    <3>2. QED BY <2>3, <2>4, <2>5, <2>6, <3>1 DEF ChainsEnd, Loose, Unlinked
  <2>8. \A x \in Node \ (s.heap \cup {n}) : Unlinked(born, x)
    BY <2>3, <2>4 DEF Unlinked
  <2>9. /\ u \in Tree /\ OnwardAgree(u) /\ ChainsEnd(u)
        /\ \A x \in Node \ (s.heap \cup {n}) : Unlinked(u, x)
    <3>1. CASE WrongAfter(born, p, a)
      BY <2>1, <2>4, <2>7, <2>8, <3>1 DEF ServerAddAsChild
    <3>2. CASE ~WrongAfter(born, p, a)
      <4>1. u = InsertAfter(born, p, n, a)
        BY <2>1, <3>2 DEF ServerAddAsChild
      <4>2. u \in Tree /\ OnwardAgree(u) /\ ChainsEnd(u)
        BY <2>2, <2>4, <2>7, <3>2, <4>1, OnwardInsert
      <4>3. ASSUME NEW x \in Node \ (s.heap \cup {n}) PROVE Unlinked(u, x)
        <5>1. x \notin {p, n, a}
          BY <2>2, NodeAssumption
        <5>2. QED BY <2>2, <2>4, <2>7, <2>8, <4>1, <5>1, OnwardFresh
      <4>4. QED BY <4>2, <4>3
    <3>3. QED BY <3>1, <3>2
  <2>10. PICK text2, done2, heap2, id2 :
           /\ text2 = [s.text EXCEPT ![n] = EmptyText] /\ done2 = [s.done EXCEPT ![n] = FALSE]
           /\ heap2 = s.heap \cup {n} /\ id2 = [s.id EXCEPT ![n] = packet.item]
    OBVIOUS
  <2>11. /\ text2 \in [Item -> Text] /\ done2 \in [Item -> BOOLEAN]
         /\ heap2 \in SUBSET Node /\ id2 \in [Node -> Nat]
         /\ Root \in heap2 /\ id2[Root] = NoId /\ \A x \in heap2 \ {Root} : id2[x] # NoId
    <3>1. /\ s.text \in [Item -> Text] /\ s.done \in [Item -> BOOLEAN]
          /\ s.heap \in SUBSET Node /\ s.id \in [Node -> Nat]
          /\ packet.item \in Nat /\ packet.item # NoId
      BY CopyParts DEF Id
    <3>2. /\ text2 \in [Item -> Text] /\ done2 \in [Item -> BOOLEAN]
          /\ heap2 \in SUBSET Node /\ id2 \in [Node -> Nat]
      BY <2>2, <2>10, <3>1, TextAssumption
    <3>3. Root \in Node /\ Root \in s.heap /\ s.id[Root] = NoId /\ n # Root
      BY <2>2, NodeAssumption DEF Coherent, Item
    <3>4. \A x \in Node : id2[x] = IF x = n THEN packet.item ELSE s.id[x]
      BY <2>10, <3>1
    <3>5. QED BY <2>10, <3>1, <3>2, <3>3, <3>4 DEF Coherent
  <2>12. CreateItem(s, packet) = [tree |-> u, text |-> text2, done |-> done2, heap |-> heap2, id |-> id2]
    BY <1>2, <2>1, <2>10 DEF CreateItem
  <2>13. PICK r : r = [tree |-> u, text |-> text2, done |-> done2, heap |-> heap2, id |-> id2]
    OBVIOUS
  <2>14. Coherent(r)
    BY <2>9, <2>10, <2>11, <2>13 DEF Coherent, ServerCopy
  <2>15. QED BY <2>12, <2>13, <2>14
<1>3. QED BY <1>1, <1>2

\* A change of the links only.
LEMMA TreeCoherent ==
  ASSUME NEW s, Coherent(s), NEW u \in Tree, OnwardAgree(u), ChainsEnd(u),
         \A x \in Node \ s.heap : Unlinked(u, x)
  PROVE  Coherent([s EXCEPT !.tree = u])
<1>1. PICK r : r = [s EXCEPT !.tree = u]
  OBVIOUS
<1>2. r = [tree |-> u, text |-> s.text, done |-> s.done, heap |-> s.heap, id |-> s.id]
  BY <1>1, CopyParts
<1>3. r \in ServerCopy /\ r.tree = u /\ r.heap = s.heap /\ r.id = s.id
  BY <1>2, CopyParts DEF ServerCopy
<1>4. QED BY <1>1, <1>3 DEF Coherent

\* An item taken out on the server.
LEMMA DetachCoherent ==
  ASSUME NEW s, Coherent(s), NEW i \in InTree(s.tree) \ {Root}
  PROVE  LET u == DetachFromTree(s.tree, i) IN
         /\ u \in Tree /\ OnwardAgree(u) /\ ChainsEnd(u) /\ Loose(u, i)
         /\ u.next[i] = Nil /\ u.prev[i] = Nil /\ u.parent = s.tree.parent
         /\ i \in s.heap /\ i \in Item
         /\ \A x \in Node \ s.heap : Unlinked(u, x)
<1>1. s.tree \in Tree /\ OnwardAgree(s.tree) /\ ChainsEnd(s.tree) /\ InTree(s.tree) \subseteq s.heap
  BY CopyParts DEF Coherent
<1>2. \A x \in Node \ s.heap : Unlinked(s.tree, x) /\ x # i
  BY <1>1 DEF Coherent
<1>3. i \in s.heap /\ i \in Item
  BY <1>1, InTreeLeast DEF Item
<1>4. \A x \in Node \ s.heap : Unlinked(DetachFromTree(s.tree, i), x)
  BY <1>1, <1>2, OnwardFresh
<1>5. QED BY <1>1, <1>3, <1>4, OnwardDetach

\* Any packet leaves such a copy.
LEMMA HandleCoherent ==
  ASSUME NEW s, Coherent(s), NEW packet \in Packet,
         packet.type = "PT_ITEM_CREATED" => s.heap # Node
  PROVE  Coherent(Handle(s, packet))
<1>1. CASE packet.type = "PT_ITEM_CREATED"
  <2>1. packet.item \in Id
    BY <1>1 DEF Packet
  <2>2. QED BY <1>1, <2>1, CreateCoherent DEF Handle
<1>2. CASE packet.type = "PT_ITEM_DELETED"
  <2>1. packet.item # NoId
    BY <1>2 DEF Packet, Id
  <2>2. Handle(s, packet) = RemoveItemById(s, packet)
    BY <1>2 DEF Handle
  <2>3. PICK i : i = Found(s, packet.item)
    OBVIOUS
  <2>4. CASE i = Nil
    BY <2>2, <2>3, <2>4 DEF RemoveItemById
  <2>5. CASE i # Nil
    <3>1. i \in InTree(s.tree) \ {Root}
      BY <2>1, <2>3, <2>5, FoundIn
    <3>2. Coherent([s EXCEPT !.tree = DetachFromTree(s.tree, i)])
      BY <3>1, DetachCoherent, TreeCoherent
    <3>3. QED BY <2>2, <2>3, <2>5, <3>2 DEF RemoveItemById
  <2>6. QED BY <2>4, <2>5
<1>3. CASE packet.type = "PT_ITEM_CHANGED"
  <2>1. packet.item # NoId /\ packet.text \in Text
    BY <1>3 DEF Packet, Id
  <2>2. Handle(s, packet) = SetText(s, packet)
    BY <1>3 DEF Handle
  <2>3. PICK i : i = Found(s, packet.item)
    OBVIOUS
  <2>4. CASE i = Nil
    BY <2>2, <2>3, <2>4 DEF SetText
  <2>5. CASE i # Nil
    <3>1. i \in Item
      BY <2>1, <2>3, <2>5, FoundIn DEF ItemOrNil
    <3>2. PICK text2 : text2 = [s.text EXCEPT ![i] = packet.text]
      OBVIOUS
    <3>3. text2 \in [Item -> Text]
      BY <2>1, <3>1, <3>2, CopyParts
    <3>4. PICK r : r = [s EXCEPT !.text = text2]
      OBVIOUS
    <3>5. r = [tree |-> s.tree, text |-> text2, done |-> s.done, heap |-> s.heap, id |-> s.id]
      BY <3>4, CopyParts
    <3>6. r \in ServerCopy /\ r.tree = s.tree /\ r.heap = s.heap /\ r.id = s.id
      BY <3>3, <3>5, CopyParts DEF ServerCopy
    <3>7. Coherent(r)
      BY <3>6 DEF Coherent
    <3>8. QED BY <2>2, <2>3, <2>5, <3>2, <3>4, <3>7 DEF SetText
  <2>6. QED BY <2>4, <2>5
<1>4. CASE packet.type = "PT_ITEM_MOVED"
  <2>1. packet.item # NoId
    BY <1>4 DEF Packet, Id
  <2>2. Handle(s, packet) = MoveItem(s, packet)
    BY <1>4 DEF Handle
  <2>3. PICK i, p, a : /\ i = Found(s, packet.item) /\ p = Found(s, packet.parent)
                       /\ a = PrevFound(s, packet)
    OBVIOUS
  <2>4. CASE i = Nil \/ p = Nil
    BY <2>2, <2>3, <2>4 DEF MoveItem
  <2>5. CASE i # Nil /\ p # Nil
    <3>1. i \in InTree(s.tree) \ {Root} /\ p \in s.heap /\ p \in Node /\ a \in ItemOrNil
          /\ (a # Nil => a \in s.heap)
      BY <2>1, <2>3, <2>5, FoundIn, PrevFoundIn
    <3>2. PICK d : d = DetachFromTree(s.tree, i)
      OBVIOUS
    <3>3. /\ d \in Tree /\ OnwardAgree(d) /\ ChainsEnd(d) /\ Loose(d, i)
          /\ d.next[i] = Nil /\ d.prev[i] = Nil /\ i \in s.heap /\ i \in Item
          /\ \A x \in Node \ s.heap : Unlinked(d, x)
      BY <3>1, <3>2, DetachCoherent
    <3>4. PICK u : u = ServerAddAsChild(d, p, i, a)
      OBVIOUS
    <3>5. /\ u \in Tree /\ OnwardAgree(u) /\ ChainsEnd(u) /\ \A x \in Node \ s.heap : Unlinked(u, x)
      <4>1. CASE WrongAfter(d, p, a)
        BY <3>3, <3>4, <4>1 DEF ServerAddAsChild
      <4>2. CASE ~WrongAfter(d, p, a)
        <5>1. u = InsertAfter(d, p, i, a)
          BY <3>4, <4>2 DEF ServerAddAsChild
        <5>2. u \in Tree /\ OnwardAgree(u) /\ ChainsEnd(u)
          BY <3>1, <3>3, <4>2, <5>1, OnwardInsert
        <5>3. ASSUME NEW x \in Node \ s.heap PROVE Unlinked(u, x)
          <6>1. x \notin {p, i, a}
            BY <3>1, <3>3, NodeAssumption
          <6>2. QED BY <3>1, <3>3, <5>1, <6>1, OnwardFresh
        <5>4. QED BY <5>2, <5>3
      <4>3. QED BY <4>1, <4>2
    <3>6. Coherent([s EXCEPT !.tree = u])
      BY <3>5, TreeCoherent
    <3>7. QED BY <2>2, <2>3, <2>5, <3>2, <3>4, <3>6 DEF MoveItem
  <2>6. QED BY <2>4, <2>5
<1>5. CASE packet.type = "PT_ITEM_DONE_CHANGED"
  <2>1. packet.item # NoId /\ packet.done \in BOOLEAN
    BY <1>5 DEF Packet, Id
  <2>2. Handle(s, packet) = SetDone(s, packet)
    BY <1>5 DEF Handle
  <2>3. PICK i : i = Found(s, packet.item)
    OBVIOUS
  <2>4. CASE i = Nil
    BY <2>2, <2>3, <2>4 DEF SetDone
  <2>5. CASE i # Nil
    <3>1. i \in Item
      BY <2>1, <2>3, <2>5, FoundIn DEF ItemOrNil
    <3>2. PICK done2 : done2 = [s.done EXCEPT ![i] = packet.done]
      OBVIOUS
    <3>3. done2 \in [Item -> BOOLEAN]
      BY <2>1, <3>1, <3>2, CopyParts
    <3>4. PICK r : r = [s EXCEPT !.done = done2]
      OBVIOUS
    <3>5. r = [tree |-> s.tree, text |-> s.text, done |-> done2, heap |-> s.heap, id |-> s.id]
      BY <3>4, CopyParts
    <3>6. r \in ServerCopy /\ r.tree = s.tree /\ r.heap = s.heap /\ r.id = s.id
      BY <3>3, <3>5, CopyParts DEF ServerCopy
    <3>7. Coherent(r)
      BY <3>6 DEF Coherent
    <3>8. QED BY <2>2, <2>3, <2>5, <3>2, <3>4, <3>7 DEF SetDone
  <2>6. QED BY <2>4, <2>5
<1>6. CASE packet.type \notin {"PT_ITEM_CREATED", "PT_ITEM_DELETED", "PT_ITEM_CHANGED",
                               "PT_ITEM_MOVED", "PT_ITEM_DONE_CHANGED"}
  <2>1. Handle(s, packet) = s
    BY <1>6 DEF Handle
  <2>2. QED BY <2>1
<1>7. QED BY <1>1, <1>2, <1>3, <1>4, <1>5, <1>6

\* An answer is made for the request that is answered.
Answering(packet, q) ==
  /\ q \in Seq(Answer) /\ Len(q) \in {0, 1}
  /\ \A k \in 1..Len(q) : q[k].type # "PT_RESPONSE" =>
       /\ packet.type \in {"PT_GET_ITEM", "PT_GET_CHILDREN"}
       /\ q[k].request = packet.request

\* One packet.
LEMMA OneAnswer ==
  ASSUME NEW packet, NEW r \in Answer,
         r.type # "PT_RESPONSE" => /\ packet.type \in {"PT_GET_ITEM", "PT_GET_CHILDREN"}
                                   /\ r.request = packet.request
  PROVE  Answering(packet, <<r>>)
<1>1. <<r>> \in Seq(Answer) /\ Len(<<r>>) = 1 /\ <<r>>[1] = r /\ 1..1 = {1}
  OBVIOUS
<1>2. QED BY <1>1 DEF Answering

\* None.
LEMMA NoAnswer ==
  ASSUME NEW packet
  PROVE  Answering(packet, <<>>)
<1>1. <<>> \in Seq(Answer) /\ Len(<<>>) = 0
  OBVIOUS
<1>2. \A k \in 1..0 : FALSE
  OBVIOUS
<1>3. QED BY <1>1, <1>2 DEF Answering

\* What TodoServer writes back.
LEMMA ReplyIs ==
  ASSUME NEW s, Coherent(s), NEW packet \in Packet
  PROVE  Answering(packet, Reply(s, packet))
<1>1. CASE packet.type = "PT_GET_ITEM"
  <2>1. packet.item \in Id /\ packet.request \in Nat
    BY <1>1 DEF Packet
  <2>2. PICK i : i = Found(s, packet.item)
    OBVIOUS
  <2>3. CASE i = Nil
    BY <1>1, <2>2, <2>3, NoAnswer DEF Reply, SendItem
  <2>4. CASE i # Nil
    <3>1. i \in Item
      BY <2>1, <2>2, <2>4, FoundIn DEF ItemOrNil, Id
    <3>2. PICK x : x = s.text[i]
      OBVIOUS
    <3>3. x \in Text
      BY <3>1, <3>2, CopyParts
    <3>4. PICK r : r = [type |-> "PT_GET_ITEM", item |-> packet.item, text |-> x,
                        request |-> packet.request]
      OBVIOUS
    <3>5. r \in Answer /\ r.request = packet.request
      BY <2>1, <3>3, <3>4 DEF Answer
    <3>6. Reply(s, packet) = <<r>>
      BY <1>1, <2>2, <2>4, <3>2, <3>4 DEF Reply, SendItem
    <3>7. Answering(packet, <<r>>)
      BY <1>1, <3>5, OneAnswer
    <3>8. QED BY <3>6, <3>7
  <2>5. QED BY <2>3, <2>4
<1>2. CASE packet.type = "PT_GET_CHILDREN"
  <2>1. packet.item \in Nat /\ packet.request \in Nat
    BY <1>2 DEF Packet
  <2>2. PICK p, c : p = Found(s, packet.item) /\ c = IF p = Nil THEN <<>> ELSE Children(s.tree, p)
    OBVIOUS
  <2>3. c \in Seq(InTree(s.tree) \ {Root})
    <3>1. CASE p = Nil
      BY <2>2, <3>1
    <3>2. CASE p # Nil
      <4>1. PICK t, M : t = s.tree /\ M = InTree(t) \ {Root}
        OBVIOUS
      <4>2. t \in Tree /\ ChainsEnd(t) /\ OnwardAgree(t) /\ p \in InTree(t) /\ p \in Node
        BY <2>2, <3>2, <4>1, FoundIn, CopyParts DEF Coherent
      <4>3. InTree(t) \in SUBSET Node /\ ClosedBelow(t, InTree(t))
        BY <4>2, InTreeLeast
      <4>4. M \in SUBSET Item /\ \A x \in Node : t.firstChild[x] # Root /\ t.next[x] # Root
        BY <4>1, <4>2, <4>3, NodeAssumption DEF Item, Tree, ItemOrNil
      <4>5. /\ t.firstChild[p] # Nil => t.firstChild[p] \in M
            /\ \A x \in M : t.next[x] # Nil => t.next[x] \in M
        BY <4>1, <4>2, <4>3, <4>4 DEF ClosedBelow
      <4>6. c = Children(t, p) /\ c \in Seq(Item)
        BY <2>2, <3>2, <4>1, <4>2, ChildrenAre DEF Siblings
      <4>7. \A k \in 1..Len(c) : c[k] \in M
        BY <4>2, <4>4, <4>5, <4>6, ChildrenAre
      <4>8. c \in [1..Len(c) -> M] /\ Len(c) \in Nat
        BY <4>6, <4>7
      <4>9. c \in Seq(M)
        BY <4>8, SeqDef
      <4>10. QED BY <4>1, <4>9
    <3>3. QED BY <3>1, <3>2
  <2>5. PICK e : e = [k \in DOMAIN c |-> [id |-> s.id[c[k]], done |-> s.done[c[k]],
                       prev |-> IF s.tree.prev[c[k]] = Nil THEN NoId ELSE s.id[s.tree.prev[c[k]]]]]
    OBVIOUS
  <2>6. e \in Seq(Entry)
    <3>1. Len(c) \in Nat /\ DOMAIN c = 1..Len(c)
      BY <2>3
    <3>2. ASSUME NEW k \in 1..Len(c) PROVE e[k] \in Entry
      <4>1. PICK x : x = c[k]
        OBVIOUS
      <4>2. x \in InTree(s.tree) \ {Root}
        BY <2>3, <3>1, <3>2, <4>1
      <4>3. x \in s.heap \ {Root} /\ x \in Item /\ x \in Node
        BY <4>2, CopyParts, InTreeLeast DEF Item
      <4>4. s.id[x] \in Id /\ s.done[x] \in BOOLEAN
        BY <4>3, CopyParts DEF Coherent, Id
      <4>5. PICK y : y = s.tree.prev[x]
        OBVIOUS
      <4>6. y \in Node \/ y = Nil
        BY <4>3, <4>5, CopyParts DEF Tree, ItemOrNil, Item
      <4>7. PICK n : n = IF y = Nil THEN NoId ELSE s.id[y]
        OBVIOUS
      <4>8. n \in Nat
        BY <4>6, <4>7, CopyParts DEF NoId
      <4>9. e[k] = [id |-> s.id[x], done |-> s.done[x], prev |-> n]
        BY <2>5, <3>1, <4>1, <4>5, <4>7
      <4>10. QED BY <4>4, <4>8, <4>9 DEF Entry
    <3>3. e \in [1..Len(c) -> Entry]
      BY <2>5, <3>1, <3>2
    <3>4. QED BY <3>1, <3>3, SeqDef
  <2>7. PICK r : r = [type |-> "PT_GET_CHILDREN", item |-> packet.item, children |-> e,
                      request |-> packet.request]
    OBVIOUS
  <2>8. r \in Answer /\ r.request = packet.request
    BY <2>1, <2>6, <2>7 DEF Answer
  <2>9. Reply(s, packet) = <<r>>
    BY Zenon, <1>2, <2>2, <2>5, <2>7 DEF Reply, SendChildrenIds
  <2>10. Answering(packet, <<r>>)
    BY <1>2, <2>8, OneAnswer
  <2>11. QED BY <2>9, <2>10
<1>3. CASE packet.type = "PT_DOC_SAVE"
  BY <1>3, NoAnswer DEF Reply
<1>4. CASE packet.type \notin {"PT_GET_ITEM", "PT_GET_CHILDREN", "PT_DOC_SAVE"}
  <2>1. PICK r : r = [type |-> "PT_RESPONSE"]
    OBVIOUS
  <2>2. r \in Answer /\ r.type = "PT_RESPONSE"
    BY <2>1 DEF Answer
  <2>3. Reply(s, packet) = <<r>>
    BY <1>4, <2>1 DEF Reply
  <2>4. Answering(packet, <<r>>)
    BY <2>2, OneAnswer
  <2>5. QED BY <2>3, <2>4
<1>5. QED BY <1>1, <1>2, <1>3, <1>4

\* Ids of the objects of a heap: only the root has none.
Numbered(ids, H) == /\ ids \in [Node -> Nat] /\ ids[Root] = NoId
                    /\ \A x \in H \ {Root} : ids[x] # NoId

\* PlacesSane for another heap and other parents.
PlacesAt(s, H) == \E V, W :
  /\ V \in [Nat -> Parent] /\ V[Len(actionList)] = s /\ Done(actionList, V)
  /\ W \in [Nat -> Parent] /\ W[Len(redoActionList)] = s /\ Undone(redoActionList, W)
  /\ \A k \in Nat : Sane(V[k], H) /\ Sane(W[k], H)

\* What onItemListReceived has after n rounds.
Fetched(s, n) ==
  /\ s.tree \in Tree /\ LinksAgree(s.tree) /\ ChainsEnd(s.tree)
  /\ s.heap \in SUBSET Node /\ heap \subseteq s.heap
  /\ Cardinality(s.heap) = Cardinality(heap) + n
  /\ \A x \in Item \ s.heap : Unlinked(s.tree, x)
  /\ \A d \in Item \cap heap : Detached(tree, d) => Detached(s.tree, d)
  /\ Numbered(s.id, s.heap) /\ s.nextId \in Id
  /\ s.done \in [Node -> BOOLEAN] /\ s.added \in Seq(Signal)
  /\ PlacesAt(s.tree.parent, s.heap)

\* The tree lies on the heap.
LEMMA TreeOnHeap ==
  ASSUME NEW t \in Tree, LinksAgree(t), NEW H, Root \in H, \A x \in Item \ H : Unlinked(t, x)
  PROVE  InTree(t) \subseteq H
<1>1. SUFFICES ASSUME NEW x \in InTree(t), x \notin H PROVE FALSE
  OBVIOUS
<1>2. x \in Node /\ x # Root /\ x \in Item /\ x # Nil
  BY <1>1, InTreeLeast, NodeAssumption DEF Item
<1>3. Unlinked(t, x) /\ Linked(t, x)
  BY <1>1, <1>2, ReachedLinked
<1>4. PICK p \in Node : t.firstChild[p] = x
  BY <1>3 DEF Linked, Unlinked
<1>5. t.parent[x] = p
  BY <1>2, <1>4 DEF LinksAgree
<1>6. QED BY <1>3, <1>5, NodeAssumption DEF Unlinked

\* The client looks an id up in its tree.
LEMMA FoundThere ==
  ASSUME NEW t \in Tree, OnwardAgree(t), ChainsEnd(t), NEW ids, NEW i
  PROVE  /\ FindItem(t, ids, i) \in InTree(t) \cup {Nil}
         /\ FindItem(t, ids, i) # Nil => ids[FindItem(t, ids, i)] = i
         /\ FindItem(t, ids, i) = Nil => \A x \in InTree(t) : ids[x] # i
<1>1. PICK M : M = InTree(t)
  OBVIOUS
<1>2. M \in SUBSET Node /\ GroundedIn(t, M)
  BY <1>1, InTreeLeast, TreeGrounded
<1>3. Root \in M /\ \A x \in M : {t.firstChild[x], t.next[x]} \ {Nil} \subseteq M
  <2>1. ClosedBelow(t, M) /\ Root \in M
    BY <1>1, InTreeLeast
  <2>2. t.next[Root] = Nil
    BY NodeAssumption DEF OnwardAgree, Tree, ItemOrNil, Item
  <2>3. QED BY <2>1, <2>2 DEF ClosedBelow
<1>4. QED BY <1>1, <1>2, <1>3, FindItemAmong

\* The columns of parents that undo and redo see, with one object more.
LEMMA PlacesBorn ==
  ASSUME IndInv, NEW s \in Parent, NEW H \in SUBSET Node, heap \subseteq H, PlacesAt(s, H),
         NEW i \in Item, i \notin H, NEW p \in H
  PROVE  PlacesAt(Born(s, i, p), H \cup {i})
<1>1. PICK V, W :
        /\ V \in [Nat -> Parent] /\ V[Len(actionList)] = s /\ Done(actionList, V)
        /\ W \in [Nat -> Parent] /\ W[Len(redoActionList)] = s /\ Undone(redoActionList, W)
        /\ \A k \in Nat : Sane(V[k], H) /\ Sane(W[k], H)
  BY DEF PlacesAt
<1>2. PICK A, B : A = [k \in Nat |-> Born(V[k], i, p)] /\ B = [k \in Nat |-> Born(W[k], i, p)]
  OBVIOUS
<1>3. /\ i \notin heap /\ p \in Node /\ i \in Node \ H
      /\ Len(actionList) \in Nat /\ Len(redoActionList) \in Nat
      /\ \A k \in 1..Len(actionList) : actionList[k] \in Action /\ Allocated(actionList[k])
      /\ \A k \in 1..Len(redoActionList) : redoActionList[k] \in Action /\ Allocated(redoActionList[k])
  <2>1. TypeOK
    BY DEF IndInv
  <2>2. actionList \in Seq(Action) /\ redoActionList \in Seq(Action)
    BY <2>1 DEF TypeOK
  <2>3. /\ \A k \in 1..Len(actionList) : Allocated(actionList[k])
        /\ \A k \in 1..Len(redoActionList) : Allocated(redoActionList[k])
    BY <2>1, Parts
  <2>4. QED BY <2>2, <2>3, LenProperties, ElementOfSeq DEF Item
<1>4. \A s0 \in Parent : Born(s0, i, p) \in Parent
  BY <1>3 DEF Born, Parent, NodeOrNil
<1>5. \A k \in Nat : V[k] \in Parent /\ W[k] \in Parent
  BY <1>1
<1>6. A \in [Nat -> Parent] /\ B \in [Nat -> Parent]
  BY <1>2, <1>4, <1>5
<1>7. A[Len(actionList)] = Born(s, i, p) /\ B[Len(redoActionList)] = Born(s, i, p)
  BY <1>1, <1>2, <1>3
<1>8. ASSUME NEW k \in Nat PROVE Sane(A[k], H \cup {i}) /\ Sane(B[k], H \cup {i})
  BY <1>1, <1>2, <1>3, <1>5, BornSane
<1>9. Done(actionList, A)
  <2>1. SUFFICES ASSUME NEW k \in 1..Len(actionList)
                 PROVE  Fits(actionList[k], A[k - 1], A[k])
    BY DEF Done
  <2>2. k \in Nat /\ k - 1 \in Nat
    BY <1>3
  <2>3. Fits(actionList[k], V[k - 1], V[k])
    BY <1>1 DEF Done
  <2>4. Fits(actionList[k], Born(V[k - 1], i, p), Born(V[k], i, p))
    BY <1>3, <1>5, <2>2, <2>3, FitsWithNew
  <2>5. QED BY <1>2, <2>2, <2>4
<1>10. Undone(redoActionList, B)
  <2>1. SUFFICES ASSUME NEW k \in 1..Len(redoActionList)
                 PROVE  Fits(redoActionList[k], B[k], B[k - 1])
    BY DEF Undone
  <2>2. k \in Nat /\ k - 1 \in Nat
    BY <1>3
  <2>3. Fits(redoActionList[k], W[k], W[k - 1])
    BY <1>1 DEF Undone
  <2>4. Fits(redoActionList[k], Born(W[k], i, p), Born(W[k - 1], i, p))
    BY <1>3, <1>5, <2>2, <2>3, FitsWithNew
  <2>5. QED BY <1>2, <2>2, <2>4
<1>11. QED BY <1>6, <1>7, <1>8, <1>9, <1>10 DEF PlacesAt

\* One round of the loop in onItemListReceived.
LEMMA RoundFetched ==
  ASSUME IndInv, NEW s, NEW n \in Nat, Fetched(s, n), s.heap # Node, NEW parent \in heap,
         NEW child \in Entry
  PROVE  Fetched(LoadChild(s, parent, child), n + 1)
<1>1. PICK t, H, new, prev, u, r :
        /\ t = s.tree /\ H = s.heap /\ new = NextFree(s.heap)
        /\ prev = IF child.prev = NoId THEN Nil ELSE FindItem(s.tree, s.id, child.prev)
        /\ u = AddAsChild(t, parent, new, prev)
        /\ r = LoadChild(s, parent, child)
  OBVIOUS
<1>2. /\ t \in Tree /\ LinksAgree(t) /\ ChainsEnd(t) /\ H \in SUBSET Node /\ heap \subseteq H
      /\ Cardinality(H) = Cardinality(heap) + n
      /\ \A x \in Item \ H : Unlinked(t, x)
      /\ \A d \in Item \cap heap : Detached(tree, d) => Detached(t, d)
      /\ Numbered(s.id, H) /\ s.nextId \in Id
      /\ s.done \in [Node -> BOOLEAN] /\ s.added \in Seq(Signal)
      /\ PlacesAt(t.parent, H)
  BY <1>1 DEF Fetched
<1>3. Root \in heap /\ Root \in H /\ IsFiniteSet(heap) /\ IsFiniteSet(H)
  BY <1>2, HeapFinite, FS_Subset DEF IndInv, TypeOK
<1>4. new \in Item /\ new \in Node /\ new \notin H /\ parent \in Node /\ parent \in H
  BY <1>1, <1>2, <1>3, Allocates
<1>5. prev \in ItemOrNil /\ prev \in InTree(t) \cup {Nil} /\ InTree(t) \subseteq H /\ prev \in H \cup {Nil}
  <2>1. InTree(t) \subseteq H
    BY <1>2, <1>3, TreeOnHeap
  <2>2. CASE child.prev = NoId
    BY <1>1, <2>1, <2>2 DEF ItemOrNil
  <2>3. CASE child.prev # NoId
    <3>1. OnwardAgree(t)
      BY <1>2, AgreeOnward
    <3>2. prev \in InTree(t) \cup {Nil} /\ (prev # Nil => s.id[prev] = child.prev)
      BY <1>1, <1>2, <2>3, <3>1, FoundThere
    <3>3. prev # Root
      BY <1>2, <2>3, <3>2, NodeAssumption DEF Numbered
    <3>4. prev \in ItemOrNil
      BY <3>2, <3>3, InTreeLeast, <1>2 DEF ItemOrNil, Item
    <3>5. QED BY <2>1, <3>2, <3>4
  <2>4. QED BY <2>2, <2>3
<1>6. prev # new
  BY <1>4, <1>5, NodeAssumption
<1>7. Detached(t, new)
  BY <1>2, <1>4, NodeAssumption DEF Unlinked, Detached, LinksAgree, Item
<1>8. /\ u \in Tree /\ LinksAgree(u) /\ ChainsEnd(u)
      /\ \A d \in Item \ {new, prev} : Detached(t, d) => Detached(u, d)
  BY <1>1, <1>2, <1>4, <1>5, <1>6, <1>7, AddAsChildKeeps
<1>9. /\ r.tree = u /\ r.heap = H \cup {new} /\ r.id = [s.id EXCEPT ![new] = child.id]
      /\ r.done = [s.done EXCEPT ![new] = child.done]
      /\ r.nextId = IF child.id >= s.nextId THEN child.id + 1 ELSE s.nextId
      /\ r.added = Append(s.added, Sig("itemAdded", new))
  BY <1>1 DEF LoadChild
<1>10. Cardinality(r.heap) = Cardinality(heap) + (n + 1)
  <2>1. Cardinality(H \cup {new}) = Cardinality(H) + 1
    BY <1>3, <1>4, FS_AddElement
  <2>2. Cardinality(heap) \in Nat
    BY <1>3, FS_CardinalityType
  <2>3. QED BY <1>2, <1>9, <2>1, <2>2
<1>11. ASSUME NEW x \in Item, x \notin r.heap PROVE Unlinked(r.tree, x)
  <2>1. x \notin H /\ x # new
    BY <1>9, <1>11
  <2>2. QED BY <1>1, <1>2, <1>4, <1>5, <1>9, <2>1, AddFresh
<1>12. ASSUME NEW d \in Item \cap heap, Detached(tree, d) PROVE Detached(r.tree, d)
  <2>1. Detached(t, d) /\ d # new /\ d # Nil /\ d # Root
    BY <1>2, <1>4, <1>12, NodeAssumption DEF Item
  <2>2. d # prev
    <3>1. SUFFICES ASSUME d = prev PROVE FALSE
      OBVIOUS
    <3>2. Linked(t, d)
      BY <1>2, <1>5, <2>1, <3>1, ReachedLinked
    <3>3. QED BY <2>1, <3>2 DEF Linked, Detached
  <2>3. QED BY <1>8, <1>9, <2>1, <2>2
<1>13. Numbered(r.id, r.heap) /\ r.nextId \in Id
  <2>1. child.id \in Nat /\ child.id # 0
    BY DEF Entry, Id, NoId
  <2>2. s.nextId \in Nat /\ s.nextId # 0
    BY <1>2 DEF Id, NoId
  <2>3. r.nextId \in Nat /\ r.nextId # 0
    BY <1>9, <2>1, <2>2
  <2>4. Numbered(r.id, r.heap)
    BY <1>2, <1>4, <1>9, <2>1 DEF Numbered, NoId, Item
  <2>5. QED BY <2>3, <2>4 DEF Id, NoId
<1>14. r.done \in [Node -> BOOLEAN] /\ r.added \in Seq(Signal)
  <2>1. child.done \in BOOLEAN
    BY DEF Entry
  <2>2. Sig("itemAdded", new) \in Signal
    BY <1>4 DEF Sig, Signal
  <2>3. r.done \in [Node -> BOOLEAN]
    BY <1>2, <1>4, <1>9, <2>1
  <2>4. r.added \in Seq(Signal)
    BY <1>2, <1>9, <2>2
  <2>5. QED BY <2>3, <2>4
<1>15. PlacesAt(r.tree.parent, r.heap)
  <2>1. u.parent = Born(t.parent, new, parent)
    <3>1. AddAsChild(t, parent, new, prev).parent = [t.parent EXCEPT ![new] = parent]
      BY ParentsSet
    <3>2. u = AddAsChild(t, parent, new, prev)
      BY <1>1
    <3>3. QED BY <3>1, <3>2 DEF Born
  <2>2. t.parent \in Parent
    BY <1>2 DEF Tree, Parent
  <2>3. PlacesAt(Born(t.parent, new, parent), H \cup {new})
    BY <1>2, <1>4, <2>2, PlacesBorn
  <2>4. QED BY <1>9, <2>1, <2>3
<1>16. r.heap \in SUBSET Node /\ heap \subseteq r.heap
  BY <1>2, <1>4, <1>9
<1>17. r.tree \in Tree /\ LinksAgree(r.tree) /\ ChainsEnd(r.tree)
  BY <1>8, <1>9
<1>18. Fetched(r, n + 1)
  BY <1>10, <1>11, <1>12, <1>13, <1>14, <1>15, <1>16, <1>17 DEF Fetched
<1>19. QED BY <1>1, <1>18

\* One round, by number.
Round(a, parent, children, k) ==
  IF k = 0
  THEN [tree |-> tree, heap |-> heap, id |-> itemId, nextId |-> nextId, done |-> done,
        added |-> <<>>]
  ELSE LoadChild(a[k - 1], parent, children[k])

\* The rounds are defined one after the other.
LEMMA RoundsExist ==
  ASSUME NEW parent, NEW children, NEW n \in Nat
  PROVE  \E a : a = [k \in 0..n |-> Round(a, parent, children, k)]
<1> DEFINE T == {m \in Nat : \E a : a = [k \in 0..m |-> Round(a, parent, children, k)]}
<1>1. 0 \in T
  <2>1. PICK a : a = [k \in 0..0 |-> Round(<<>>, parent, children, k)]
    OBVIOUS
  <2>2. 0..0 = {0}
    OBVIOUS
  <2>3. \A k \in 0..0 : Round(<<>>, parent, children, k) = Round(a, parent, children, k)
    BY <2>2 DEF Round
  <2>4. a = [k \in 0..0 |-> Round(a, parent, children, k)]
    BY <2>1, <2>3
  <2>5. QED BY <2>4
<1>2. ASSUME NEW m \in Nat, m \in T PROVE m + 1 \in T
  <2>1. PICK a : a = [k \in 0..m |-> Round(a, parent, children, k)]
    BY <1>2
  <2>2. PICK b : b = [k \in 0..m + 1 |-> IF k <= m THEN a[k] ELSE Round(a, parent, children, k)]
    OBVIOUS
  <2>3. ASSUME NEW k \in 0..m + 1
        PROVE  (IF k <= m THEN a[k] ELSE Round(a, parent, children, k))
                 = Round(b, parent, children, k)
    <3>1. CASE k = 0
      <4>1. k \in 0..m /\ k <= m
        BY <3>1
      <4>2. a[k] = Round(a, parent, children, k)
        BY <2>1, <4>1
      <4>3. QED BY <3>1, <4>1, <4>2 DEF Round
    <3>2. CASE k # 0
      <4>1. k - 1 \in 0..m + 1 /\ k - 1 <= m /\ (k <= m => k \in 0..m)
        BY <3>2
      <4>2. b[k - 1] = a[k - 1]
        BY <2>2, <4>1
      <4>3. k <= m => a[k] = Round(a, parent, children, k)
        BY <2>1, <4>1
      <4>4. QED BY <3>2, <4>2, <4>3 DEF Round
    <3>3. QED BY <3>1, <3>2
  <2>4. b = [k \in 0..m + 1 |-> Round(b, parent, children, k)]
    BY <2>2, <2>3
  <2>5. QED BY <2>4
<1>3. Nat \subseteq T
  <2> HIDE DEF T
  <2>1. QED BY <1>1, <1>2, SetInduction
<1>4. QED BY <1>3

\* What the loop of onItemListReceived ends with is what the last round left.
LEMMA LoadUnrolls ==
  ASSUME NEW parent, NEW children, Len(children) \in Nat
  PROVE  \E a : /\ LoadChildren(parent, children) = a[Len(children)]
                /\ \A k \in 0..Len(children) : a[k] = Round(a, parent, children, k)
<1> DEFINE A == CHOOSE a : a = [k \in 0..Len(children) |-> Round(a, parent, children, k)]
<1>1. A = [k \in 0..Len(children) |-> Round(A, parent, children, k)]
  BY RoundsExist
<1>2. LoadChildren(parent, children) = A[Len(children)]
  BY DEF LoadChildren, Round
<1>3. QED BY <1>1, <1>2

\* After the loop.
LEMMA AllFetched ==
  ASSUME IndInv, PlacesSane, Numbered(itemId, heap), nextId \in Id, done \in [Node -> BOOLEAN],
         NEW parent, NEW children \in Seq(Entry), children # <<>> => parent \in heap,
         Cardinality(Node \ heap) >= Len(children)
  PROVE  Fetched(LoadChildren(parent, children), Len(children))
<1>1. PICK a : /\ LoadChildren(parent, children) = a[Len(children)]
               /\ \A k \in 0..Len(children) : a[k] = Round(a, parent, children, k)
  BY LoadUnrolls
<1>2. Len(children) \in Nat
  OBVIOUS
<1> DEFINE T == {k \in Nat : k <= Len(children) => Fetched(a[k], k)}
<1>3. 0 \in T
  <2>1. PICK r : r = [tree |-> tree, heap |-> heap, id |-> itemId, nextId |-> nextId, done |-> done,
                      added |-> <<>>]
    OBVIOUS
  <2>2. a[0] = r
    BY <1>1, <1>2, <2>1 DEF Round
  <2>3. HeapOK /\ PlacesAt(tree.parent, heap)
    BY Parts DEF IndInv, PlacesSane, PlacesAt, Past, Future
  <2>4. Cardinality(heap) = Cardinality(heap) + 0
    BY <2>3, HeapFinite, FS_Subset, FS_CardinalityType DEF HeapOK
  <2>5. Fetched(r, 0)
    BY <2>1, <2>3, <2>4 DEF Fetched, HeapOK, LinksConsistent, ChainsFinite, FreshUnlinked
  <2>6. QED BY <2>2, <2>5
<1>4. ASSUME NEW k \in Nat, k \in T PROVE k + 1 \in T
  <2> SUFFICES ASSUME k + 1 <= Len(children) PROVE Fetched(a[k + 1], k + 1)
    OBVIOUS
  <2>1. k + 1 \in 0..Len(children) /\ k + 1 # 0 /\ (k + 1) - 1 = k /\ k <= Len(children)
        /\ k + 1 \in 1..Len(children)
    BY <1>2
  <2>2. Fetched(a[k], k)
    BY <1>4, <2>1
  <2>3. a[k + 1] = LoadChild(a[k], parent, children[k + 1])
    BY <1>1, <2>1 DEF Round
  <2>4. children[k + 1] \in Entry /\ children # <<>>
    BY <2>1
  <2>5. a[k].heap # Node
    <3>1. SUFFICES ASSUME a[k].heap = Node PROVE FALSE
      OBVIOUS
    <3>2. Cardinality(Node) = Cardinality(heap) + k
      BY <2>2, <3>1 DEF Fetched
    <3>3. heap \in SUBSET Node /\ IsFiniteSet(heap) /\ IsFiniteSet(Node \ heap)
      BY HeapFinite, FS_Subset, FS_Difference DEF IndInv, TypeOK
    <3>4. Cardinality(Node \ heap) = Cardinality(Node) - Cardinality(heap)
      <4>1. heap \cap Node = heap /\ Node \cap heap = heap
        BY <3>3
      <4>2. Cardinality(Node \ heap) = Cardinality(Node) - Cardinality(Node \cap heap)
        BY HeapFinite, FS_Difference
      <4>3. QED BY <4>1, <4>2
    <3>5. Cardinality(heap) \in Nat
      BY <3>3, FS_CardinalityType
    <3>6. Cardinality(Node \ heap) = k
      BY <3>2, <3>4, <3>5
    <3>7. QED BY <2>1, <3>6, <1>2
  <2>6. QED BY <2>2, <2>3, <2>4, <2>5, RoundFetched
<1>5. Nat \subseteq T
  <2> HIDE DEF T
  <2>1. QED BY <1>3, <1>4, SetInduction
<1>6. QED BY <1>1, <1>2, <1>5

\* The requests among packets, and the answers among those of the server.
Req(q) == {k \in 1..Len(q) : q[k].type \in {"PT_GET_ITEM", "PT_GET_CHILDREN"}}
Ans(c) == {k \in 1..Len(c) : c[k].type # "PT_RESPONSE"}

\* Every request under way is one of R, once, and numbers from n on are unused.
Matched(q, c, R, n) ==
  /\ q \in Seq(Packet) /\ c \in Seq(Answer) /\ n \in Nat
  /\ \A r \in R : r \in Nat /\ r < n
  /\ \A k \in Req(q) : q[k].request \in R
  /\ \A k \in Ans(c) : c[k].request \in R
  /\ \A j, k \in Req(q) : q[j].request = q[k].request => j = k
  /\ \A j, k \in Ans(c) : c[j].request = c[k].request => j = k
  /\ \A j \in Req(q), k \in Ans(c) : q[j].request # c[k].request

\* Each element of a sequence put together from two comes from one of them.
LEMMA Joined ==
  ASSUME NEW S, NEW q \in Seq(S), NEW p \in Seq(S)
  PROVE  /\ q \o p \in Seq(S) /\ Len(q \o p) = Len(q) + Len(p)
         /\ \A k \in 1..Len(q) : k \in 1..Len(q \o p) /\ (q \o p)[k] = q[k]
         /\ \A k \in 1..Len(q \o p) : k > Len(q) =>
              k - Len(q) \in 1..Len(p) /\ (q \o p)[k] = p[k - Len(q)]
         /\ \A k \in 1..Len(q \o p) : k <= Len(q) => k \in 1..Len(q)
OBVIOUS

\* What is not a request adds none.
LEMMA MatchedWrite ==
  ASSUME NEW q, NEW c, NEW R, NEW n, Matched(q, c, R, n), NEW p \in Seq(Packet), Req(p) = {}
  PROVE  Matched(q \o p, c, R, n)
<1>1. q \in Seq(Packet)
  BY DEF Matched
<1>2. PICK w : w = q \o p
  OBVIOUS
<1>3. /\ w \in Seq(Packet) /\ Len(w) = Len(q) + Len(p)
      /\ \A k \in 1..Len(q) : k \in 1..Len(w) /\ w[k] = q[k]
      /\ \A k \in 1..Len(w) : k > Len(q) => k - Len(q) \in 1..Len(p) /\ w[k] = p[k - Len(q)]
      /\ \A k \in 1..Len(w) : k <= Len(q) => k \in 1..Len(q)
  BY <1>1, <1>2, Joined
<1>4. ASSUME NEW k \in Req(w) PROVE k \in Req(q) /\ w[k] = q[k]
  <2>1. k \in 1..Len(w) /\ k \in Nat /\ Len(q) \in Nat
        /\ w[k].type \in {"PT_GET_ITEM", "PT_GET_CHILDREN"}
    BY <1>1, <1>3 DEF Req
  <2>2. CASE k > Len(q)
    <3>1. k - Len(q) \in Req(p)
      BY <1>3, <2>1, <2>2 DEF Req
    <3>2. QED BY <3>1
  <2>3. CASE k <= Len(q)
    BY <1>3, <2>1, <2>3 DEF Req
  <2>4. QED BY <2>1, <2>2, <2>3
<1>5. \A k \in Req(w) : w[k].request \in R
  BY <1>4 DEF Matched
<1>6. ASSUME NEW j \in Req(w), NEW k \in Req(w), w[j].request = w[k].request PROVE j = k
  BY <1>4, <1>6 DEF Matched
<1>7. \A j \in Req(w), k \in Ans(c) : w[j].request # c[k].request
  BY <1>4 DEF Matched
<1>8. Matched(w, c, R, n)
  BY <1>3, <1>5, <1>6, <1>7 DEF Matched
<1>9. QED BY <1>2, <1>8

\* Nor does what is lost.
LEMMA MatchedDrop ==
  ASSUME NEW q, NEW c, NEW R, NEW n, Matched(q, c, R, n)
  PROVE  /\ Matched(<<>>, <<>>, R, n)
         /\ \A j \in 1..Len(c) : Matched(q, SubSeq(c, j + 1, Len(c)), R, n)
<1>1. Matched(<<>>, <<>>, R, n)
  <2>1. <<>> \in Seq(Packet) /\ <<>> \in Seq(Answer) /\ Len(<<>>) = 0 /\ 1..0 = {}
    OBVIOUS
  <2>2. Req(<<>>) = {} /\ Ans(<<>>) = {}
    BY <2>1 DEF Req, Ans
  <2>3. QED BY <2>1, <2>2 DEF Matched
<1>2. ASSUME NEW j \in 1..Len(c) PROVE Matched(q, SubSeq(c, j + 1, Len(c)), R, n)
  <2>1. c \in Seq(Answer) /\ Len(c) \in Nat /\ j \in Nat /\ j <= Len(c)
    BY DEF Matched
  <2>2. PICK d : d = SubSeq(c, j + 1, Len(c))
    OBVIOUS
  <2>3. d \in Seq(Answer) /\ Len(d) = Len(c) - j /\ \A k \in 1..Len(d) : d[k] = c[k + j]
    BY <2>1, <2>2
  <2>4. \A k \in Ans(d) : k \in Nat /\ k + j \in Ans(c) /\ d[k] = c[k + j]
    BY <2>1, <2>3 DEF Ans
  <2>5. \A k, l \in Ans(d) : d[k].request = d[l].request => k = l
    <3>1. TAKE k, l \in Ans(d)
    <3>2. k \in Nat /\ l \in Nat /\ (k + j = l + j => k = l)
      BY <2>1, <2>4
    <3>3. QED BY <2>4, <3>2 DEF Matched
  <2>6. Matched(q, d, R, n)
    <3>1. \A k \in Ans(d) : d[k].request \in R
      BY <2>4 DEF Matched
    <3>2. \A i \in Req(q), k \in Ans(d) : q[i].request # d[k].request
      BY <2>4 DEF Matched
    <3>3. QED BY <2>3, <2>5, <3>1, <3>2 DEF Matched
  <2>7. QED BY <2>2, <2>6
<1>3. QED BY <1>1, <1>2

\* The first of a sequence and the others.
LEMMA FirstOf ==
  ASSUME NEW S, NEW q \in Seq(S), q # <<>>
  PROVE  /\ Head(q) \in S /\ Head(q) = q[1] /\ Tail(q) \in Seq(S) /\ 1 \in 1..Len(q)
         /\ Len(q) \in Nat /\ Len(Tail(q)) = Len(q) - 1
         /\ \A k \in 1..Len(Tail(q)) : k + 1 \in 1..Len(q) /\ Tail(q)[k] = q[k + 1]
OBVIOUS

\* A request that is handled becomes its answer, or nothing.
LEMMA MatchedHandle ==
  ASSUME NEW q, NEW c, NEW R, NEW n, Matched(q, c, R, n), q # <<>>, NEW r, Answering(Head(q), r)
  PROVE  Matched(Tail(q), c \o r, R, n)
<1>1. PICK p, d : p = Tail(q) /\ d = c \o r
  OBVIOUS
<1>2. q \in Seq(Packet) /\ c \in Seq(Answer) /\ r \in Seq(Answer) /\ Len(r) \in {0, 1}
  BY DEF Matched, Answering
<1>3. /\ Head(q) = q[1] /\ p \in Seq(Packet) /\ 1 \in 1..Len(q)
      /\ Len(q) \in Nat /\ Len(p) = Len(q) - 1
      /\ \A k \in 1..Len(p) : k + 1 \in 1..Len(q) /\ p[k] = q[k + 1]
  BY <1>1, <1>2, FirstOf
<1>4. /\ d \in Seq(Answer) /\ Len(d) = Len(c) + Len(r)
      /\ \A k \in 1..Len(d) : k > Len(c) => k - Len(c) \in 1..Len(r) /\ d[k] = r[k - Len(c)]
      /\ \A k \in 1..Len(d) : k <= Len(c) => k \in 1..Len(c)
      /\ \A k \in 1..Len(c) : d[k] = c[k]
  BY <1>1, <1>2, Joined
<1>5. \A k \in Req(p) : k \in Nat /\ k # 0 /\ k + 1 \in Req(q) /\ p[k] = q[k + 1]
  BY <1>3 DEF Req
<1>6. ASSUME NEW k \in Ans(d)
      PROVE  \/ k \in Ans(c) /\ d[k] = c[k] /\ k <= Len(c)
             \/ k = Len(c) + 1 /\ 1 \in Req(q) /\ d[k].request = q[1].request
  <2>1. k \in 1..Len(d) /\ k \in Nat /\ Len(c) \in Nat /\ d[k].type # "PT_RESPONSE"
    BY <1>2, <1>4 DEF Ans
  <2>2. CASE k <= Len(c)
    BY <1>4, <2>1, <2>2 DEF Ans
  <2>3. CASE k > Len(c)
    <3>1. k - Len(c) \in 1..Len(r) /\ d[k] = r[k - Len(c)]
      BY <1>4, <2>1, <2>3
    <3>2. k - Len(c) = 1 /\ k = Len(c) + 1 /\ 1 \in 1..Len(r)
      BY <1>2, <2>1, <3>1
    <3>3. d[k] = r[1]
      BY <3>1, <3>2
    <3>4. q[1].type \in {"PT_GET_ITEM", "PT_GET_CHILDREN"} /\ r[1].request = q[1].request
      BY <1>3, <2>1, <3>2, <3>3 DEF Answering
    <3>5. QED BY <1>3, <3>2, <3>3, <3>4 DEF Req
  <2>4. QED BY <2>1, <2>2, <2>3
<1>7. \A k \in Req(p) : p[k].request \in R
  BY <1>5 DEF Matched
<1>8. \A k \in Ans(d) : d[k].request \in R
  BY <1>6 DEF Matched
<1>9. ASSUME NEW j \in Req(p), NEW k \in Req(p), p[j].request = p[k].request PROVE j = k
  <2>1. j + 1 = k + 1 /\ j \in Nat /\ k \in Nat
    BY <1>5, <1>9 DEF Matched
  <2>2. QED BY <2>1
<1>10. ASSUME NEW j \in Ans(d), NEW k \in Ans(d), d[j].request = d[k].request PROVE j = k
  BY <1>6, <1>10 DEF Matched
<1>11. ASSUME NEW j \in Req(p), NEW k \in Ans(d), p[j].request = d[k].request PROVE FALSE
  <2>1. j + 1 \in Req(q) /\ p[j] = q[j + 1] /\ j + 1 # 1
    BY <1>5
  <2>2. CASE k \in Ans(c) /\ d[k] = c[k]
    BY <1>11, <2>1, <2>2 DEF Matched
  <2>3. CASE 1 \in Req(q) /\ d[k].request = q[1].request
    BY <1>11, <2>1, <2>3 DEF Matched
  <2>4. QED BY <1>6, <2>2, <2>3
<1>12. Matched(p, d, R, n)
  BY <1>3, <1>4, <1>7, <1>8, <1>9, <1>10, <1>11 DEF Matched
<1>13. QED BY <1>1, <1>12

\* An answer that is read is not under way any more.
LEMMA MatchedRead ==
  ASSUME NEW q, NEW c, NEW R, NEW n, Matched(q, c, R, n), c # <<>>, Head(c).type # "PT_RESPONSE"
  PROVE  Matched(q, Tail(c), R \ {Head(c).request}, n) /\ Head(c).request \in R
<1>1. PICK d, r : d = Tail(c) /\ r = Head(c).request
  OBVIOUS
<1>2. c \in Seq(Answer)
  BY DEF Matched
<1>3. /\ Head(c) = c[1] /\ d \in Seq(Answer) /\ 1 \in 1..Len(c)
      /\ Len(c) \in Nat /\ Len(d) = Len(c) - 1
      /\ \A k \in 1..Len(d) : k + 1 \in 1..Len(c) /\ d[k] = c[k + 1]
  BY <1>1, <1>2, FirstOf
<1>4. 1 \in Ans(c) /\ r = c[1].request
  BY <1>1, <1>3 DEF Ans
<1>5. \A k \in Ans(d) : k \in Nat /\ k # 0 /\ k + 1 \in Ans(c) /\ d[k] = c[k + 1]
  BY <1>3 DEF Ans
<1>6. ASSUME NEW k \in Ans(d) PROVE d[k].request \in R \ {r}
  <2>1. k + 1 # 1
    BY <1>5
  <2>2. QED BY <1>4, <1>5, <2>1 DEF Matched
<1>7. \A k \in Req(q) : q[k].request \in R \ {r}
  BY <1>4 DEF Matched
<1>8. ASSUME NEW j \in Ans(d), NEW k \in Ans(d), d[j].request = d[k].request PROVE j = k
  <2>1. j + 1 = k + 1 /\ j \in Nat /\ k \in Nat
    BY <1>5, <1>8 DEF Matched
  <2>2. QED BY <2>1
<1>9. \A j \in Req(q), k \in Ans(d) : q[j].request # d[k].request
  BY <1>5 DEF Matched
<1>10. Matched(q, d, R \ {r}, n)
  BY <1>3, <1>6, <1>7, <1>8, <1>9 DEF Matched
<1>11. QED BY <1>1, <1>4, <1>10 DEF Matched

\* New requests, numbered from n on.
LEMMA MatchedAsk ==
  ASSUME NEW q, NEW c, NEW R, NEW n, Matched(q, c, R, n), NEW p \in Seq(Packet),
         \A k \in 1..Len(p) : p[k].request = n + k - 1
  PROVE  Matched(q \o p, c, R \cup {n + k - 1 : k \in 1..Len(p)}, n + Len(p))
<1>1. PICK w, Q : w = q \o p /\ Q = R \cup {n + k - 1 : k \in 1..Len(p)}
  OBVIOUS
<1>2. q \in Seq(Packet) /\ c \in Seq(Answer) /\ n \in Nat /\ Len(p) \in Nat /\ Len(q) \in Nat
  BY DEF Matched
<1>3. /\ w \in Seq(Packet) /\ Len(w) = Len(q) + Len(p)
      /\ \A k \in 1..Len(q) : k \in 1..Len(w) /\ w[k] = q[k]
      /\ \A k \in 1..Len(w) : k > Len(q) => k - Len(q) \in 1..Len(p) /\ w[k] = p[k - Len(q)]
      /\ \A k \in 1..Len(w) : k <= Len(q) => k \in 1..Len(q)
  BY <1>1, <1>2, Joined
<1>4. ASSUME NEW k \in Req(w)
      PROVE  /\ k \in Nat
             /\ \/ k <= Len(q) /\ k \in Req(q) /\ w[k] = q[k] /\ w[k].request \in R
                                             /\ w[k].request < n
                \/ k > Len(q) /\ w[k].request = n + (k - Len(q)) - 1 /\ k - Len(q) \in 1..Len(p)
  <2>1. k \in 1..Len(w) /\ k \in Nat /\ w[k].type \in {"PT_GET_ITEM", "PT_GET_CHILDREN"}
    BY <1>2, <1>3 DEF Req
  <2>2. CASE k <= Len(q)
    <3>1. k \in Req(q) /\ w[k] = q[k]
      BY <1>3, <2>1, <2>2 DEF Req
    <3>2. w[k].request \in R
      BY <3>1 DEF Matched
    <3>3. QED BY <2>1, <2>2, <3>1, <3>2 DEF Matched
  <2>3. CASE k > Len(q)
    BY <1>3, <2>1, <2>3
  <2>4. QED BY <1>2, <2>1, <2>2, <2>3
<1>5. \A r \in Q : r \in Nat /\ r < n + Len(p)
  <2>1. \A r \in R : r \in Nat /\ r < n
    BY DEF Matched
  <2>2. \A k \in 1..Len(p) : n + k - 1 \in Nat /\ n + k - 1 < n + Len(p)
    BY <1>2
  <2>3. \A r \in R : r \in Nat /\ r < n + Len(p)
    BY <1>2, <2>1
  <2>4. QED BY <1>1, <2>2, <2>3
<1>6. \A k \in Req(w) : w[k].request \in Q
  BY <1>1, <1>4
<1>7. \A k \in Ans(c) : c[k].request \in Q /\ c[k].request \in Nat /\ c[k].request < n
  BY <1>1 DEF Matched
<1>8. ASSUME NEW j \in Req(w), NEW k \in Req(w), w[j].request = w[k].request PROVE j = k
  <2>1. CASE j <= Len(q) /\ k <= Len(q)
    BY <1>2, <1>4, <1>8, <2>1 DEF Matched
  <2>2. CASE j > Len(q) /\ k > Len(q)
    <3>1. /\ w[j].request = n + (j - Len(q)) - 1 /\ w[k].request = n + (k - Len(q)) - 1
          /\ j \in Nat /\ k \in Nat
      BY <1>2, <1>4, <2>2
    <3>2. n + (j - Len(q)) - 1 = n + (k - Len(q)) - 1
      BY <1>8, <3>1
    <3>3. j \in Nat /\ k \in Nat
      BY <3>1
    <3>4. QED BY <1>2, <3>2, <3>3
  <2>3. ASSUME NEW a \in Req(w), NEW b \in Req(w), a <= Len(q), b > Len(q)
        PROVE  w[a].request # w[b].request
    <3>1. w[a].request \in R /\ w[a].request < n /\ a \in Nat
      BY <1>2, <1>4, <2>3
    <3>2. w[b].request = n + (b - Len(q)) - 1 /\ b \in Nat
      BY <1>2, <1>4, <2>3
    <3>3. w[a].request \in Nat
      BY <3>1 DEF Matched
    <3>4. QED BY <1>2, <2>3, <3>1, <3>2, <3>3
  <2>4. j \in Nat /\ k \in Nat
    BY <1>4
  <2>5. QED BY <1>2, <1>8, <2>1, <2>2, <2>3, <2>4
<1>9. ASSUME NEW j \in Req(w), NEW k \in Ans(c) PROVE w[j].request # c[k].request
  <2>1. CASE j <= Len(q)
    BY <1>2, <1>4, <2>1 DEF Matched
  <2>2. CASE j > Len(q)
    <3>1. w[j].request = n + (j - Len(q)) - 1 /\ j \in Nat
      BY <1>2, <1>4, <2>2
    <3>2. QED BY <1>2, <1>7, <2>2, <3>1
  <2>3. QED BY <1>2, <1>4, <2>1, <2>2
<1>10. \A j, k \in Ans(c) : c[j].request = c[k].request => j = k
  BY DEF Matched
<1>11. n + Len(p) \in Nat
  BY <1>2
<1>12. Matched(w, c, Q, n + Len(p))
  BY <1>2, <1>3, <1>5, <1>6, <1>7, <1>8, <1>9, <1>10, <1>11 DEF Matched
<1>13. QED BY <1>1, <1>12

\* What carries a request and the numbers of the requests are equally many.
LEMMA MatchedCounts ==
  ASSUME NEW q, NEW c, NEW R, NEW n, Matched(q, c, R, n)
  PROVE  \E U : /\ U = {q[k].request : k \in Req(q)} \cup {c[k].request : k \in Ans(c)}
                /\ U \subseteq R /\ Cardinality(U) = Cardinality(Req(q)) + Cardinality(Ans(c))
<1>1. PICK A, B : A = {q[k].request : k \in Req(q)} /\ B = {c[k].request : k \in Ans(c)}
  OBVIOUS
<1>2. PICK f, g : f = [k \in Req(q) |-> q[k].request] /\ g = [k \in Ans(c) |-> c[k].request]
  OBVIOUS
<1>3. IsFiniteSet(Req(q)) /\ IsFiniteSet(Ans(c))
  <2>1. Len(q) \in Nat /\ Len(c) \in Nat
    BY DEF Matched
  <2>2. IsFiniteSet(1..Len(q)) /\ IsFiniteSet(1..Len(c))
    BY <2>1, FS_Interval
  <2>3. Req(q) \in SUBSET (1..Len(q)) /\ Ans(c) \in SUBSET (1..Len(c))
    BY DEF Req, Ans
  <2>4. QED BY <2>2, <2>3, FS_Subset
<1>4. f \in Surjection(Req(q), A) /\ g \in Surjection(Ans(c), B)
  BY <1>1, <1>2 DEF Surjection
<1>5. f \in Injection(Req(q), A)
  BY <1>1, <1>2 DEF Injection, IsInjective, Matched
<1>6. g \in Injection(Ans(c), B)
  BY <1>1, <1>2 DEF Injection, IsInjective, Matched
<1>7. IsFiniteSet(A) /\ Cardinality(A) = Cardinality(Req(q))
  BY <1>3, <1>4, <1>5, FS_Surjection
<1>8. IsFiniteSet(B) /\ Cardinality(B) = Cardinality(Ans(c))
  BY <1>3, <1>4, <1>6, FS_Surjection
<1>9. A \cap B = {} /\ A \subseteq R /\ B \subseteq R
  BY <1>1 DEF Matched
<1>10. Cardinality(A \cup B) = Cardinality(A) + Cardinality(B) - Cardinality(A \cap B)
  BY <1>7, <1>8, FS_Union
<1>11. Cardinality(A \cap B) = 0 /\ Cardinality(A) \in Nat /\ Cardinality(B) \in Nat
  BY <1>7, <1>8, <1>9, FS_EmptySet, FS_CardinalityType
<1>12. A \cup B = {q[k].request : k \in Req(q)} \cup {c[k].request : k \in Ans(c)}
  BY <1>1
<1>13. Cardinality(A \cup B) = Cardinality(A) + Cardinality(B)
  BY <1>10, <1>11
<1>14. QED BY <1>7, <1>8, <1>9, <1>12, <1>13

\* A step on the undo list is followed by a signal about an item on the heap.
LEMMA MakeTells ==
  ASSUME HeapOK, NEW x, Makeable(x), NEW i \in Item, Make(x, i)
  PROVE  /\ i \in heap' /\ heap \subseteq heap'
         /\ \E n \in {"itemCreated", "itemDeleted", "itemTextChanged", "itemModified"} :
              signals'[Len(signals')] = Sig(n, i)
<1>1. heap \subseteq heap' /\ Allocated(On(x, i))'
  BY MakeKeeps
<1>2. CASE x.kind = "create"
  <2>1. MakeCreate(x.parent, i, x.prev)
    BY <1>2 DEF Make
  <2>2. i \in heap' /\ signals' = <<Sig("itemAdded", i), Sig("itemCreated", i)>>
    BY <2>1 DEF MakeCreate
  <2>3. Len(signals') = 2 /\ signals'[2] = Sig("itemCreated", i)
    BY <2>2
  <2>4. QED BY <1>1, <2>2, <2>3
<1>3. CASE x.kind # "create"
  <2>1. i = x.item /\ x \in Action /\ Allocated(x)
    BY <1>3 DEF Make, Makeable
  <2>2. i \in heap'
    BY <1>1, <2>1 DEF Allocated
  <2>3. \E n \in {"itemDeleted", "itemTextChanged", "itemModified"} : signals' = <<Sig(n, i)>>
    BY <1>3, <2>1 DEF Make, DetachItem, MakeEdit, MakeMove
  <2>4. PICK n \in {"itemDeleted", "itemTextChanged", "itemModified"} : signals' = <<Sig(n, i)>>
    BY <2>3
  <2>5. Len(signals') = 1 /\ signals'[1] = Sig(n, i)
    BY <2>4
  <2>6. QED BY <1>1, <2>2, <2>5
<1>4. QED BY <1>2, <1>3

\* Every command, undo and redo.
LEMMA StepTells ==
  ASSUME IndInv, Command \/ UndoLastAction \/ RedoAction
  PROVE  \E i \in Item, n \in {"itemAdded", "itemCreated", "itemDeleted", "itemTextChanged", "itemModified"} :
           /\ i \in heap' /\ heap \subseteq heap'
           /\ signals'[Len(signals')] = Sig(n, i)
<1>1. /\ TypeOK /\ HeapOK
      /\ \A k \in 1..Len(actionList) : Allocated(actionList[k])
      /\ \A k \in 1..Len(redoActionList) : Allocated(redoActionList[k])
  BY Parts DEF IndInv
<1>2. actionList \in Seq(Action) /\ redoActionList \in Seq(Action)
  BY <1>1 DEF TypeOK
<1>3. CASE Command
  <2>1. PICK x : Commanded(x)
    BY <1>3, CommandMakes
  <2>2. PICK i \in Item : Make(x, i)
    BY <2>1 DEF Commanded, DoAction
  <2>3. QED BY <1>1, <2>1, <2>2, MakeTells DEF Commanded
<1>4. CASE UndoLastAction
  <2>1. PICK x : x = actionList[Len(actionList)] /\ Revert(x) /\ actionList # <<>>
    BY <1>4 DEF UndoLastAction
  <2>2. x \in Action /\ Allocated(x)
    <3>1. Len(actionList) \in 1..Len(actionList)
      BY <1>2, <2>1
    <3>2. QED BY <1>1, <1>2, <2>1, <3>1
  <2>3. x.item \in Item /\ x.item \in heap
    BY <2>2, ActionParts
  <2>4. heap' = heap /\ \E n \in {"itemAdded", "itemDeleted", "itemTextChanged", "itemModified"} :
                          signals' = <<Sig(n, x.item)>>
    BY <2>1 DEF Revert, DetachItem, AddItem, MakeEdit, MakeMove
  <2>5. PICK n \in {"itemAdded", "itemDeleted", "itemTextChanged", "itemModified"} :
          signals' = <<Sig(n, x.item)>>
    BY <2>4
  <2>6. signals'[Len(signals')] = Sig(n, x.item)
    BY <2>5
  <2>7. QED BY <2>3, <2>4, <2>6
<1>5. CASE RedoAction
  <2>1. PICK x : x = redoActionList[Len(redoActionList)] /\ redoActionList # <<>>
    BY <1>5 DEF RedoAction
  <2>2. PICK i \in Item : Make(x, i)
    BY <1>5, <2>1 DEF RedoAction
  <2>3. x \in Action /\ Allocated(x)
    <3>1. Len(redoActionList) \in 1..Len(redoActionList)
      BY <1>2, <2>1
    <3>2. QED BY <1>1, <1>2, <2>1, <3>1
  <2>4. Makeable(x)
    BY <2>3, ActionParts DEF Makeable
  <2>5. QED BY <1>1, <2>2, <2>4, MakeTells
<1>6. QED BY <1>3, <1>4, <1>5

\* What RemoteDB's slots write is about items with ids, and asks for nothing.
LEMMA TellsPackets ==
  ASSUME Numbered(itemId, heap)', TypeOK', Sane(tree.parent, heap)', NEW n, NEW i \in Item, i \in heap'
  PROVE  PacketOf(Sig(n, i)) \in Seq(Packet) /\ Req(PacketOf(Sig(n, i))) = {}
<1>1. Sig(n, i).name = n /\ Sig(n, i).item = i
  BY DEF Sig
<1>2. itemId'[i] \in Id
  BY DEF Numbered, Id, Item
<1>3. i \in Node
  BY DEF Item
<1>4. itemId'[tree'.parent[i]] \in Nat
  BY <1>3 DEF Numbered, Sane, TypeOK, Item
<1>5. (IF tree'.prev[i] = Nil THEN NoId ELSE itemId'[tree'.prev[i]]) \in Nat
  BY <1>3 DEF Numbered, TypeOK, Tree, ItemOrNil, Item, NoId
<1>6. \A type \in {"PT_ITEM_CREATED", "PT_ITEM_DELETED", "PT_ITEM_MOVED"} :
        /\ Descriptor(type, i) \in Packet
        /\ Descriptor(type, i).type = type
  BY <1>2, <1>4, <1>5 DEF Descriptor, Packet
<1>7. text'[i] \in Text
  BY DEF TypeOK
<1>8. PICK e : e = [type |-> "PT_ITEM_CHANGED", item |-> itemId'[i], text |-> text'[i]]
  OBVIOUS
<1>9. e \in Packet /\ e.type = "PT_ITEM_CHANGED"
  BY <1>2, <1>7, <1>8 DEF Packet
<1>10. PacketOf(Sig(n, i)) = <<>>
       \/ \E p \in Packet : PacketOf(Sig(n, i)) = <<p>> /\ p.type \notin {"PT_GET_ITEM", "PT_GET_CHILDREN"}
  <2>1. CASE n = "itemCreated"
    BY <1>1, <1>6, <2>1 DEF PacketOf
  <2>2. CASE n = "itemDeleted"
    BY <1>1, <1>6, <2>2 DEF PacketOf
  <2>3. CASE n = "itemModified"
    BY <1>1, <1>6, <2>3 DEF PacketOf
  <2>4. CASE n = "itemTextChanged"
    BY <1>1, <1>8, <1>9, <2>4 DEF PacketOf
  <2>5. CASE n \notin {"itemCreated", "itemDeleted", "itemModified", "itemTextChanged"}
    BY <1>1, <2>5 DEF PacketOf
  <2>6. QED BY <2>1, <2>2, <2>3, <2>4, <2>5
<1>11. CASE PacketOf(Sig(n, i)) = <<>>
  <2>1. <<>> \in Seq(Packet) /\ 1..Len(<<>>) = {}
    OBVIOUS
  <2>2. QED BY <1>11, <2>1 DEF Req
<1>12. ASSUME NEW p \in Packet, PacketOf(Sig(n, i)) = <<p>>,
              p.type \notin {"PT_GET_ITEM", "PT_GET_CHILDREN"}
       PROVE  PacketOf(Sig(n, i)) \in Seq(Packet) /\ Req(PacketOf(Sig(n, i))) = {}
  <2>1. <<p>> \in Seq(Packet) /\ Len(<<p>>) = 1 /\ <<p>>[1] = p /\ 1..1 = {1}
    OBVIOUS
  <2>2. QED BY <1>12, <2>1 DEF Req
<1>13. QED BY <1>10, <1>11, <1>12

\* Objects a step allocates are numbered.
LEMMA NumbersNew ==
  ASSUME Numbered(itemId, heap), nextId \in Id, heap \in SUBSET Node, heap' \in SUBSET Node,
         Root \in heap, heap \subseteq heap', NumberNewItem
  PROVE  Numbered(itemId, heap)' /\ nextId' \in Id
<1>1. \A x \in Node : itemId'[x] = IF x \in heap' \ heap THEN nextId ELSE itemId[x]
  BY DEF NumberNewItem
<1>2. itemId' \in [Node -> Nat]
  BY DEF NumberNewItem, Numbered, Id
<1>3. nextId' \in Id
  <2>1. Cardinality(heap' \ heap) \in Nat
    <3>1. heap' \ heap \in SUBSET Node
      OBVIOUS
    <3>2. IsFiniteSet(heap' \ heap)
      BY <3>1, HeapFinite, FS_Subset
    <3>3. QED BY <3>2, FS_CardinalityType
  <2>2. nextId \in Nat /\ nextId # 0
    BY DEF Id, NoId
  <2>3. nextId' = nextId + Cardinality(heap' \ heap)
    BY DEF NumberNewItem
  <2>4. QED BY <2>1, <2>2, <2>3 DEF Id, NoId
<1>4. itemId'[Root] = NoId
  BY <1>1, NodeAssumption DEF Numbered
<1>5. ASSUME NEW x \in heap' \ {Root} PROVE itemId'[x] # NoId
  BY <1>1 DEF Numbered, Id
<1>6. QED BY <1>2, <1>3, <1>4, <1>5 DEF Numbered

\* The parents of the present tree are sane.
LEMMA SaneNow ==
  ASSUME IndInv, PlacesSane
  PROVE  Sane(tree.parent, heap)
<1>1. PICK V, W : Past(V) /\ \A k \in Nat : Sane(V[k], heap)
  BY DEF PlacesSane
<1>2. QED BY <1>1 DEF Past, IndInv, TypeOK

\* Steps that change texts and flags only.
LEMMA TextOnly ==
  ASSUME IndInv, PlacesSane, text' \in [Item -> Text], signals' \in Seq(Signal), modified' \in BOOLEAN,
         UNCHANGED <<tree, heap, actionList, redoActionList, plugged>>
  PROVE  IndInv' /\ PlacesSane'
<1>1. IndInv'
  BY DEF IndInv, TypeOK, LinksConsistent, ChainsFinite, FreshUnlinked, ListsAllocated,
         DeletedDetached, NoUseAfterDelete
<1>2. PlacesSane'
  BY DEF PlacesSane, Past, Future
<1>3. QED BY <1>1, <1>2

\* The pointers of an object on the heap lead to the heap.
LEMMA OnHeap ==
  ASSUME HeapOK, NEW x \in Item, x \in heap
  PROVE  /\ tree.firstChild[x] # Nil => tree.firstChild[x] \in Item /\ tree.firstChild[x] \in heap
         /\ tree.next[x] # Nil => tree.next[x] \in Item /\ tree.next[x] \in heap
<1>1. /\ x \in Node /\ x # Nil /\ tree.firstChild[x] \in ItemOrNil /\ tree.next[x] \in ItemOrNil
  BY NodeAssumption DEF HeapOK, Tree, Item
<1>2. ASSUME tree.firstChild[x] # Nil, tree.firstChild[x] \notin heap PROVE FALSE
  <2>1. tree.firstChild[x] \in Item
    BY <1>1, <1>2 DEF ItemOrNil
  <2>2. tree.parent[tree.firstChild[x]] = Nil
    BY <1>2, <2>1 DEF HeapOK, FreshUnlinked, Unlinked
  <2>3. QED BY <1>1, <1>2, <2>2 DEF HeapOK, LinksConsistent, LinksAgree
<1>3. ASSUME tree.next[x] # Nil, tree.next[x] \notin heap PROVE FALSE
  <2>1. tree.next[x] \in Item
    BY <1>1, <1>3 DEF ItemOrNil
  <2>2. tree.prev[tree.next[x]] = Nil
    BY <1>3, <2>1 DEF HeapOK, FreshUnlinked, Unlinked
  <2>3. QED BY <1>1, <1>3, <2>2 DEF HeapOK, LinksConsistent, LinksAgree
<1>4. QED BY <1>1, <1>2, <1>3 DEF ItemOrNil

\* What setItemDone marks is among the items that pointers do not leave.
LEMMA MarkedAmong ==
  ASSUME IndInv, PlacesSane, NEW H \in SUBSET Item, NEW i \in H,
         \A x \in H : /\ tree.firstChild[x] = Nil \/ tree.firstChild[x] \in H
                      /\ tree.next[x] = Nil \/ tree.next[x] \in H
  PROVE  Marked(i) \in Seq(H)
<1> DEFINE Step(f, x) == IF x = Nil THEN <<>>
                         ELSE (IF done[x] THEN <<>> ELSE <<x>> \o f[tree.firstChild[x]])
                                \o f[tree.next[x]]
           From == CHOOSE f : f = [x \in NodeOrNil |-> Step(f, x)]
<1>1. tree \in Tree /\ Grounded(tree) /\ HeapOK
  BY SaneGrounded, Parts DEF IndInv, TypeOK
<1>2. PICK R : R = Seq(Node)
  OBVIOUS
<1>3. PICK g : g = [v \in Node \X R \X R |-> (IF done[v[1]] THEN <<>> ELSE <<v[1]>> \o v[2]) \o v[3]]
  OBVIOUS
<1>4. /\ <<>> \in R
      /\ g \in [Node \X R \X R -> R]
  <2>1. \A x \in Node : \A a, b \in R :
          (IF done[x] THEN <<>> ELSE <<x>> \o a) \o b \in R
    <3>1. TAKE x \in Node
    <3>2. TAKE a, b \in R
    <3>3. PICK c \in R : c = IF done[x] THEN <<>> ELSE <<x>> \o a
      <4>1. <<>> \in R /\ <<x>> \o a \in R
        BY <1>2
      <4>2. QED BY <4>1
    <3>4. c \o b \in R
      BY <1>2
    <3>5. QED BY <3>3, <3>4
  <2>2. <<>> \in R
    BY <1>2
  <2>3. ASSUME NEW v \in Node \X R \X R
        PROVE  (IF done[v[1]] THEN <<>> ELSE <<v[1]>> \o v[2]) \o v[3] \in R
    BY <2>1
  <2>4. QED BY <1>3, <2>2, <2>3
<1>5. PICK f \in [NodeOrNil -> R] : Folding(tree, f, <<>>, g)
  BY <1>1, <1>4, FoldExists
<1>6. \A x \in Node : tree.firstChild[x] \in NodeOrNil /\ tree.next[x] \in NodeOrNil
  BY <1>1 DEF Tree, ItemOrNil, Item, NodeOrNil
<1>7. \A x \in NodeOrNil : f[x] = Step(f, x)
  <2>1. TAKE x \in NodeOrNil
  <2>2. CASE x = Nil
    BY <1>5, <2>2 DEF Folding
  <2>3. CASE x # Nil
    <3>1. x \in Node /\ f[tree.firstChild[x]] \in R /\ f[tree.next[x]] \in R
      BY <1>5, <1>6, <2>3 DEF NodeOrNil
    <3>2. PICK a, b : a = f[tree.firstChild[x]] /\ b = f[tree.next[x]]
      OBVIOUS
    <3>3. f[x] = g[<<x, a, b>>]
      BY <1>5, <3>1, <3>2 DEF Folding
    <3>4. <<x, a, b>> \in Node \X R \X R
      BY <3>1, <3>2
    <3>5. g[<<x, a, b>>] = (IF done[x] THEN <<>> ELSE <<x>> \o a) \o b
      BY <1>3, <3>4
    <3>6. QED BY Zenon, <2>3, <3>2, <3>3, <3>5
  <2>4. QED BY <2>2, <2>3
<1>8. f = [x \in NodeOrNil |-> Step(f, x)]
  <2> HIDE DEF Step
  <2>1. QED BY <1>5, <1>7
<1>9. From = [x \in NodeOrNil |-> Step(From, x)]
  <2> HIDE DEF Step
  <2>1. QED BY <1>8
<1>10. PICK h : h = From
  OBVIOUS
<1>11. \A x \in NodeOrNil : h[x] = Step(h, x)
  <2> HIDE DEF Step, From
  <2>1. QED BY <1>9, <1>10
<1>12. Marked(i) = <<i>> \o h[tree.firstChild[i]]
  <2>1. Marked(i) = <<i>> \o From[tree.firstChild[i]]
    BY DEF Marked
  <2>2. QED BY Zenon, <1>10, <2>1
<1>13. PICK Q : Q = Seq(H)
  OBVIOUS
<1>14. h[Nil] \in Q
  <2>1. Nil \in NodeOrNil
    BY DEF NodeOrNil
  <2>2. h[Nil] = <<>>
    BY <1>11, <2>1
  <2>3. QED BY <1>13, <2>2
<1>15. \A x \in H : h[x] \in Q
  <2>1. PICK S : S = {x \in H : h[x] \notin Q}
    OBVIOUS
  <2>2. SUFFICES ASSUME S # {} PROVE FALSE
    BY <2>1
  <2>3. S \in SUBSET Node
    BY <2>1 DEF Item
  <2>4. PICK x \in S : tree.firstChild[x] \notin S /\ tree.next[x] \notin S
    BY <1>1, <2>2, <2>3 DEF Grounded
  <2>5. x \in H /\ x \in NodeOrNil /\ x # Nil /\ h[x] \notin Q
    BY <2>1, <2>4, NodeAssumption DEF Item, NodeOrNil
  <2>6. PICK a, b : a = h[tree.firstChild[x]] /\ b = h[tree.next[x]]
    OBVIOUS
  <2>7. a \in Q /\ b \in Q
    <3>1. tree.firstChild[x] = Nil \/ tree.firstChild[x] \in H
      BY <2>5
    <3>2. tree.next[x] = Nil \/ tree.next[x] \in H
      BY <2>5
    <3>3. QED BY <1>14, <2>1, <2>4, <2>6, <3>1, <3>2
  <2>8. h[x] = (IF done[x] THEN <<>> ELSE <<x>> \o a) \o b
    BY <1>11, <2>5, <2>6
  <2>9. PICK c \in Q : c = IF done[x] THEN <<>> ELSE <<x>> \o a
    <3>1. <<>> \in Q /\ <<x>> \o a \in Q
      <4>1. x \in H
        BY <2>5
      <4>2. QED BY <1>13, <2>7, <4>1
    <3>2. QED BY <3>1
  <2>10. c \o b \in Q
    BY <1>13, <2>7
  <2>11. QED BY <2>5, <2>8, <2>9, <2>10
<1>16. h[tree.firstChild[i]] \in Q
  <2>1. tree.firstChild[i] = Nil \/ tree.firstChild[i] \in H
    OBVIOUS
  <2>2. QED BY <1>14, <1>15, <2>1
<1>17. <<i>> \o h[tree.firstChild[i]] \in Q
  BY <1>13, <1>16
<1>18. QED BY <1>12, <1>13, <1>17

\* It is on the heap.
LEMMA MarkedOnHeap ==
  ASSUME IndInv, PlacesSane, NEW i \in Item, i \in heap
  PROVE  Marked(i) \in Seq(Item \cap heap)
<1>1. HeapOK
  BY Parts DEF IndInv
<1>2. PICK H \in SUBSET Item : H = Item \cap heap
  OBVIOUS
<1>3. \A x \in H : /\ tree.firstChild[x] = Nil \/ tree.firstChild[x] \in H
                   /\ tree.next[x] = Nil \/ tree.next[x] \in H
  BY <1>1, <1>2, OnHeap
<1>4. i \in H
  BY <1>2
<1>5. QED BY <1>2, <1>3, <1>4, MarkedAmong

\* The packets about marks are well formed and ask for nothing.
LEMMA DoneWritten ==
  ASSUME Numbered(itemId, heap), NEW items \in Seq(Item \cap heap), NEW state \in BOOLEAN
  PROVE  DonePackets(items, state) \in Seq(Packet) /\ Req(DonePackets(items, state)) = {}
<1>1. PICK q : q = DonePackets(items, state)
  OBVIOUS
<1>2. Len(items) \in Nat /\ DOMAIN items = 1..Len(items)
  OBVIOUS
<1>3. ASSUME NEW k \in 1..Len(items)
      PROVE  [type |-> "PT_ITEM_DONE_CHANGED", item |-> itemId[items[k]], done |-> state] \in Packet
  <2>1. items[k] \in Item /\ items[k] \in heap
    OBVIOUS
  <2>2. itemId[items[k]] \in Id
    BY <2>1 DEF Numbered, Id, Item
  <2>3. QED BY <2>2 DEF Packet
<1>4. q = [k \in 1..Len(items) |-> [type |-> "PT_ITEM_DONE_CHANGED", item |-> itemId[items[k]],
                                    done |-> state]]
  BY <1>1, <1>2 DEF DonePackets
<1>5. q \in [1..Len(items) -> Packet]
  BY <1>3, <1>4
<1>6. q \in Seq(Packet) /\ Len(q) = Len(items)
  BY <1>2, <1>5, LenProperties, SeqDef
<1>7. \A k \in 1..Len(q) : q[k].type = "PT_ITEM_DONE_CHANGED"
  BY <1>4, <1>6
<1>8. Req(q) = {}
  BY <1>7 DEF Req
<1>9. QED BY <1>1, <1>6, <1>8

\* The client's half of the invariant, and the whole of it.
ClientSound == /\ IndInv /\ PlacesSane
               /\ Numbered(itemId, heap) /\ nextId \in Id /\ done \in [Node -> BOOLEAN]
SyncInv == /\ ClientSound /\ Coherent(server)
           /\ Matched(toServer, toClient, requests, requestId)
           /\ pendingRequests = Cardinality(requests)

\* Only numbers below requestId are awaited, so they are finitely many.
LEMMA RequestsFinite ==
  ASSUME NEW q, NEW c, NEW R, NEW n, Matched(q, c, R, n)
  PROVE  IsFiniteSet(R) /\ Cardinality(R) \in Nat
<1>1. n \in Nat /\ \A r \in R : r \in Nat /\ r <= n
  BY DEF Matched
<1>2. R \in SUBSET Nat
  BY <1>1
<1>3. IsFiniteSet(R)
  BY <1>1, <1>2, FS_BoundedSetOfNaturals
<1>4. QED BY <1>3, FS_CardinalityType

\* The requests for what is new are well formed.
LEMMA AskedPackets ==
  ASSUME NEW children \in Seq(Entry), requestId \in Nat
  PROVE  LET p == RequestsFor(children) IN
         /\ p \in Seq(Packet) /\ Len(p) \in Nat
         /\ \A k \in 1..Len(p) : p[k].request = requestId + k - 1
<1>1. PICK p, m : p = RequestsFor(children) /\ m = Len(children)
  OBVIOUS
<1>2. m \in Nat /\ 2 * m \in Nat
  BY <1>1
<1>3. ASSUME NEW k \in 1..2 * m
      PROVE  [type |-> IF k % 2 = 1 THEN "PT_GET_CHILDREN" ELSE "PT_GET_ITEM",
              item |-> children[(k + 1) \div 2].id, request |-> requestId + k - 1] \in Packet
  <2>1. (k + 1) \div 2 \in 1..m
    BY <1>2
  <2>2. children[(k + 1) \div 2].id \in Id
    <3>1. PICK j : j = (k + 1) \div 2
      OBVIOUS
    <3>2. j \in 1..Len(children)
      BY <1>1, <2>1, <3>1
    <3>3. children[j] \in Entry
      BY <3>2
    <3>4. QED BY <3>1, <3>3 DEF Entry
  <2>3. requestId + k - 1 \in Nat
    OBVIOUS
  <2>4. PICK i, r : i = children[(k + 1) \div 2].id /\ r = requestId + k - 1
    OBVIOUS
  <2>5. i \in Id /\ i \in Nat /\ r \in Nat
    BY <2>2, <2>3, <2>4 DEF Id
  <2>6. /\ [type |-> "PT_GET_CHILDREN", item |-> i, request |-> r] \in Packet
        /\ [type |-> "PT_GET_ITEM", item |-> i, request |-> r] \in Packet
    BY <2>5 DEF Packet
  <2>7. CASE k % 2 = 1
    BY <2>4, <2>6, <2>7
  <2>8. CASE k % 2 # 1
    BY <2>4, <2>6, <2>8
  <2>9. QED BY <2>7, <2>8
<1>4. p = [k \in 1..2 * m |->
             [type |-> IF k % 2 = 1 THEN "PT_GET_CHILDREN" ELSE "PT_GET_ITEM",
              item |-> children[(k + 1) \div 2].id, request |-> requestId + k - 1]]
  BY <1>1 DEF RequestsFor
<1>5. p \in [1..2 * m -> Packet]
  BY <1>3, <1>4
<1>6. p \in Seq(Packet) /\ Len(p) = 2 * m
  BY <1>2, <1>5, LenProperties, SeqDef
<1>7. \A k \in 1..Len(p) : p[k].request = requestId + k - 1
  BY <1>4, <1>6
<1>8. QED BY <1>1, <1>2, <1>6, <1>7

\* Commands, undo and redo.
LEMMA UserKeeps ==
  ASSUME SyncInv, UserStep
  PROVE  SyncInv'
<1>1. /\ IndInv /\ PlacesSane /\ Numbered(itemId, heap) /\ nextId \in Id /\ done \in [Node -> BOOLEAN]
      /\ Coherent(server) /\ Matched(toServer, toClient, requests, requestId)
      /\ pendingRequests = Cardinality(requests)
  BY DEF SyncInv, ClientSound
<1>2. /\ Command \/ UndoLastAction \/ RedoAction
      /\ NumberNewItem /\ Announce
      /\ UNCHANGED <<done, pendingRequests, requests, requestId, toClient, server>>
  BY DEF UserStep
<1>3. IndInv'
  BY <1>1, <1>2, CommandKeeps, UndoKeeps, RedoKeeps
<1>4. PlacesSane'
  BY <1>1, <1>2, <1>3, SanePlacesKept
<1>5. PICK i \in Item, n \in {"itemAdded", "itemCreated", "itemDeleted", "itemTextChanged", "itemModified"} :
        i \in heap' /\ heap \subseteq heap' /\ signals'[Len(signals')] = Sig(n, i)
  BY <1>1, <1>2, StepTells
<1>6. Numbered(itemId, heap)' /\ nextId' \in Id
  <2>1. heap \in SUBSET Node /\ heap' \in SUBSET Node /\ Root \in heap
    BY <1>1, <1>3 DEF IndInv, TypeOK
  <2>2. QED BY <1>1, <1>2, <1>5, <2>1, NumbersNew
<1>7. Matched(toServer', toClient, requests, requestId)
  <2>1. TypeOK' /\ Sane(tree.parent, heap)'
    <3>1. TypeOK'
      BY <1>3 DEF IndInv
    <3>2. (IndInv /\ PlacesSane => Sane(tree.parent, heap))'
      BY SaneNow, PTL
    <3>3. QED BY <1>3, <1>4, <3>1, <3>2
  <2>2. PICK p : p = PacketOf(Sig(n, i))
    OBVIOUS
  <2>3. p \in Seq(Packet) /\ Req(p) = {}
    BY <1>5, <1>6, <2>1, <2>2, TellsPackets
  <2>4. toServer' = IF connected THEN toServer \o p ELSE toServer
    BY <1>2, <1>5, <2>2 DEF Announce, Write
  <2>5. Matched(toServer \o p, toClient, requests, requestId)
    BY <1>1, <2>3, MatchedWrite
  <2>6. QED BY <1>1, <2>4, <2>5
<1>8. QED BY <1>1, <1>2, <1>3, <1>4, <1>6, <1>7 DEF SyncInv, ClientSound

\* Marks.
LEMMA MarkKeeps ==
  ASSUME SyncInv, SetItemDone
  PROVE  SyncInv'
<1>1. /\ IndInv /\ PlacesSane /\ Numbered(itemId, heap) /\ nextId \in Id /\ done \in [Node -> BOOLEAN]
      /\ Coherent(server) /\ Matched(toServer, toClient, requests, requestId)
      /\ pendingRequests = Cardinality(requests)
  BY DEF SyncInv, ClientSound
<1>2. PICK i \in OnScreen : LET items == IF done[i] THEN <<i>> ELSE Marked(i) IN
        /\ done' = [x \in Node |-> IF \E k \in DOMAIN items : items[k] = x THEN ~done[i] ELSE done[x]]
        /\ Write(DonePackets(items, ~done[i]))
        /\ signals' = [k \in DOMAIN items |-> Sig("itemDoneChanged", items[k])]
  BY DEF SetItemDone
<1>3. PICK items : items = IF done[i] THEN <<i>> ELSE Marked(i)
  OBVIOUS
<1>4. /\ done' = [x \in Node |-> IF \E k \in DOMAIN items : items[k] = x THEN ~done[i] ELSE done[x]]
      /\ Write(DonePackets(items, ~done[i]))
      /\ signals' = [k \in DOMAIN items |-> Sig("itemDoneChanged", items[k])]
  BY <1>2, <1>3
<1>5. /\ UNCHANGED <<tree, text, heap, actionList, redoActionList, modified, plugged>>
      /\ UNCHANGED <<itemId, nextId, pendingRequests, requests, requestId, toClient, server>>
  BY DEF SetItemDone, Extra, docVars, idVars
<1>6. i \in Item /\ i \in heap /\ i \in Node
  BY <1>1, OnScreenFacts DEF Item
<1>7. items \in Seq(Item \cap heap)
  <2>1. Marked(i) \in Seq(Item \cap heap)
    BY <1>1, <1>6, MarkedOnHeap
  <2>2. <<i>> \in Seq(Item \cap heap)
    BY <1>6
  <2>3. QED BY <1>3, <2>1, <2>2
<1>8. PICK b \in BOOLEAN : b = ~done[i]
  BY <1>1, <1>6
<1>9. done' \in [Node -> BOOLEAN]
  BY <1>1, <1>4, <1>8
<1>10. signals' \in Seq(Signal)
  <2>1. Len(items) \in Nat /\ DOMAIN items = 1..Len(items)
    BY <1>7
  <2>2. \A k \in 1..Len(items) : Sig("itemDoneChanged", items[k]) \in Signal
    BY <1>7 DEF Sig, Signal
  <2>3. signals' \in [1..Len(items) -> Signal]
    BY <1>4, <2>1, <2>2
  <2>4. QED BY <2>1, <2>3, SeqDef
<1>11. IndInv' /\ PlacesSane'
  <2>1. text' \in [Item -> Text] /\ modified' \in BOOLEAN
    BY <1>1, <1>5 DEF IndInv, TypeOK
  <2>2. QED BY <1>1, <1>5, <1>10, <2>1, TextOnly
<1>12. Matched(toServer', toClient, requests, requestId)
  <2>1. PICK p : p = DonePackets(items, b)
    OBVIOUS
  <2>2. p \in Seq(Packet) /\ Req(p) = {}
    BY <1>1, <1>7, <2>1, DoneWritten
  <2>3. toServer' = IF connected THEN toServer \o p ELSE toServer
    BY <1>4, <1>8, <2>1 DEF Write
  <2>4. QED BY <1>1, <2>2, <2>3, MatchedWrite
<1>13. Numbered(itemId, heap)'
  BY <1>1, <1>5 DEF Numbered
<1>14. QED BY <1>1, <1>5, <1>9, <1>11, <1>12, <1>13 DEF SyncInv, ClientSound

\* Saves.
LEMMA SavingKeeps ==
  ASSUME SyncInv, SaveDocument
  PROVE  SyncInv'
<1>1. /\ IndInv /\ PlacesSane /\ Numbered(itemId, heap) /\ nextId \in Id /\ done \in [Node -> BOOLEAN]
      /\ Coherent(server) /\ Matched(toServer, toClient, requests, requestId)
      /\ pendingRequests = Cardinality(requests)
  BY DEF SyncInv, ClientSound
<1>2. /\ Save /\ Write(<<[type |-> "PT_DOC_SAVE"]>>)
      /\ UNCHANGED <<done, itemId, nextId, pendingRequests, requests, requestId, toClient, server>>
  BY DEF SaveDocument, Extra, idVars
<1>3. UNCHANGED <<tree, text, heap, actionList, redoActionList, plugged>>
  BY <1>2 DEF Save
<1>4. IndInv'
  BY <1>1, <1>2, SaveKeeps
<1>5. PlacesSane' /\ Numbered(itemId, heap)'
  BY <1>1, <1>2, <1>3 DEF PlacesSane, Past, Future, Numbered
<1>6. Matched(toServer', toClient, requests, requestId)
  <2>1. PICK e : e = [type |-> "PT_DOC_SAVE"]
    OBVIOUS
  <2>2. e \in Packet /\ e.type = "PT_DOC_SAVE"
    BY <2>1 DEF Packet
  <2>3. <<e>> \in Seq(Packet) /\ Len(<<e>>) = 1 /\ <<e>>[1] = e /\ 1..1 = {1}
    BY <2>2
  <2>4. Req(<<e>>) = {}
    BY <2>2, <2>3 DEF Req
  <2>5. toServer' = IF connected THEN toServer \o <<e>> ELSE toServer
    BY <1>2, <2>1 DEF Write
  <2>6. QED BY <1>1, <2>3, <2>4, <2>5, MatchedWrite
<1>7. QED BY <1>1, <1>2, <1>4, <1>5, <1>6 DEF SyncInv, ClientSound

\* The connection, and what of it is read and forgotten.
LEMMA LinkKeeps ==
  ASSUME SyncInv, UNCHANGED <<docVars, plugged, idVars, done, pendingRequests, requests, requestId>>,
         signals' = <<>>, Coherent(server'),
         Matched(toServer', toClient', requests, requestId)
  PROVE  SyncInv'
<1>1. /\ IndInv /\ PlacesSane /\ Numbered(itemId, heap) /\ nextId \in Id /\ done \in [Node -> BOOLEAN]
      /\ pendingRequests = Cardinality(requests)
  BY DEF SyncInv, ClientSound
<1>2. /\ UNCHANGED <<tree, text, heap, actionList, redoActionList, modified, plugged>>
      /\ UNCHANGED <<itemId, nextId, done, pendingRequests, requests, requestId>>
  BY DEF docVars, idVars
<1>3. IndInv' /\ PlacesSane'
  <2>1. text' \in [Item -> Text] /\ modified' \in BOOLEAN
    BY <1>1, <1>2 DEF IndInv, TypeOK
  <2>2. signals' \in Seq(Signal)
    OBVIOUS
  <2>3. QED BY <1>1, <1>2, <2>1, <2>2, TextOnly
<1>4. Numbered(itemId, heap)'
  BY <1>1, <1>2 DEF Numbered
<1>5. QED BY <1>1, <1>2, <1>3, <1>4 DEF SyncInv, ClientSound

\* A packet that is misread is forgotten.
LEMMA ResponseKeeps ==
  ASSUME SyncInv, ClientReadsResponse
  PROVE  SyncInv'
<1>1. Coherent(server) /\ Matched(toServer, toClient, requests, requestId)
  BY DEF SyncInv
<1>2. PICK n \in 1..Len(toClient) : toClient' = SubSeq(toClient, n + 1, Len(toClient))
  BY DEF ClientReadsResponse
<1>3. /\ UNCHANGED <<docVars, plugged, idVars, done, pendingRequests, requests, requestId, toServer, server>>
      /\ signals' = <<>>
  BY DEF ClientReadsResponse
<1>4. Matched(toServer', toClient', requests, requestId)
  BY <1>1, <1>2, <1>3, MatchedDrop
<1>5. QED BY <1>1, <1>3, <1>4, LinkKeeps

\* A lost connection takes what is under way with it.
LEMMA CutKeeps ==
  ASSUME SyncInv, NEW harm, CutConnection(harm), Coherent(server')
  PROVE  SyncInv'
<1>1. Matched(toServer, toClient, requests, requestId)
  BY DEF SyncInv
<1>2. /\ UNCHANGED <<docVars, plugged, idVars, done, pendingRequests, requests, requestId>>
      /\ signals' = <<>> /\ toServer' = <<>> /\ toClient' = <<>>
  BY DEF CutConnection
<1>3. Matched(toServer', toClient', requests, requestId)
  BY <1>1, <1>2, MatchedDrop
<1>4. QED BY <1>2, <1>3, LinkKeeps

\* It is made again.
LEMMA AgainKeeps ==
  ASSUME SyncInv, ConnectAgain
  PROVE  SyncInv'
<1>1. Coherent(server) /\ Matched(toServer, toClient, requests, requestId)
  BY DEF SyncInv
<1>2. /\ UNCHANGED <<docVars, plugged, idVars, done, pendingRequests, requests, requestId,
                     toServer, toClient, server>>
      /\ signals' = <<>>
  BY DEF ConnectAgain
<1>3. QED BY <1>1, <1>2, LinkKeeps

\* The server handles a packet.
LEMMA ServerKeeps ==
  ASSUME SyncInv, ServerReads
  PROVE  SyncInv'
<1>1. Coherent(server) /\ Matched(toServer, toClient, requests, requestId)
  BY DEF SyncInv
<1>2. PICK packet : packet = Head(toServer)
  OBVIOUS
<1>3. /\ toServer # <<>>
      /\ packet.type = "PT_ITEM_CREATED" => server.heap # Node
      /\ server' = Handle(server, packet)
      /\ toClient' = toClient \o Reply(server, packet)
      /\ toServer' = Tail(toServer) /\ signals' = <<>>
      /\ UNCHANGED <<docVars, plugged, idVars, done, pendingRequests, requests, requestId>>
  BY <1>2 DEF ServerReads
<1>4. packet \in Packet
  BY <1>1, <1>2, <1>3, FirstOf DEF Matched
<1>5. Coherent(server')
  BY <1>1, <1>3, <1>4, HandleCoherent
<1>6. Matched(toServer', toClient', requests, requestId)
  <2>1. Answering(packet, Reply(server, packet))
    BY <1>1, <1>4, ReplyIs
  <2>2. QED BY <1>1, <1>2, <1>3, <2>1, MatchedHandle
<1>7. QED BY <1>3, <1>5, <1>6, LinkKeeps

\* A list of children arrives.
LEMMA ListKeeps ==
  ASSUME SyncInv, NEW answer \in Answer, answer.type = "PT_GET_CHILDREN",
         toClient # <<>>, answer = Head(toClient), toClient' = Tail(toClient),
         OnItemListReceived(answer), UNCHANGED <<actionList, redoActionList, modified, server>>
  PROVE  SyncInv'
<1>1. /\ IndInv /\ PlacesSane /\ Numbered(itemId, heap) /\ nextId \in Id /\ done \in [Node -> BOOLEAN]
      /\ Coherent(server) /\ Matched(toServer, toClient, requests, requestId)
      /\ pendingRequests = Cardinality(requests) /\ requestId \in Nat
  BY DEF SyncInv, ClientSound, Matched
<1>2. PICK parent, children, loaded, asked, r :
        /\ parent = ClientFinds(answer.item)
        /\ children = IF parent = Nil THEN <<>> ELSE answer.children
        /\ loaded = LoadChildren(parent, children)
        /\ asked = RequestsFor(children)
        /\ r = answer.request
  OBVIOUS
<1>3. /\ Cardinality(Node \ heap) >= Len(children)
      /\ tree' = loaded.tree /\ heap' = loaded.heap
      /\ itemId' = loaded.id /\ nextId' = loaded.nextId /\ done' = loaded.done
      /\ signals' = loaded.added
      /\ plugged' = [x \in Item |-> plugged[x] \/ x \in heap' \ heap]
      /\ pendingRequests' = pendingRequests - 1 + Len(asked)
      /\ requests' = (requests \cup {asked[k].request : k \in DOMAIN asked}) \ {r}
      /\ requestId' = requestId + Len(asked)
      /\ toServer' = toServer \o asked
      /\ text' = text
  BY <1>2 DEF OnItemListReceived
<1>4. children \in Seq(Entry) /\ (children # <<>> => parent \in heap)
  <2>1. answer.children \in Seq(Entry)
    BY DEF Answer
  <2>2. /\ tree \in Tree /\ LinksAgree(tree) /\ ChainsEnd(tree) /\ Root \in heap
        /\ \A x \in Item \ heap : Unlinked(tree, x)
    BY <1>1 DEF IndInv, TypeOK, LinksConsistent, ChainsFinite, FreshUnlinked
  <2>3. OnwardAgree(tree) /\ InTree(tree) \subseteq heap
    BY <2>2, AgreeOnward, TreeOnHeap
  <2>4. parent \in InTree(tree) \cup {Nil}
    BY <1>2, <2>2, <2>3, FoundThere DEF ClientFinds
  <2>5. <<>> \in Seq(Entry)
    OBVIOUS
  <2>6. QED BY <1>2, <2>1, <2>3, <2>4, <2>5
<1>5. Fetched(loaded, Len(children))
  BY <1>1, <1>2, <1>3, <1>4, AllFetched
<1>6. /\ tree' \in Tree /\ LinksAgree(tree') /\ ChainsEnd(tree')
      /\ heap' \in SUBSET Node /\ heap \subseteq heap'
      /\ \A x \in Item \ heap' : Unlinked(tree', x)
      /\ \A d \in Item \cap heap : Detached(tree, d) => Detached(tree', d)
      /\ Numbered(itemId', heap') /\ nextId' \in Id
      /\ done' \in [Node -> BOOLEAN] /\ signals' \in Seq(Signal)
      /\ PlacesAt(tree'.parent, heap')
  BY <1>3, <1>5 DEF Fetched
<1>7. UNCHANGED <<actionList, redoActionList, modified, text>>
  BY <1>3
<1>8. IndInv'
  <2>1. /\ TypeOK /\ HeapOK /\ NoUseAfterDelete
        /\ \A k \in 1..Len(actionList) : Allocated(actionList[k])
        /\ \A k \in 1..Len(redoActionList) : Allocated(redoActionList[k])
        /\ \A k \in 1..Len(actionList) : \A d \in Item : Deletes(actionList[k], d) => Gone(d)
    BY <1>1, Parts DEF IndInv
  <2>2. plugged' \in [Item -> BOOLEAN] /\ \A x \in Item : x \notin heap' => ~plugged'[x]
    <3>1. \A x \in Item : x \notin heap => ~plugged[x]
      BY <2>1 DEF HeapOK, FreshUnlinked
    <3>2. \A x \in Item : (plugged[x] \/ x \in heap' \ heap) \in BOOLEAN
      OBVIOUS
    <3>3. plugged' \in [Item -> BOOLEAN]
      BY <1>3, <3>2
    <3>4. \A x \in Item : plugged'[x] = (plugged[x] \/ x \in heap' \ heap)
      BY <1>3
    <3>5. QED BY <1>6, <3>1, <3>3, <3>4
  <2>3. TypeOK'
    BY <1>6, <1>7, <2>1, <2>2 DEF TypeOK
  <2>4. HeapOK'
    BY <1>6, <2>2, <2>3 DEF HeapOK, TypeOK, LinksConsistent, ChainsFinite, FreshUnlinked
  <2>5. NoUseAfterDelete'
    BY <1>7, <2>1 DEF NoUseAfterDelete
  <2>6. \A k \in 1..Len(actionList') : Allocated(actionList[k])'
    BY <1>6, <1>7, <2>1, StaysAllocated DEF Allocated
  <2>7. \A k \in 1..Len(redoActionList') : Allocated(redoActionList[k])'
    BY <1>6, <1>7, <2>1, StaysAllocated DEF Allocated
  <2>8. ASSUME NEW k \in 1..Len(actionList'), NEW d \in Item, Deletes(actionList'[k], d)
        PROVE  Gone(d)'
    <3>1. k \in 1..Len(actionList) /\ Deletes(actionList[k], d)
      BY <1>7, <2>8 DEF Deletes
    <3>2. Gone(d) /\ d \in heap
      <4>1. d = actionList[k].item
        BY <3>1 DEF Deletes
      <4>2. QED BY <2>1, <3>1, <4>1 DEF Allocated
    <3>3. plugged'[d] = (plugged[d] \/ d \in heap' \ heap)
      BY <1>3
    <3>4. QED BY <1>6, <3>2, <3>3 DEF Gone
  <2>9. QED BY <2>3, <2>4, <2>5, <2>6, <2>7, <2>8, Reassemble
<1>9. PlacesSane'
  <2>1. PICK V, W :
          /\ V \in [Nat -> Parent] /\ V[Len(actionList)] = tree'.parent /\ Done(actionList, V)
          /\ W \in [Nat -> Parent] /\ W[Len(redoActionList)] = tree'.parent /\ Undone(redoActionList, W)
          /\ \A k \in Nat : Sane(V[k], heap') /\ Sane(W[k], heap')
    BY <1>6 DEF PlacesAt
  <2>2. Past(V)' /\ Future(W)'
    BY <1>7, <2>1 DEF Past, Future
  <2>3. QED BY <2>1, <2>2 DEF PlacesSane
<1>10. /\ asked \in Seq(Packet) /\ Len(asked) \in Nat /\ DOMAIN asked = 1..Len(asked)
       /\ \A k \in 1..Len(asked) : asked[k].request = requestId + k - 1
  <2>1. /\ asked \in Seq(Packet) /\ Len(asked) \in Nat
        /\ \A k \in 1..Len(asked) : asked[k].request = requestId + k - 1
    BY <1>1, <1>2, <1>4, AskedPackets
  <2>2. QED BY <2>1
<1>11. PICK N : N = {requestId + k - 1 : k \in 1..Len(asked)}
  OBVIOUS
<1>12. requests' = (requests \cup N) \ {r}
  <2>1. {asked[k].request : k \in DOMAIN asked} = N
    BY <1>10, <1>11
  <2>2. QED BY <1>3, <2>1
<1>13. Matched(toServer \o asked, toClient, requests \cup N, requestId + Len(asked))
  BY <1>1, <1>10, <1>11, MatchedAsk
<1>14. /\ Matched(toServer \o asked, Tail(toClient), (requests \cup N) \ {r}, requestId + Len(asked))
       /\ r \in requests
  <2>1. Head(toClient).type # "PT_RESPONSE" /\ r = Head(toClient).request
    BY <1>2
  <2>2. r \in requests
    BY <1>1, <2>1, MatchedRead
  <2>3. QED BY <1>13, <2>1, <2>2, MatchedRead
<1>15. pendingRequests' = Cardinality(requests')
  <2>1. IsFiniteSet(requests) /\ Cardinality(requests) \in Nat
    BY <1>1, RequestsFinite
  <2>2. IsFiniteSet(requests \cup N) /\ Cardinality(requests \cup N) \in Nat
    BY <1>13, RequestsFinite
  <2>3. N = requestId..requestId + Len(asked) - 1
    <3>1. \A v \in requestId..requestId + Len(asked) - 1 :
            v - requestId + 1 \in 1..Len(asked) /\ v = requestId + (v - requestId + 1) - 1
      BY <1>1, <1>10
    <3>2. \A k \in 1..Len(asked) : requestId + k - 1 \in requestId..requestId + Len(asked) - 1
      BY <1>1, <1>10
    <3>3. QED BY <1>11, <3>1, <3>2
  <2>4. IsFiniteSet(N) /\ Cardinality(N) = Len(asked)
    <3>1. requestId \in Int /\ requestId + Len(asked) - 1 \in Int
      BY <1>1, <1>10
    <3>2. /\ IsFiniteSet(N)
          /\ Cardinality(N) = IF requestId > requestId + Len(asked) - 1 THEN 0
                              ELSE (requestId + Len(asked) - 1) - requestId + 1
      BY <2>3, <3>1, FS_Interval
    <3>3. QED BY <1>1, <1>10, <3>2
  <2>5. requests \cap N = {}
    <3>1. \A v \in requests : v \in Nat /\ v < requestId
      BY <1>1 DEF Matched
    <3>2. \A v \in N : v >= requestId
      BY <1>1, <1>10, <2>3
    <3>3. \A v \in N : v \notin requests
      BY <1>1, <3>1, <3>2
    <3>4. QED BY <3>3
  <2>6. Cardinality(requests \cup N) = Cardinality(requests) + Len(asked)
    <3>1. Cardinality(requests \cup N) = Cardinality(requests) + Cardinality(N) - Cardinality(requests \cap N)
      BY <2>1, <2>4, FS_Union
    <3>2. Cardinality(requests \cap N) = 0
      BY <2>5, FS_EmptySet
    <3>3. QED BY <1>10, <2>1, <2>4, <3>1, <3>2
  <2>7. Cardinality((requests \cup N) \ {r}) = Cardinality(requests \cup N) - 1
    BY <1>14, <2>2, FS_RemoveElement
  <2>8. Cardinality(requests') = Cardinality(requests) + Len(asked) - 1
    <3>1. PICK Z, Y : Z = (requests \cup N) \ {r} /\ Y = requests \cup N
      OBVIOUS
    <3>2. requests' = Z
      BY <1>12, <3>1
    <3>3. Cardinality(Z) = Cardinality(Y) - 1
      BY <2>7, <3>1
    <3>4. Cardinality(Y) = Cardinality(requests) + Len(asked)
      BY <2>6, <3>1
    <3>5. Cardinality(requests') = Cardinality(Z)
      BY <3>2
    <3>6. Len(asked) \in Nat
      BY <1>10
    <3>7. QED BY <2>1, <3>3, <3>4, <3>5, <3>6
  <2>9. pendingRequests' = Cardinality(requests) - 1 + Len(asked)
    BY <1>1, <1>3
  <2>10. Len(asked) \in Nat
    BY <1>10
  <2>11. QED BY <2>1, <2>8, <2>9, <2>10
<1>16. Matched(toServer', toClient', requests', requestId')
  BY <1>3, <1>12, <1>14
<1>17. QED BY <1>1, <1>6, <1>8, <1>9, <1>15, <1>16 DEF SyncInv, ClientSound

\* The data of an item arrives, and its text goes back.
LEMMA DataKeeps ==
  ASSUME SyncInv, NEW answer \in Answer, answer.type = "PT_GET_ITEM",
         toClient # <<>>, answer = Head(toClient), toClient' = Tail(toClient),
         OnItemReceived(answer), UNCHANGED <<actionList, redoActionList, modified, server>>
  PROVE  SyncInv'
<1>1. /\ IndInv /\ PlacesSane /\ Numbered(itemId, heap) /\ nextId \in Id /\ done \in [Node -> BOOLEAN]
      /\ Coherent(server) /\ Matched(toServer, toClient, requests, requestId)
      /\ pendingRequests = Cardinality(requests)
  BY DEF SyncInv, ClientSound
<1>2. PICK i : i = ClientFinds(answer.item)
  OBVIOUS
<1>3. /\ UNCHANGED <<tree, heap, plugged, itemId, nextId, done, requestId>>
      /\ pendingRequests' = pendingRequests - 1
      /\ requests' = requests \ {answer.request}
      /\ i = Nil => UNCHANGED <<text, signals, toServer>>
      /\ i # Nil => /\ text' = [text EXCEPT ![i] = answer.text]
                    /\ signals' = <<Sig("itemTextChanged", i)>>
                    /\ toServer' = toServer \o PacketOf(signals'[1])
  BY <1>2 DEF OnItemReceived, idVars
<1>4. answer.item \in Id /\ answer.text \in Text
  BY DEF Answer
<1>5. i # Nil => i \in Item /\ i \in heap
  <2>1. /\ tree \in Tree /\ LinksAgree(tree) /\ ChainsEnd(tree) /\ Root \in heap
        /\ \A x \in Item \ heap : Unlinked(tree, x)
    BY <1>1 DEF IndInv, TypeOK, LinksConsistent, ChainsFinite, FreshUnlinked
  <2>2. OnwardAgree(tree) /\ InTree(tree) \subseteq heap /\ InTree(tree) \subseteq Node
    BY <2>1, AgreeOnward, TreeOnHeap, InTreeLeast
  <2>3. i \in InTree(tree) \cup {Nil} /\ (i # Nil => itemId[i] = answer.item)
    BY <1>2, <2>1, <2>2, FoundThere DEF ClientFinds
  <2>4. i # Root
    BY <1>1, <1>4, <2>3, NodeAssumption DEF Numbered, Id
  <2>5. QED BY <2>2, <2>3, <2>4 DEF Item
<1>6. text' \in [Item -> Text] /\ signals' \in Seq(Signal) /\ modified' \in BOOLEAN
  <2>1. text \in [Item -> Text] /\ signals \in Seq(Signal) /\ modified \in BOOLEAN
    BY <1>1 DEF IndInv, TypeOK
  <2>2. i # Nil => Sig("itemTextChanged", i) \in Signal
    BY <1>5 DEF Sig, Signal
  <2>3. modified' = modified
    OBVIOUS
  <2>4. CASE i = Nil
    BY <1>3, <2>1, <2>3, <2>4
  <2>5. CASE i # Nil
    <3>1. text' \in [Item -> Text]
      BY <1>3, <1>4, <1>5, <2>1, <2>5
    <3>2. signals' \in Seq(Signal)
      <4>1. PICK e : e = Sig("itemTextChanged", i)
        OBVIOUS
      <4>2. signals' = <<e>> /\ e \in Signal
        BY <1>3, <2>2, <2>5, <4>1
      <4>3. QED BY <4>2
    <3>3. QED BY <2>1, <2>3, <3>1, <3>2
  <2>6. QED BY <2>4, <2>5
<1>7. IndInv' /\ PlacesSane'
  BY <1>1, <1>3, <1>6, TextOnly
<1>8. Numbered(itemId, heap)'
  BY <1>1, <1>3 DEF Numbered
<1>9. Matched(toServer', toClient, requests, requestId)
  <2>1. CASE i = Nil
    BY <1>1, <1>3, <2>1
  <2>2. CASE i # Nil
    <3>1. TypeOK' /\ Sane(tree.parent, heap)'
      <4>1. TypeOK'
        BY <1>7 DEF IndInv
      <4>2. Sane(tree.parent, heap)
        BY <1>1, SaneNow
      <4>3. QED BY <1>3, <4>1, <4>2 DEF Sane
    <3>2. PICK p : p = PacketOf(Sig("itemTextChanged", i))
      OBVIOUS
    <3>3. p \in Seq(Packet) /\ Req(p) = {}
      <4>1. i \in Item /\ i \in heap'
        BY <1>3, <1>5, <2>2
      <4>2. QED BY <1>8, <3>1, <3>2, <4>1, TellsPackets
    <3>4. signals'[1] = Sig("itemTextChanged", i)
      BY <1>3, <2>2
    <3>5. toServer' = toServer \o p
      BY <1>3, <2>2, <3>2, <3>4
    <3>6. QED BY <1>1, <3>3, <3>5, MatchedWrite
  <2>3. QED BY <2>1, <2>2
<1>10. /\ Matched(toServer', Tail(toClient), requests \ {answer.request}, requestId)
       /\ answer.request \in requests
  <2>1. Head(toClient).type # "PT_RESPONSE" /\ answer.request = Head(toClient).request
    OBVIOUS
  <2>2. QED BY <1>9, <2>1, MatchedRead
<1>11. pendingRequests' = Cardinality(requests')
  <2>1. IsFiniteSet(requests) /\ Cardinality(requests) \in Nat
    BY <1>1, RequestsFinite
  <2>2. Cardinality(requests \ {answer.request}) = Cardinality(requests) - 1
    BY <1>10, <2>1, FS_RemoveElement
  <2>3. QED BY <1>1, <1>3, <2>2
<1>12. Matched(toServer', toClient', requests', requestId')
  BY <1>3, <1>10
<1>13. QED BY <1>1, <1>3, <1>7, <1>8, <1>11, <1>12 DEF SyncInv, ClientSound

\* Both kinds of answer.
LEMMA AnswerKeeps ==
  ASSUME SyncInv, ClientReadsAnswer
  PROVE  SyncInv'
<1>1. PICK answer : answer = Head(toClient)
  OBVIOUS
<1>2. /\ toClient # <<>> /\ toClient' = Tail(toClient)
      /\ UNCHANGED <<actionList, redoActionList, modified, server>>
      /\ \/ answer.type = "PT_GET_CHILDREN" /\ OnItemListReceived(answer)
         \/ answer.type = "PT_GET_ITEM" /\ OnItemReceived(answer)
  BY <1>1 DEF ClientReadsAnswer
<1>3. answer \in Answer
  BY <1>1, <1>2, FirstOf DEF SyncInv, Matched
<1>4. QED BY <1>1, <1>2, <1>3, ListKeeps, DataKeeps

\* Every step.
LEMMA SyncKeeps ==
  ASSUME SyncInv, [SyncNext]_syncVars
  PROVE  SyncInv'
<1>1. CASE UserStep
  BY <1>1, UserKeeps
<1>2. CASE SetItemDone
  BY <1>2, MarkKeeps
<1>3. CASE SaveDocument
  BY <1>3, SavingKeeps
<1>4. CASE LoseConnection
  <2>1. CutConnection({}) /\ server' = server
    BY <1>4 DEF LoseConnection
  <2>2. QED BY <2>1, CutKeeps DEF SyncInv
<1>5. CASE ConnectAgain
  BY <1>5, AgainKeeps
<1>6. CASE ClientReadsAnswer
  BY <1>6, AnswerKeeps
<1>7. CASE ClientReadsResponse
  BY <1>7, ResponseKeeps
<1>8. CASE ServerReads
  BY <1>8, ServerKeeps
<1>9. CASE UNCHANGED syncVars
  <2>1. /\ UNCHANGED <<tree, text, heap, actionList, redoActionList, modified, signals, plugged>>
        /\ UNCHANGED <<itemId, nextId, done, pendingRequests, requests, requestId, toServer, toClient, server>>
    BY <1>9 DEF syncVars, vars, docVars, netVars, idVars
  <2>2. IndInv'
    BY <1>9, StutterKeeps DEF SyncInv, ClientSound, syncVars
  <2>3. PlacesSane' /\ Numbered(itemId, heap)'
    BY <2>1 DEF SyncInv, ClientSound, PlacesSane, Past, Future, Numbered
  <2>4. QED BY <2>1, <2>2, <2>3 DEF SyncInv, ClientSound
<1>10. QED BY <1>1, <1>2, <1>3, <1>4, <1>5, <1>6, <1>7, <1>8, <1>9 DEF SyncNext

\* A document in store is a coherent copy.
LEMMA StoreCoherent ==
  ASSUME NEW s \in ServerCopies
  PROVE  Coherent(s)
<1>1. /\ s \in ServerCopy /\ LinksAgree(s.tree) /\ ChainsEnd(s.tree)
      /\ s.heap = InTree(s.tree) /\ \A x \in Node \ s.heap : Unlinked(s.tree, x)
      /\ s.id[Root] = NoId /\ \A x, y \in s.heap : s.id[x] = s.id[y] => x = y
  BY ServerCopiesAssumption DEF ServerCopy
<1>2. s.tree \in Tree
  BY <1>1 DEF ServerCopy
<1>3. Root \in s.heap
  BY <1>1, <1>2, InTreeLeast
<1>4. \A x \in s.heap \ {Root} : s.id[x] # NoId
  BY <1>1, <1>3
<1>5. QED BY <1>1, <1>2, <1>3, <1>4, AgreeOnward DEF Coherent

\* With every object in the tree, the parents are those of a tree.
LEMMA TreeSane ==
  ASSUME NEW t \in Tree, LinksAgree(t), t.parent[Root] = Nil,
         \A x \in Node \ InTree(t) : Unlinked(t, x)
  PROVE  Sane(t.parent, InTree(t))
<1>1. PICK s, H : s = t.parent /\ H = InTree(t)
  OBVIOUS
<1>2. OnwardAgree(t) /\ H \in SUBSET Node /\ Root \in H
  BY <1>1, AgreeOnward, InTreeLeast
<1>3. \A x \in H \ {Root} : s[x] \in H
  BY <1>1, <1>2, InTreeBack
<1>4. \A x \in Node \ H : s[x] = Nil
  BY <1>1 DEF Unlinked
<1>5. \A x \in Node : s[x] \in H \cup {Nil}
  BY <1>1, <1>3, <1>4
<1>6. \A x \in H \ {Root} : s[x] # Nil
  BY <1>2, <1>3, NodeAssumption
<1>7. ASSUME NEW S \in SUBSET Node, \A x \in S : s[x] \in S PROVE S = {}
  <2>1. Nil \notin S
    BY NodeAssumption
  <2>2. Root \notin S /\ S \in SUBSET H
    BY <1>1, <1>4, <1>7, <2>1
  <2>3. QED BY <1>1, <1>2, <1>7, <2>2, NoParentLoop
<1>8. QED BY <1>1, <1>5, <1>6, <1>7 DEF Sane

\* No edit yet.
LEMMA PlacesStart ==
  ASSUME tree \in Tree, Sane(tree.parent, heap), actionList = <<>>, redoActionList = <<>>
  PROVE  PlacesSane
<1>1. PICK s : s = tree.parent
  OBVIOUS
<1>2. s \in Parent /\ Sane(s, heap)
  BY <1>1 DEF Parent, Tree
<1>3. PICK V : V = [k \in Nat |-> s]
  OBVIOUS
<1>4. Len(actionList) = 0 /\ Len(redoActionList) = 0 /\ 1..0 = {}
  OBVIOUS
<1>5. V \in [Nat -> Parent] /\ V[0] = s /\ \A k \in Nat : V[k] = s
  BY <1>2, <1>3
<1>6. Past(V) /\ Future(V)
  BY <1>1, <1>4, <1>5 DEF Past, Future, Done, Undone
<1>7. QED BY <1>2, <1>5, <1>6 DEF PlacesSane

\* RemoteDB has asked for the children of the root.
LEMMA SyncBegins ==
  ASSUME SyncInit
  PROVE  SyncInv
<1>1. Init /\ InitialTrees = {EmptyTree}
  BY NothingLoaded DEF SyncInit
<1>2. IndInv /\ tree = EmptyTree /\ actionList = <<>> /\ redoActionList = <<>> /\ heap = InTree(tree)
  BY <1>1, InitInv DEF Init
<1>3. heap = {Root}
  <2>1. tree \in Tree /\ tree.firstChild[Root] = Nil
    BY <1>2, NodeAssumption DEF IndInv, TypeOK, EmptyTree, NoLinks
  <2>2. ClosedBelow(tree, {Root})
    BY <2>1 DEF ClosedBelow
  <2>3. {Root} \in SUBSET Node
    BY NodeAssumption
  <2>4. QED BY <1>2, <2>1, <2>2, <2>3, InTreeLeast
<1>4. PlacesSane
  <2>1. /\ tree \in Tree /\ LinksAgree(tree) /\ tree.parent[Root] = Nil
        /\ \A x \in Node \ InTree(tree) : Unlinked(tree, x)
    BY <1>2, NodeAssumption DEF IndInv, TypeOK, LinksConsistent, EmptyTree, NoLinks, Unlinked
  <2>2. Sane(tree.parent, InTree(tree))
    BY <2>1, TreeSane
  <2>3. QED BY <1>2, <2>1, <2>2, PlacesStart
<1>5. Numbered(itemId, heap)
  <2>1. itemId = [x \in Node |-> NoId]
    BY DEF SyncInit
  <2>2. itemId \in [Node -> Nat] /\ itemId[Root] = NoId
    BY <2>1, NodeAssumption DEF NoId
  <2>3. QED BY <1>3, <2>2 DEF Numbered
<1>6. nextId \in Id /\ done \in [Node -> BOOLEAN]
  BY FirstIdAssumption DEF SyncInit, Id
<1>7. Coherent(server)
  BY StoreCoherent DEF SyncInit
<1>8. PICK e : e = [type |-> "PT_GET_CHILDREN", item |-> NoId, request |-> 0]
  OBVIOUS
<1>9. e \in Packet /\ e.request = 0
  BY <1>8 DEF Packet, NoId
<1>10. /\ toServer = <<e>> /\ toClient = <<>> /\ requests = {0} /\ requestId = 1
       /\ pendingRequests = 1
  BY <1>8 DEF SyncInit
<1>11. Matched(toServer, toClient, requests, requestId)
  <2>1. toServer \in Seq(Packet) /\ Len(toServer) = 1 /\ toServer[1] = e /\ 1..1 = {1}
    BY <1>9, <1>10
  <2>2. toClient \in Seq(Answer) /\ Len(toClient) = 0 /\ 1..0 = {}
    BY <1>10
  <2>3. Req(toServer) \subseteq {1} /\ Ans(toClient) = {}
    BY <2>1, <2>2 DEF Req, Ans
  <2>4. 1 \in Nat /\ \A r \in {0} : r \in Nat /\ r < 1
    OBVIOUS
  <2>5. QED BY <1>9, <1>10, <2>1, <2>2, <2>3, <2>4 DEF Matched
<1>12. pendingRequests = Cardinality(requests)
  BY <1>10, FS_Singleton
<1>13. QED BY <1>2, <1>4, <1>5, <1>6, <1>7, <1>11, <1>12 DEF SyncInv, ClientSound

\* The invariant of DocumentSync.
THEOREM SyncInvHolds == SyncSpec => []SyncInv
<1>1. SyncInit => SyncInv
  BY SyncBegins
<1>2. SyncInv /\ [SyncNext]_syncVars => SyncInv'
  BY SyncKeeps
<1>3. QED BY <1>1, <1>2, PTL DEF SyncSpec

\* Every request is answered at most once and by its owner.
THEOREM RequestsStayMatched == SyncSpec => []RequestsMatched
<1>1. SyncInv => RequestsMatched
  <2>1. SUFFICES ASSUME SyncInv PROVE RequestsMatched
    OBVIOUS
  <2>2. /\ Matched(toServer, toClient, requests, requestId)
        /\ pendingRequests = Cardinality(requests)
    BY <2>1 DEF SyncInv
  <2>3. toServer \in Seq(Packet) /\ toClient \in Seq(Answer)
    BY <2>2 DEF Matched
  <2>4. DOMAIN toServer = 1..Len(toServer) /\ DOMAIN toClient = 1..Len(toClient)
    BY <2>3
  <2>5. Asked = Req(toServer) /\ Answered = Ans(toClient)
    BY <2>4 DEF Asked, Answered, Req, Ans
  <2>6. PICK q, c, R, n : q = toServer /\ c = toClient /\ R = requests /\ n = requestId
    OBVIOUS
  <2>7. Matched(q, c, R, n)
    BY <2>2, <2>6
  <2>8. PICK U : /\ U = {q[k].request : k \in Req(q)} \cup {c[k].request : k \in Ans(c)}
                 /\ U \subseteq R /\ Cardinality(U) = Cardinality(Req(q)) + Cardinality(Ans(c))
    BY <2>7, MatchedCounts
  <2>9. UnderWay = U
    BY <2>5, <2>6, <2>8 DEF UnderWay
  <2>10. UnderWay \subseteq requests
         /\ Cardinality(UnderWay) = Cardinality(Asked) + Cardinality(Answered)
    BY <2>5, <2>6, <2>8, <2>9
  <2>11. QED BY <2>2, <2>10 DEF RequestsMatched
<1>2. QED BY <1>1, SyncInvHolds, PTL

---------------------------------------------------------------------------
(* Handling one packet after the other.                                    *)

\* The copy after k packets.
Turn(s, q, a, k) == IF k = 0 THEN s ELSE Handle(a[k - 1], q[k])

\* The copies are defined one after the other.
LEMMA TurnsExist ==
  ASSUME NEW s, NEW q, NEW n \in Nat
  PROVE  \E a : a = [k \in 0..n |-> Turn(s, q, a, k)]
<1> DEFINE T == {m \in Nat : \E a : a = [k \in 0..m |-> Turn(s, q, a, k)]}
<1>1. 0 \in T
  <2>1. PICK a : a = [k \in 0..0 |-> Turn(s, q, <<>>, k)]
    OBVIOUS
  <2>2. 0..0 = {0}
    OBVIOUS
  <2>3. \A k \in 0..0 : Turn(s, q, <<>>, k) = Turn(s, q, a, k)
    BY <2>2 DEF Turn
  <2>4. a = [k \in 0..0 |-> Turn(s, q, a, k)]
    BY <2>1, <2>3
  <2>5. QED BY <2>4
<1>2. ASSUME NEW m \in Nat, m \in T PROVE m + 1 \in T
  <2>1. PICK a : a = [k \in 0..m |-> Turn(s, q, a, k)]
    BY <1>2
  <2>2. PICK b : b = [k \in 0..m + 1 |-> IF k <= m THEN a[k] ELSE Turn(s, q, a, k)]
    OBVIOUS
  <2>3. ASSUME NEW k \in 0..m + 1
        PROVE  (IF k <= m THEN a[k] ELSE Turn(s, q, a, k)) = Turn(s, q, b, k)
    <3>1. CASE k = 0
      <4>1. k \in 0..m /\ k <= m
        BY <3>1
      <4>2. a[k] = Turn(s, q, a, k)
        BY <2>1, <4>1
      <4>3. QED BY <3>1, <4>1, <4>2 DEF Turn
    <3>2. CASE k # 0
      <4>1. k - 1 \in 0..m + 1 /\ k - 1 <= m /\ (k <= m => k \in 0..m)
        BY <3>2
      <4>2. b[k - 1] = a[k - 1]
        BY <2>2, <4>1
      <4>3. k <= m => a[k] = Turn(s, q, a, k)
        BY <2>1, <4>1
      <4>4. QED BY <3>2, <4>2, <4>3 DEF Turn
    <3>3. QED BY <3>1, <3>2
  <2>4. b = [k \in 0..m + 1 |-> Turn(s, q, b, k)]
    BY <2>2, <2>3
  <2>5. QED BY <2>4
<1>3. Nat \subseteq T
  <2> HIDE DEF T
  <2>1. QED BY <1>1, <1>2, SetInduction
<1>4. QED BY <1>3

\* HandleAll is the last of them.
LEMMA HandleUnrolls ==
  ASSUME NEW s, NEW q, Len(q) \in Nat
  PROVE  \E a : /\ HandleAll(s, q) = a[Len(q)]
                /\ \A k \in 0..Len(q) : a[k] = Turn(s, q, a, k)
<1> DEFINE A == CHOOSE a : a = [k \in 0..Len(q) |-> Turn(s, q, a, k)]
<1>1. A = [k \in 0..Len(q) |-> Turn(s, q, A, k)]
  BY TurnsExist
<1>2. HandleAll(s, q) = A[Len(q)]
  BY DEF HandleAll, Turn
<1>3. QED BY <1>1, <1>2

\* Copies that follow from one another are these.
LEMMA HandleFollows ==
  ASSUME NEW s, NEW q, Len(q) \in Nat, NEW a, \A k \in 0..Len(q) : a[k] = Turn(s, q, a, k)
  PROVE  HandleAll(s, q) = a[Len(q)]
<1>1. PICK b : /\ HandleAll(s, q) = b[Len(q)]
               /\ \A k \in 0..Len(q) : b[k] = Turn(s, q, b, k)
  BY HandleUnrolls
<1> DEFINE T == {k \in Nat : k <= Len(q) => a[k] = b[k]}
<1>2. 0 \in T
  <2>1. 0 \in 0..Len(q)
    OBVIOUS
  <2>2. a[0] = Turn(s, q, a, 0) /\ b[0] = Turn(s, q, b, 0)
    BY <1>1, <2>1
  <2>3. QED BY <2>2 DEF Turn
<1>3. ASSUME NEW m \in Nat, m \in T PROVE m + 1 \in T
  <2>1. SUFFICES ASSUME m + 1 <= Len(q) PROVE a[m + 1] = b[m + 1]
    OBVIOUS
  <2>2. m + 1 \in 0..Len(q) /\ m + 1 # 0 /\ m + 1 - 1 = m /\ m <= Len(q)
    BY <2>1
  <2>3. a[m] = b[m]
    BY <1>3, <2>2
  <2>4. a[m + 1] = Turn(s, q, a, m + 1) /\ b[m + 1] = Turn(s, q, b, m + 1)
    BY <1>1, <2>2
  <2>5. QED BY <2>2, <2>3, <2>4 DEF Turn
<1>4. Nat \subseteq T
  <2> HIDE DEF T
  <2>1. QED BY <1>2, <1>3, SetInduction
<1>5. a[Len(q)] = b[Len(q)]
  BY <1>4
<1>6. QED BY <1>1, <1>5

\* Nothing under way changes nothing.
LEMMA HandleNothing ==
  ASSUME NEW s
  PROVE  HandleAll(s, <<>>) = s
<1>1. Len(<<>>) = 0 /\ 0 \in 0..0
  OBVIOUS
<1>2. PICK a : /\ HandleAll(s, <<>>) = a[0] /\ a[0] = Turn(s, <<>>, a, 0)
  BY <1>1, HandleUnrolls
<1>3. QED BY <1>2 DEF Turn

\* One more packet at the end is handled last.
LEMMA HandleOneMore ==
  ASSUME NEW s, NEW S, NEW q \in Seq(S), NEW e \in S
  PROVE  HandleAll(s, q \o <<e>>) = Handle(HandleAll(s, q), e)
<1>1. PICK r : r = q \o <<e>>
  OBVIOUS
<1>2. PICK n \in Nat : n = Len(q)
  OBVIOUS
<1>3. /\ Len(r) = n + 1 /\ r[n + 1] = e /\ \A k \in 1..n : r[k] = q[k]
  <2>1. r = Append(q, e)
    BY <1>1
  <2>2. QED BY <1>2, <2>1, PushProperties
<1>4. PICK a : /\ HandleAll(s, q) = a[n] /\ \A k \in 0..n : a[k] = Turn(s, q, a, k)
  BY <1>2, HandleUnrolls
<1>5. PICK b : b = [k \in 0..n + 1 |-> IF k <= n THEN a[k] ELSE Handle(a[n], e)]
  OBVIOUS
<1>6. ASSUME NEW k \in 0..n + 1 PROVE b[k] = Turn(s, r, b, k)
  <2>1. CASE k = 0
    <3>1. 0 \in 0..n /\ 0 \in 0..n + 1 /\ 0 <= n
      OBVIOUS
    <3>2. b[0] = a[0] /\ a[0] = Turn(s, q, a, 0)
      BY <1>4, <1>5, <3>1
    <3>3. QED BY <2>1, <3>2 DEF Turn
  <2>2. CASE k # 0 /\ k <= n
    <3>1. k \in 0..n /\ k \in 1..n /\ k - 1 \in 0..n + 1 /\ k - 1 <= n
      BY <2>2
    <3>2. b[k] = a[k] /\ b[k - 1] = a[k - 1] /\ r[k] = q[k] /\ a[k] = Turn(s, q, a, k)
      BY <1>3, <1>4, <1>5, <2>2, <3>1
    <3>3. QED BY <2>2, <3>2 DEF Turn
  <2>3. CASE k = n + 1
    <3>1. k # 0 /\ k - 1 = n /\ n \in 0..n + 1 /\ ~(k <= n) /\ n <= n
      BY <2>3
    <3>2. b[k] = Handle(a[n], e) /\ b[n] = a[n] /\ r[k] = e
      BY <1>3, <1>5, <2>3, <3>1
    <3>3. QED BY <3>1, <3>2 DEF Turn
  <2>4. QED BY <2>1, <2>2, <2>3
<1>7. HandleAll(s, r) = b[n + 1]
  BY <1>3, <1>6, HandleFollows
<1>8. b[n + 1] = Handle(a[n], e)
  BY <1>5
<1>9. QED BY <1>1, <1>4, <1>7, <1>8

\* The packet at the front is handled first.
LEMMA HandleFirst ==
  ASSUME NEW s, NEW S, NEW q \in Seq(S), q # <<>>
  PROVE  HandleAll(Handle(s, Head(q)), Tail(q)) = HandleAll(s, q)
<1>1. PICK n \in Nat : n = Len(Tail(q))
  BY FirstOf
<1>2. /\ Len(q) = n + 1 /\ Head(q) = q[1] /\ \A k \in 1..n : Tail(q)[k] = q[k + 1]
  <2>1. /\ Head(q) = q[1] /\ Len(q) \in Nat /\ Len(Tail(q)) = Len(q) - 1
        /\ \A k \in 1..Len(Tail(q)) : Tail(q)[k] = q[k + 1]
    BY FirstOf
  <2>2. QED BY <1>1, <2>1
<1>3. PICK a : /\ HandleAll(s, q) = a[n + 1] /\ \A k \in 0..n + 1 : a[k] = Turn(s, q, a, k)
  BY <1>2, HandleUnrolls
<1>4. PICK r, u : r = Tail(q) /\ u = Handle(s, q[1])
  OBVIOUS
<1>5. PICK b : b = [k \in 0..n |-> a[k + 1]]
  OBVIOUS
<1>6. ASSUME NEW k \in 0..n PROVE b[k] = Turn(u, r, b, k)
  <2>1. k + 1 \in 0..n + 1 /\ k + 1 # 0 /\ k + 1 - 1 = k
    OBVIOUS
  <2>2. b[k] = Handle(a[k], q[k + 1])
    BY <1>3, <1>5, <2>1 DEF Turn
  <2>3. CASE k = 0
    <3>1. a[0] = s
      BY <1>3 DEF Turn
    <3>2. QED BY <1>4, <2>2, <2>3, <3>1 DEF Turn
  <2>4. CASE k # 0
    <3>1. k - 1 \in 0..n /\ k - 1 + 1 = k /\ k \in 1..n
      BY <2>4
    <3>2. b[k - 1] = a[k] /\ r[k] = q[k + 1]
      BY <1>2, <1>4, <1>5, <3>1
    <3>3. QED BY <2>2, <2>4, <3>2 DEF Turn
  <2>5. QED BY <2>3, <2>4
<1>7. HandleAll(u, r) = b[n]
  BY <1>1, <1>4, <1>6, HandleFollows
<1>8. QED BY <1>2, <1>3, <1>4, <1>5, <1>7

\* What is handled later comes after what is handled before.
LEMMA HandleMore ==
  ASSUME NEW s, NEW S, NEW q \in Seq(S), NEW p \in Seq(S)
  PROVE  HandleAll(s, q \o p) = HandleAll(HandleAll(s, q), p)
<1>1. PICK n \in Nat, m \in Nat : n = Len(q) /\ m = Len(p)
  OBVIOUS
<1>2. PICK u, r : u = HandleAll(s, q) /\ r = q \o p
  OBVIOUS
<1>3. /\ Len(r) = n + m
      /\ \A k \in 1..n : r[k] = q[k]
      /\ \A k \in 1..m : r[n + k] = p[k]
  BY <1>1, <1>2
<1>4. PICK a : u = a[n] /\ \A k \in 0..n : a[k] = Turn(s, q, a, k)
  BY <1>1, <1>2, HandleUnrolls
<1>5. PICK b : HandleAll(u, p) = b[m] /\ \A k \in 0..m : b[k] = Turn(u, p, b, k)
  BY <1>1, HandleUnrolls
<1>6. PICK c : c = [k \in 0..n + m |-> IF k <= n THEN a[k] ELSE b[k - n]]
  OBVIOUS
<1>7. b[0] = a[n]
  BY <1>4, <1>5 DEF Turn
<1>8. \A k \in 0..m : n + k \in 0..n + m /\ c[n + k] = b[k]
  <2>1. SUFFICES ASSUME NEW k \in 0..m PROVE n + k \in 0..n + m /\ c[n + k] = b[k]
    OBVIOUS
  <2>2. n + k \in 0..n + m /\ n + k - n = k /\ (n + k <= n <=> k = 0)
    OBVIOUS
  <2>3. CASE k = 0
    <3>1. n \in 0..n + m /\ n <= n /\ n + k = n
      BY <2>3
    <3>2. QED BY <1>6, <1>7, <2>2, <2>3, <3>1
  <2>4. CASE k # 0
    BY <1>6, <2>2, <2>4
  <2>5. QED BY <2>3, <2>4
<1>9. ASSUME NEW k \in 0..n + m PROVE c[k] = Turn(s, r, c, k)
  <2>1. CASE k <= n
    <3>1. k \in 0..n /\ (k # 0 => k \in 1..n /\ k - 1 \in 0..n + m /\ k - 1 <= n)
      BY <2>1
    <3>2. c[k] = a[k] /\ (k # 0 => c[k - 1] = a[k - 1] /\ r[k] = q[k])
      BY <1>3, <1>6, <2>1, <3>1
    <3>3. a[k] = Turn(s, q, a, k)
      BY <1>4, <3>1
    <3>4. QED BY <3>2, <3>3 DEF Turn
  <2>2. CASE ~(k <= n)
    <3>1. PICK j \in 1..m : k = n + j
      <4>1. k - n \in 1..m /\ k = n + (k - n)
        BY <2>2
      <4>2. QED BY <4>1
    <3>2. /\ j \in 0..m /\ j - 1 \in 0..m /\ j # 0 /\ k # 0 /\ k - 1 = n + (j - 1)
      BY <3>1
    <3>3. c[k] = b[j] /\ c[k - 1] = b[j - 1] /\ r[k] = p[j]
      BY <1>3, <1>8, <3>1, <3>2
    <3>4. b[j] = Turn(u, p, b, j)
      BY <1>5, <3>2
    <3>5. QED BY <3>2, <3>3, <3>4 DEF Turn
  <2>3. QED BY <2>1, <2>2
<1>10. HandleAll(s, r) = c[n + m]
  BY <1>3, <1>9, HandleFollows
<1>11. c[n + m] = b[m]
  BY <1>8
<1>12. QED BY <1>2, <1>5, <1>10, <1>11

\* No packet takes an object from a copy, or gives one another id.
Kept(s, u) == /\ s.heap \subseteq u.heap /\ \A x \in Node : x \in s.heap => u.id[x] = s.id[x]

\* A copy as a record of its parts, with its root.
WholeCopy(s) == /\ s = [tree |-> s.tree, text |-> s.text, done |-> s.done, heap |-> s.heap, id |-> s.id]
             /\ s.id = [x \in Node |-> s.id[x]] /\ Root \in s.heap

\* No handler does.
LEMMA HandleKeepsIds ==
  ASSUME NEW s, WholeCopy(s), NEW packet
  PROVE  WholeCopy(Handle(s, packet)) /\ Kept(s, Handle(s, packet))
<1>1. PICK t, texts, flags, H, ids :
        /\ s = [tree |-> t, text |-> texts, done |-> flags, heap |-> H, id |-> ids]
        /\ ids = [x \in Node |-> ids[x]] /\ Root \in H /\ H = s.heap
  BY DEF WholeCopy
<1>2. ASSUME NEW u, NEW t2, NEW texts2, NEW flags2,
             u = [tree |-> t2, text |-> texts2, done |-> flags2, heap |-> H, id |-> ids]
      PROVE  WholeCopy(u) /\ Kept(s, u)
  BY <1>1, <1>2 DEF WholeCopy, Kept
<1>3. CASE packet.type = "PT_ITEM_CREATED"
  <2>1. Handle(s, packet) = CreateItem(s, packet)
    BY <1>3 DEF Handle
  <2>2. CASE Found(s, packet.parent) = Nil
    <3>1. Handle(s, packet) = s
      BY <2>1, <2>2 DEF CreateItem
    <3>2. QED BY <1>1, <1>2, <3>1
  <2>3. CASE Found(s, packet.parent) # Nil
    <3>1. PICK n, t2, texts2, flags2 :
            /\ n = NextFree(H)
            /\ Handle(s, packet) = [tree |-> t2, text |-> texts2, done |-> flags2, heap |-> H \cup {n},
                                    id |-> [ids EXCEPT ![n] = packet.item]]
      <4>1. PICK n : n = NextFree(H)
        OBVIOUS
      <4>2. PICK t2, texts2, flags2 :
              /\ t2 = ServerAddAsChild([t EXCEPT !.parent = [@ EXCEPT ![n] = Found(s, packet.parent)]],
                                       Found(s, packet.parent), n, PrevFound(s, packet))
              /\ texts2 = [texts EXCEPT ![n] = EmptyText]
              /\ flags2 = [flags EXCEPT ![n] = FALSE]
        OBVIOUS
      <4>3. s.heap = H /\ s.tree = t /\ s.text = texts /\ s.done = flags /\ s.id = ids
        BY <1>1
      <4>4. CreateItem(s, packet) =
              [tree |-> t2, text |-> texts2, done |-> flags2, heap |-> H \cup {n},
               id |-> [ids EXCEPT ![n] = packet.item]]
        BY <2>3, <4>1, <4>2, <4>3 DEF CreateItem
      <4>5. QED BY <2>1, <4>1, <4>4
    <3>2. \A x \in Node : x \in H => x # n
      <4>1. CASE Node \subseteq H
        BY <3>1, <4>1, NodeAssumption DEF NextFree
      <4>2. CASE ~(Node \subseteq H)
        <5>1. \E x \in Item : x \notin H
          BY <1>1, <4>2 DEF Item
        <5>2. n = CHOOSE x \in Item : x \notin H
          BY <3>1, <4>2 DEF NextFree
        <5>3. QED BY <5>1, <5>2
      <4>3. QED BY <4>1, <4>2
    <3>3. PICK ids2 : ids2 = [ids EXCEPT ![n] = packet.item]
      OBVIOUS
    <3>4. /\ \A x \in Node : x \in H => ids2[x] = ids[x]
          /\ ids2 = [x \in Node |-> ids2[x]]
      <4>1. DOMAIN ids = Node
        BY <1>1
      <4>2. DOMAIN ids2 = Node /\ ids2 = [x \in DOMAIN ids2 |-> ids2[x]]
        BY <3>3, <4>1
      <4>3. \A x \in Node : x # n => ids2[x] = ids[x]
        BY <3>3, <4>1
      <4>4. QED BY <3>2, <4>2, <4>3
    <3>5. PICK u : u = Handle(s, packet)
      OBVIOUS
    <3>6. /\ u.heap = H \cup {n} /\ u.id = ids2
          /\ u = [tree |-> u.tree, text |-> u.text, done |-> u.done, heap |-> u.heap, id |-> u.id]
      BY <3>1, <3>3, <3>5
    <3>7. WholeCopy(u) /\ Kept(s, u)
      BY <1>1, <3>4, <3>6 DEF WholeCopy, Kept
    <3>8. QED BY <3>5, <3>7
  <2>4. QED BY <2>2, <2>3
<1>4. CASE packet.type # "PT_ITEM_CREATED"
  <2>1. \E t2, texts2, flags2 :
          Handle(s, packet) = [tree |-> t2, text |-> texts2, done |-> flags2, heap |-> H, id |-> ids]
    <3>1. CASE packet.type = "PT_ITEM_DELETED"
      <4>1. Handle(s, packet) = RemoveItemById(s, packet)
        BY <3>1 DEF Handle
      <4>2. QED BY <1>1, <4>1 DEF RemoveItemById
    <3>2. CASE packet.type = "PT_ITEM_CHANGED"
      <4>1. Handle(s, packet) = SetText(s, packet)
        BY <3>2 DEF Handle
      <4>2. QED BY <1>1, <4>1 DEF SetText
    <3>3. CASE packet.type = "PT_ITEM_MOVED"
      <4>1. Handle(s, packet) = MoveItem(s, packet)
        BY <3>3 DEF Handle
      <4>2. QED BY <1>1, <4>1 DEF MoveItem
    <3>4. CASE packet.type = "PT_ITEM_DONE_CHANGED"
      <4>1. Handle(s, packet) = SetDone(s, packet)
        BY <3>4 DEF Handle
      <4>2. QED BY <1>1, <4>1 DEF SetDone
    <3>5. CASE packet.type \notin {"PT_ITEM_CREATED", "PT_ITEM_DELETED", "PT_ITEM_CHANGED",
                                   "PT_ITEM_MOVED", "PT_ITEM_DONE_CHANGED"}
      <4>1. Handle(s, packet) = s
        BY <3>5 DEF Handle
      <4>2. QED BY <1>1, <4>1
    <3>6. QED BY <1>4, <3>1, <3>2, <3>3, <3>4, <3>5
  <2>2. QED BY <1>2, <2>1
<1>5. QED BY <1>3, <1>4

\* Nor do many.
LEMMA AllKeepIds ==
  ASSUME NEW s, Coherent(s), NEW q, Len(q) \in Nat
  PROVE  Kept(s, HandleAll(s, q))
<1>1. PICK n \in Nat : n = Len(q)
  OBVIOUS
<1>2. PICK a : HandleAll(s, q) = a[n] /\ \A k \in 0..n : a[k] = Turn(s, q, a, k)
  BY <1>1, HandleUnrolls
<1> DEFINE T == {k \in Nat : k <= n => WholeCopy(a[k]) /\ Kept(s, a[k])}
<1>3. 0 \in T
  <2>1. a[0] = s
    BY <1>2 DEF Turn
  <2>2. WholeCopy(s) /\ Kept(s, s)
    <3>1. /\ s = [tree |-> s.tree, text |-> s.text, done |-> s.done, heap |-> s.heap, id |-> s.id]
          /\ s.id \in [Node -> Nat]
      BY CopyParts
    <3>2. Root \in s.heap
      BY DEF Coherent
    <3>3. QED BY <3>1, <3>2 DEF WholeCopy, Kept
  <2>3. QED BY <2>1, <2>2
<1>4. ASSUME NEW k \in Nat, k \in T PROVE k + 1 \in T
  <2>1. SUFFICES ASSUME k + 1 <= n PROVE WholeCopy(a[k + 1]) /\ Kept(s, a[k + 1])
    OBVIOUS
  <2>2. k + 1 \in 0..n /\ k + 1 # 0 /\ k + 1 - 1 = k /\ k <= n
    BY <2>1
  <2>3. a[k + 1] = Handle(a[k], q[k + 1])
    BY <1>2, <2>2 DEF Turn
  <2>4. WholeCopy(a[k]) /\ Kept(s, a[k])
    BY <1>4, <2>2
  <2>5. WholeCopy(a[k + 1]) /\ Kept(a[k], a[k + 1])
    BY <2>3, <2>4, HandleKeepsIds
  <2>6. Kept(s, a[k + 1])
    BY <2>4, <2>5 DEF Kept
  <2>7. QED BY <2>5, <2>6
<1>5. Nat \subseteq T
  <2> HIDE DEF T
  <2>1. QED BY <1>3, <1>4, SetInduction
<1>6. QED BY <1>2, <1>5

---------------------------------------------------------------------------
(* The server looks for what the client names.                             *)

\* What a creation does.
LEMMA ServerCreates ==
  ASSUME NEW s, Coherent(s), NEW packet, packet.type = "PT_ITEM_CREATED",
         NEW p \in Node, p = Found(s, packet.parent), NEW a \in ItemOrNil, a = PrevFound(s, packet),
         ~WrongAfter(s.tree, p, a), NEW j \in Item, j = NextFree(s.heap), j \notin s.heap
  PROVE  \E u : /\ u = Handle(s, packet)
                /\ u.tree = InsertAfter(s.tree, p, j, a) /\ u.heap = s.heap \cup {j}
                /\ u.text[j] = EmptyText /\ ~u.done[j] /\ u.id[j] = packet.item
                /\ \A x \in Item : x # j => u.text[x] = s.text[x] /\ u.done[x] = s.done[x]
                /\ \A x \in Node : x # j => u.id[x] = s.id[x]
<1>1. PICK t : t = s.tree
  OBVIOUS
<1>2. /\ t \in Tree /\ j \in Node
      /\ a # Nil => a \in s.heap
  BY <1>1, CopyParts, PrevFoundIn DEF Item
<1>3. PICK born : born = [t EXCEPT !.parent = [@ EXCEPT ![j] = p]]
  OBVIOUS
<1>4. born = [parent |-> [t.parent EXCEPT ![j] = p], next |-> t.next, prev |-> t.prev,
              firstChild |-> t.firstChild]
  BY <1>2, <1>3 DEF Tree
<1>5. ~WrongAfter(born, p, a)
  <2>1. a # Nil => a # j /\ a \in Node
    BY <1>2 DEF ItemOrNil, Item
  <2>2. \A x \in Node : x # j => born.parent[x] = t.parent[x]
    BY <1>2, <1>4 DEF Tree
  <2>3. QED BY <1>1, <2>1, <2>2 DEF WrongAfter
<1>6. InsertAfter(born, p, j, a) = InsertAfter(t, p, j, a)
  <2>1. [[t.parent EXCEPT ![j] = p] EXCEPT ![j] = p] = [t.parent EXCEPT ![j] = p]
    BY <1>2 DEF Tree
  <2>2. born.parent = [t.parent EXCEPT ![j] = p] /\ born.next = t.next /\ born.prev = t.prev
        /\ born.firstChild = t.firstChild
    BY <1>4
  <2>3. QED BY <2>1, <2>2 DEF InsertAfter
<1>7. ServerAddAsChild(born, p, j, a) = InsertAfter(t, p, j, a)
  BY <1>5, <1>6 DEF ServerAddAsChild
<1>8. Handle(s, packet) = CreateItem(s, packet) /\ p # Nil
  BY NodeAssumption DEF Handle
<1>9. CreateItem(s, packet) = [tree |-> ServerAddAsChild(born, p, j, a),
                               text |-> [s.text EXCEPT ![j] = EmptyText],
                               done |-> [s.done EXCEPT ![j] = FALSE],
                               heap |-> s.heap \cup {j}, id |-> [s.id EXCEPT ![j] = packet.item]]
  BY <1>1, <1>3, <1>8 DEF CreateItem
<1>10. PICK u, v, texts, flags, ids :
         /\ u = Handle(s, packet) /\ v = InsertAfter(t, p, j, a)
         /\ texts = [s.text EXCEPT ![j] = EmptyText]
         /\ flags = [s.done EXCEPT ![j] = FALSE]
         /\ ids = [s.id EXCEPT ![j] = packet.item]
  OBVIOUS
<1>11. u = [tree |-> v, text |-> texts, done |-> flags, heap |-> s.heap \cup {j}, id |-> ids]
  BY <1>7, <1>8, <1>9, <1>10
<1>12. u.tree = v /\ u.heap = s.heap \cup {j} /\ u.text = texts /\ u.done = flags /\ u.id = ids
  BY <1>11
<1>13. /\ u = Handle(s, packet)
       /\ u.tree = InsertAfter(s.tree, p, j, a) /\ u.heap = s.heap \cup {j}
  BY <1>1, <1>10, <1>12
<1>14. /\ u.text[j] = EmptyText /\ ~u.done[j] /\ u.id[j] = packet.item
       /\ \A x \in Item : x # j => u.text[x] = s.text[x] /\ u.done[x] = s.done[x]
       /\ \A x \in Node : x # j => u.id[x] = s.id[x]
  <2>1. s.text \in [Item -> Text] /\ s.done \in [Item -> BOOLEAN] /\ s.id \in [Node -> Nat]
    BY CopyParts
  <2>2. u.text = texts /\ u.done = flags /\ u.id = ids
    BY <1>12
  <2>3. texts[j] = EmptyText /\ \A x \in Item : x # j => texts[x] = s.text[x]
    BY <1>2, <1>10, <2>1
  <2>4. flags[j] = FALSE /\ \A x \in Item : x # j => flags[x] = s.done[x]
    BY <1>2, <1>10, <2>1
  <2>5. ids[j] = packet.item /\ \A x \in Node : x # j => ids[x] = s.id[x]
    BY <1>2, <1>10, <2>1
  <2>6. QED BY <2>2, <2>3, <2>4, <2>5
<1>15. QED BY <1>13, <1>14

\* What a deletion does.
LEMMA ServerDeletes ==
  ASSUME NEW s, Coherent(s), NEW packet, packet.type = "PT_ITEM_DELETED",
         NEW i \in Node, i = Found(s, packet.item)
  PROVE  \E u : /\ u = Handle(s, packet) /\ u.tree = DetachFromTree(s.tree, i)
                /\ u.heap = s.heap /\ u.text = s.text /\ u.done = s.done /\ u.id = s.id
<1>1. Handle(s, packet) = [s EXCEPT !.tree = DetachFromTree(s.tree, i)]
  BY NodeAssumption DEF Handle, RemoveItemById
<1>2. PICK v : v = DetachFromTree(s.tree, i)
  OBVIOUS
<1>3. s = [tree |-> s.tree, text |-> s.text, done |-> s.done, heap |-> s.heap, id |-> s.id]
  BY CopyParts
<1>4. Handle(s, packet) = [tree |-> v, text |-> s.text, done |-> s.done, heap |-> s.heap, id |-> s.id]
  BY <1>1, <1>2, <1>3
<1>5. QED BY <1>2, <1>4

\* What a move does.
LEMMA ServerMoves ==
  ASSUME NEW s, Coherent(s), NEW packet, packet.type = "PT_ITEM_MOVED",
         NEW i \in Node, i = Found(s, packet.item), NEW p \in Node, p = Found(s, packet.parent),
         NEW a, a = PrevFound(s, packet), ~WrongAfter(s.tree, p, a)
  PROVE  \E u : /\ u = Handle(s, packet)
                /\ u.tree = InsertAfter(DetachFromTree(s.tree, i), p, i, a)
                /\ u.heap = s.heap /\ u.text = s.text /\ u.done = s.done /\ u.id = s.id
<1>1. i # Nil /\ p # Nil
  BY NodeAssumption
<1>2. PICK d, v : d = DetachFromTree(s.tree, i) /\ v = ServerAddAsChild(d, p, i, a)
  OBVIOUS
<1>3. v = InsertAfter(d, p, i, a)
  <2>1. d.parent = s.tree.parent
    BY <1>2 DEF DetachFromTree
  <2>2. QED BY <1>2, <2>1 DEF ServerAddAsChild, WrongAfter
<1>4. Handle(s, packet) = [s EXCEPT !.tree = v]
  <2>1. Handle(s, packet) = MoveItem(s, packet)
    BY DEF Handle
  <2>2. QED BY <1>1, <1>2, <2>1 DEF MoveItem
<1>5. s = [tree |-> s.tree, text |-> s.text, done |-> s.done, heap |-> s.heap, id |-> s.id]
  BY CopyParts
<1>6. Handle(s, packet) = [tree |-> v, text |-> s.text, done |-> s.done, heap |-> s.heap, id |-> s.id]
  BY <1>4, <1>5
<1>7. QED BY <1>2, <1>3, <1>6

\* What a new text does.
LEMMA ServerEdits ==
  ASSUME NEW s, Coherent(s), NEW packet, packet.type = "PT_ITEM_CHANGED"
  PROVE  \E u, i : /\ u = Handle(s, packet) /\ i = Found(s, packet.item)
                   /\ u.text = IF i = Nil THEN s.text ELSE [s.text EXCEPT ![i] = packet.text]
                   /\ u.heap = s.heap /\ u.tree = s.tree /\ u.done = s.done /\ u.id = s.id
<1>1. PICK i, v : i = Found(s, packet.item) /\ v = [s.text EXCEPT ![i] = packet.text]
  OBVIOUS
<1>2. Handle(s, packet) = IF i = Nil THEN s ELSE [s EXCEPT !.text = v]
  BY <1>1 DEF Handle, SetText
<1>3. s = [tree |-> s.tree, text |-> s.text, done |-> s.done, heap |-> s.heap, id |-> s.id]
  BY CopyParts
<1>4. Handle(s, packet) = IF i = Nil THEN s ELSE
        [tree |-> s.tree, text |-> v, done |-> s.done, heap |-> s.heap, id |-> s.id]
  BY <1>2, <1>3
<1>5. PICK u : u = Handle(s, packet)
  OBVIOUS
<1>6. CASE i = Nil
  BY <1>1, <1>4, <1>5, <1>6
<1>7. CASE i # Nil
  <2>1. u = [tree |-> s.tree, text |-> v, done |-> s.done, heap |-> s.heap, id |-> s.id]
    BY <1>4, <1>5, <1>7
  <2>2. u.text = v /\ u.heap = s.heap /\ u.tree = s.tree /\ u.done = s.done /\ u.id = s.id
    BY <2>1
  <2>3. QED BY Zenon, <1>1, <1>5, <1>7, <2>2
<1>8. QED BY <1>6, <1>7

\* What a mark does.
LEMMA ServerMarks ==
  ASSUME NEW s, Coherent(s), NEW packet, packet.type = "PT_ITEM_DONE_CHANGED"
  PROVE  \E u, i : /\ u = Handle(s, packet) /\ i = Found(s, packet.item)
                   /\ u.done = IF i = Nil THEN s.done ELSE [s.done EXCEPT ![i] = packet.done]
                   /\ u.heap = s.heap /\ u.tree = s.tree /\ u.text = s.text /\ u.id = s.id
<1>1. PICK i, v : i = Found(s, packet.item) /\ v = [s.done EXCEPT ![i] = packet.done]
  OBVIOUS
<1>2. Handle(s, packet) = IF i = Nil THEN s ELSE [s EXCEPT !.done = v]
  BY <1>1 DEF Handle, SetDone
<1>3. s = [tree |-> s.tree, text |-> s.text, done |-> s.done, heap |-> s.heap, id |-> s.id]
  BY CopyParts
<1>4. Handle(s, packet) = IF i = Nil THEN s ELSE
        [tree |-> s.tree, text |-> s.text, done |-> v, heap |-> s.heap, id |-> s.id]
  BY <1>2, <1>3
<1>5. PICK u : u = Handle(s, packet)
  OBVIOUS
<1>6. CASE i = Nil
  BY <1>1, <1>4, <1>5, <1>6
<1>7. CASE i # Nil
  <2>1. u = [tree |-> s.tree, text |-> s.text, done |-> v, heap |-> s.heap, id |-> s.id]
    BY <1>4, <1>5, <1>7
  <2>2. u.done = v /\ u.heap = s.heap /\ u.tree = s.tree /\ u.text = s.text /\ u.id = s.id
    BY <2>1
  <2>3. QED BY <1>1, <1>5, <1>7, <2>2
<1>8. QED BY <1>6, <1>7

---------------------------------------------------------------------------
(* A copy of the server that mirrors a document.                           *)

\* Some of the objects of the client, those in the tree among them, are the
\* objects of the copy, by their ids, with the same links.  Texts and marks are
\* the same in the tree.
Mirrors(at, D, t, texts, flags, ids, s) ==
  /\ Pair(at, D, t, s.tree)
  /\ \A x \in D : at[x] \in s.heap /\ s.id[at[x]] = ids[x]
  /\ \A y \in s.heap : \E x \in D : at[x] = y
  /\ \A x \in InTree(t) \ {Root} : s.text[at[x]] = texts[x] /\ s.done[at[x]] = flags[x]

\* The object an item of the tree stands for is found.
LEMMA MirrorFinds ==
  ASSUME NEW s, Coherent(s), NEW t \in Tree, NEW at, NEW D, NEW texts, NEW flags, NEW ids,
         Mirrors(at, D, t, texts, flags, ids, s),
         NEW i, \A y \in D : ids[y] = ids[i] => y = i
  PROVE  /\ Found(s, ids[i]) = IF i \in InTree(t) THEN at[i] ELSE Nil
         /\ i \in InTree(t) => /\ i \in D /\ at[i] \in Node /\ (i # Root => at[i] \in Item)
                               /\ (i # Root => ids[i] # NoId)
<1>1. Pair(at, D, t, s.tree) /\ \A x \in D : at[x] \in s.heap /\ s.id[at[x]] = ids[x]
  BY DEF Mirrors
<1>2. Found(s, ids[i]) = IF i \in InTree(t) THEN at[i] ELSE Nil
  <2>1. PICK u, N, M, r : u = s.tree /\ N = InTree(t) /\ M = InTree(u) /\ r = Found(s, ids[i])
    OBVIOUS
  <2>2. u \in Tree
    BY <2>1, CopyParts
  <2>3. /\ N \subseteq D /\ \A y \in D : y \in N <=> at[y] \in M
        /\ \A z \in M : \E y \in N : z = at[y]
    BY <1>1, <2>1, <2>2, PairTrees
  <2>4. /\ r \in M \cup {Nil}
        /\ r # Nil => s.id[r] = ids[i]
        /\ r = Nil => \A z \in M : s.id[z] # ids[i]
    BY <2>1, FoundIn
  <2>5. CASE r = Nil
    <3>1. i \notin N
      BY <1>1, <2>3, <2>4, <2>5
    <3>2. QED BY <2>1, <2>5, <3>1
  <2>6. CASE r # Nil
    <3>1. PICK y \in N : r = at[y]
      BY <2>3, <2>4, <2>6
    <3>2. y = i
      BY <1>1, <2>3, <2>4, <2>6, <3>1
    <3>3. QED BY <2>1, <3>1, <3>2
  <2>7. QED BY <2>5, <2>6
<1>3. s.tree \in Tree
  BY CopyParts
<1>4. InTree(t) \subseteq D
  BY <1>1, <1>3, PairTrees
<1>5. i \in D => at[i] \in Node /\ (i # Root => at[i] \in Item)
  BY <1>1, PairNodes
<1>6. i \in D /\ i # Root => ids[i] # NoId
  BY <1>1, <1>5 DEF Coherent, Item
<1>7. QED BY <1>2, <1>4, <1>5, <1>6

\* The place a packet names is the place of the client.
LEMMA MirrorPlaces ==
  ASSUME NEW s, Coherent(s), NEW t \in Tree, NEW at, NEW D, NEW texts, NEW flags, NEW ids,
         Mirrors(at, D, t, texts, flags, ids, s), \A x, y \in D : ids[x] = ids[y] => x = y,
         NEW p \in InTree(t), NEW a \in (InTree(t) \ {Root}) \cup {Nil}, ~WrongAfter(t, p, a),
         NEW packet, packet.parent = ids[p], packet.prev = IF a = Nil THEN NoId ELSE ids[a]
  PROVE  /\ Found(s, packet.parent) = at[p] /\ at[p] \in Node /\ p \in D
         /\ PrevFound(s, packet) = at[a] /\ at[a] \in ItemOrNil /\ a \in (D \ {Root}) \cup {Nil}
         /\ ~WrongAfter(s.tree, at[p], at[a])
<1>1. Pair(at, D, t, s.tree)
  BY DEF Mirrors
<1>2. s.tree \in Tree /\ InTree(t) \subseteq Node
  BY CopyParts, InTreeLeast
<1>3. InTree(t) \subseteq D
  BY <1>1, <1>2, PairTrees
<1>4. Found(s, ids[p]) = at[p] /\ at[p] \in Node /\ p \in D
  <2>1. \A y \in D : ids[y] = ids[p] => y = p
    BY <1>3
  <2>2. QED BY <2>1, MirrorFinds
<1>5. at[Nil] = Nil
  BY <1>1, PairNodes
<1>6. CASE a = Nil
  <2>1. PrevFound(s, packet) = Nil
    BY <1>6 DEF PrevFound
  <2>2. QED BY <1>4, <1>5, <1>6, <2>1 DEF WrongAfter, ItemOrNil
<1>7. CASE a # Nil
  <2>1. \A y \in D : ids[y] = ids[a] => y = a
    BY <1>3, <1>7
  <2>2. Found(s, ids[a]) = at[a] /\ at[a] \in Item /\ a \in D /\ a # Root /\ ids[a] # NoId
    BY <1>7, <2>1, MirrorFinds
  <2>3. PrevFound(s, packet) = at[a]
    BY <1>7, <2>2 DEF PrevFound
  <2>4. s.tree.parent[at[a]] = at[t.parent[a]] /\ t.parent[a] = p
    BY <1>1, <1>7, <2>2 DEF Pair, WrongAfter
  <2>5. QED BY <1>4, <2>2, <2>3, <2>4 DEF WrongAfter, ItemOrNil
<1>8. QED BY <1>4, <1>6, <1>7

\* A deletion is mirrored.
LEMMA MirrorDeletes ==
  ASSUME NEW s, Coherent(s), NEW t \in Tree, NEW at, NEW D, NEW texts, NEW flags, NEW ids,
         Mirrors(at, D, t, texts, flags, ids, s), \A x, y \in D : ids[x] = ids[y] => x = y,
         NEW i \in InTree(t) \ {Root}, InTree(DetachFromTree(t, i)) \subseteq InTree(t),
         NEW packet \in Packet, packet.type = "PT_ITEM_DELETED", packet.item = ids[i]
  PROVE  \E u : /\ u = Handle(s, packet) /\ Coherent(u)
                /\ Mirrors(at, D, DetachFromTree(t, i), texts, flags, ids, u)
<1>1. /\ Pair(at, D, t, s.tree) /\ \A x \in D : at[x] \in s.heap /\ s.id[at[x]] = ids[x]
      /\ \A y \in s.heap : \E x \in D : at[x] = y
      /\ \A x \in InTree(t) \ {Root} : s.text[at[x]] = texts[x] /\ s.done[at[x]] = flags[x]
  BY DEF Mirrors
<1>2. s.tree \in Tree
  BY CopyParts
<1>3. i \in D /\ i # Root
  BY <1>1, <1>2, PairTrees
<1>4. Found(s, ids[i]) = at[i] /\ at[i] \in Node
  <2>1. \A y \in D : ids[y] = ids[i] => y = i
    BY <1>3
  <2>2. QED BY <2>1, MirrorFinds
<1>5. PICK j : j = at[i]
  OBVIOUS
<1>6. j \in Node /\ j = Found(s, packet.item)
  BY <1>4, <1>5
<1>7. PICK u : /\ u = Handle(s, packet) /\ u.tree = DetachFromTree(s.tree, j)
               /\ u.heap = s.heap /\ u.text = s.text /\ u.done = s.done /\ u.id = s.id
  BY <1>6, ServerDeletes
<1>8. Coherent(u)
  BY <1>7, HandleCoherent
<1>9. Pair(at, D, DetachFromTree(t, i), u.tree)
  BY <1>1, <1>2, <1>3, <1>5, <1>7, PairDetach
<1>10. Mirrors(at, D, DetachFromTree(t, i), texts, flags, ids, u)
  BY <1>1, <1>7, <1>9 DEF Mirrors
<1>11. QED BY <1>7, <1>8, <1>10

\* A move is mirrored.
LEMMA MirrorMoves ==
  ASSUME NEW s, Coherent(s), NEW t \in Tree, NEW at, NEW D, NEW texts, NEW flags, NEW ids,
         Mirrors(at, D, t, texts, flags, ids, s), \A x, y \in D : ids[x] = ids[y] => x = y,
         NEW i \in InTree(t) \ {Root}, NEW p \in InTree(t),
         NEW a \in (InTree(t) \ {Root}) \cup {Nil}, ~WrongAfter(t, p, a),
         InTree(InsertAfter(DetachFromTree(t, i), p, i, a)) \subseteq InTree(t),
         NEW packet \in Packet, packet.type = "PT_ITEM_MOVED", packet.item = ids[i],
         packet.parent = ids[p], packet.prev = IF a = Nil THEN NoId ELSE ids[a]
  PROVE  \E u : /\ u = Handle(s, packet) /\ Coherent(u)
                /\ Mirrors(at, D, InsertAfter(DetachFromTree(t, i), p, i, a), texts, flags, ids, u)
<1>1. /\ Pair(at, D, t, s.tree) /\ \A x \in D : at[x] \in s.heap /\ s.id[at[x]] = ids[x]
      /\ \A y \in s.heap : \E x \in D : at[x] = y
      /\ \A x \in InTree(t) \ {Root} : s.text[at[x]] = texts[x] /\ s.done[at[x]] = flags[x]
  BY DEF Mirrors
<1>2. s.tree \in Tree
  BY CopyParts
<1>3. i \in D /\ i # Root
  BY <1>1, <1>2, PairTrees
<1>4. Found(s, ids[i]) = at[i] /\ at[i] \in Node /\ at[i] \in Item /\ i \in Item
  <2>1. \A y \in D : ids[y] = ids[i] => y = i
    BY <1>3
  <2>2. i \in Item
    BY InTreeLeast DEF Item
  <2>3. QED BY <2>1, <2>2, MirrorFinds
<1>5. /\ Found(s, packet.parent) = at[p] /\ at[p] \in Node /\ p \in D
      /\ PrevFound(s, packet) = at[a] /\ at[a] \in ItemOrNil /\ a \in (D \ {Root}) \cup {Nil}
      /\ ~WrongAfter(s.tree, at[p], at[a])
  BY MirrorPlaces
<1>6. PICK j, q, b : j = at[i] /\ q = at[p] /\ b = at[a]
  OBVIOUS
<1>7. /\ j \in Node /\ j = Found(s, packet.item) /\ q \in Node /\ q = Found(s, packet.parent)
      /\ b = PrevFound(s, packet) /\ ~WrongAfter(s.tree, q, b)
  BY <1>4, <1>5, <1>6
<1>8. PICK u : /\ u = Handle(s, packet) /\ u.tree = InsertAfter(DetachFromTree(s.tree, j), q, j, b)
               /\ u.heap = s.heap /\ u.text = s.text /\ u.done = s.done /\ u.id = s.id
  BY <1>7, ServerMoves
<1>9. Coherent(u)
  BY <1>8, HandleCoherent
<1>10. PICK d, e : d = DetachFromTree(t, i) /\ e = DetachFromTree(s.tree, j)
  OBVIOUS
<1>11. d \in Tree /\ e \in Tree
  BY <1>2, <1>4, <1>6, <1>10, DetachTyped
<1>12. Pair(at, D, d, e)
  BY <1>1, <1>2, <1>3, <1>6, <1>10, PairDetach
<1>13. Pair(at, D, InsertAfter(d, p, i, a), InsertAfter(e, at[p], at[i], at[a]))
  BY <1>3, <1>5, <1>11, <1>12, PairInsert
<1>14. Pair(at, D, InsertAfter(d, p, i, a), u.tree)
  BY <1>6, <1>8, <1>10, <1>13
<1>15. Mirrors(at, D, InsertAfter(d, p, i, a), texts, flags, ids, u)
  BY <1>1, <1>8, <1>10, <1>14 DEF Mirrors
<1>16. QED BY <1>8, <1>9, <1>10, <1>15

\* An item that is not done.
Unmarked(flags, i) == flags[i] = FALSE

\* A creation is mirrored.
LEMMA MirrorCreates ==
  ASSUME NEW s, Coherent(s), NextFree(s.heap) \in Item \ s.heap,
         NEW t \in Tree, LinksAgree(t), NEW at, NEW D, NEW texts, NEW flags, NEW ids,
         Mirrors(at, D, t, texts, flags, ids, s), \A x, y \in D : ids[x] = ids[y] => x = y,
         NEW i \in Item, i \notin D, Unlinked(t, i), NEW p \in InTree(t),
         NEW a \in (InTree(t) \ {Root}) \cup {Nil}, ~WrongAfter(t, p, a),
         texts[i] = EmptyText, Unmarked(flags, i),
         NEW packet \in Packet, packet.type = "PT_ITEM_CREATED", packet.item = ids[i],
         packet.parent = ids[p], packet.prev = IF a = Nil THEN NoId ELSE ids[a]
  PROVE  /\ Coherent(Handle(s, packet))
         /\ \E bt : Mirrors(bt, D \cup {i}, InsertAfter(t, p, i, a), texts, flags, ids, Handle(s, packet))
<1>1. /\ Pair(at, D, t, s.tree) /\ \A x \in D : at[x] \in s.heap /\ s.id[at[x]] = ids[x]
      /\ \A y \in s.heap : \E x \in D : at[x] = y
      /\ \A x \in InTree(t) \ {Root} : s.text[at[x]] = texts[x] /\ s.done[at[x]] = flags[x]
  BY DEF Mirrors
<1>2. /\ s.tree \in Tree /\ s.heap \in SUBSET Node /\ Root \in s.heap
      /\ s.text \in [Item -> Text] /\ s.done \in [Item -> BOOLEAN] /\ s.id \in [Node -> Nat]
  BY CopyParts DEF Coherent
<1>3. InTree(t) \subseteq D
  BY <1>1, <1>2, PairTrees
<1>5. /\ Found(s, packet.parent) = at[p] /\ at[p] \in Node /\ p \in D
      /\ PrevFound(s, packet) = at[a] /\ at[a] \in ItemOrNil /\ a \in (D \ {Root}) \cup {Nil}
      /\ ~WrongAfter(s.tree, at[p], at[a])
  BY MirrorPlaces
<1>6. PICK q, b : q = at[p] /\ b = at[a]
  OBVIOUS
<1>7. /\ q \in Node /\ q = Found(s, packet.parent) /\ b \in ItemOrNil /\ b = PrevFound(s, packet)
      /\ ~WrongAfter(s.tree, q, b)
  BY <1>5, <1>6
<1>8. PICK j : j = NextFree(s.heap)
  OBVIOUS
<1>10. j \in Item /\ j \notin s.heap /\ j \in Node
  BY <1>2, <1>8 DEF Item
<1>24. PICK u : /\ u = Handle(s, packet)
                /\ u.tree = InsertAfter(s.tree, q, j, b) /\ u.heap = s.heap \cup {j}
                /\ u.text[j] = EmptyText /\ ~u.done[j] /\ u.id[j] = packet.item
                /\ \A x \in Item : x # j => u.text[x] = s.text[x] /\ u.done[x] = s.done[x]
                /\ \A x \in Node : x # j => u.id[x] = s.id[x]
  BY <1>7, <1>8, <1>10, ServerCreates
<1>9. Coherent(u) /\ u.done \in [Item -> BOOLEAN]
  <2>1. Coherent(u)
    BY <1>10, <1>24, HandleCoherent
  <2>2. QED BY <2>1, CopyParts
<1>11. Unlinked(s.tree, j) /\ \A x \in D : at[x] # j
  BY <1>1, <1>10 DEF Coherent
<1>12. PICK bt : /\ Pair(bt, D \cup {i}, t, s.tree) /\ bt[i] = j
                 /\ \A x \in D \cup {Nil} : bt[x] = at[x]
  <2>1. PICK v \in Tree : v = s.tree
    BY <1>2
  <2>2. Pair(at, D, t, v) /\ Unlinked(v, j) /\ j \in Item /\ \A x \in D : at[x] # j
    BY <1>1, <1>10, <1>11, <2>1
  <2>3. \E bt : /\ Pair(bt, D \cup {i}, t, v) /\ bt[i] = j
                /\ \A x \in D \cup {Nil} : bt[x] = at[x]
    BY <2>2, PairGrows, SMTT(30)
  <2>4. QED BY <2>1, <2>3
<1>13. /\ i \in (D \cup {i}) \ {Root} /\ p \in D \cup {i} /\ a \in ((D \cup {i}) \ {Root}) \cup {Nil}
       /\ bt[p] = q /\ bt[a] = b
  BY <1>5, <1>6, <1>12 DEF Item
<1>14. Pair(bt, D \cup {i}, InsertAfter(t, p, i, a), InsertAfter(s.tree, bt[p], bt[i], bt[a]))
  BY <1>2, <1>12, <1>13, PairInsert
<1>15. Pair(bt, D \cup {i}, InsertAfter(t, p, i, a), u.tree)
  BY <1>24, <1>12, <1>13, <1>14
<1>16. InTree(InsertAfter(t, p, i, a)) \subseteq InTree(t) \cup {i}
  <2>1. a \in ItemOrNil /\ a \in InTree(t) \cup {Nil} /\ t.firstChild[i] = Nil
    BY InTreeLeast DEF ItemOrNil, Item, Unlinked
  <2>2. QED BY <2>1, InsertReached
<1>17. /\ \A x \in D : bt[x] = at[x] /\ bt[x] # j
       /\ \A x \in Node : x # j => u.id[x] = s.id[x]
       /\ u.id[j] = packet.item
       /\ \A x \in Item : x # j => u.text[x] = s.text[x] /\ u.done[x] = s.done[x]
       /\ u.text[j] = EmptyText /\ u.done[j] = FALSE
  <2>1. u.done[j] = FALSE
    BY <1>9, <1>10, <1>24
  <2>2. QED BY <1>24, <1>11, <1>12, <2>1
<1>18. \A x \in D : bt[x] \in Node /\ (x # Root => bt[x] \in Item)
  BY <1>1, <1>17, PairNodes
<1>19. \A x \in D \cup {i} : bt[x] \in u.heap /\ u.id[bt[x]] = ids[x]
  BY <1>1, <1>24, <1>12, <1>17, <1>18
<1>20. \A y \in u.heap : \E x \in D \cup {i} : bt[x] = y
  BY <1>1, <1>24, <1>12, <1>17
<1>21. \A x \in InTree(InsertAfter(t, p, i, a)) \ {Root} : u.text[bt[x]] = texts[x] /\ u.done[bt[x]] = flags[x]
  <2>1. SUFFICES ASSUME NEW x \in InTree(InsertAfter(t, p, i, a)) \ {Root}
                 PROVE  u.text[bt[x]] = texts[x] /\ u.done[bt[x]] = flags[x]
    OBVIOUS
  <2>2. CASE x = i
    <3>1. flags[i] = FALSE
      BY DEF Unmarked
    <3>2. QED BY <1>12, <1>17, <2>2, <3>1
  <2>3. CASE x # i
    <3>1. x \in InTree(t) \ {Root} /\ x \in D
      BY <1>3, <1>16, <2>1, <2>3
    <3>2. bt[x] = at[x] /\ bt[x] # j /\ bt[x] \in Item
      BY <1>17, <1>18, <3>1
    <3>3. QED BY <1>1, <1>17, <3>1, <3>2
  <2>4. QED BY <2>2, <2>3
<1>22. Mirrors(bt, D \cup {i}, InsertAfter(t, p, i, a), texts, flags, ids, u)
  BY <1>15, <1>19, <1>20, <1>21 DEF Mirrors
<1>23. QED BY <1>24, <1>9, <1>22

\* A new text is mirrored; the server has no use for one that belongs to no item
\* of the tree.
LEMMA MirrorEdits ==
  ASSUME NEW s, Coherent(s), NEW t \in Tree, NEW at, NEW D, NEW texts, NEW flags, NEW ids,
         Mirrors(at, D, t, texts, flags, ids, s),
         NEW i \in Item, \A y \in D : ids[y] = ids[i] => y = i, NEW texts2,
         \A x \in Item \ {i} : texts2[x] = texts[x],
         NEW packet \in Packet, packet.type = "PT_ITEM_CHANGED", packet.item = ids[i],
         packet.text = texts2[i]
  PROVE  \E u : /\ u = Handle(s, packet) /\ Coherent(u)
                /\ Mirrors(at, D, t, texts2, flags, ids, u)
<1>1. /\ Pair(at, D, t, s.tree) /\ \A x \in D : at[x] \in s.heap /\ s.id[at[x]] = ids[x]
      /\ \A y \in s.heap : \E x \in D : at[x] = y
      /\ \A x \in InTree(t) \ {Root} : s.text[at[x]] = texts[x] /\ s.done[at[x]] = flags[x]
  BY DEF Mirrors
<1>2. s.tree \in Tree /\ s.text \in [Item -> Text] /\ i # Root
  BY CopyParts DEF Item
<1>3. PICK u, j : /\ u = Handle(s, packet) /\ j = Found(s, packet.item)
                  /\ u.text = IF j = Nil THEN s.text ELSE [s.text EXCEPT ![j] = packet.text]
                  /\ u.heap = s.heap /\ u.tree = s.tree /\ u.done = s.done /\ u.id = s.id
  BY ServerEdits
<1>4. Coherent(u)
  BY <1>3, HandleCoherent
<1>5. /\ j = IF i \in InTree(t) THEN at[i] ELSE Nil
      /\ i \in InTree(t) => at[i] \in Item /\ i \in D
  BY <1>2, <1>3, MirrorFinds
<1>6. \A x \in InTree(t) \ {Root} : x \in D /\ at[x] \in Item /\ x \in Item
  BY <1>1, <1>2, PairTrees, PairNodes
<1>7. ASSUME NEW x \in InTree(t) \ {Root} PROVE u.text[at[x]] = texts2[x]
  <2>1. CASE x = i
    <3>1. j = at[i] /\ j # Nil /\ j \in Item
      BY <1>5, <2>1, NodeAssumption DEF Item
    <3>2. u.text[j] = packet.text
      BY <1>2, <1>3, <3>1
    <3>3. QED BY <2>1, <3>1, <3>2
  <2>2. CASE x # i
    <3>1. i \in InTree(t) => at[x] # at[i]
      BY <1>1, <1>5, <1>6, <2>2, PairNodes
    <3>2. u.text[at[x]] = s.text[at[x]]
      BY <1>2, <1>3, <1>5, <1>6, <3>1
    <3>3. QED BY <1>1, <1>6, <2>2, <3>2
  <2>3. QED BY <2>1, <2>2
<1>8. Mirrors(at, D, t, texts2, flags, ids, u)
  BY <1>1, <1>3, <1>7 DEF Mirrors
<1>9. QED BY <1>3, <1>4, <1>8

\* A mark is mirrored.
LEMMA MirrorMarks ==
  ASSUME NEW s, Coherent(s), NEW t \in Tree, NEW at, NEW D, NEW texts, NEW flags, NEW ids,
         Mirrors(at, D, t, texts, flags, ids, s), \A x, y \in D : ids[x] = ids[y] => x = y,
         NEW i \in InTree(t) \ {Root}, NEW flags2, \A x \in Item \ {i} : flags2[x] = flags[x],
         NEW packet \in Packet, packet.type = "PT_ITEM_DONE_CHANGED", packet.item = ids[i],
         packet.done = flags2[i]
  PROVE  \E u : /\ u = Handle(s, packet) /\ Coherent(u)
                /\ Mirrors(at, D, t, texts, flags2, ids, u)
<1>1. /\ Pair(at, D, t, s.tree) /\ \A x \in D : at[x] \in s.heap /\ s.id[at[x]] = ids[x]
      /\ \A y \in s.heap : \E x \in D : at[x] = y
      /\ \A x \in InTree(t) \ {Root} : s.text[at[x]] = texts[x] /\ s.done[at[x]] = flags[x]
  BY DEF Mirrors
<1>2. s.tree \in Tree /\ s.done \in [Item -> BOOLEAN]
  BY CopyParts
<1>3. PICK u, j : /\ u = Handle(s, packet) /\ j = Found(s, packet.item)
                  /\ u.done = IF j = Nil THEN s.done ELSE [s.done EXCEPT ![j] = packet.done]
                  /\ u.heap = s.heap /\ u.tree = s.tree /\ u.text = s.text /\ u.id = s.id
  BY ServerMarks
<1>4. Coherent(u)
  BY <1>3, HandleCoherent
<1>5. \A x \in InTree(t) \ {Root} : x \in D /\ at[x] \in Item /\ x \in Item
  BY <1>1, <1>2, PairTrees, PairNodes
<1>6. j = at[i]
  <2>1. \A y \in D : ids[y] = ids[i] => y = i
    BY <1>5
  <2>2. QED BY <1>3, <2>1, MirrorFinds
<1>7. j \in Item /\ j # Nil
  BY <1>5, <1>6, NodeAssumption DEF Item
<1>8. ASSUME NEW x \in InTree(t) \ {Root} PROVE u.done[at[x]] = flags2[x]
  <2>1. CASE x = i
    BY <1>2, <1>3, <1>6, <1>7, <2>1
  <2>2. CASE x # i
    <3>1. at[x] # j
      BY <1>1, <1>5, <1>6, <2>2, PairNodes
    <3>2. u.done[at[x]] = s.done[at[x]]
      BY <1>2, <1>3, <1>5, <1>7, <3>1
    <3>3. QED BY <1>1, <1>5, <2>2, <3>2
  <2>3. QED BY <2>1, <2>2
<1>9. Mirrors(at, D, t, texts, flags2, ids, u)
  BY <1>1, <1>3, <1>8 DEF Mirrors
<1>10. QED BY <1>3, <1>4, <1>9

---------------------------------------------------------------------------
(* A command, an undo and a redo are mirrored.                             *)

\* An item put into a tree has the place it was given, or is first.
LEMMA AddPlaces ==
  ASSUME NEW t \in Tree, NEW p \in Node, NEW i \in Item, Detached(t, i), NEW b \in ItemOrNil, b # i
  PROVE  \E a : /\ a \in {b, Nil} /\ a \in ItemOrNil /\ ~WrongAfter(t, p, a)
                /\ AddAsChild(t, p, i, b) = InsertAfter(t, p, i, a)
                /\ AddAsChild(t, p, i, b).parent[i] = p /\ AddAsChild(t, p, i, b).prev[i] = a
<1>1. PICK a : a = IF WrongAfter(t, p, b) THEN Nil ELSE b
  OBVIOUS
<1>2. a \in {b, Nil} /\ a \in ItemOrNil /\ ~WrongAfter(t, p, a)
  BY <1>1 DEF WrongAfter, ItemOrNil
<1>3. PICK u : u = InsertAfter(t, p, i, a)
  OBVIOUS
<1>4. AddAsChild(t, p, i, b) = u
  BY <1>1, <1>3 DEF AddAsChild
<1>5. i \in Node /\ i # Nil
  BY NodeAssumption DEF Item
<1>6. PICK f : f = IF a = Nil THEN t.firstChild[p] ELSE t.next[a]
  OBVIOUS
<1>7. /\ u.parent[i] = p
      /\ u.prev[i] = IF i = i /\ a # Nil THEN a ELSE IF i = f THEN i ELSE t.prev[i]
  BY <1>2, <1>3, <1>5, <1>6, InsertFields
<1>8. a = Nil => f # i /\ t.prev[i] = Nil
  BY <1>6 DEF Detached
<1>9. u.prev[i] = a
  BY <1>7, <1>8
<1>10. QED BY <1>2, <1>3, <1>4, <1>7, <1>9

\* An item that is moved goes to a place in the tree.
LEMMA MoveWithin ==
  ASSUME NEW t \in Tree, LinksAgree(t), ChainsEnd(t), Hung(t), NEW i \in Item, Linked(t, i),
         NEW p \in Node, NEW b \in ItemOrNil, b # i,
         NEW u \in Tree, u = AddAsChild(DetachFromTree(t, i), p, i, b), LinksAgree(u), Hung(u)
  PROVE  \E a : /\ u = InsertAfter(DetachFromTree(t, i), p, i, a) /\ u.parent[i] = p /\ u.prev[i] = a
                /\ p \in InTree(t) /\ a \in (InTree(t) \ {Root}) \cup {Nil} /\ ~WrongAfter(t, p, a)
                /\ i \in InTree(t) \ {Root} /\ InTree(u) \subseteq InTree(t)
<1>1. PICK d : d = DetachFromTree(t, i)
  OBVIOUS
<1>2. d \in Tree /\ LinksAgree(d) /\ ChainsEnd(d) /\ Detached(d, i) /\ d.parent = t.parent
  BY <1>1, DetachTyped, DetachLinks, DetachChains, DetachDetaches DEF DetachFromTree
<1>3. PICK a : /\ a \in ItemOrNil /\ ~WrongAfter(d, p, a) /\ u = InsertAfter(d, p, i, a)
               /\ u.parent[i] = p /\ u.prev[i] = a
  BY <1>1, <1>2, AddPlaces
<1>4. ~WrongAfter(t, p, a)
  BY <1>2, <1>3 DEF WrongAfter
<1>5. i \in Node /\ i # Root
  BY DEF Item
<1>6. i \in InTree(t) \ {Root}
  BY <1>5, HungLinked
<1>7. ASSUME NEW x \in InTree(u) PROVE x \in InTree(t)
  <2>1. CASE x = Root
    BY <2>1, InTreeLeast
  <2>2. CASE x = i
    BY <1>6, <2>2
  <2>3. CASE x # Root /\ x # i
    <3>1. x \in Item /\ x \in Node /\ x \in InTree(u) \ {Root}
      BY <2>3, InTreeLeast DEF Item
    <3>2. Linked(u, x)
      BY <3>1, ReachedLinked
    <3>3. Linked(d, x)
      BY <1>1, <1>2, <2>3, <3>1, <3>2, AddLinked
    <3>4. Linked(t, x)
      BY <1>1, <2>3, <3>1, <3>3, HungWhole, DetachLinked
    <3>5. QED BY <3>1, <3>4, HungLinked
  <2>4. QED BY <2>1, <2>2, <2>3
<1>8. i \in InTree(u) \ {Root}
  <2>1. Linked(u, i)
    BY <1>1, <1>2, AddLinked
  <2>2. QED BY <1>5, <2>1, HungLinked
<1>9. OnwardAgree(u)
  BY AgreeOnward
<1>10. u.parent[i] \in InTree(u) /\ (u.prev[i] # Nil => u.prev[i] \in InTree(u) \ {Root})
  BY <1>8, <1>9, InTreeBack
<1>11. p \in InTree(t) /\ a \in (InTree(t) \ {Root}) \cup {Nil}
  BY <1>3, <1>7, <1>10
<1>12. QED BY <1>1, <1>3, <1>4, <1>6, <1>7, <1>11

\* An item out of the heap is not marked, and no two items share an id.
Named == /\ \A x, y \in heap : itemId[x] = itemId[y] => x = y
         /\ \A x \in heap : itemId[x] < nextId
         /\ \A x \in Item \ heap : ~done[x]

\* A copy that mirrors the client's document.
Mirrored(s) == \E at, D : D \subseteq heap /\ Mirrors(at, D, tree, text, done, itemId, s)

\* Before and after a step of the user.
Steady == /\ IndInv /\ Held /\ Numbered(itemId, heap) /\ Named
          /\ done \in [Node -> BOOLEAN] /\ Sane(tree.parent, heap)

\* A signal is told with a packet after which the server's copy mirrors the
\* document again.
Told(n, i, s) ==
  \E e \in Packet : \E u :
    /\ PacketOf(Sig(n, i)) = <<e>> /\ u = Handle(s, e) /\ Coherent(u)
    /\ \E at, D : D \subseteq heap' /\ Mirrors(at, D, tree', text', done, itemId', u)

\* The packets are packets.
LEMMA OneTold ==
  ASSUME Steady', NEW n, NEW i \in Item, i \in heap', NEW e, PacketOf(Sig(n, i)) = <<e>>
  PROVE  e \in Packet
<1>1. Numbered(itemId, heap)' /\ TypeOK' /\ Sane(tree.parent, heap)'
  BY DEF Steady, IndInv
<1>2. PacketOf(Sig(n, i)) \in Seq(Packet)
  BY <1>1, TellsPackets
<1>3. <<e>> \in Seq(Packet)
  BY <1>2
<1>4. Len(<<e>>) = 1 /\ <<e>>[1] = e /\ 1 \in 1..1
  OBVIOUS
<1>5. QED BY <1>3, <1>4

\* What the trees before and after are.
LEMMA SteadyTrees ==
  ASSUME Steady
  PROVE  /\ tree \in Tree /\ LinksAgree(tree) /\ ChainsEnd(tree) /\ Hung(tree)
         /\ heap \in SUBSET Node /\ Root \in heap /\ text \in [Item -> Text]
         /\ itemId \in [Node -> Nat] /\ OnScreen = InTree(tree) \ {Root}
         /\ InTree(tree) \subseteq heap
<1>1. IndInv /\ Held /\ Numbered(itemId, heap)
  BY DEF Steady
<1>2. TypeOK /\ FreshUnlinked
  BY <1>1 DEF IndInv
<1>3. /\ tree \in Tree /\ LinksAgree(tree) /\ ChainsEnd(tree) /\ Hung(tree)
      /\ OnScreen = InTree(tree) \ {Root}
  BY <1>1, HeldShows
<1>4. heap \in SUBSET Node /\ Root \in heap /\ text \in [Item -> Text] /\ itemId \in [Node -> Nat]
  BY <1>1, <1>2 DEF TypeOK, Numbered
<1>5. InTree(tree) \subseteq heap
  <2>1. \A x \in Item \ heap : Unlinked(tree, x)
    BY <1>2 DEF FreshUnlinked
  <2>2. QED BY <1>3, <1>4, <2>1, TreeOnHeap
<1>6. QED BY <1>3, <1>4, <1>5

\* A deletion.
LEMMA DeletionTold ==
  ASSUME Steady, Steady', NumberNewItem, NEW s, Coherent(s), Mirrored(s),
         NEW i \in Item, Linked(tree, i), DetachItem(i)
  PROVE  Told("itemDeleted", i, s)
<1>1. /\ tree \in Tree /\ LinksAgree(tree) /\ ChainsEnd(tree) /\ Hung(tree)
      /\ heap \in SUBSET Node /\ itemId \in [Node -> Nat] /\ InTree(tree) \subseteq heap
  BY SteadyTrees
<1>2. tree' = DetachFromTree(tree, i) /\ heap' = heap /\ text' = text
  BY DEF DetachItem
<1>3. itemId' = itemId
  BY <1>1, <1>2 DEF NumberNewItem
<1>4. i \in InTree(tree) \ {Root} /\ i \in heap
  <2>1. i \in Node /\ i # Root
    BY DEF Item
  <2>2. QED BY <1>1, <2>1, HungLinked
<1>5. PICK v : v = DetachFromTree(tree, i)
  OBVIOUS
<1>6. InTree(v) \subseteq InTree(tree)
  BY <1>1, <1>4, <1>5, DetachReached
<1>7. PICK e : e = Descriptor("PT_ITEM_DELETED", i)
  OBVIOUS
<1>8. PacketOf(Sig("itemDeleted", i)) = <<e>>
  BY <1>7 DEF PacketOf, Sig
<1>9. e.type = "PT_ITEM_DELETED" /\ e.item = itemId[i]
  BY <1>3, <1>7 DEF Descriptor
<1>10. e \in Packet
  BY <1>2, <1>4, <1>8, OneTold
<1>11. PICK at, D : D \subseteq heap /\ Mirrors(at, D, tree, text, done, itemId, s)
  BY DEF Mirrored
<1>12. \A x, y \in D : itemId[x] = itemId[y] => x = y
  BY <1>11 DEF Steady, Named
<1>13. \E u : /\ u = Handle(s, e) /\ Coherent(u)
              /\ Mirrors(at, D, DetachFromTree(tree, i), text, done, itemId, u)
  BY <1>1, <1>4, <1>5, <1>6, <1>9, <1>10, <1>11, <1>12, MirrorDeletes
<1>14. PICK u : /\ u = Handle(s, e) /\ Coherent(u)
                /\ Mirrors(at, D, DetachFromTree(tree, i), text, done, itemId, u)
  BY <1>13
<1>15. D \subseteq heap' /\ Mirrors(at, D, tree', text', done, itemId', u)
  BY <1>2, <1>3, <1>11, <1>14
<1>16. QED BY <1>8, <1>10, <1>14, <1>15 DEF Told

\* A move.
LEMMA MoveTold ==
  ASSUME Steady, Steady', NumberNewItem, NEW s, Coherent(s), Mirrored(s),
         NEW i \in Item, Linked(tree, i), NEW p \in Node, NEW b \in ItemOrNil, b # i, MakeMove(i, p, b)
  PROVE  Told("itemModified", i, s)
<1>1. /\ tree \in Tree /\ LinksAgree(tree) /\ ChainsEnd(tree) /\ Hung(tree)
      /\ heap \in SUBSET Node /\ itemId \in [Node -> Nat] /\ InTree(tree) \subseteq heap
  BY SteadyTrees
<1>2. tree' = AddAsChild(DetachFromTree(tree, i), p, i, b) /\ heap' = heap /\ text' = text
  BY DEF MakeMove
<1>3. itemId' = itemId
  BY <1>1, <1>2 DEF NumberNewItem
<1>4. tree' \in Tree /\ LinksAgree(tree') /\ Hung(tree')
  <2>1. (Steady => tree \in Tree /\ LinksAgree(tree) /\ Hung(tree))'
    BY SteadyTrees, PTL
  <2>2. QED BY <2>1
<1>5. PICK v : v = tree'
  OBVIOUS
<1>6. v \in Tree /\ v = AddAsChild(DetachFromTree(tree, i), p, i, b) /\ LinksAgree(v) /\ Hung(v)
  BY <1>2, <1>4, <1>5
<1>7. PICK a : /\ v = InsertAfter(DetachFromTree(tree, i), p, i, a) /\ v.parent[i] = p /\ v.prev[i] = a
               /\ p \in InTree(tree) /\ a \in (InTree(tree) \ {Root}) \cup {Nil} /\ ~WrongAfter(tree, p, a)
               /\ i \in InTree(tree) \ {Root} /\ InTree(v) \subseteq InTree(tree)
  BY <1>1, <1>6, MoveWithin
<1>8. PICK e : e = Descriptor("PT_ITEM_MOVED", i)
  OBVIOUS
<1>9. PacketOf(Sig("itemModified", i)) = <<e>>
  BY <1>8 DEF PacketOf, Sig
<1>10. /\ e.type = "PT_ITEM_MOVED" /\ e.item = itemId[i] /\ e.parent = itemId[p]
       /\ e.prev = IF a = Nil THEN NoId ELSE itemId[a]
  BY <1>3, <1>5, <1>7, <1>8 DEF Descriptor
<1>11. e \in Packet
  BY <1>1, <1>2, <1>7, <1>9, OneTold
<1>12. PICK at, D : D \subseteq heap /\ Mirrors(at, D, tree, text, done, itemId, s)
  BY DEF Mirrored
<1>13. \A x, y \in D : itemId[x] = itemId[y] => x = y
  BY <1>12 DEF Steady, Named
<1>14. InTree(InsertAfter(DetachFromTree(tree, i), p, i, a)) \subseteq InTree(tree)
  BY <1>7
<1>15. \E u : /\ u = Handle(s, e) /\ Coherent(u)
              /\ Mirrors(at, D, InsertAfter(DetachFromTree(tree, i), p, i, a), text, done, itemId, u)
  <2>1. /\ tree \in Tree /\ i \in InTree(tree) \ {Root} /\ p \in InTree(tree)
        /\ a \in (InTree(tree) \ {Root}) \cup {Nil} /\ ~WrongAfter(tree, p, a)
        /\ Mirrors(at, D, tree, text, done, itemId, s)
    BY <1>1, <1>7, <1>12
  <2>2. QED BY <2>1, <1>10, <1>11, <1>13, <1>14, MirrorMoves
<1>16. PICK u : /\ u = Handle(s, e) /\ Coherent(u)
                /\ Mirrors(at, D, InsertAfter(DetachFromTree(tree, i), p, i, a), text, done, itemId, u)
  BY <1>15
<1>17. D \subseteq heap' /\ Mirrors(at, D, tree', text', done, itemId', u)
  BY <1>2, <1>3, <1>5, <1>7, <1>12, <1>16
<1>18. QED BY <1>9, <1>11, <1>16, <1>17 DEF Told

\* A new text.
LEMMA EditTold ==
  ASSUME Steady, Steady', NumberNewItem, NEW s, Coherent(s), Mirrored(s),
         NEW i \in Item, i \in heap, NEW v, MakeEdit(i, v)
  PROVE  Told("itemTextChanged", i, s)
<1>1. /\ tree \in Tree /\ heap \in SUBSET Node /\ itemId \in [Node -> Nat] /\ text \in [Item -> Text]
  BY SteadyTrees
<1>2. tree' = tree /\ heap' = heap /\ text' = [text EXCEPT ![i] = v]
  BY DEF MakeEdit
<1>3. itemId' = itemId
  BY <1>1, <1>2 DEF NumberNewItem
<1>4. PICK texts : texts = text'
  OBVIOUS
<1>5. \A x \in Item \ {i} : texts[x] = text[x]
  BY <1>1, <1>2, <1>4
<1>6. PICK e : e = [type |-> "PT_ITEM_CHANGED", item |-> itemId'[i], text |-> text'[i]]
  OBVIOUS
<1>7. PacketOf(Sig("itemTextChanged", i)) = <<e>>
  BY <1>6 DEF PacketOf, Sig
<1>8. e.type = "PT_ITEM_CHANGED" /\ e.item = itemId[i] /\ e.text = texts[i]
  BY <1>3, <1>4, <1>6
<1>9. e \in Packet
  BY <1>2, <1>7, OneTold
<1>10. PICK at, D : D \subseteq heap /\ Mirrors(at, D, tree, text, done, itemId, s)
  BY DEF Mirrored
<1>11. \A y \in D : itemId[y] = itemId[i] => y = i
  BY <1>10 DEF Steady, Named
<1>12. \E u : /\ u = Handle(s, e) /\ Coherent(u)
              /\ Mirrors(at, D, tree, texts, done, itemId, u)
  BY <1>1, <1>5, <1>8, <1>9, <1>10, <1>11, MirrorEdits
<1>13. PICK u : /\ u = Handle(s, e) /\ Coherent(u)
                /\ Mirrors(at, D, tree, texts, done, itemId, u)
  BY <1>12
<1>14. D \subseteq heap' /\ Mirrors(at, D, tree', text', done, itemId', u)
  BY <1>2, <1>3, <1>4, <1>10, <1>13
<1>15. QED BY <1>7, <1>9, <1>13, <1>14 DEF Told

\* A creation.
LEMMA CreationTold ==
  ASSUME Steady, Steady', NumberNewItem, NEW s, Coherent(s), Mirrored(s),
         NEW i \in Item, NEW p \in InTree(tree), NEW b \in ItemOrNil, b # Nil => b \in InTree(tree),
         MakeCreate(p, i, b)
  PROVE  Told("itemCreated", i, s)
<1>1. /\ tree \in Tree /\ LinksAgree(tree) /\ text \in [Item -> Text] /\ p \in Node
      /\ heap \in SUBSET Node /\ itemId \in [Node -> Nat] /\ InTree(tree) \subseteq heap
  BY SteadyTrees
<1>2. /\ i \notin heap /\ tree' = AddAsChild(tree, p, i, b) /\ heap' = heap \cup {i}
      /\ text' = [text EXCEPT ![i] = EmptyText]
  BY DEF MakeCreate
<1>3. Unlinked(tree, i) /\ Detached(tree, i) /\ b # i
  <2>1. IndInv /\ i \in Item \ heap
    BY <1>2 DEF Steady
  <2>2. Detached(tree, i)
    BY <2>1, FreshDetached
  <2>3. Unlinked(tree, i)
    BY <2>1 DEF IndInv, FreshUnlinked
  <2>4. b # i
    BY <1>1, <1>2, NodeAssumption DEF Item
  <2>5. QED BY <2>2, <2>3, <2>4
<1>4. PICK v, texts, jds : v = tree' /\ texts = text' /\ jds = itemId'
  OBVIOUS
<1>5. PICK a : /\ a \in {b, Nil} /\ ~WrongAfter(tree, p, a) /\ v = InsertAfter(tree, p, i, a)
               /\ v.parent[i] = p /\ v.prev[i] = a
  BY <1>1, <1>2, <1>3, <1>4, AddPlaces
<1>6. a \in (InTree(tree) \ {Root}) \cup {Nil} /\ (a # Nil => a \in heap)
  BY <1>1, <1>5 DEF ItemOrNil, Item
<1>7. /\ \A x \in heap : jds[x] = itemId[x]
  BY <1>1, <1>4 DEF NumberNewItem
<1>8. texts[i] = EmptyText /\ \A x \in Item : x # i => texts[x] = text[x]
  BY <1>1, <1>2, <1>4
<1>9. PICK e : e = Descriptor("PT_ITEM_CREATED", i)
  OBVIOUS
<1>10. PacketOf(Sig("itemCreated", i)) = <<e>>
  BY <1>9 DEF PacketOf, Sig
<1>11. /\ e.type = "PT_ITEM_CREATED" /\ e.item = jds[i] /\ e.parent = itemId[p]
       /\ e.prev = IF a = Nil THEN NoId ELSE itemId[a]
  <2>1. jds[p] = itemId[p] /\ (a # Nil => jds[a] = itemId[a])
    BY <1>1, <1>6, <1>7
  <2>2. QED BY <1>4, <1>5, <1>9, <2>1 DEF Descriptor
<1>12. e \in Packet
  BY <1>2, <1>10, OneTold
<1>13. PICK at, D : D \subseteq heap /\ Mirrors(at, D, tree, text, done, itemId, s)
  BY DEF Mirrored
<1>14. /\ \A x, y \in D : itemId[x] = itemId[y] => x = y
       /\ i \notin D /\ ~done[i] /\ done \in [Node -> BOOLEAN]
       /\ \A x \in D : jds[x] = itemId[x]
  BY <1>2, <1>7, <1>13 DEF Steady, Named
<1>15. PICK z \in Node : z \notin s.heap
  <2>1. Pair(at, D, tree, s.tree) /\ \A y \in s.heap : \E x \in D : at[x] = y
    BY <1>13 DEF Mirrors
  <2>2. SUFFICES ASSUME \A y \in Node : y \in s.heap PROVE FALSE
    OBVIOUS
  <2>3. D \subseteq Node /\ \A y \in Node : \E x \in D : at[x] = y
    BY <1>1, <1>13, <2>1, <2>2
  <2>4. D = Node
    BY <2>3, HeapFinite, OntoMore
  <2>5. QED BY <1>14, <2>4 DEF Item
<1>16. NextFree(s.heap) \in Item \ s.heap /\ Mirrors(at, D, tree, texts, done, jds, s)
  <2>1. \A x \in InTree(tree) \ {Root} : texts[x] = text[x]
    BY <1>1, <1>2, <1>8 DEF Item
  <2>2. Mirrors(at, D, tree, texts, done, jds, s)
    BY <1>13, <1>14, <2>1 DEF Mirrors
  <2>3. s.heap \in SUBSET Node /\ Root \in s.heap
    BY CopyParts DEF Coherent
  <2>4. QED BY <1>15, <2>2, <2>3, Allocates
<1>17. PICK flags \in [Node -> BOOLEAN] : flags = done
  BY <1>14
<1>18. \A x, y \in D : jds[x] = jds[y] => x = y
  BY <1>14
<1>19. e.parent = jds[p] /\ e.prev = IF a = Nil THEN NoId ELSE jds[a]
  BY <1>1, <1>6, <1>7, <1>11
<1>20. PICK w, r, E : w = InsertAfter(tree, p, i, a) /\ r = Handle(s, e) /\ E = D \cup {i}
  OBVIOUS
<1>21. Coherent(r) /\ \E bt : Mirrors(bt, E, w, texts, flags, jds, r)
  <2>1. /\ NextFree(s.heap) \in Item \ s.heap /\ tree \in Tree /\ LinksAgree(tree)
        /\ Mirrors(at, D, tree, texts, flags, jds, s) /\ i \notin D /\ Unlinked(tree, i)
        /\ a \in (InTree(tree) \ {Root}) \cup {Nil} /\ ~WrongAfter(tree, p, a)
        /\ texts[i] = EmptyText
        /\ e \in Packet /\ e.type = "PT_ITEM_CREATED" /\ e.item = jds[i]
    BY <1>1, <1>3, <1>5, <1>6, <1>8, <1>11, <1>12, <1>14, <1>16, <1>17
  <2>2. flags[i] = FALSE
    BY <1>14, <1>17 DEF Item
  <2>3. Unmarked(flags, i)
    BY <2>2 DEF Unmarked
  <2>4. QED BY <2>1, <2>3, <1>18, <1>19, <1>20, MirrorCreates
<1>22. PICK u, bt : /\ u = Handle(s, e) /\ Coherent(u)
                    /\ Mirrors(bt, D \cup {i}, InsertAfter(tree, p, i, a), texts, done, jds, u)
  BY <1>17, <1>20, <1>21
<1>23. D \cup {i} \subseteq heap' /\ Mirrors(bt, D \cup {i}, tree', text', done, itemId', u)
  BY <1>2, <1>4, <1>5, <1>13, <1>22
<1>24. QED BY <1>10, <1>12, <1>22, <1>23 DEF Told

\* The last signal of a step is about an item of the heap.
SignalTold(s) == \E i \in Item : \E n : signals'[Len(signals')] = Sig(n, i) /\ Told(n, i, s)

\* An action made on an item that is linked, or on a new one next to items of
\* the tree.
LEMMA MakeTold ==
  ASSUME Steady, Steady', NumberNewItem, NEW s, Coherent(s), Mirrored(s),
         NEW x, Makeable(x), NEW i \in Item, Make(x, i),
         x.kind = "create" => /\ x.parent \in InTree(tree)
                              /\ x.prev # Nil => x.prev \in InTree(tree),
         x.kind \in {"delete", "move"} => Linked(tree, x.item)
  PROVE  SignalTold(s)
<1>1. CASE x.kind = "create"
  <2>1. MakeCreate(x.parent, i, x.prev) /\ x.prev \in ItemOrNil
    BY <1>1 DEF Make, Makeable, Action, DeleteAction, EditAction, MoveAction, CreateAction
  <2>2. Told("itemCreated", i, s)
    BY <1>1, <2>1, CreationTold
  <2>3. signals' = <<Sig("itemAdded", i), Sig("itemCreated", i)>>
    BY <2>1 DEF MakeCreate
  <2>4. Len(signals') = 2 /\ signals'[2] = Sig("itemCreated", i)
    BY <2>3
  <2>5. QED BY <2>2, <2>4 DEF SignalTold
<1>2. CASE x.kind # "create"
  <2>1. x \in Action /\ Allocated(x) /\ i = x.item
    BY <1>2 DEF Make, Makeable
  <2>2. heap \in SUBSET Node
    BY SteadyTrees
  <2>3. /\ x.kind \in {"delete", "edit", "move"} /\ x.item \in Item /\ x.item \in heap
        /\ x.kind = "move" => /\ x.newParent \in heap /\ x.newParent \in Node
                              /\ x.newPrev \in ItemOrNil /\ x.newPrev # x.item
    BY <1>2, <2>1, <2>2, ActionParts
  <2>4. CASE x.kind = "delete"
    <3>1. DetachItem(i)
      BY <2>1, <2>4 DEF Make
    <3>2. Told("itemDeleted", i, s)
      BY <2>1, <2>4, <3>1, DeletionTold
    <3>3. signals'[Len(signals')] = Sig("itemDeleted", i)
      BY <3>1 DEF DetachItem
    <3>4. QED BY <3>2, <3>3 DEF SignalTold
  <2>5. CASE x.kind = "edit"
    <3>1. MakeEdit(i, x.after)
      BY <2>1, <2>5 DEF Make
    <3>2. i \in heap
      BY <2>1, <2>3
    <3>3. Told("itemTextChanged", i, s)
      BY <3>1, <3>2, EditTold
    <3>4. signals'[Len(signals')] = Sig("itemTextChanged", i)
      BY <3>1 DEF MakeEdit
    <3>5. QED BY <3>3, <3>4 DEF SignalTold
  <2>6. CASE x.kind = "move"
    <3>1. MakeMove(i, x.newParent, x.newPrev)
      BY <2>1, <2>6 DEF Make
    <3>2. Linked(tree, i) /\ x.newParent \in Node /\ x.newPrev \in ItemOrNil /\ x.newPrev # i
      BY <2>1, <2>3, <2>6
    <3>3. Told("itemModified", i, s)
      BY <3>1, <3>2, MoveTold
    <3>4. signals'[Len(signals')] = Sig("itemModified", i)
      BY <3>1 DEF MakeMove
    <3>5. QED BY <3>3, <3>4 DEF SignalTold
  <2>7. QED BY <2>3, <2>4, <2>5, <2>6
<1>3. QED BY <1>1, <1>2

\* A command.
LEMMA CommandTold ==
  ASSUME Steady, Steady', NumberNewItem, NEW s, Coherent(s), Mirrored(s), Command
  PROVE  SignalTold(s)
<1>1. IndInv /\ Held
  BY DEF Steady
<1>2. PICK x : Commanded(x)
  BY <1>1, CommandMakes
<1>3. PICK i \in Item : Make(x, i)
  BY <1>2 DEF Commanded, DoAction
<1>4. /\ Screened /\ Whole(tree) /\ OnScreen = InTree(tree) \ {Root}
      /\ tree \in Tree /\ LinksAgree(tree) /\ Hung(tree)
  BY <1>1, HeldShows
<1>5. Makeable(x) /\ Taken(x)
  BY <1>2 DEF Commanded
<1>6. x.kind = "create" => /\ x.parent \in InTree(tree)
                           /\ x.prev # Nil => x.prev \in InTree(tree)
  <2>1. SUFFICES ASSUME x.kind = "create"
                 PROVE  x.parent \in InTree(tree) /\ (x.prev # Nil => x.prev \in InTree(tree))
    OBVIOUS
  <2>2. x.parent \in OnScreen \cup {Root} /\ (x.prev = Nil \/ Hangs(x.prev)) /\ x.prev \in ItemOrNil
    BY <1>5, <2>1 DEF Taken, Makeable
  <2>3. x.parent \in InTree(tree)
    BY <1>4, <2>2, InTreeLeast
  <2>4. ASSUME x.prev # Nil PROVE x.prev \in InTree(tree)
    <3>1. x.prev \in Item /\ Hangs(x.prev) /\ x.prev \in Node
      BY <2>2, <2>4 DEF ItemOrNil, Item
    <3>2. Linked(tree, x.prev)
      BY <1>1, <1>4, <3>1, HangingLinked
    <3>3. QED BY <1>4, <3>1, <3>2, HungLinked
  <2>5. QED BY <2>3, <2>4
<1>7. x.kind \in {"delete", "move"} => Linked(tree, x.item)
  <2>1. SUFFICES ASSUME x.kind \in {"delete", "move"} PROVE Linked(tree, x.item)
    OBVIOUS
  <2>2. x.item \in OnScreen
    BY <1>5, <2>1 DEF Taken
  <2>3. QED BY <1>4, <2>2, ReachedLinked
<1>8. QED BY <1>3, <1>5, <1>6, <1>7, MakeTold

\* An undo of anything but a deletion.
LEMMA UndoTold ==
  ASSUME Steady, Steady', NumberNewItem, NEW s, Coherent(s), Mirrored(s),
         UndoLastAction, Last(actionList).kind # "delete"
  PROVE  SignalTold(s)
<1>1. IndInv /\ Held
  BY DEF Steady
<1>2. PICK x \in Action : /\ Allocated(x) /\ Revert(x) /\ Did(x, Current', Current)
                          /\ x.kind # "delete" /\ Current' \in Doc
  BY <1>1, UndoHeld
<1>3. PICK u : u = Current'
  OBVIOUS
<1>4. /\ Did(x, u, Current) /\ u \in Doc /\ u.tree \in Tree /\ LinksAgree(u.tree) /\ ChainsEnd(u.tree)
      /\ Current.tree = tree
  BY <1>2, <1>3 DEF Doc, Current
<1>5. heap \in SUBSET Node
  BY SteadyTrees
<1>6. /\ x.kind \in {"create", "edit", "move"} /\ x.item \in Item /\ x.item \in heap
      /\ x.kind = "create" => x.parent \in Node /\ x.prev \in ItemOrNil
      /\ x.kind = "move" => /\ x.oldParent \in Node /\ x.newParent \in Node
                            /\ x.oldPrev \in ItemOrNil /\ x.oldPrev # x.item
                            /\ x.newPrev \in ItemOrNil /\ x.newPrev # x.item
  BY <1>2, <1>5, ActionParts
<1>7. CASE x.kind = "create"
  <2>1. DetachItem(x.item)
    BY <1>2, <1>7 DEF Revert
  <2>2. /\ Detached(u.tree, x.item) /\ x.prev # x.item
        /\ tree = AddAsChild(u.tree, x.parent, x.item, x.prev)
    BY <1>4, <1>7 DEF Did
  <2>3. Linked(tree, x.item)
    BY <1>4, <1>6, <1>7, <2>2, AddLinked
  <2>4. Told("itemDeleted", x.item, s)
    BY <1>6, <2>1, <2>3, DeletionTold
  <2>5. signals'[Len(signals')] = Sig("itemDeleted", x.item)
    BY <2>1 DEF DetachItem
  <2>6. QED BY <1>6, <2>4, <2>5 DEF SignalTold
<1>8. CASE x.kind = "edit"
  <2>1. MakeEdit(x.item, x.before)
    BY <1>2, <1>8 DEF Revert
  <2>2. Told("itemTextChanged", x.item, s)
    BY <1>6, <2>1, EditTold
  <2>3. signals'[Len(signals')] = Sig("itemTextChanged", x.item)
    BY <2>1 DEF MakeEdit
  <2>4. QED BY <1>6, <2>2, <2>3 DEF SignalTold
<1>9. CASE x.kind = "move"
  <2>1. MakeMove(x.item, x.oldParent, x.oldPrev)
    BY <1>2, <1>9 DEF Revert
  <2>2. tree = AddAsChild(DetachFromTree(u.tree, x.item), x.newParent, x.item, x.newPrev)
    BY <1>4, <1>9 DEF Did
  <2>3. PICK d : d = DetachFromTree(u.tree, x.item)
    OBVIOUS
  <2>4. d \in Tree /\ LinksAgree(d) /\ ChainsEnd(d) /\ Detached(d, x.item)
    BY <1>4, <1>6, <2>3, DetachTyped, DetachLinks, DetachChains, DetachDetaches
  <2>5. Linked(tree, x.item)
    BY <1>6, <1>9, <2>2, <2>3, <2>4, AddLinked
  <2>6. Told("itemModified", x.item, s)
    BY <1>6, <1>9, <2>1, <2>5, MoveTold
  <2>7. signals'[Len(signals')] = Sig("itemModified", x.item)
    BY <2>1 DEF MakeMove
  <2>8. QED BY <1>6, <2>6, <2>7 DEF SignalTold
<1>10. QED BY <1>6, <1>7, <1>8, <1>9

\* A redo of anything but a creation.
LEMMA RedoTold ==
  ASSUME Steady, Steady', NumberNewItem, NEW s, Coherent(s), Mirrored(s),
         RedoAction, Last(redoActionList).kind # "create"
  PROVE  SignalTold(s)
<1>1. IndInv /\ Held
  BY DEF Steady
<1>2. PICK x : /\ Makeable(x) /\ Did(x, Current, Current') /\ x.kind # "create"
               /\ \E i \in Item : Make(x, i)
  BY <1>1, RedoHeld
<1>3. PICK i \in Item : Make(x, i)
  BY <1>2
<1>4. PICK u : u = Current'
  OBVIOUS
<1>5. Did(x, Current, u) /\ Current.tree = tree
  BY <1>2, <1>4 DEF Current
<1>6. x.kind \in {"delete", "move"} => Linked(tree, x.item)
  BY <1>5 DEF Did, Captured
<1>7. QED BY <1>2, <1>3, <1>6, MakeTold

---------------------------------------------------------------------------
(* What is read of a copy, what is stored of it, and what is loaded again. *)

\* The outline without the marks.
Plain(s) == Outline(s.tree, s.id, s.text)

\* What is read of a copy that mirrors the document.
LEMMA MirrorReads ==
  ASSUME Steady, NEW s, Coherent(s), Mirrored(s)
  PROVE  /\ Hung(s.tree) /\ Plain(s) = Outline(tree, itemId, text)
         /\ OutlineOf(s) = Outline(tree, itemId, Labels(text, done))
         /\ \A x, y \in s.heap : s.id[x] = s.id[y] => x = y
<1>1. /\ tree \in Tree /\ LinksAgree(tree) /\ ChainsEnd(tree) /\ Hung(tree)
      /\ InTree(tree) \subseteq Node
  BY SteadyTrees, InTreeLeast
<1>2. OnwardAgree(tree)
  BY <1>1, AgreeOnward
<1>3. PICK at, D : D \subseteq heap /\ Mirrors(at, D, tree, text, done, itemId, s)
  BY DEF Mirrored
<1>4. /\ Pair(at, D, tree, s.tree) /\ \A x \in D : at[x] \in s.heap /\ s.id[at[x]] = itemId[x]
      /\ \A y \in s.heap : \E x \in D : at[x] = y
      /\ \A x \in InTree(tree) \ {Root} : s.text[at[x]] = text[x] /\ s.done[at[x]] = done[x]
  BY <1>3 DEF Mirrors
<1>5. /\ s.tree \in Tree /\ OnwardAgree(s.tree) /\ ChainsEnd(s.tree)
      /\ \A x \in Node \ s.heap : Unlinked(s.tree, x)
  BY CopyParts DEF Coherent
<1>6. \A y \in Node : (\A x \in D : at[x] # y) => Unlinked(s.tree, y)
  BY <1>4, <1>5
<1>7. /\ Hung(s.tree)
      /\ \A ids, texts, jds, uexts :
           (\A x \in InTree(tree) \ {Root} : jds[at[x]] = ids[x] /\ uexts[at[x]] = texts[x])
           => Outline(s.tree, jds, uexts) = Outline(tree, ids, texts)
  BY <1>1, <1>2, <1>4, <1>5, <1>6, PairReads
<1>8. \A x \in InTree(tree) \ {Root} : x \in D /\ at[x] \in Item /\ x \in Item
  BY <1>1, <1>4, <1>5, PairTrees, PairNodes
<1>9. Plain(s) = Outline(tree, itemId, text)
  <2>1. \A x \in InTree(tree) \ {Root} : s.id[at[x]] = itemId[x] /\ s.text[at[x]] = text[x]
    BY <1>4, <1>8
  <2>2. QED BY <1>7, <2>1 DEF Plain
<1>10. OutlineOf(s) = Outline(tree, itemId, Labels(text, done))
  <2>1. PICK f, g : f = Labels(s.text, s.done) /\ g = Labels(text, done)
    OBVIOUS
  <2>2. \A x \in InTree(tree) \ {Root} : s.id[at[x]] = itemId[x] /\ f[at[x]] = g[x]
    BY <1>4, <1>8, <2>1 DEF Labels
  <2>3. QED BY <1>7, <2>1, <2>2 DEF OutlineOf
<1>11. \A x, y \in D : itemId[x] = itemId[y] => x = y
  BY <1>3 DEF Steady, Named
<1>12. QED BY <1>4, <1>7, <1>9, <1>10, <1>11

\* A copy with its objects in the tree, each under its own id.
Sound(s) == /\ Coherent(s) /\ s.heap = InTree(s.tree)
            /\ \A x, y \in s.heap : s.id[x] = s.id[y] => x = y

\* Nothing hangs outside it.
LEMMA SoundHung ==
  ASSUME NEW s, Sound(s)
  PROVE  Hung(s.tree)
BY DEF Sound, Coherent, Hung, Unlinked

\* What is stored of a copy reads like it.
LEMMA StoredSound ==
  ASSUME NEW s, Coherent(s), \A x, y \in s.heap : s.id[x] = s.id[y] => x = y
  PROVE  Sound(Stored(s)) /\ (Hung(s.tree) => Plain(Stored(s)) = Plain(s))
<1>1. /\ s.tree \in Tree /\ s.text \in [Item -> Text] /\ s.done \in [Item -> BOOLEAN]
      /\ s.heap \in SUBSET Node /\ s.id \in [Node -> Nat] /\ InTree(s.tree) \subseteq s.heap
  BY CopyParts
<1>2. /\ OnwardAgree(s.tree) /\ ChainsEnd(s.tree) /\ Root \in s.heap /\ s.id[Root] = NoId
      /\ \A x \in s.heap \ {Root} : s.id[x] # NoId
  BY DEF Coherent
<1>3. PICK t \in Tree : t = s.tree
  BY <1>1
<1>4. PICK N \in SUBSET Node : N = InTree(t)
  BY InTreeLeast
<1>5. PICK u : u = [parent |-> [x \in Node |-> IF x \in N THEN t.parent[x] ELSE Nil],
                    firstChild |-> [x \in Node |-> IF x \in N THEN t.firstChild[x] ELSE Nil],
                    next |-> [x \in Node |-> IF x \in N THEN t.next[x] ELSE Nil],
                    prev |-> [x \in Node |-> IF x \in N THEN t.prev[x] ELSE Nil]]
  OBVIOUS
<1>6. PICK texts, flags, ids :
        /\ texts = [x \in Item |-> IF x \in N THEN s.text[x] ELSE EmptyText]
        /\ flags = [x \in Item |-> IF x \in N THEN s.done[x] ELSE FALSE]
        /\ ids = [x \in Node |-> IF x \in N THEN s.id[x] ELSE NoId]
  OBVIOUS
<1>7. PICK r : r = [tree |-> u, text |-> texts, done |-> flags, id |-> ids, heap |-> N]
  OBVIOUS
<1>8. Stored(s) = r
  <2>1. DOMAIN s.text = Item /\ DOMAIN s.done = Item /\ DOMAIN s.id = Node
    BY <1>1
  <2>2. QED BY <1>3, <1>4, <1>5, <1>6, <1>7, <2>1 DEF Stored
<1>9. /\ u \in Tree
      /\ \A x \in N : /\ u.parent[x] = t.parent[x] /\ u.firstChild[x] = t.firstChild[x]
                      /\ u.next[x] = t.next[x] /\ u.prev[x] = t.prev[x]
      /\ \A x \in Node \ N : Unlinked(u, x)
  <2>1. u \in Tree
    BY <1>5, NodeAssumption DEF Tree, NodeOrNil, ItemOrNil
  <2>2. QED BY <1>5, <2>1 DEF Unlinked
<1>10. /\ Root \in N /\ \A x \in N : /\ t.firstChild[x] # Nil => t.firstChild[x] \in N \ {Root}
                                     /\ t.next[x] # Nil => t.next[x] \in N \ {Root}
  <2>1. t.next[Root] = Nil
    BY <1>2, <1>3, NodeAssumption DEF OnwardAgree, Tree, ItemOrNil, Item
  <2>2. Root \in N /\ ClosedBelow(t, N)
    BY <1>4, InTreeLeast
  <2>3. \A x \in Node : t.firstChild[x] \in ItemOrNil /\ t.next[x] \in ItemOrNil
    BY DEF Tree
  <2>4. QED BY <2>1, <2>2, <2>3, NodeAssumption DEF ClosedBelow, ItemOrNil, Item
<1>11. OnwardAgree(u)
  BY <1>2, <1>3, <1>9, <1>10 DEF OnwardAgree, Unlinked
<1>12. ChainsEnd(u)
  BY <1>2, <1>3, <1>9, NodeAssumption DEF ChainsEnd, Unlinked
<1>13. InTree(u) = N
  <2>1. ClosedBelow(u, N)
    BY <1>9, <1>10 DEF ClosedBelow
  <2>2. PICK M \in SUBSET Node : M = InTree(u)
    BY <1>9, InTreeLeast
  <2>3. M \subseteq N /\ Root \in M /\ ClosedBelow(u, M)
    BY <1>9, <2>1, <2>2, InTreeLeast
  <2>4. ClosedBelow(t, M)
    BY <1>9, <2>3 DEF ClosedBelow
  <2>5. N \subseteq M
    BY <1>4, <2>4, InTreeLeast
  <2>6. QED BY <2>2, <2>3, <2>5
<1>14. Hung(u)
  BY <1>9, <1>13 DEF Hung, Unlinked
<1>15. /\ texts \in [Item -> Text] /\ flags \in [Item -> BOOLEAN] /\ ids \in [Node -> Nat]
       /\ \A x \in N : ids[x] = s.id[x]
       /\ \A x \in N \ {Root} : texts[x] = s.text[x]
  BY <1>1, <1>6, TextAssumption DEF NoId, Item
<1>16. r \in ServerCopy
  BY <1>7, <1>9, <1>15 DEF ServerCopy
<1>17. /\ r.tree = u /\ r.text = texts /\ r.id = ids /\ r.heap = N
  BY <1>7
<1>18. N \subseteq s.heap
  BY <1>1, <1>3, <1>4
<1>19. Coherent(r)
  BY <1>2, <1>9, <1>10, <1>11, <1>12, <1>15, <1>16, <1>17, <1>18 DEF Coherent
<1>20. Sound(r)
  BY <1>13, <1>15, <1>17, <1>18, <1>19 DEF Sound
<1>21. ASSUME Hung(s.tree) PROVE Outline(u, ids, texts) = Outline(t, s.id, s.text)
  <2>1. PICK at : at = [x \in Node |-> x]
    OBVIOUS
  <2>2. Grounded(t) /\ Grounded(u)
    BY <1>2, <1>3, <1>9, <1>11, <1>12, <1>14, <1>21, HungGrounded
  <2>3. \A x \in N : /\ at[x] \in Node /\ at[x] = x
                     /\ t.firstChild[x] # Nil => at[t.firstChild[x]] = t.firstChild[x]
                     /\ t.next[x] # Nil => at[t.next[x]] = t.next[x]
    BY <1>10, <2>1
  <2>4. \A x \in N : /\ at[x] \in Node
                     /\ t.firstChild[x] = Nil => u.firstChild[at[x]] = Nil
                     /\ t.firstChild[x] # Nil => /\ t.firstChild[x] \in N
                                                 /\ u.firstChild[at[x]] = at[t.firstChild[x]]
                     /\ t.next[x] = Nil => u.next[at[x]] = Nil
                     /\ t.next[x] # Nil => /\ t.next[x] \in N
                                           /\ u.next[at[x]] = at[t.next[x]]
                     /\ x # Root => ids[at[x]] = s.id[x] /\ texts[at[x]] = s.text[x]
    BY <1>9, <1>10, <1>15, <2>3
  <2>5. at[Root] = Root
    BY <2>1, NodeAssumption
  <2>6. QED BY <1>9, <1>10, <2>2, <2>4, <2>5, SameOutline
<1>22. QED BY <1>3, <1>8, <1>17, <1>20, <1>21 DEF Plain

\* What the server has when it starts again: the file, or a new item.
LEMMA LoadSound ==
  ASSUME Sound(file)
  PROVE  Sound(LoadFile) /\ (file.tree.firstChild[Root] # Nil => LoadFile = file)
<1>1. SUFFICES ASSUME file.tree.firstChild[Root] = Nil PROVE Sound(CreateNewChild(file))
  BY DEF LoadFile
<1>2. PICK s : s = file
  OBVIOUS
<1>3. Coherent(s) /\ s.heap = InTree(s.tree) /\ s.tree.firstChild[Root] = Nil
  BY <1>1, <1>2 DEF Sound
<1>4. /\ s.tree \in Tree /\ s.text \in [Item -> Text] /\ s.done \in [Item -> BOOLEAN]
      /\ s.heap \in SUBSET Node /\ s.id \in [Node -> Nat]
      /\ s = [tree |-> s.tree, text |-> s.text, done |-> s.done, heap |-> s.heap, id |-> s.id]
  BY <1>3, CopyParts
<1>5. /\ OnwardAgree(s.tree) /\ ChainsEnd(s.tree) /\ s.id[Root] = NoId
      /\ \A x \in Node \ s.heap : Unlinked(s.tree, x)
  BY <1>3 DEF Coherent
<1>6. s.heap = {Root}
  <2>1. ClosedBelow(s.tree, {Root}) /\ {Root} \in SUBSET Node
    BY <1>3, NodeAssumption DEF ClosedBelow
  <2>2. QED BY <1>3, <1>4, <2>1, InTreeLeast
<1>7. PICK n \in Item : n = NextFree(s.heap) /\ n # Root /\ n \in Node
  <2>1. s.heap # Node
    BY <1>6, ItemAssumption DEF Item
  <2>2. QED BY <1>4, <1>6, <2>1, Allocates
<1>8. Max({s.id[x] : x \in s.heap}) = 0
  <2>1. {s.id[x] : x \in s.heap} = {0}
    BY <1>5, <1>6 DEF NoId
  <2>2. Max({0}) = 0
    BY DEF Max
  <2>3. QED BY <2>1, <2>2
<1>9. PICK u, ids : u = InsertAfter(s.tree, Root, n, Nil) /\ ids = [s.id EXCEPT ![n] = 1]
  OBVIOUS
<1>10. ServerAddAsChild(s.tree, Root, n, Nil) = u
  BY <1>9 DEF ServerAddAsChild, WrongAfter
<1>11. PICK r : r = [tree |-> u, text |-> s.text, done |-> s.done, heap |-> {Root, n}, id |-> ids]
  OBVIOUS
<1>12. CreateNewChild(s) = r
  <2>1. PICK t, texts, flags, old : t = s.tree /\ texts = s.text /\ flags = s.done /\ old = s.id
    OBVIOUS
  <2>2. s = [tree |-> t, text |-> texts, done |-> flags, heap |-> {Root}, id |-> old]
    BY <1>4, <1>6, <2>1
  <2>3. PICK m, w : m = Max({s.id[x] : x \in s.heap}) + 1 /\ w = ServerAddAsChild(s.tree, Root, n, Nil)
    OBVIOUS
  <2>4. m = 1 /\ w = u
    BY <1>8, <1>10, <2>3
  <2>5. CreateNewChild(s) = [s EXCEPT !.tree = w, !.heap = s.heap \cup {n}, !.id = [s.id EXCEPT ![n] = m]]
    BY <1>7, <2>2, <2>3 DEF CreateNewChild
  <2>6. s.heap \cup {n} = {Root, n}
    BY <1>6
  <2>7. CreateNewChild(s) = [s EXCEPT !.tree = u, !.heap = {Root, n}, !.id = ids]
    BY <1>9, <2>4, <2>5, <2>6
  <2>8. QED BY <1>11, <2>1, <2>2, <2>7
<1>13. Unlinked(s.tree, n) /\ \A x \in Node : x # n /\ x # Root => Unlinked(s.tree, x)
  BY <1>5, <1>6, <1>7
<1>14. Loose(s.tree, n)
  <2>1. \A x \in Node : s.tree.next[x] # n
    BY <1>4, <1>5, <1>7, <1>13, NodeAssumption DEF OnwardAgree, Unlinked
  <2>2. \A x \in Node : s.tree.firstChild[x] # n
    BY <1>4, <1>5, <1>7, <1>13, NodeAssumption DEF OnwardAgree, Unlinked
  <2>3. QED BY <2>1, <2>2 DEF Loose
<1>15. u \in Tree /\ OnwardAgree(u) /\ ChainsEnd(u)
  <2>1. Root \in Node /\ Nil \in ItemOrNil /\ ~WrongAfter(s.tree, Root, Nil)
    BY NodeAssumption DEF ItemOrNil, WrongAfter
  <2>2. s.tree.next[n] = Nil /\ s.tree.prev[n] = Nil
    BY <1>13 DEF Unlinked
  <2>3. QED BY <1>4, <1>5, <1>9, <1>14, <2>1, <2>2, OnwardInsert
<1>16. \A x \in Node \ {Root, n} : Unlinked(u, x)
  <2>1. Root \in Node /\ Nil \in ItemOrNil
    BY NodeAssumption DEF ItemOrNil
  <2>2. QED BY <1>4, <1>5, <1>9, <1>13, <2>1, NodeAssumption, OnwardFresh
<1>17. r.tree = u /\ r.text = s.text /\ r.done = s.done /\ r.heap = {Root, n} /\ r.id = ids
  BY <1>11
<1>18. ids \in [Node -> Nat] /\ ids[Root] = 0 /\ ids[n] = 1
  BY <1>4, <1>5, <1>7, <1>9, NodeAssumption DEF NoId
<1>19. r \in ServerCopy
  BY <1>4, <1>7, <1>11, <1>15, <1>18, NodeAssumption DEF ServerCopy
<1>20. Coherent(r)
  BY <1>15, <1>16, <1>17, <1>18, <1>19 DEF Coherent, NoId
<1>21. InTree(u) = {Root, n}
  <2>1. InTree(u) \subseteq {Root, n}
    BY <1>17, <1>20, CopyParts
  <2>2. u.firstChild[Root] = n
    BY <1>4, <1>9, NodeAssumption DEF InsertAfter, Tree
  <2>3. ClosedBelow(u, InTree(u))
    BY <1>15, InTreeLeast
  <2>4. n \in InTree(u) /\ Root \in InTree(u)
    BY <1>7, <1>15, <2>2, <2>3, InTreeLeast, NodeAssumption DEF ClosedBelow
  <2>5. QED BY <2>1, <2>4
<1>22. Sound(r)
  BY <1>17, <1>18, <1>20, <1>21 DEF Sound
<1>23. QED BY <1>2, <1>12, <1>22

\* A copy that reads like the document mirrors it.
LEMMA SoundMirrors ==
  ASSUME Steady, NEW s, Sound(s), OutlineOf(s) = Outline(tree, itemId, Labels(text, done))
  PROVE  Mirrored(s)
<1>1. /\ tree \in Tree /\ LinksAgree(tree) /\ ChainsEnd(tree) /\ Hung(tree)
      /\ InTree(tree) \subseteq heap /\ InTree(tree) \subseteq Node
  BY SteadyTrees, InTreeLeast
<1>2. OnwardAgree(tree)
  BY <1>1, AgreeOnward
<1>3. /\ s.tree \in Tree /\ OnwardAgree(s.tree) /\ ChainsEnd(s.tree) /\ Hung(s.tree)
      /\ s.heap = InTree(s.tree) /\ s.id[Root] = NoId
      /\ \A x, y \in s.heap : s.id[x] = s.id[y] => x = y
  BY CopyParts, SoundHung DEF Sound, Coherent
<1>4. itemId[Root] = NoId /\ \A x, y \in InTree(tree) : itemId[x] = itemId[y] => x = y
  BY <1>1 DEF Steady, Named, Numbered
<1>5. PICK f, g, u, jds : f = Labels(text, done) /\ g = Labels(s.text, s.done) /\ u = s.tree /\ jds = s.id
  OBVIOUS
<1>6. Outline(tree, itemId, f) = Outline(u, jds, g)
  BY <1>5 DEF OutlineOf
<1>7. /\ u \in Tree /\ OnwardAgree(u) /\ ChainsEnd(u) /\ Hung(u) /\ itemId[Root] = jds[Root]
      /\ \A x, y \in InTree(u) : jds[x] = jds[y] => x = y
  BY <1>3, <1>4, <1>5
<1>8. PICK at : /\ Pair(at, InTree(tree), tree, u) /\ InTree(u) = {at[x] : x \in InTree(tree)}
                /\ \A x \in InTree(tree) : /\ jds[at[x]] = itemId[x]
                                           /\ x # Root => g[at[x]] = f[x]
  BY <1>1, <1>2, <1>4, <1>6, <1>7, PairOf
<1>9. \A x \in InTree(tree) \ {Root} : at[x] \in Item /\ x \in Item
  BY <1>8, PairNodes
<1>10. \A x \in InTree(tree) \ {Root} : s.text[at[x]] = text[x] /\ s.done[at[x]] = done[x]
  <2>1. SUFFICES ASSUME NEW x \in InTree(tree) \ {Root}
                 PROVE  s.text[at[x]] = text[x] /\ s.done[at[x]] = done[x]
    OBVIOUS
  <2>2. g[at[x]] = f[x] /\ at[x] \in Item /\ x \in Item
    BY <1>8, <1>9
  <2>3. <<s.text[at[x]], s.done[at[x]]>> = <<text[x], done[x]>>
    BY <1>5, <2>2 DEF Labels
  <2>4. QED BY <2>3
<1>11. /\ \A x \in InTree(tree) : at[x] \in s.heap /\ s.id[at[x]] = itemId[x]
       /\ \A y \in s.heap : \E x \in InTree(tree) : at[x] = y
  BY <1>3, <1>5, <1>8
<1>12. Mirrors(at, InTree(tree), tree, text, done, itemId, s)
  BY <1>5, <1>8, <1>10, <1>11 DEF Mirrors
<1>13. QED BY <1>1, <1>12 DEF Mirrored

---------------------------------------------------------------------------
(* A session.                                                              *)

\* The server's copy when it has read everything under way.
Handled == HandleAll(server, toServer)

\* The last save under way is packet k, or the last save is in the file: what
\* is written is what the client shows.
SavedTo(k) ==
  /\ \A j \in 1..Len(toServer) : j > k => toServer[j].type # "PT_DOC_SAVE"
  /\ k = 0 => Plain(file) = Outline(tree, itemId, text)
  /\ k > 0 => /\ toServer[k].type = "PT_DOC_SAVE"
              /\ Plain(Stored(HandleAll(server, SubSeq(toServer, 1, k)))) = Outline(tree, itemId, text)

\* What holds of a loaded document until there is a doubt.
LiveHeld ==
  /\ SyncInv /\ Held /\ Named
  /\ Coherent(Handled) /\ Mirrored(Handled)

\* And of the file.
SessionHeld ==
  /\ LiveHeld
  /\ Sound(file)
  /\ ~modified => \E k \in 0..Len(toServer) : SavedTo(k)

\* The inductive invariant of a session.
SessionInv == doubts = {} => SessionHeld

\* What the lemmas about the user need.
LEMMA HeldSteady ==
  ASSUME SyncInv, Held, Named
  PROVE  Steady
<1>1. IndInv /\ PlacesSane /\ Numbered(itemId, heap) /\ done \in [Node -> BOOLEAN]
  BY DEF SyncInv, ClientSound
<1>2. Sane(tree.parent, heap)
  BY <1>1, SaneNow
<1>3. QED BY <1>1, <1>2 DEF Steady

\* What the lemmas about a session need.
LEMMA SessionSteady ==
  ASSUME LiveHeld
  PROVE  /\ Steady /\ IndInv /\ Coherent(server) /\ toServer \in Seq(Packet) /\ toClient \in Seq(Answer)
         /\ Len(toServer) \in Nat
<1>1. SyncInv /\ Held /\ Named
  BY DEF LiveHeld
<1>2. Steady
  BY <1>1, HeldSteady
<1>3. Coherent(server) /\ Matched(toServer, toClient, requests, requestId) /\ IndInv
  BY <1>1 DEF SyncInv, ClientSound
<1>4. toServer \in Seq(Packet) /\ toClient \in Seq(Answer)
  BY <1>3 DEF Matched
<1>5. QED BY <1>2, <1>3, <1>4

\* What a copy becomes depends on the packets only.
LEMMA HandleSame ==
  ASSUME NEW s, NEW q, NEW r, NEW n \in Nat, Len(q) = n, Len(r) = n, \A k \in 1..n : r[k] = q[k]
  PROVE  HandleAll(s, r) = HandleAll(s, q)
<1>1. PICK a : HandleAll(s, q) = a[n] /\ \A k \in 0..n : a[k] = Turn(s, q, a, k)
  BY HandleUnrolls
<1>2. ASSUME NEW k \in 0..n PROVE a[k] = Turn(s, r, a, k)
  <2>1. k # 0 => k \in 1..n
    OBVIOUS
  <2>2. a[k] = Turn(s, q, a, k)
    BY <1>1
  <2>3. QED BY <2>1, <2>2 DEF Turn
<1>3. HandleAll(s, r) = a[n]
  BY <1>2, HandleFollows
<1>4. QED BY <1>1, <1>3

\* New items have new names.
LEMMA NamedKept ==
  ASSUME IndInv, IndInv', Named, nextId \in Id, heap \subseteq heap', itemId \in [Node -> Nat],
         heap' \ heap \subseteq {NextFree(heap)}, NumberNewItem, done' = done
  PROVE  Named'
<1>1. heap \in SUBSET Node /\ heap' \in SUBSET Node /\ nextId \in Nat
  BY DEF IndInv, TypeOK, Id
<1>2. /\ \A x, y \in heap : itemId[x] = itemId[y] => x = y
      /\ \A x \in heap : itemId[x] < nextId
      /\ \A x \in Item \ heap : ~done[x]
  BY DEF Named
<1>3. \A x \in Item \ heap' : ~done'[x]
  BY <1>2
<1>4. PICK ids, m, n, H : /\ ids = itemId' /\ m = nextId' /\ n = NextFree(heap) /\ H = heap'
  OBVIOUS
<1>5. H \ heap = {} \/ H \ heap = {n}
  BY <1>4
<1>6. CASE H \ heap = {}
  <2>1. H = heap /\ m = nextId + 0
    BY <1>4, <1>6, FS_EmptySet DEF NumberNewItem
  <2>2. \A x \in heap : ids[x] = itemId[x]
    BY <1>1, <1>4, <1>6 DEF NumberNewItem
  <2>3. /\ \A x, y \in H : ids[x] = ids[y] => x = y
        /\ \A x \in H : ids[x] < m
    BY <1>1, <1>2, <2>1, <2>2
  <2>4. QED BY <1>3, <1>4, <2>3 DEF Named
<1>7. CASE H \ heap = {n}
  <2>1. m = nextId + 1
    BY <1>4, <1>7, FS_Singleton DEF NumberNewItem
  <2>2. H = heap \cup {n} /\ n \in Node /\ n \notin heap
    BY <1>1, <1>4, <1>7
  <2>3. ids[n] = nextId /\ \A x \in heap : ids[x] = itemId[x]
    BY <1>1, <1>4, <2>2 DEF NumberNewItem
  <2>4. \A x \in heap : itemId[x] \in Nat
    BY <1>1
  <2>5. \A x, y \in H : ids[x] = ids[y] => x = y
    BY <1>1, <1>2, <2>2, <2>3, <2>4
  <2>6. \A x \in H : ids[x] < m
    <3>1. SUFFICES ASSUME NEW x \in H PROVE ids[x] < m
      OBVIOUS
    <3>2. CASE x = n
      BY <1>1, <2>1, <2>3, <3>2
    <3>3. CASE x \in heap
      BY <1>1, <1>2, <2>1, <2>3, <2>4, <3>3
    <3>4. QED BY <2>2, <3>2, <3>3
  <2>7. QED BY <1>3, <1>4, <2>5, <2>6 DEF Named
<1>8. QED BY <1>5, <1>6, <1>7

\* A command, an undo or a redo that raises no doubt.
LEMMA UserLive ==
  ASSUME LiveHeld, UserStep, doubts' = {}
  PROVE  LiveHeld' /\ modified'
<1>1. /\ SyncInv /\ Held /\ Named /\ Steady /\ IndInv /\ Coherent(Handled) /\ Mirrored(Handled)
      /\ toServer \in Seq(Packet)
  BY SessionSteady DEF LiveHeld
<1>2. SyncInv' /\ IndInv'
  <2>1. SyncInv'
    BY <1>1, UserKeeps
  <2>2. QED BY <2>1 DEF SyncInv, ClientSound
<1>3. /\ NumberNewItem /\ Announce /\ heap' \ heap \subseteq {NextFree(heap)}
      /\ server' = server /\ done' = done /\ connected
      /\ \/ Command
         \/ UndoLastAction /\ Last(actionList).kind # "delete"
         \/ RedoAction /\ Last(redoActionList).kind # "create"
  BY DEF UserStep, Edited, Doubt
<1>4. Held'
  BY <1>1, <1>2, <1>3, CommandHeld, UndoHeld, RedoHeld
<1>5. Named'
  <2>1. heap \subseteq heap'
    BY <1>1, <1>3, StepTells
  <2>2. nextId \in Id /\ itemId \in [Node -> Nat]
    BY <1>1 DEF SyncInv, ClientSound, Numbered
  <2>3. QED BY <1>1, <1>2, <1>3, <2>1, <2>2, NamedKept
<1>6. Steady'
  <2>1. (SyncInv /\ Held /\ Named => Steady)'
    BY HeldSteady, PTL
  <2>2. QED BY <1>2, <1>4, <1>5, <2>1
<1>7. PICK s : s = Handled
  OBVIOUS
<1>8. Coherent(s) /\ Mirrored(s)
  BY <1>1, <1>7
<1>9. SignalTold(s)
  BY <1>1, <1>3, <1>6, <1>8, CommandTold, UndoTold, RedoTold
<1>10. PICK i \in Item : \E n : signals'[Len(signals')] = Sig(n, i) /\ Told(n, i, s)
  BY <1>9 DEF SignalTold
<1>11. PICK n : signals'[Len(signals')] = Sig(n, i) /\ Told(n, i, s)
  BY <1>10
<1>12. PICK e \in Packet : \E u :
         /\ PacketOf(Sig(n, i)) = <<e>> /\ u = Handle(s, e) /\ Coherent(u)
         /\ \E at, D : D \subseteq heap' /\ Mirrors(at, D, tree', text', done, itemId', u)
  BY <1>11 DEF Told
<1>13. PICK u :
         /\ PacketOf(Sig(n, i)) = <<e>> /\ u = Handle(s, e) /\ Coherent(u)
         /\ \E at, D : D \subseteq heap' /\ Mirrors(at, D, tree', text', done, itemId', u)
  BY <1>12
<1>14. toServer' = toServer \o <<e>>
  BY <1>3, <1>11, <1>13 DEF Announce, Write
<1>15. Handled' = u
  <2>1. HandleAll(server, toServer \o <<e>>) = Handle(HandleAll(server, toServer), e)
    BY <1>1, HandleOneMore
  <2>2. QED BY <1>3, <1>7, <1>13, <1>14, <2>1 DEF Handled
<1>16. Coherent(Handled)' /\ Mirrored(Handled)'
  BY <1>3, <1>13, <1>15 DEF Mirrored
<1>17. modified' = TRUE
  <2>1. CASE Command
    <3>1. PICK x : Commanded(x)
      BY <1>1, <2>1, CommandMakes
    <3>2. QED BY <3>1 DEF Commanded, DoAction
  <2>2. CASE UndoLastAction
    BY <2>2 DEF UndoLastAction
  <2>3. CASE RedoAction
    BY <2>3 DEF RedoAction
  <2>4. QED BY <1>3, <2>1, <2>2, <2>3
<1>18. QED BY <1>2, <1>4, <1>5, <1>16, <1>17 DEF LiveHeld

\* With the file.
LEMMA UserSession ==
  ASSUME SessionHeld, UserStep, file' = file, doubts' = {}
  PROVE  SessionHeld'
<1>1. LiveHeld /\ Sound(file)
  BY DEF SessionHeld
<1>2. LiveHeld' /\ modified'
  BY <1>1, UserLive
<1>3. QED BY <1>1, <1>2 DEF SessionHeld

\* What neither the user nor the file changes.
LEMMA HeldStays ==
  ASSUME Held, UNCHANGED <<tree, text, heap, actionList, redoActionList, plugged>>
  PROVE  Held'
BY DEF Held, Screened, Behind, Ahead, Current, Fresh

\* What makes no item and marks none that is not made.
LEMMA NamedStays ==
  ASSUME Named, UNCHANGED <<heap, itemId, nextId>>, \A x \in Item \ heap : ~done'[x]
  PROVE  Named'
BY DEF Named

\* The marks of some items of the tree, packet by packet.
LEMMA MarksTold ==
  ASSUME Steady, NEW s, Coherent(s), Mirrored(s),
         NEW items \in Seq(InTree(tree) \ {Root}), NEW b \in BOOLEAN,
         DonePackets(items, b) \in Seq(Packet), NEW flags,
         flags = [x \in Node |-> IF \E k \in DOMAIN items : items[k] = x THEN b ELSE done[x]]
  PROVE  \E u : /\ u = HandleAll(s, DonePackets(items, b)) /\ Coherent(u)
                /\ \E at, D : D \subseteq heap /\ Mirrors(at, D, tree, text, flags, itemId, u)
<1>1. PICK n \in Nat : n = Len(items) /\ DOMAIN items = 1..n
  OBVIOUS
<1>2. PICK q : q = DonePackets(items, b)
  OBVIOUS
<1>3. /\ q \in Seq(Packet) /\ Len(q) = n
      /\ \A k \in 1..n : /\ q[k] \in Packet /\ q[k].type = "PT_ITEM_DONE_CHANGED"
                         /\ q[k].item = itemId[items[k]] /\ q[k].done = b
  <2>1. DOMAIN q = 1..n /\ q \in Seq(Packet)
    BY <1>1, <1>2 DEF DonePackets
  <2>2. Len(q) = n
    BY <2>1, LenProperties
  <2>3. \A k \in 1..n : q[k] \in Packet
    BY <2>1, <2>2
  <2>4. \A k \in 1..n : q[k] = [type |-> "PT_ITEM_DONE_CHANGED", item |-> itemId[items[k]], done |-> b]
    BY <1>1, <1>2 DEF DonePackets
  <2>5. QED BY <2>1, <2>2, <2>3, <2>4
<1>4. PICK a : HandleAll(s, q) = a[n] /\ \A k \in 0..n : a[k] = Turn(s, q, a, k)
  <2>1. Len(q) \in Nat /\ Len(q) = n
    BY <1>3
  <2>2. PICK a : HandleAll(s, q) = a[Len(q)] /\ \A k \in 0..Len(q) : a[k] = Turn(s, q, a, k)
    BY <2>1, HandleUnrolls
  <2>3. QED BY <2>1, <2>2
<1>5. PICK F : F = [k \in Nat |-> [x \in Node |-> IF \E j \in 1..k : items[j] = x THEN b ELSE done[x]]]
  OBVIOUS
<1>6. /\ tree \in Tree /\ InTree(tree) \subseteq Node
  BY SteadyTrees, InTreeLeast
<1> DEFINE T == {k \in Nat : k <= n => \E u : /\ u = a[k] /\ Coherent(u)
                                              /\ \E at, D : D \subseteq heap /\ Mirrors(at, D, tree, text, F[k], itemId, u)}
<1>7. 0 \in T
  <2>1. a[0] = s
    BY <1>4 DEF Turn
  <2>2. PICK at, D : D \subseteq heap /\ Mirrors(at, D, tree, text, done, itemId, s)
    BY DEF Mirrored
  <2>3. \A x \in InTree(tree) \ {Root} : F[0][x] = done[x]
    BY <1>5, <1>6
  <2>4. Mirrors(at, D, tree, text, F[0], itemId, s)
    BY <2>2, <2>3 DEF Mirrors
  <2>5. QED BY <2>1, <2>2, <2>4
<1>8. ASSUME NEW k \in Nat, k \in T PROVE k + 1 \in T
  <2>1. SUFFICES ASSUME k + 1 <= n
                 PROVE  \E u : /\ u = a[k + 1] /\ Coherent(u)
                               /\ \E at, D : D \subseteq heap /\ Mirrors(at, D, tree, text, F[k + 1], itemId, u)
    OBVIOUS
  <2>2. k <= n /\ k + 1 \in 1..n /\ k + 1 \in 0..n /\ k + 1 # 0 /\ k + 1 - 1 = k
    BY <2>1
  <2>3. PICK v : v = a[k] /\ Coherent(v)
                 /\ \E at, D : D \subseteq heap /\ Mirrors(at, D, tree, text, F[k], itemId, v)
    BY <1>8, <2>2
  <2>4. PICK at, D : D \subseteq heap /\ Mirrors(at, D, tree, text, F[k], itemId, v)
    BY <2>3
  <2>5. PICK i \in InTree(tree) \ {Root} : i = items[k + 1]
    BY <1>1, <2>2
  <2>6. PICK e \in Packet : e = q[k + 1] /\ e.type = "PT_ITEM_DONE_CHANGED" /\ e.item = itemId[i] /\ e.done = b
    BY <1>3, <2>2, <2>5
  <2>7. PICK f, g : f = F[k] /\ g = F[k + 1]
    OBVIOUS
  <2>8. ASSUME NEW x \in Item \ {i} PROVE g[x] = f[x]
    <3>1. (\E j \in 1..k + 1 : items[j] = x) <=> (\E j \in 1..k : items[j] = x)
      BY <2>5
    <3>2. QED BY <1>5, <2>7, <3>1 DEF Item
  <2>9. e.done = g[i]
    BY <1>5, <1>6, <2>2, <2>5, <2>6, <2>7
  <2>10. \A x, y \in D : itemId[x] = itemId[y] => x = y
    BY <2>4 DEF Steady, Named
  <2>11. \E u : /\ u = Handle(v, e) /\ Coherent(u) /\ Mirrors(at, D, tree, text, g, itemId, u)
    <3>1. Mirrors(at, D, tree, text, f, itemId, v) /\ \A x \in Item \ {i} : g[x] = f[x]
      BY <2>4, <2>7, <2>8
    <3>2. QED BY <1>6, <2>3, <2>6, <2>9, <2>10, <3>1, MirrorMarks
  <2>12. a[k + 1] = Handle(v, e)
    BY <1>4, <2>2, <2>3, <2>6 DEF Turn
  <2>13. QED BY <2>4, <2>7, <2>11, <2>12
<1>9. Nat \subseteq T
  <2> HIDE DEF T
  <2>1. QED BY <1>7, <1>8, SetInduction
<1>10. F[n] = flags
  BY <1>1, <1>5
<1>11. n \in T
  <2> HIDE DEF T
  <2>1. QED BY <1>9
<1>12. \E u : /\ u = a[n] /\ Coherent(u)
              /\ \E at, D : D \subseteq heap /\ Mirrors(at, D, tree, text, F[n], itemId, u)
  BY <1>11
<1>13. QED BY <1>2, <1>4, <1>10, <1>12

\* What is written after the last save leaves it the last.
LEMMA SavedStays ==
  ASSUME toServer \in Seq(Packet), NEW p \in Seq(Packet), toServer' = toServer \o p,
         \A k \in 1..Len(p) : p[k].type # "PT_DOC_SAVE",
         UNCHANGED <<tree, itemId, text, server, file>>,
         NEW k \in 0..Len(toServer), SavedTo(k)
  PROVE  k \in 0..Len(toServer') /\ SavedTo(k)'
<1>1. PICK q \in Seq(Packet) : q = toServer
  OBVIOUS
<1>2. PICK r \in Seq(Packet) : r = toServer' /\ r = q \o p
  <2>1. q \o p \in Seq(Packet)
    BY Joined
  <2>2. QED BY <1>1, <2>1
<1>3. PICK m \in Nat, n \in Nat : m = Len(q) /\ n = Len(r)
  OBVIOUS
<1>4. /\ m <= n /\ \A j \in 1..m : r[j] = q[j]
      /\ \A j \in 1..n : j > m => j - m \in 1..Len(p) /\ r[j] = p[j - m]
  <2>1. /\ Len(r) = Len(q) + Len(p) /\ Len(p) \in Nat
        /\ \A j \in 1..Len(q) : r[j] = q[j]
        /\ \A j \in 1..Len(r) : j > Len(q) => j - Len(q) \in 1..Len(p) /\ r[j] = p[j - Len(q)]
    BY <1>2, Joined
  <2>2. QED BY <1>3, <2>1
<1>5. k \in Nat /\ k <= m /\ k <= n /\ k \in 0..n
  BY <1>1, <1>3, <1>4
<1>6. \A j \in 1..n : j > k => r[j].type # "PT_DOC_SAVE"
  <2>1. \A j \in 1..m : j > k => q[j].type # "PT_DOC_SAVE"
    BY <1>1, <1>3 DEF SavedTo
  <2>2. SUFFICES ASSUME NEW j \in 1..n, j > k PROVE r[j].type # "PT_DOC_SAVE"
    OBVIOUS
  <2>3. CASE j <= m
    BY <1>4, <2>1, <2>2, <2>3
  <2>4. CASE j > m
    BY <1>4, <2>4
  <2>5. QED BY <1>3, <2>2, <2>3, <2>4
<1>7. PICK v, w : v = SubSeq(q, 1, k) /\ w = SubSeq(r, 1, k)
  OBVIOUS
<1>8. k > 0 => HandleAll(server, w) = HandleAll(server, v)
  <2>1. SUFFICES ASSUME k > 0 PROVE HandleAll(server, w) = HandleAll(server, v)
    OBVIOUS
  <2>2. Len(v) = k /\ Len(w) = k /\ \A j \in 1..k : w[j] = v[j]
    <3>1. Len(v) = k /\ \A j \in 1..k : v[j] = q[j]
      BY <1>3, <1>5, <1>7, <2>1
    <3>2. Len(w) = k /\ \A j \in 1..k : w[j] = r[j]
      BY <1>3, <1>5, <1>7, <2>1
    <3>3. \A j \in 1..k : r[j] = q[j]
      BY <1>3, <1>4, <1>5
    <3>4. QED BY <3>1, <3>2, <3>3
  <2>3. QED BY <1>5, <2>2, HandleSame
<1>9. k > 0 => r[k] = q[k]
  BY <1>4, <1>5
<1>10. QED BY <1>1, <1>2, <1>3, <1>5, <1>6, <1>7, <1>8, <1>9 DEF SavedTo, Plain

\* Marks, on line.
LEMMA MarkLive ==
  ASSUME LiveHeld, SetItemDone, doubts' = {}
  PROVE  /\ LiveHeld'
         /\ \E q \in Seq(Packet) : toServer' = toServer \o q /\ \A j \in 1..Len(q) : q[j].type # "PT_DOC_SAVE"
<1>1. /\ SyncInv /\ Held /\ Named /\ Steady /\ IndInv /\ Coherent(Handled) /\ Mirrored(Handled)
      /\ toServer \in Seq(Packet) /\ PlacesSane /\ Numbered(itemId, heap) /\ done \in [Node -> BOOLEAN]
  BY SessionSteady DEF LiveHeld, SyncInv, ClientSound
<1>2. SyncInv'
  BY <1>1, MarkKeeps
<1>3. /\ UNCHANGED <<tree, text, heap, actionList, redoActionList, modified, plugged, itemId, nextId, server>>
      /\ connected
  BY DEF SetItemDone, Extra, docVars, idVars, Doubt
<1>4. PICK i \in OnScreen : LET items == IF done[i] THEN <<i>> ELSE Marked(i) IN
        /\ done' = [x \in Node |-> IF \E k \in DOMAIN items : items[k] = x THEN ~done[i] ELSE done[x]]
        /\ Write(DonePackets(items, ~done[i]))
  BY DEF SetItemDone
<1>5. PICK items : items = IF done[i] THEN <<i>> ELSE Marked(i)
  OBVIOUS
<1>6. PICK b \in BOOLEAN : b = ~done[i]
  BY <1>1
<1>7. PICK flags : flags = done'
  OBVIOUS
<1>8. PICK q : q = DonePackets(items, b)
  OBVIOUS
<1>9. /\ flags = [x \in Node |-> IF \E k \in DOMAIN items : items[k] = x THEN b ELSE done[x]]
      /\ toServer' = toServer \o q
  BY <1>3, <1>4, <1>5, <1>6, <1>7, <1>8 DEF Write
<1>10. /\ tree \in Tree /\ LinksAgree(tree) /\ OnScreen = InTree(tree) \ {Root}
       /\ InTree(tree) \subseteq heap /\ InTree(tree) \subseteq Node /\ heap \in SUBSET Node
  BY <1>1, SteadyTrees, InTreeLeast
<1>11. PICK H \in SUBSET Item : H = InTree(tree) \ {Root}
  BY <1>10 DEF Item
<1>12. items \in Seq(H)
  <2>1. \A x \in H : /\ tree.firstChild[x] = Nil \/ tree.firstChild[x] \in H
                     /\ tree.next[x] = Nil \/ tree.next[x] \in H
    BY <1>10, <1>11, InTreeLeast, NodeAssumption DEF ClosedBelow, Tree, ItemOrNil, Item
  <2>2. i \in H
    BY <1>10, <1>11
  <2>3. Marked(i) \in Seq(H)
    BY <1>1, <2>1, <2>2, MarkedAmong
  <2>4. <<i>> \in Seq(H)
    BY <2>2
  <2>5. QED BY <1>5, <2>3, <2>4
<1>13. q \in Seq(Packet)
  <2>1. H \subseteq Item \cap heap
    BY <1>10, <1>11
  <2>2. items \in Seq(Item \cap heap)
    BY <1>12, <2>1
  <2>3. QED BY <1>1, <1>8, <2>2, DoneWritten
<1>14. PICK s : s = Handled
  OBVIOUS
<1>15. PICK u : /\ u = HandleAll(s, q) /\ Coherent(u)
                /\ \E at, D : D \subseteq heap /\ Mirrors(at, D, tree, text, flags, itemId, u)
  BY <1>1, <1>8, <1>9, <1>11, <1>12, <1>13, <1>14, MarksTold
<1>16. Handled' = u
  <2>1. HandleAll(server, toServer \o q) = HandleAll(HandleAll(server, toServer), q)
    BY <1>1, <1>13, HandleMore
  <2>2. QED BY <1>3, <1>9, <1>14, <1>15, <2>1 DEF Handled
<1>17. Coherent(Handled)' /\ Mirrored(Handled)'
  BY <1>3, <1>7, <1>15, <1>16 DEF Mirrored
<1>18. Held'
  BY <1>1, <1>3, HeldStays
<1>19. Named'
  <2>1. ASSUME NEW x \in Item \ heap PROVE ~done'[x]
    <3>1. ~\E k \in DOMAIN items : items[k] = x
      BY <1>10, <1>11, <1>12
    <3>2. done'[x] = done[x]
      BY <1>7, <1>9, <3>1 DEF Item
    <3>3. QED BY <1>1, <3>2 DEF Named
  <2>2. QED BY <1>1, <1>3, <2>1, NamedStays
<1>20. \A j \in 1..Len(q) : q[j].type # "PT_DOC_SAVE"
  BY <1>8, <1>12, <1>13 DEF DonePackets
<1>21. LiveHeld'
  BY <1>2, <1>17, <1>18, <1>19 DEF LiveHeld
<1>22. QED BY <1>9, <1>13, <1>20, <1>21

\* With the file.
LEMMA MarkSession ==
  ASSUME SessionHeld, SetItemDone, file' = file, doubts' = {}
  PROVE  SessionHeld'
<1>1. LiveHeld /\ Sound(file)
  BY DEF SessionHeld
<1>2. LiveHeld' /\ \E q \in Seq(Packet) : toServer' = toServer \o q /\ \A j \in 1..Len(q) : q[j].type # "PT_DOC_SAVE"
  BY <1>1, MarkLive
<1>3. PICK q \in Seq(Packet) : toServer' = toServer \o q /\ \A j \in 1..Len(q) : q[j].type # "PT_DOC_SAVE"
  BY <1>2
<1>4. UNCHANGED <<tree, text, modified, itemId, server>>
  BY DEF SetItemDone, Extra, docVars, idVars
<1>5. ~modified' => \E k \in 0..Len(toServer') : SavedTo(k)'
  <2>1. SUFFICES ASSUME ~modified PROVE \E k \in 0..Len(toServer') : SavedTo(k)'
    BY <1>4
  <2>2. PICK k \in 0..Len(toServer) : SavedTo(k)
    BY <2>1 DEF SessionHeld
  <2>3. toServer \in Seq(Packet)
    BY <1>1, SessionSteady
  <2>4. k \in 0..Len(toServer') /\ SavedTo(k)'
    BY <1>3, <1>4, <2>2, <2>3, SavedStays
  <2>5. QED BY <2>4
<1>6. QED BY <1>1, <1>2, <1>5 DEF SessionHeld

\* What leaves the document alone.
LEMMA QuietLive ==
  ASSUME LiveHeld, SyncInv',
         UNCHANGED <<tree, text, heap, actionList, redoActionList, plugged, itemId, nextId, done>>,
         Coherent(Handled)', Mirrored(Handled)'
  PROVE  LiveHeld'
<1>1. Held /\ Named
  BY DEF LiveHeld
<1>2. Held'
  BY <1>1, HeldStays
<1>3. Named'
  <2>1. \A x \in Item \ heap : ~done'[x]
    BY <1>1 DEF Named
  <2>2. QED BY <1>1, <2>1, NamedStays
<1>4. QED BY <1>2, <1>3 DEF LiveHeld

\* With the file.
LEMMA QuietSession ==
  ASSUME SessionHeld, SyncInv',
         UNCHANGED <<tree, text, heap, actionList, redoActionList, plugged, itemId, nextId, done>>,
         Coherent(Handled)', Mirrored(Handled)', Sound(file)',
         ~modified' => \E k \in 0..Len(toServer') : SavedTo(k)'
  PROVE  SessionHeld'
<1>1. LiveHeld
  BY DEF SessionHeld
<1>2. LiveHeld'
  BY <1>1, QuietLive
<1>3. QED BY <1>2 DEF SessionHeld

\* What leaves the packets and the server alone as well.
LEMMA IdleLive ==
  ASSUME LiveHeld, SyncInv', UNCHANGED <<docVars, plugged, idVars, done, server, toServer>>
  PROVE  LiveHeld'
<1>1. UNCHANGED <<tree, text, heap, actionList, redoActionList, plugged, itemId, nextId, done>>
  BY DEF docVars, idVars
<1>2. Coherent(Handled)' /\ Mirrored(Handled)'
  BY <1>1 DEF LiveHeld, Mirrored, Handled
<1>3. QED BY <1>1, <1>2, QuietLive

\* With the file.
LEMMA IdleSession ==
  ASSUME SessionHeld, SyncInv', UNCHANGED <<docVars, plugged, idVars, done, server, toServer, file>>
  PROVE  SessionHeld'
<1>1. LiveHeld /\ Sound(file)
  BY DEF SessionHeld
<1>2. LiveHeld'
  BY <1>1, IdleLive
<1>3. ~modified' => \E k \in 0..Len(toServer') : SavedTo(k)'
  BY DEF SessionHeld, SavedTo, Plain, docVars, idVars
<1>4. QED BY <1>1, <1>2, <1>3 DEF SessionHeld

\* A save, on line.
LEMMA SaveLive ==
  ASSUME LiveHeld, SaveDocument, doubts' = {}
  PROVE  /\ LiveHeld'
         /\ \E e \in Packet : /\ e.type = "PT_DOC_SAVE" /\ toServer' = toServer \o <<e>>
                             /\ Handled' = Handled
<1>1. SyncInv /\ Coherent(Handled) /\ Mirrored(Handled) /\ toServer \in Seq(Packet)
  BY SessionSteady DEF LiveHeld
<1>2. SyncInv'
  BY <1>1, SavingKeeps
<1>3. /\ UNCHANGED <<tree, text, heap, actionList, redoActionList, plugged, itemId, nextId, done, server>>
      /\ connected /\ Write(<<[type |-> "PT_DOC_SAVE"]>>)
  BY DEF SaveDocument, Save, Extra, idVars, Doubt
<1>4. PICK e \in Packet : e.type = "PT_DOC_SAVE" /\ toServer' = toServer \o <<e>>
  <2>1. PICK e : e = [type |-> "PT_DOC_SAVE"]
    OBVIOUS
  <2>2. e \in Packet /\ e.type = "PT_DOC_SAVE"
    BY <2>1 DEF Packet
  <2>3. QED BY <1>3, <2>1, <2>2 DEF Write
<1>5. PICK h : h = Handled
  OBVIOUS
<1>6. Handled' = h
  <2>1. HandleAll(server, toServer \o <<e>>) = Handle(HandleAll(server, toServer), e)
    BY <1>1, HandleOneMore
  <2>2. Handle(h, e) = h
    BY <1>4 DEF Handle
  <2>3. QED BY <1>3, <1>4, <1>5, <2>1, <2>2 DEF Handled
<1>7. Coherent(Handled)' /\ Mirrored(Handled)'
  BY <1>1, <1>3, <1>5, <1>6 DEF Mirrored
<1>8. LiveHeld'
  BY <1>2, <1>3, <1>7, QuietLive
<1>9. QED BY <1>4, <1>5, <1>6, <1>8

\* With the file.
LEMMA SaveSession ==
  ASSUME SessionHeld, SaveDocument, file' = file, doubts' = {}
  PROVE  SessionHeld'
<1>1. /\ LiveHeld /\ Steady /\ Coherent(Handled) /\ Mirrored(Handled) /\ toServer \in Seq(Packet)
      /\ Sound(file)
  BY SessionSteady DEF SessionHeld, LiveHeld
<1>2. LiveHeld' /\ \E e \in Packet : /\ e.type = "PT_DOC_SAVE" /\ toServer' = toServer \o <<e>>
                                    /\ Handled' = Handled
  <2>1. LiveHeld
    BY <1>1
  <2>2. QED BY <2>1, SaveLive
<1>3. UNCHANGED <<tree, text, itemId, server>>
  BY DEF SaveDocument, Save, Extra, idVars
<1>4. PICK e \in Packet : e.type = "PT_DOC_SAVE" /\ toServer' = toServer \o <<e>> /\ Handled' = Handled
  BY <1>2
<1>5. PICK h : h = Handled
  OBVIOUS
<1>6. Handled' = h
  BY <1>4, <1>5
<1>7. Coherent(h) /\ Mirrored(h)
  BY <1>1, <1>5
<1>8. Plain(Stored(h)) = Outline(tree, itemId, text)
  <2>1. /\ Hung(h.tree) /\ Plain(h) = Outline(tree, itemId, text)
        /\ \A x, y \in h.heap : h.id[x] = h.id[y] => x = y
    BY <1>1, <1>7, MirrorReads
  <2>2. Plain(Stored(h)) = Plain(h)
    BY <1>7, <2>1, StoredSound
  <2>3. QED BY <2>1, <2>2
<1>9. PICK q, r : q = toServer /\ r = toServer'
  OBVIOUS
<1>10. PICK n \in Nat : n = Len(q)
  BY <1>1, <1>9
<1>11. /\ r \in Seq(Packet) /\ Len(r) = n + 1 /\ r[n + 1] = e
  BY <1>1, <1>4, <1>9, <1>10
<1>12. HandleAll(server', SubSeq(r, 1, n + 1)) = h
  <2>1. PICK w : w = SubSeq(r, 1, n + 1)
    OBVIOUS
  <2>2. Len(w) = n + 1 /\ \A j \in 1..n + 1 : w[j] = r[j]
    BY <1>11, <2>1
  <2>3. HandleAll(server, w) = HandleAll(server, r)
    BY <1>10, <1>11, <2>2, HandleSame
  <2>4. HandleAll(server, r) = h
    BY <1>3, <1>6, <1>9 DEF Handled
  <2>5. QED BY <1>3, <2>1, <2>3, <2>4
<1>13. SavedTo(n + 1)' /\ n + 1 \in 0..Len(toServer')
  <2>1. n + 1 > 0 /\ n + 1 # 0 /\ \A j \in 1..n + 1 : ~(j > n + 1)
    OBVIOUS
  <2>2. Len(toServer') = n + 1 /\ toServer'[n + 1] = e
    BY <1>9, <1>11
  <2>3. HandleAll(server', SubSeq(toServer', 1, n + 1)) = h
    BY <1>9, <1>12
  <2>4. Outline(tree', itemId', text') = Outline(tree, itemId, text)
    BY <1>3
  <2>5. QED BY <1>4, <1>8, <2>1, <2>2, <2>3, <2>4 DEF SavedTo, Plain
<1>14. Sound(file)'
  BY <1>1
<1>15. QED BY <1>2, <1>13, <1>14 DEF SessionHeld

\* The beginning of what is under way, once its first packet is handled.
LEMMA HandlePrefix ==
  ASSUME NEW s, NEW q \in Seq(Packet), q # <<>>, NEW k \in 1..Len(q)
  PROVE  HandleAll(Handle(s, Head(q)), SubSeq(Tail(q), 1, k - 1)) = HandleAll(s, SubSeq(q, 1, k))
<1>1. PICK n \in Nat : n = Len(q)
  OBVIOUS
<1>2. PICK w \in Seq(Packet) : w = SubSeq(q, 1, k)
  <2>1. \A j \in 1..k : q[j] \in Packet
    BY <1>1
  <2>2. SubSeq(q, 1, k) \in Seq(Packet)
    BY <1>1, <2>1, SubSeqProperties
  <2>3. QED BY <2>2
<1>3. Len(w) = k /\ \A j \in 1..k : w[j] = q[j]
  BY <1>1, <1>2
<1>4. w # <<>> /\ k \in Nat /\ k - 1 \in Nat /\ 1 \in 1..k
  BY <1>3
<1>5. /\ Head(w) = w[1] /\ Len(Tail(w)) = k - 1
      /\ \A j \in 1..k - 1 : j + 1 \in 1..k /\ Tail(w)[j] = w[j + 1]
  BY <1>3, <1>4, FirstOf
<1>6. PICK t \in Seq(Packet) : t = Tail(q)
  BY FirstOf
<1>7. Head(q) = q[1] /\ Len(t) = n - 1 /\ \A j \in 1..n - 1 : t[j] = q[j + 1]
  BY <1>1, <1>6, FirstOf
<1>8. PICK v : v = SubSeq(t, 1, k - 1)
  OBVIOUS
<1>9. Len(v) = k - 1 /\ \A j \in 1..k - 1 : v[j] = t[j]
  BY <1>1, <1>4, <1>6, <1>7, <1>8
<1>10. \A j \in 1..k - 1 : v[j] = Tail(w)[j]
  <2>1. SUFFICES ASSUME NEW j \in 1..k - 1 PROVE v[j] = Tail(w)[j]
    OBVIOUS
  <2>2. j \in 1..n - 1 /\ j + 1 \in 1..k
    BY <1>1, <2>1
  <2>3. v[j] = q[j + 1]
    BY <1>7, <1>9, <2>1, <2>2
  <2>4. Tail(w)[j] = q[j + 1]
    BY <1>3, <1>5, <2>1, <2>2
  <2>5. QED BY <2>3, <2>4
<1>11. PICK u : u = Handle(s, Head(q))
  OBVIOUS
<1>12. HandleAll(u, v) = HandleAll(u, Tail(w))
  BY <1>4, <1>5, <1>9, <1>10, HandleSame
<1>13. HandleAll(Handle(s, Head(w)), Tail(w)) = HandleAll(s, w)
  BY <1>4, HandleFirst
<1>14. Head(w) = Head(q)
  BY <1>3, <1>4, <1>5, <1>7
<1>15. QED BY <1>2, <1>6, <1>8, <1>11, <1>12, <1>13, <1>14

\* The server handles a packet, and writes the file when it is a save.
LEMMA ReadLive ==
  ASSUME LiveHeld, ServerReads
  PROVE  LiveHeld'
<1>1. SyncInv /\ Coherent(Handled) /\ Mirrored(Handled) /\ toServer \in Seq(Packet)
  BY SessionSteady DEF LiveHeld
<1>2. SyncInv'
  BY <1>1, ServerKeeps
<1>3. PICK q : q \in Seq(Packet) /\ q = toServer
  BY <1>1
<1>4. /\ q # <<>> /\ server' = Handle(server, Head(q)) /\ toServer' = Tail(q)
      /\ UNCHANGED <<tree, text, heap, actionList, redoActionList, plugged, itemId, nextId, done>>
  BY <1>3 DEF ServerReads, docVars, idVars
<1>5. Handled' = Handled
  <2>1. HandleAll(Handle(server, Head(q)), Tail(q)) = HandleAll(server, q)
    BY <1>3, <1>4, HandleFirst
  <2>2. QED BY <1>3, <1>4, <2>1 DEF Handled
<1>6. Coherent(Handled)' /\ Mirrored(Handled)'
  BY <1>1, <1>4, <1>5 DEF Mirrored
<1>7. QED BY <1>2, <1>4, <1>6, QuietLive

\* With the file.
LEMMA ReadSession ==
  ASSUME SessionHeld, ServerReads, SaveFile(Head(toServer))
  PROVE  SessionHeld'
<1>1. /\ LiveHeld /\ SyncInv /\ Steady /\ Coherent(Handled) /\ Mirrored(Handled)
      /\ toServer \in Seq(Packet) /\ Sound(file) /\ Coherent(server)
  BY SessionSteady DEF SessionHeld, LiveHeld
<1>2. LiveHeld'
  <2>1. LiveHeld
    BY <1>1
  <2>2. QED BY <2>1, ReadLive
<1>3. PICK q, e : q \in Seq(Packet) /\ q = toServer /\ e = Head(q)
  BY <1>1
<1>4. /\ q # <<>> /\ server' = Handle(server, e) /\ toServer' = Tail(q)
      /\ UNCHANGED <<tree, text, heap, actionList, redoActionList, modified, plugged, itemId, nextId, done>>
      /\ file' = IF e.type = "PT_DOC_SAVE" THEN Stored(server) ELSE file
  BY <1>3 DEF ServerReads, docVars, idVars, SaveFile
<1>5. Sound(Stored(server))
  <2>1. PICK h : h = Handled
    OBVIOUS
  <2>2. \A x, y \in h.heap : h.id[x] = h.id[y] => x = y
    BY <1>1, <2>1, MirrorReads
  <2>3. Kept(server, h)
    <3>1. Len(toServer) \in Nat
      BY <1>1
    <3>2. Kept(server, HandleAll(server, toServer))
      BY <1>1, <3>1, AllKeepIds
    <3>3. QED BY <2>1, <3>2 DEF Handled
  <2>4. server.heap \in SUBSET Node
    BY <1>1, CopyParts
  <2>5. \A x, y \in server.heap : server.id[x] = server.id[y] => x = y
    BY <2>2, <2>3, <2>4 DEF Kept
  <2>6. QED BY <1>1, <2>5, StoredSound
<1>6. Sound(file)'
  BY <1>1, <1>4, <1>5
<1>7. ~modified' => \E k \in 0..Len(toServer') : SavedTo(k)'
  <2>1. SUFFICES ASSUME ~modified PROVE \E k \in 0..Len(toServer') : SavedTo(k)'
    BY <1>4
  <2>2. PICK k \in 0..Len(toServer) : SavedTo(k)
    BY <2>1 DEF SessionHeld
  <2>3. PICK n \in Nat : n = Len(q)
    OBVIOUS
  <2>4. PICK t : t = Tail(q)
    OBVIOUS
  <2>5. /\ e = q[1] /\ 1 \in 1..n /\ Len(t) = n - 1
        /\ \A j \in 1..n - 1 : j + 1 \in 1..n /\ t[j] = q[j + 1]
    BY <1>3, <1>4, <2>3, <2>4, FirstOf
  <2>6. \A j \in 1..n : j > k => q[j].type # "PT_DOC_SAVE"
    BY <1>3, <2>2, <2>3 DEF SavedTo
  <2>7. k \in 0..n
    BY <1>3, <2>2, <2>3
  <2>8. Outline(tree', itemId', text') = Outline(tree, itemId, text)
    BY <1>4
  <2>9. CASE k = 0
    <3>1. e.type # "PT_DOC_SAVE"
      BY <2>5, <2>6, <2>9
    <3>2. Plain(file)' = Outline(tree, itemId, text)
      BY <1>4, <2>2, <2>9, <3>1 DEF SavedTo, Plain
    <3>3. \A j \in 1..n - 1 : t[j].type # "PT_DOC_SAVE"
      BY <2>3, <2>5, <2>6, <2>9
    <3>4. SavedTo(0)'
      BY <1>4, <2>4, <2>5, <2>8, <3>2, <3>3 DEF SavedTo, Plain
    <3>5. 0 \in 0..Len(toServer')
      BY <1>4, <2>3, <2>4, <2>5
    <3>6. QED BY <3>4, <3>5
  <2>10. CASE k # 0
    <3>1. k > 0 /\ k \in 1..n /\ k - 1 \in 0..n - 1 /\ k \in Nat
      BY <2>3, <2>7, <2>10
    <3>2. q[k].type = "PT_DOC_SAVE"
      BY <1>3, <2>2, <3>1 DEF SavedTo
    <3>3. Plain(Stored(HandleAll(server, SubSeq(q, 1, k)))) = Outline(tree, itemId, text)
      BY <1>3, <2>2, <3>1 DEF SavedTo
    <3>4. HandleAll(server', SubSeq(t, 1, k - 1)) = HandleAll(server, SubSeq(q, 1, k))
      <4>1. HandleAll(Handle(server, Head(q)), SubSeq(Tail(q), 1, k - 1))
              = HandleAll(server, SubSeq(q, 1, k))
        BY <1>3, <1>4, <2>3, <3>1, HandlePrefix
      <4>2. QED BY <1>3, <1>4, <2>4, <4>1
    <3>5. \A j \in 1..n - 1 : j > k - 1 => t[j].type # "PT_DOC_SAVE"
      <4>1. SUFFICES ASSUME NEW j \in 1..n - 1, j > k - 1 PROVE t[j].type # "PT_DOC_SAVE"
        OBVIOUS
      <4>2. j + 1 > k
        BY <3>1, <4>1
      <4>3. QED BY <2>5, <2>6, <4>1, <4>2
    <3>6. k - 1 = 0 => Plain(file)' = Outline(tree, itemId, text)
      <4>1. SUFFICES ASSUME k = 1 PROVE Plain(file)' = Outline(tree, itemId, text)
        BY <3>1
      <4>2. file' = Stored(server) /\ e.type = "PT_DOC_SAVE"
        BY <1>4, <2>5, <3>2, <4>1
      <4>3. server' = server
        BY <1>4, <4>2 DEF Handle
      <4>4. SubSeq(t, 1, 0) = <<>>
        BY <1>3, <1>4, <2>4, FirstOf
      <4>5. HandleAll(server', SubSeq(t, 1, 0)) = server
        BY <4>3, <4>4, HandleNothing
      <4>6. HandleAll(server, SubSeq(q, 1, k)) = server
        BY <3>4, <4>1, <4>5
      <4>7. QED BY <3>3, <4>2, <4>6 DEF Plain
    <3>7. k - 1 > 0 => t[k - 1].type = "PT_DOC_SAVE"
      BY <2>5, <3>1, <3>2
    <3>8. SavedTo(k - 1)'
      BY <1>4, <2>4, <2>5, <2>8, <3>3, <3>4, <3>5, <3>6, <3>7 DEF SavedTo, Plain
    <3>9. k - 1 \in 0..Len(toServer')
      BY <1>4, <2>4, <2>5, <3>1
    <3>10. QED BY <3>8, <3>9
  <2>11. QED BY <2>9, <2>10
<1>8. QED BY <1>2, <1>6, <1>7 DEF SessionHeld

\* The server is restarted, and nothing is lost with it.
LEMMA RestartSession ==
  ASSUME SessionHeld, RestartServer, doubts' = {}
  PROVE  SessionHeld'
<1>1. /\ SyncInv /\ Steady /\ Coherent(Handled) /\ Mirrored(Handled) /\ Sound(file)
  BY SessionSteady DEF SessionHeld, LiveHeld
<1>2. PICK f : f = LoadFile
  OBVIOUS
<1>3. Sound(f)
  BY <1>1, <1>2, LoadSound
<1>4. /\ server' = f /\ file' = file /\ toServer = <<>> /\ toServer' = <<>>
      /\ OutlineOf(server) = OutlineOf(f)
      /\ UNCHANGED <<tree, text, heap, actionList, redoActionList, modified, plugged, itemId, nextId, done>>
  BY <1>2 DEF RestartServer, CutConnection, Doubt, docVars, idVars
<1>5. SyncInv'
  <2>1. Coherent(server')
    BY <1>3, <1>4 DEF Sound
  <2>2. PICK harm : CutConnection(harm)
    BY DEF RestartServer
  <2>3. QED BY <1>1, <2>1, <2>2, CutKeeps
<1>6. Handled = server
  BY <1>4, HandleNothing DEF Handled
<1>7. OutlineOf(server) = Outline(tree, itemId, Labels(text, done))
  <2>1. Coherent(server) /\ Mirrored(server)
    BY <1>1, <1>6
  <2>2. QED BY <1>1, <2>1, MirrorReads
<1>8. Mirrored(f)
  <2>1. OutlineOf(f) = Outline(tree, itemId, Labels(text, done))
    BY <1>4, <1>7
  <2>2. QED BY <1>1, <1>3, <2>1, SoundMirrors
<1>9. Handled' = f
  BY <1>4, HandleNothing DEF Handled
<1>10. Coherent(Handled)' /\ Mirrored(Handled)' /\ Sound(file)'
  BY <1>1, <1>3, <1>4, <1>8, <1>9 DEF Mirrored, Sound
<1>11. ~modified' => \E k \in 0..Len(toServer') : SavedTo(k)'
  <2>1. SUFFICES ASSUME ~modified PROVE \E k \in 0..Len(toServer') : SavedTo(k)'
    BY <1>4
  <2>2. PICK k \in 0..Len(toServer) : SavedTo(k)
    BY <2>1 DEF SessionHeld
  <2>3. k = 0 /\ Len(toServer) = 0 /\ Len(toServer') = 0
    BY <1>4, <2>2
  <2>4. Plain(file) = Outline(tree, itemId, text)
    BY <2>2, <2>3 DEF SavedTo
  <2>5. SavedTo(0)' /\ 0 \in 0..Len(toServer')
    BY <1>4, <2>3, <2>4 DEF SavedTo, Plain
  <2>6. QED BY <2>5
<1>12. QED BY <1>4, <1>5, <1>10, <1>11, QuietSession

\* A finite set of numbers has a largest one.
LEMMA MaxIs ==
  ASSUME NEW S \in SUBSET Nat, IsFiniteSet(S), S # {}
  PROVE  Max(S) \in S /\ \A y \in S : y <= Max(S)
<1> DEFINE T == {n \in Nat : \A Z \in SUBSET Nat : IsFiniteSet(Z) /\ Cardinality(Z) = n /\ Z # {} =>
                              \E x \in Z : \A y \in Z : x >= y}
<1>1. 0 \in T
  BY FS_EmptySet
<1>2. ASSUME NEW n \in Nat, n \in T PROVE n + 1 \in T
  <2>1. SUFFICES ASSUME NEW Z \in SUBSET Nat, IsFiniteSet(Z), Cardinality(Z) = n + 1, Z # {}
                 PROVE  \E x \in Z : \A y \in Z : x >= y
    OBVIOUS
  <2>2. PICK z \in Z : TRUE
    BY <2>1
  <2>3. PICK Y : Y = Z \ {z}
    OBVIOUS
  <2>4. Y \in SUBSET Nat /\ IsFiniteSet(Y) /\ Cardinality(Y) = n
    <3>1. IsFiniteSet(Z \ {z}) /\ Cardinality(Z \ {z}) = IF z \in Z THEN Cardinality(Z) - 1 ELSE Cardinality(Z)
      BY <2>1, FS_RemoveElement
    <3>2. Cardinality(Z) - 1 = n
      BY <2>1
    <3>3. QED BY <2>2, <2>3, <3>1, <3>2
  <2>5. CASE Y = {}
    BY <2>2, <2>3, <2>5
  <2>6. CASE Y # {}
    <3>1. PICK x \in Y : \A y \in Y : x >= y
      BY <1>2, <2>4, <2>6
    <3>2. x \in Nat /\ z \in Nat /\ x \in Z
      BY <2>2, <2>3, <2>4
    <3>3. CASE x >= z
      BY <2>3, <3>1, <3>2, <3>3
    <3>4. CASE z > x
      <4>1. \A y \in Y : z >= y
        BY <2>4, <3>1, <3>2, <3>4
      <4>2. \A y \in Z : z >= y
        BY <2>3, <3>2, <4>1
      <4>3. QED BY <2>2, <4>2
    <3>5. QED BY <3>2, <3>3, <3>4
  <2>7. QED BY <2>5, <2>6
<1>3. Cardinality(S) \in T
  <2> HIDE DEF T
  <2>1. Nat \subseteq T
    BY <1>1, <1>2, SetInduction
  <2>2. Cardinality(S) \in Nat
    BY FS_CardinalityType
  <2>3. QED BY <2>1, <2>2
<1>4. PICK x \in S : \A y \in S : x >= y
  BY <1>3
<1>5. Max(S) \in S /\ \A y \in S : Max(S) >= y
  BY <1>4 DEF Max
<1>6. QED BY <1>5

\* A document in store, with every object in its tree.
LEMMA StoreSound ==
  ASSUME NEW s \in ServerCopies
  PROVE  /\ Sound(s) /\ s.tree \in Tree /\ LinksAgree(s.tree) /\ ChainsEnd(s.tree)
         /\ s.tree.parent[Root] = Nil /\ s.text \in [Item -> Text] /\ s.done \in [Item -> BOOLEAN]
         /\ \A x \in Node \ s.heap : Unlinked(s.tree, x)
         /\ \A x \in Item \ s.heap : s.text[x] = EmptyText /\ ~s.done[x]
<1>1. Coherent(s)
  BY StoreCoherent
<1>2. s.tree \in Tree /\ s.text \in [Item -> Text] /\ s.done \in [Item -> BOOLEAN]
  BY <1>1, CopyParts
<1>3. /\ LinksAgree(s.tree) /\ ChainsEnd(s.tree) /\ s.tree.parent[Root] = Nil
      /\ s.heap = InTree(s.tree) /\ \A x \in Node \ s.heap : Unlinked(s.tree, x)
      /\ \A x \in Item \ s.heap : s.text[x] = EmptyText /\ ~s.done[x]
      /\ \A x, y \in s.heap : s.id[x] = s.id[y] => x = y
  BY ServerCopiesAssumption
<1>4. QED BY <1>1, <1>2, <1>3 DEF Sound

\* The document was loaded.
LEMMA SessionBegins ==
  ASSUME SessionInit
  PROVE  SessionInv
<1>1. PICK s \in ServerCopies : s = server
  BY DEF SessionInit
<1>2. /\ Sound(s) /\ s.tree \in Tree /\ LinksAgree(s.tree) /\ ChainsEnd(s.tree)
      /\ s.tree.parent[Root] = Nil /\ s.text \in [Item -> Text] /\ s.done \in [Item -> BOOLEAN]
      /\ \A x \in Node \ s.heap : Unlinked(s.tree, x)
      /\ \A x \in Item \ s.heap : s.text[x] = EmptyText /\ ~s.done[x]
  BY StoreSound
<1>3. /\ Coherent(s) /\ s.heap = InTree(s.tree)
      /\ \A x, y \in s.heap : s.id[x] = s.id[y] => x = y
  BY <1>2 DEF Sound
<1>4. /\ s.id \in [Node -> Nat] /\ s.heap \in SUBSET Node /\ Root \in s.heap
      /\ s.id[Root] = NoId /\ \A x \in s.heap \ {Root} : s.id[x] # NoId
  BY <1>3, CopyParts DEF Coherent
<1>5. /\ tree = s.tree /\ heap = s.heap /\ text = s.text /\ itemId = s.id
      /\ done = [x \in Node |-> x # Root /\ s.done[x]]
      /\ plugged = [x \in Item |-> x \in heap]
      /\ nextId = Max({FirstId} \cup {itemId[x] + 1 : x \in heap})
  BY <1>1, <1>3 DEF SessionInit
<1>6. /\ actionList = <<>> /\ redoActionList = <<>> /\ signals = <<>> /\ modified = FALSE
      /\ pendingRequests = 0 /\ requests = {} /\ requestId = 0
      /\ toServer = <<>> /\ toClient = <<>> /\ file = Stored(s)
  BY <1>1 DEF SessionInit
<1>7. \A x \in Item \ heap : x \in Node \ s.heap /\ x # Root /\ x \in Item
  BY <1>5 DEF Item
<1>8. IndInv
  <2>1. TypeOK
    <3>1. plugged \in [Item -> BOOLEAN]
      BY <1>5
    <3>2. /\ actionList \in Seq(Action) /\ redoActionList \in Seq(Action)
          /\ signals \in Seq(Signal) /\ modified \in BOOLEAN
      <4>1. \A S : <<>> \in Seq(S)
        OBVIOUS
      <4>2. QED BY <1>6, <4>1
    <3>3. QED BY <1>2, <1>4, <1>5, <3>1, <3>2 DEF TypeOK
  <2>2. FreshUnlinked
    BY <1>2, <1>5, <1>7 DEF FreshUnlinked
  <2>3. DOMAIN actionList = {} /\ DOMAIN redoActionList = {}
    BY <1>6
  <2>4. ListsAllocated /\ DeletedDetached /\ NoUseAfterDelete
    BY <2>3 DEF ListsAllocated, DeletedDetached, NoUseAfterDelete
  <2>5. QED BY <1>2, <1>5, <2>1, <2>2, <2>4 DEF IndInv, LinksConsistent, ChainsFinite
<1>9. Sane(tree.parent, heap)
  BY <1>2, <1>3, <1>5, TreeSane
<1>10. PlacesSane
  BY <1>2, <1>5, <1>6, <1>9, PlacesStart
<1>11. Numbered(itemId, heap)
  BY <1>4, <1>5 DEF Numbered
<1>12. nextId \in Id /\ \A x \in heap : itemId[x] < nextId
  <2>1. PICK f : f = [x \in heap |-> itemId[x] + 1]
    OBVIOUS
  <2>2. PICK B : B = {itemId[x] + 1 : x \in heap}
    OBVIOUS
  <2>3. f \in Surjection(heap, B)
    BY <2>1, <2>2 DEF Surjection
  <2>4. IsFiniteSet(heap)
    BY <1>4, <1>5, HeapFinite, FS_Subset
  <2>5. IsFiniteSet(B)
    BY <2>3, <2>4, FS_Surjection
  <2>6. PICK C : C = {FirstId} \cup B
    OBVIOUS
  <2>7. IsFiniteSet(C)
    <3>1. IsFiniteSet(B \cup {FirstId})
      BY <2>5, FS_AddElement
    <3>2. C = B \cup {FirstId}
      BY <2>6
    <3>3. QED BY <3>1, <3>2
  <2>8. \A c \in C : c \in Nat /\ c # 0
    <3>1. \A c \in B : c \in Nat /\ c # 0
      BY <1>4, <1>5, <2>2
    <3>2. FirstId \in Nat /\ FirstId # 0
      BY FirstIdAssumption DEF NoId
    <3>3. QED BY <2>6, <3>1, <3>2
  <2>9. C \in SUBSET Nat /\ C # {}
    BY <2>6, <2>8
  <2>10. nextId = Max(C)
    BY <1>5, <2>2, <2>6
  <2>11. nextId \in C /\ \A c \in C : c <= nextId
    BY <2>7, <2>9, <2>10, MaxIs
  <2>12. \A x \in heap : itemId[x] \in Nat /\ itemId[x] + 1 \in C
    BY <1>4, <1>5, <2>2, <2>6
  <2>13. nextId \in Nat /\ nextId # 0
    BY <2>8, <2>11
  <2>14. \A x \in heap : itemId[x] < nextId
    BY <2>11, <2>12, <2>13
  <2>15. QED BY <2>13, <2>14 DEF Id, NoId
<1>13. done \in [Node -> BOOLEAN] /\ \A x \in Item : done[x] = s.done[x]
  <2>1. PICK g \in [Item -> BOOLEAN] : g = s.done
    BY <1>2
  <2>2. done = [x \in Node |-> x # Root /\ g[x]]
    BY <1>5, <2>1
  <2>3. done \in [Node -> BOOLEAN]
    BY <2>2
  <2>4. ASSUME NEW x \in Item PROVE done[x] = g[x]
    <3>1. x \in Node /\ x # Root /\ g[x] \in BOOLEAN
      BY <2>4 DEF Item
    <3>2. QED BY <2>2, <3>1
  <2>5. QED BY <2>1, <2>3, <2>4
<1>14. Named
  <2>1. \A x \in Item \ heap : ~done[x]
    BY <1>2, <1>5, <1>13
  <2>2. QED BY <1>3, <1>5, <1>12, <2>1 DEF Named
<1>15. Held
  BY <1>2, <1>3, <1>5, <1>6, <1>7, <1>8, HeldBegins
<1>16. Steady
  BY <1>8, <1>9, <1>11, <1>13, <1>14, <1>15 DEF Steady
<1>17. Matched(toServer, toClient, requests, requestId)
  <2>1. \A S : <<>> \in Seq(S) /\ Len(<<>>) = 0 /\ 1..0 = {}
    OBVIOUS
  <2>2. Req(toServer) = {} /\ Ans(toClient) = {}
    BY <1>6, <2>1 DEF Req, Ans
  <2>3. QED BY <1>6, <2>1, <2>2 DEF Matched
<1>18. SyncInv
  BY <1>1, <1>3, <1>6, <1>8, <1>10, <1>11, <1>12, <1>13, <1>17, FS_EmptySet DEF SyncInv, ClientSound
<1>19. Handled = s
  BY <1>1, <1>6, HandleNothing DEF Handled
<1>20. Mirrored(s)
  <2>1. Labels(text, done) = Labels(s.text, s.done)
    BY <1>5, <1>13 DEF Labels
  <2>2. OutlineOf(s) = Outline(tree, itemId, Labels(text, done))
    BY <1>5, <2>1 DEF OutlineOf
  <2>3. QED BY <1>2, <1>16, <2>2, SoundMirrors
<1>21. Sound(file) /\ Plain(file) = Outline(tree, itemId, text)
  <2>1. Hung(s.tree)
    BY <1>2, SoundHung
  <2>2. Sound(Stored(s)) /\ Plain(Stored(s)) = Plain(s)
    BY <1>3, <2>1, StoredSound
  <2>3. Plain(s) = Outline(tree, itemId, text)
    BY <1>5 DEF Plain
  <2>4. QED BY <1>6, <2>2, <2>3
<1>22. SavedTo(0) /\ 0 \in 0..Len(toServer)
  BY <1>6, <1>21 DEF SavedTo
<1>23. QED BY <1>3, <1>14, <1>15, <1>18, <1>19, <1>20, <1>21, <1>22 DEF SessionInv, SessionHeld, LiveHeld

\* Every step that raises no doubt.
LEMMA SessionKeeps ==
  ASSUME SessionInv, [SessionNext]_sessionVars
  PROVE  SessionInv'
<1>1. SUFFICES ASSUME doubts' = {} PROVE SessionHeld'
  BY DEF SessionInv
<1>2. doubts = {}
  <2>1. CASE RestartServer
    BY <1>1, <2>1 DEF RestartServer, CutConnection
  <2>2. CASE ServerReads
    BY <1>1, <2>2 DEF ServerReads
  <2>3. CASE UserStep
    BY <1>1, <2>3 DEF UserStep
  <2>4. CASE SetItemDone \/ SaveDocument
    BY <1>1, <2>4 DEF SetItemDone, SaveDocument, Extra
  <2>5. CASE LoseConnection
    BY <1>1, <2>5 DEF LoseConnection, CutConnection
  <2>6. CASE ConnectAgain \/ ClientReadsResponse
    BY <1>1, <2>6 DEF ConnectAgain, ClientReadsResponse
  <2>7. CASE UNCHANGED sessionVars
    BY <1>1, <2>7 DEF sessionVars, syncVars
  <2>8. QED BY <2>1, <2>2, <2>3, <2>4, <2>5, <2>6, <2>7 DEF SessionNext
<1>3. SessionHeld /\ SyncInv
  BY <1>2 DEF SessionInv, SessionHeld, LiveHeld
<1>4. CASE RestartServer
  BY <1>1, <1>3, <1>4, RestartSession
<1>5. CASE ServerReads /\ SaveFile(Head(toServer))
  BY <1>3, <1>5, ReadSession
<1>6. CASE UserStep /\ file' = file
  BY <1>1, <1>3, <1>6, UserSession
<1>7. CASE SetItemDone /\ file' = file
  BY <1>1, <1>3, <1>7, MarkSession
<1>8. CASE SaveDocument /\ file' = file
  BY <1>1, <1>3, <1>8, SaveSession
<1>9. CASE LoseConnection /\ file' = file
  <2>1. /\ CutConnection({}) /\ server' = server
        /\ UNCHANGED <<docVars, plugged, idVars, done>> /\ toServer' = toServer
    BY <1>1, <1>9 DEF LoseConnection, CutConnection, Doubt
  <2>2. SyncInv'
    BY <1>3, <2>1, CutKeeps DEF SyncInv
  <2>3. QED BY <1>3, <1>9, <2>1, <2>2, IdleSession
<1>10. CASE ConnectAgain /\ file' = file
  <2>1. UNCHANGED <<docVars, plugged, idVars, done, server, toServer>>
    BY <1>10 DEF ConnectAgain
  <2>2. SyncInv'
    BY <1>3, <1>10, AgainKeeps
  <2>3. QED BY <1>3, <1>10, <2>1, <2>2, IdleSession
<1>11. CASE ClientReadsResponse /\ file' = file
  <2>1. UNCHANGED <<docVars, plugged, idVars, done, server, toServer>>
    BY <1>11 DEF ClientReadsResponse
  <2>2. SyncInv'
    BY <1>3, <1>11, ResponseKeeps
  <2>3. QED BY <1>3, <1>11, <2>1, <2>2, IdleSession
<1>12. CASE UNCHANGED sessionVars
  <2>1. UNCHANGED syncVars /\ file' = file
    BY <1>12 DEF sessionVars
  <2>2. UNCHANGED <<docVars, plugged, idVars, done, server, toServer>>
    BY <2>1 DEF syncVars, vars, netVars
  <2>3. SyncInv'
    BY <1>3, <2>1, SyncKeeps
  <2>4. QED BY <1>3, <2>1, <2>2, <2>3, IdleSession
<1>13. QED BY <1>4, <1>5, <1>6, <1>7, <1>8, <1>9, <1>10, <1>11, <1>12 DEF SessionNext

\* The invariant of DocumentSession.
THEOREM SessionInvHolds == SessionSpec => []SessionInv
<1>1. SessionInit => SessionInv
  BY SessionBegins
<1>2. SessionInv /\ [SessionNext]_sessionVars => SessionInv'
  BY SessionKeeps
<1>3. QED BY <1>1, <1>2, PTL DEF SessionSpec

\* Whatever the user, the connection and the server do, as long as none of the
\* doubts is raised the server's copy becomes what the client shows.
THEOREM SessionMirrors == SessionSpec => []Mirror
<1>1. SessionInv => Mirror
  <2>1. SUFFICES ASSUME SessionInv, doubts = {}
                 PROVE  OutlineOf(Handled) = Outline(tree, itemId, Labels(text, done))
    BY DEF Mirror, OutlineOf, Handled
  <2>2. Steady /\ Coherent(Handled) /\ Mirrored(Handled)
    BY <2>1, SessionSteady DEF SessionInv, SessionHeld, LiveHeld
  <2>3. QED BY <2>2, MirrorReads
<1>2. QED BY <1>1, SessionInvHolds, PTL

\* While the document is not modified, what is saved is what the client has.
LEMMA SavedShown ==
  ASSUME SessionInv, ~modified, doubts = {}, \A k \in 1..Len(toServer) : toServer[k].type # "PT_DOC_SAVE"
  PROVE  Plain(file) = Outline(tree, itemId, text) /\ Sound(file)
<1>1. SessionHeld
  BY DEF SessionInv
<1>2. PICK k \in 0..Len(toServer) : SavedTo(k)
  BY <1>1 DEF SessionHeld
<1>3. Len(toServer) \in Nat
  BY <1>1, SessionSteady
<1>4. k = 0
  <2>1. SUFFICES ASSUME k # 0 PROVE FALSE
    OBVIOUS
  <2>2. k > 0 /\ k \in 1..Len(toServer)
    BY <1>2, <1>3, <2>1
  <2>3. QED BY <1>2, <2>2 DEF SavedTo
<1>5. QED BY <1>1, <1>2, <1>4 DEF SavedTo, SessionHeld

\* A document whose flag modified is not set (ClientDocument::save, setModified)
\* is in the file as the client has it, once its saves have been handled.
THEOREM ModifiedAlwaysTells == SessionSpec => []ModifiedTells
<1>1. SessionInv => ModifiedTells
  <2>1. SUFFICES ASSUME SessionInv, ~modified, doubts = {},
                        \A k \in DOMAIN toServer : toServer[k].type # "PT_DOC_SAVE"
                 PROVE  Outline(tree, itemId, text) = Outline(file.tree, file.id, file.text)
    BY DEF ModifiedTells
  <2>2. toServer \in Seq(Packet)
    BY <2>1, SessionSteady DEF SessionInv, SessionHeld
  <2>3. \A k \in 1..Len(toServer) : toServer[k].type # "PT_DOC_SAVE"
    BY <2>1, <2>2
  <2>4. QED BY <2>1, <2>3, SavedShown DEF Plain
<1>2. QED BY <1>1, SessionInvHolds, PTL

\* A restart of the server (loadData) brings back the document the client has if
\* it is not modified, unless it has no items.
THEOREM RestartsHarmless == SessionSpec => RestartHarmless
<1>1. SessionInv /\ [SessionNext]_sessionVars =>
        [/\ RestartServer
         /\ ~modified /\ doubts = {} /\ toServer = <<>> /\ tree.firstChild[Root] # Nil
         => Outline(tree, itemId, text) = Outline(server'.tree, server'.id, server'.text)]_sessionVars
  <2>1. SUFFICES ASSUME SessionInv, RestartServer, ~modified, doubts = {}, toServer = <<>>,
                        tree.firstChild[Root] # Nil
                 PROVE  Outline(tree, itemId, text) = Outline(server'.tree, server'.id, server'.text)
    OBVIOUS
  <2>2. \A k \in 1..Len(toServer) : toServer[k].type # "PT_DOC_SAVE"
    BY <2>1
  <2>3. Plain(file) = Outline(tree, itemId, text) /\ Sound(file)
    BY <2>1, <2>2, SavedShown
  <2>4. Steady
    BY <2>1, SessionSteady DEF SessionInv, SessionHeld
  <2>5. /\ tree \in Tree /\ LinksAgree(tree) /\ ChainsEnd(tree) /\ Hung(tree)
    BY <2>4, SteadyTrees
  <2>6. Outline(tree, itemId, text) # <<>>
    <3>1. Grounded(tree)
      BY <2>5, AgreeOnward, HungGrounded
    <3>2. PICK f : Reads(tree, itemId, text, f) /\ Outline(tree, itemId, text) = f[tree.firstChild[Root]]
      BY <2>5, <3>1, OutlineUnfolds
    <3>3. PICK x \in Node : x = tree.firstChild[Root]
      BY <2>1, <2>5, NodeAssumption DEF Tree, ItemOrNil, Item
    <3>4. f[x] = <<itemId[x], text[x], f[tree.firstChild[x]], f[tree.next[x]]>>
      BY <3>2 DEF Reads
    <3>5. QED BY <3>2, <3>3, <3>4, NotNothing
  <2>7. file.tree.firstChild[Root] # Nil
    <3>1. file.tree \in Tree /\ OnwardAgree(file.tree) /\ ChainsEnd(file.tree)
      BY <2>3, CopyParts DEF Sound, Coherent
    <3>2. Grounded(file.tree)
      BY <2>3, <3>1, SoundHung, HungGrounded
    <3>3. PICK f : /\ Reads(file.tree, file.id, file.text, f)
                   /\ Outline(file.tree, file.id, file.text) = f[file.tree.firstChild[Root]]
      BY <3>1, <3>2, OutlineUnfolds
    <3>4. f[Nil] = <<>>
      BY <3>3 DEF Reads
    <3>5. QED BY <2>3, <2>6, <3>3, <3>4 DEF Plain
  <2>8. server' = file
    BY <2>1, <2>3, <2>7, LoadSound DEF RestartServer
  <2>9. QED BY <2>3, <2>8 DEF Plain
<1>2. QED BY <1>1, SessionInvHolds, PTL DEF SessionSpec, RestartHarmless

---------------------------------------------------------------------------
(* Reading a document.                                                     *)

\* What a queue holds.
In(q) == {q[k] : k \in 1..Len(q)}

\* What is appended is added.
LEMMA InJoined ==
  ASSUME NEW S, NEW q \in Seq(S), NEW p \in Seq(S)
  PROVE  In(q \o p) = In(q) \cup In(p)
<1>1. PICK r : r = q \o p
  OBVIOUS
<1>2. /\ Len(q) \in Nat /\ Len(p) \in Nat /\ Len(r) = Len(q) + Len(p)
      /\ \A k \in 1..Len(q) : k \in 1..Len(r) /\ r[k] = q[k]
      /\ \A k \in 1..Len(r) : k > Len(q) => k - Len(q) \in 1..Len(p) /\ r[k] = p[k - Len(q)]
      /\ \A k \in 1..Len(r) : k <= Len(q) => k \in 1..Len(q)
  BY <1>1, Joined
<1>3. ASSUME NEW k \in 1..Len(r) PROVE r[k] \in In(q) \cup In(p)
  <2>1. CASE k <= Len(q)
    BY <1>2, <2>1 DEF In
  <2>2. CASE k > Len(q)
    BY <1>2, <2>2 DEF In
  <2>3. QED BY <1>2, <2>1, <2>2
<1>4. ASSUME NEW k \in 1..Len(q) PROVE q[k] \in In(r)
  BY <1>2 DEF In
<1>5. ASSUME NEW k \in 1..Len(p) PROVE p[k] \in In(r)
  <2>1. k + Len(q) \in 1..Len(r) /\ k + Len(q) > Len(q) /\ k + Len(q) - Len(q) = k
    BY <1>2
  <2>2. r[k + Len(q)] = p[k]
    BY <1>2, <2>1
  <2>3. QED BY <2>1, <2>2 DEF In
<1>6. In(r) \subseteq In(q) \cup In(p)
  BY <1>3 DEF In
<1>7. In(q) \cup In(p) \subseteq In(r)
  <2>1. In(q) \subseteq In(r)
    BY <1>4 DEF In
  <2>2. In(p) \subseteq In(r)
    BY <1>5 DEF In
  <2>3. QED BY <2>1, <2>2
<1>8. QED BY <1>1, <1>6, <1>7

\* What is read was there.
LEMMA InFirst ==
  ASSUME NEW S, NEW q \in Seq(S), q # <<>>
  PROVE  In(q) = {Head(q)} \cup In(Tail(q)) /\ Head(q) \in S /\ Tail(q) \in Seq(S)
<1>1. PICK e, t : e = Head(q) /\ t = Tail(q)
  OBVIOUS
<1>2. /\ e \in S /\ e = q[1] /\ t \in Seq(S) /\ 1 \in 1..Len(q)
      /\ Len(q) \in Nat /\ Len(t) = Len(q) - 1
      /\ \A k \in 1..Len(t) : k + 1 \in 1..Len(q) /\ t[k] = q[k + 1]
  BY <1>1, FirstOf
<1>3. ASSUME NEW k \in 1..Len(q), k # 1 PROVE q[k] \in In(t)
  <2>1. k - 1 \in 1..Len(t) /\ k - 1 + 1 = k
    BY <1>2, <1>3
  <2>2. QED BY <1>2, <2>1 DEF In
<1>4. In(q) \subseteq {e} \cup In(t)
  BY <1>2, <1>3 DEF In
<1>5. {e} \cup In(t) \subseteq In(q)
  BY <1>2 DEF In
<1>6. QED BY <1>1, <1>2, <1>4, <1>5

\* What is skipped is gone.
LEMMA InSkipped ==
  ASSUME NEW S, NEW q \in Seq(S), NEW n \in 1..Len(q)
  PROVE  /\ SubSeq(q, n + 1, Len(q)) \in Seq(S)
         /\ In(SubSeq(q, n + 1, Len(q))) \subseteq In(q)
         /\ \A m \in In(q) : m \in In(SubSeq(q, n + 1, Len(q))) \/ \E k \in 1..n : m = q[k]
<1>1. PICK t : t = SubSeq(q, n + 1, Len(q))
  OBVIOUS
<1>2. /\ t \in Seq(S) /\ Len(q) \in Nat /\ Len(t) = Len(q) - n
      /\ \A k \in 1..Len(t) : k + n \in 1..Len(q) /\ t[k] = q[k + n]
  BY <1>1
<1>3. ASSUME NEW k \in 1..Len(q), k \notin 1..n PROVE q[k] \in In(t)
  <2>1. k - n \in 1..Len(t) /\ k - n + n = k
    BY <1>2, <1>3
  <2>2. QED BY <1>2, <2>1 DEF In
<1>4. In(t) \subseteq In(q)
  BY <1>2 DEF In
<1>5. ASSUME NEW m \in In(q) PROVE m \in In(t) \/ \E k \in 1..n : m = q[k]
  <2>1. PICK k \in 1..Len(q) : m = q[k]
    BY <1>5 DEF In
  <2>2. QED BY <1>3, <2>1
<1>6. QED BY <1>1, <1>2, <1>4, <1>5

\* One message, and none.
LEMMA InSmall ==
  ASSUME NEW e
  PROVE  In(<<e>>) = {e} /\ In(<<>>) = {}
<1>1. Len(<<e>>) = 1 /\ 1..1 = {1} /\ <<e>>[1] = e /\ Len(<<>>) = 0 /\ 1..0 = {}
  OBVIOUS
<1>2. QED BY <1>1 DEF In

\* Before the first command, mark and save.
Untouched == actionList = <<>> /\ redoActionList = <<>> /\ extras = 0

\* A text that a copy has already, when it has the item.
Known(s, m) == Found(s, m.item) = Nil \/ m.text = s.text[Found(s, m.item)]

\* A packet that changes nothing in a copy, and an answer that is sent back as one.
OldNews(s, p) == \/ p.type \in {"PT_GET_CHILDREN", "PT_GET_ITEM"}
                 \/ p.type = "PT_ITEM_CHANGED" /\ Known(s, p)
OldAnswer(s, r) == r.type = "PT_GET_ITEM" => Known(s, r)

\* Until then nothing else is under way.
ReadOnlyInv ==
  /\ extras \in Nat
  /\ Untouched => /\ \A m \in In(toServer) : OldNews(server, m)
                  /\ \A m \in In(toClient) : OldAnswer(server, m)

\* Such a packet changes nothing.
LEMMA OldNewsIdle ==
  ASSUME NEW s, Coherent(s), NEW p, OldNews(s, p)
  PROVE  Handle(s, p) = s
<1>1. CASE p.type \in {"PT_GET_CHILDREN", "PT_GET_ITEM"}
  BY <1>1 DEF Handle
<1>2. CASE p.type = "PT_ITEM_CHANGED" /\ Known(s, p)
  <2>1. PICK i, v : i = Found(s, p.item) /\ v = [s.text EXCEPT ![i] = p.text]
    OBVIOUS
  <2>2. Handle(s, p) = IF i = Nil THEN s ELSE [s EXCEPT !.text = v]
    BY <1>2, <2>1 DEF Handle, SetText
  <2>3. /\ s.text \in [Item -> Text]
        /\ s = [tree |-> s.tree, text |-> s.text, done |-> s.done, heap |-> s.heap, id |-> s.id]
    BY CopyParts
  <2>4. i = Nil \/ v = s.text
    BY <1>2, <2>1, <2>3 DEF Known
  <2>5. [s EXCEPT !.text = s.text] = s
    BY <2>3
  <2>6. QED BY <2>2, <2>4, <2>5
<1>3. QED BY <1>1, <1>2 DEF OldNews

\* The answer to a request for children.
LEMMA ListReply ==
  ASSUME NEW s, NEW p, p.type = "PT_GET_CHILDREN", NEW x, x = Found(s, p.item),
         NEW c, c = IF x = Nil THEN <<>> ELSE Children(s.tree, x),
         NEW e, e = [k \in DOMAIN c |-> [id |-> s.id[c[k]], done |-> s.done[c[k]],
                      prev |-> IF s.tree.prev[c[k]] = Nil THEN NoId ELSE s.id[s.tree.prev[c[k]]]]]
  PROVE  \E r : /\ Reply(s, p) = <<r>> /\ r.type = "PT_GET_CHILDREN"
                /\ r.item = p.item /\ r.children = e /\ r.request = p.request
<1>1. PICK r : r = [type |-> "PT_GET_CHILDREN", item |-> p.item, children |-> e, request |-> p.request]
  OBVIOUS
<1>2. Reply(s, p) = <<r>>
  BY Zenon, <1>1 DEF Reply, SendChildrenIds
<1>3. /\ r.type = "PT_GET_CHILDREN" /\ r.item = p.item /\ r.children = e /\ r.request = p.request
  BY <1>1
<1>4. QED BY Zenon, <1>2, <1>3

\* What the server answers to it.
LEMMA OldNewsAnswered ==
  ASSUME NEW s, Coherent(s), NEW p \in Packet, OldNews(s, p)
  PROVE  \A m \in In(Reply(s, p)) : OldAnswer(s, m)
<1>1. CASE p.type = "PT_GET_ITEM"
  <2>1. PICK i : i = Found(s, p.item)
    OBVIOUS
  <2>2. CASE i = Nil
    <3>1. Reply(s, p) = <<>>
      BY <1>1, <2>1, <2>2 DEF Reply, SendItem
    <3>2. QED BY <3>1, InSmall
  <2>3. CASE i # Nil
    <3>1. PICK r : r = [type |-> "PT_GET_ITEM", item |-> p.item, text |-> s.text[i], request |-> p.request]
      OBVIOUS
    <3>2. Reply(s, p) = <<r>>
      BY <1>1, <2>1, <2>3, <3>1 DEF Reply, SendItem
    <3>3. OldAnswer(s, r)
      BY <2>1, <3>1 DEF OldAnswer, Known
    <3>4. QED BY <3>2, <3>3, InSmall
  <2>4. QED BY <2>2, <2>3
<1>2. CASE p.type # "PT_GET_ITEM"
  <2>1. PICK q : q = Reply(s, p)
    OBVIOUS
  <2>2. Answering(p, q)
    BY <2>1, ReplyIs
  <2>3. ASSUME NEW k \in 1..Len(q), q[k].type = "PT_GET_ITEM" PROVE FALSE
    <3>1. p.type = "PT_GET_CHILDREN"
      BY <1>2, <2>2, <2>3 DEF Answering
    <3>2. PICK x, c, e : /\ x = Found(s, p.item) /\ c = IF x = Nil THEN <<>> ELSE Children(s.tree, x)
                         /\ e = [j \in DOMAIN c |-> [id |-> s.id[c[j]], done |-> s.done[c[j]],
                                  prev |-> IF s.tree.prev[c[j]] = Nil THEN NoId ELSE s.id[s.tree.prev[c[j]]]]]
      OBVIOUS
    <3>3. PICK r : Reply(s, p) = <<r>> /\ r.type = "PT_GET_CHILDREN"
      BY <3>1, <3>2, ListReply
    <3>4. QED BY <2>1, <2>3, <3>3
  <2>4. QED BY <2>1, <2>3 DEF OldAnswer, In
<1>3. QED BY <1>1, <1>2

\* The first command ends it.
LEMMA UserTouches ==
  ASSUME SyncInv, UserStep
  PROVE  ~Untouched'
<1>1. CASE Command
  <2>1. IndInv
    BY DEF SyncInv, ClientSound
  <2>2. PICK x : Commanded(x)
    BY <1>1, <2>1, CommandMakes
  <2>3. \E e : actionList' = Append(actionList, e)
    BY <2>2 DEF Commanded, DoAction
  <2>4. actionList \in Seq(Action)
    BY <2>1 DEF IndInv, TypeOK
  <2>5. actionList' # <<>>
    BY <2>3, <2>4
  <2>6. QED BY <2>5 DEF Untouched
<1>2. CASE UndoLastAction
  <2>1. \E e : redoActionList' = Append(redoActionList, e)
    BY <1>2 DEF UndoLastAction
  <2>2. redoActionList \in Seq(Action)
    BY DEF SyncInv, ClientSound, IndInv, TypeOK
  <2>3. redoActionList' # <<>>
    BY <2>1, <2>2
  <2>4. QED BY <2>3 DEF Untouched
<1>3. CASE RedoAction
  <2>1. \E e : actionList' = Append(actionList, e)
    BY <1>3 DEF RedoAction
  <2>2. actionList \in Seq(Action)
    BY DEF SyncInv, ClientSound, IndInv, TypeOK
  <2>3. actionList' # <<>>
    BY <2>1, <2>2
  <2>4. QED BY <2>3 DEF Untouched
<1>4. QED BY <1>1, <1>2, <1>3 DEF UserStep

\* The server reads.
LEMMA ServerUnmoved ==
  ASSUME SyncInv, ReadOnlyInv, Untouched, ServerReads
  PROVE  server' = server /\ ReadOnlyInv'
<1>1. PICK q, s, e, r : q = toServer /\ s = server /\ e = Head(q) /\ r = Reply(s, e)
  OBVIOUS
<1>2. /\ Coherent(s) /\ q \in Seq(Packet) /\ toClient \in Seq(Answer)
      /\ \A m \in In(q) : OldNews(s, m)
      /\ \A m \in In(toClient) : OldAnswer(s, m)
  BY <1>1 DEF SyncInv, ReadOnlyInv, Matched
<1>3. /\ q # <<>> /\ server' = Handle(s, e) /\ toServer' = Tail(q)
      /\ toClient' = toClient \o r
      /\ UNCHANGED <<actionList, redoActionList, extras>>
  BY <1>1 DEF ServerReads, docVars
<1>4. e \in Packet /\ OldNews(s, e) /\ \A m \in In(Tail(q)) : OldNews(s, m)
  BY <1>1, <1>2, <1>3, InFirst
<1>5. server' = s
  BY <1>2, <1>3, <1>4, OldNewsIdle
<1>6. r \in Seq(Answer)
  BY <1>1, <1>2, <1>4, ReplyIs DEF Answering
<1>7. \A m \in In(r) : OldAnswer(s, m)
  BY <1>1, <1>2, <1>4, OldNewsAnswered
<1>8. \A m \in In(toClient \o r) : OldAnswer(s, m)
  BY <1>2, <1>6, <1>7, InJoined
<1>9. QED BY <1>1, <1>3, <1>4, <1>5, <1>8 DEF ReadOnlyInv, Untouched

\* The requests that follow a list, an item at a time.
LEMMA AskedFor ==
  ASSUME NEW children \in Seq(Entry), requestId \in Nat
  PROVE  /\ \A m \in In(RequestsFor(children)) : \E j \in 1..Len(children) :
              /\ m.item = children[j].id /\ m.type \in {"PT_GET_CHILDREN", "PT_GET_ITEM"}
              /\ m.type = "PT_GET_CHILDREN" => m.request = requestId + (2 * j - 2)
         /\ \A j \in 1..Len(children) : \A type \in {"PT_GET_CHILDREN", "PT_GET_ITEM"} :
              \E m \in In(RequestsFor(children)) : m.type = type /\ m.item = children[j].id
<1>1. PICK p, n : p = RequestsFor(children) /\ n = Len(children)
  OBVIOUS
<1>2. n \in Nat /\ 2 * n \in Nat
  BY <1>1
<1>3. p = [k \in 1..2 * n |->
             [type |-> IF k % 2 = 1 THEN "PT_GET_CHILDREN" ELSE "PT_GET_ITEM",
              item |-> children[(k + 1) \div 2].id, request |-> requestId + k - 1]]
  BY <1>1 DEF RequestsFor
<1>4. Len(p) = 2 * n
  BY <1>2, <1>3, LenProperties
<1>5. ASSUME NEW k \in 1..2 * n
      PROVE  \E j \in 1..n :
              /\ p[k].item = children[j].id /\ p[k].type \in {"PT_GET_CHILDREN", "PT_GET_ITEM"}
              /\ p[k].type = "PT_GET_CHILDREN" => p[k].request = requestId + (2 * j - 2)
  <2>1. PICK j : j = (k + 1) \div 2
    OBVIOUS
  <2>2. j \in 1..n /\ (k % 2 = 1 => k - 1 = 2 * j - 2)
    BY <1>2, <2>1
  <2>3. p[k].item = children[j].id /\ p[k].request = requestId + k - 1
        /\ p[k].type = IF k % 2 = 1 THEN "PT_GET_CHILDREN" ELSE "PT_GET_ITEM"
    BY <1>3, <2>1
  <2>4. k % 2 = 1 => requestId + k - 1 = requestId + (2 * j - 2)
    BY <2>2
  <2>5. p[k].type = "PT_GET_CHILDREN" => k % 2 = 1
    BY <2>3
  <2>6. QED BY <2>2, <2>3, <2>4, <2>5
<1>6. ASSUME NEW j \in 1..n, NEW type \in {"PT_GET_CHILDREN", "PT_GET_ITEM"}
      PROVE  \E m \in In(p) : m.type = type /\ m.item = children[j].id
  <2>1. /\ 2 * j - 1 \in 1..2 * n /\ (2 * j - 1) % 2 = 1 /\ ((2 * j - 1) + 1) \div 2 = j
        /\ 2 * j \in 1..2 * n /\ (2 * j) % 2 # 1 /\ (2 * j + 1) \div 2 = j
    BY <1>2
  <2>2. /\ p[2 * j - 1].item = children[j].id /\ p[2 * j - 1].type = "PT_GET_CHILDREN"
        /\ p[2 * j].item = children[j].id /\ p[2 * j].type = "PT_GET_ITEM"
    BY <1>3, <2>1
  <2>3. p[2 * j - 1] \in In(p) /\ p[2 * j] \in In(p)
    BY <1>4, <2>1 DEF In
  <2>4. QED BY <2>2, <2>3
<1>7. ASSUME NEW m \in In(p)
      PROVE  \E j \in 1..n :
              /\ m.item = children[j].id /\ m.type \in {"PT_GET_CHILDREN", "PT_GET_ITEM"}
              /\ m.type = "PT_GET_CHILDREN" => m.request = requestId + (2 * j - 2)
  <2>1. PICK k \in 1..2 * n : m = p[k]
    BY <1>4, <1>7 DEF In
  <2>2. QED BY <1>5, <2>1
<1>8. QED BY <1>1, <1>6, <1>7

\* The client reads a list and asks on.
LEMMA ListUnmoved ==
  ASSUME SyncInv, ReadOnlyInv, Untouched, NEW answer \in Answer, answer.type = "PT_GET_CHILDREN",
         OnItemListReceived(answer)
  PROVE  \A m \in In(toServer') : OldNews(server, m)
<1>1. PICK children \in Seq(Entry) : toServer' = toServer \o RequestsFor(children)
  <2>1. answer.children \in Seq(Entry) /\ <<>> \in Seq(Entry)
    BY DEF Answer
  <2>2. PICK c : c = IF ClientFinds(answer.item) = Nil THEN <<>> ELSE answer.children
    OBVIOUS
  <2>3. toServer' = toServer \o RequestsFor(c)
    BY <2>2 DEF OnItemListReceived
  <2>4. QED BY <2>1, <2>2, <2>3
<1>2. requestId \in Nat /\ toServer \in Seq(Packet)
  BY DEF SyncInv, Matched
<1>3. PICK p : p = RequestsFor(children)
  OBVIOUS
<1>4. p \in Seq(Packet)
  BY <1>2, <1>3, AskedPackets
<1>5. \A m \in In(p) : OldNews(server, m)
  BY <1>2, <1>3, AskedFor DEF OldNews
<1>6. \A m \in In(toServer) : OldNews(server, m)
  BY DEF ReadOnlyInv
<1>7. \A m \in In(toServer \o p) : OldNews(server, m)
  BY <1>2, <1>4, <1>5, <1>6, InJoined
<1>8. QED BY <1>1, <1>3, <1>7

\* The client reads a text, and sends it back.
LEMMA TextEchoed ==
  ASSUME SyncInv, NEW answer \in Answer, answer.type = "PT_GET_ITEM", OnItemReceived(answer)
  PROVE  \/ ClientFinds(answer.item) = Nil /\ UNCHANGED <<text, toServer>>
         \/ \E i \in InTree(tree) \ {Root}, e \in Packet :
              /\ i = ClientFinds(answer.item) /\ itemId[i] = answer.item
              /\ text' = [text EXCEPT ![i] = answer.text] /\ toServer' = toServer \o <<e>>
              /\ e.type = "PT_ITEM_CHANGED" /\ e.item = answer.item /\ e.text = answer.text
<1>1. PICK i : i = ClientFinds(answer.item)
  OBVIOUS
<1>2. /\ UNCHANGED <<heap, itemId>>
      /\ i = Nil => text' = text /\ toServer' = toServer
      /\ i # Nil => /\ text' = [text EXCEPT ![i] = answer.text]
                    /\ signals' = <<Sig("itemTextChanged", i)>>
                    /\ toServer' = toServer \o PacketOf(signals'[1])
  BY <1>1 DEF OnItemReceived, idVars
<1>3. CASE i = Nil
  BY <1>1, <1>2, <1>3
<1>4. CASE i # Nil
  <2>1. i \in InTree(tree) \ {Root} /\ i \in Item /\ itemId[i] = answer.item
    <3>1. /\ tree \in Tree /\ LinksAgree(tree) /\ ChainsEnd(tree)
      BY DEF SyncInv, ClientSound, IndInv, TypeOK, LinksConsistent, ChainsFinite
    <3>2. OnwardAgree(tree) /\ InTree(tree) \subseteq Node
      BY <3>1, AgreeOnward, InTreeLeast
    <3>3. i \in InTree(tree) /\ itemId[i] = answer.item
      BY <1>1, <1>4, <3>1, <3>2, FoundThere DEF ClientFinds
    <3>4. itemId[Root] = NoId /\ answer.item # NoId
      BY DEF SyncInv, ClientSound, Numbered, Answer, Id
    <3>5. QED BY <3>2, <3>3, <3>4 DEF Item
  <2>2. text \in [Item -> Text]
    BY DEF SyncInv, ClientSound, IndInv, TypeOK
  <2>3. PICK e : e = [type |-> "PT_ITEM_CHANGED", item |-> answer.item, text |-> answer.text]
    OBVIOUS
  <2>4. signals'[1] = Sig("itemTextChanged", i)
    BY <1>2, <1>4
  <2>5. PacketOf(Sig("itemTextChanged", i)) = <<e>>
    <3>1. text'[i] = answer.text /\ itemId'[i] = answer.item
      BY <1>2, <1>4, <2>1, <2>2
    <3>2. PacketOf(Sig("itemTextChanged", i)) = <<[type |-> "PT_ITEM_CHANGED", item |-> itemId'[i], text |-> text'[i]]>>
      BY DEF PacketOf, Sig
    <3>3. QED BY <2>3, <3>1, <3>2
  <2>6. e \in Packet
    BY <2>3 DEF Packet, Answer
  <2>7. toServer' = toServer \o <<e>>
    BY <1>2, <1>4, <2>4, <2>5
  <2>8. e.type = "PT_ITEM_CHANGED" /\ e.item = answer.item /\ e.text = answer.text
    BY <2>3
  <2>9. QED BY <1>1, <1>2, <1>4, <2>1, <2>6, <2>7, <2>8
<1>5. QED BY <1>3, <1>4

\* That is no news.
LEMMA DataUnmoved ==
  ASSUME SyncInv, ReadOnlyInv, Untouched, NEW answer \in Answer, answer.type = "PT_GET_ITEM",
         OldAnswer(server, answer), OnItemReceived(answer)
  PROVE  \A m \in In(toServer') : OldNews(server, m)
<1>1. toServer \in Seq(Packet) /\ \A m \in In(toServer) : OldNews(server, m)
  BY DEF ReadOnlyInv, SyncInv, Matched
<1>2. CASE toServer' = toServer
  BY <1>1, <1>2
<1>3. CASE \E e \in Packet : /\ toServer' = toServer \o <<e>> /\ e.type = "PT_ITEM_CHANGED"
                             /\ e.item = answer.item /\ e.text = answer.text
  <2>1. PICK e \in Packet : /\ toServer' = toServer \o <<e>> /\ e.type = "PT_ITEM_CHANGED"
                            /\ e.item = answer.item /\ e.text = answer.text
    BY <1>3
  <2>2. OldNews(server, e)
    BY <2>1 DEF OldNews, OldAnswer, Known
  <2>3. <<e>> \in Seq(Packet)
    OBVIOUS
  <2>4. In(toServer \o <<e>>) = In(toServer) \cup {e}
    <3>1. In(toServer \o <<e>>) = In(toServer) \cup In(<<e>>)
      BY Zenon, <1>1, <2>3, InJoined
    <3>2. In(<<e>>) = {e}
      BY InSmall
    <3>3. QED BY <3>1, <3>2
  <2>5. QED BY <1>1, <2>1, <2>2, <2>4
<1>4. QED BY <1>2, <1>3, TextEchoed

\* Every step.
LEMMA ReadOnlyKeeps ==
  ASSUME SyncInv, ReadOnlyInv, [SyncNext]_syncVars
  PROVE  ReadOnlyInv' /\ (Untouched => server' = server)
<1>1. /\ extras \in Nat /\ toClient \in Seq(Answer)
      /\ Untouched => /\ \A m \in In(toServer) : OldNews(server, m)
                      /\ \A m \in In(toClient) : OldAnswer(server, m)
  BY DEF ReadOnlyInv, SyncInv, Matched
<1>2. CASE UserStep
  <2>1. ~Untouched' /\ server' = server /\ extras' = extras
    BY <1>2, UserTouches DEF UserStep
  <2>2. QED BY <1>1, <2>1 DEF ReadOnlyInv
<1>3. CASE SetItemDone \/ SaveDocument
  <2>1. Extra
    BY <1>3 DEF SetItemDone, SaveDocument
  <2>2. server' = server /\ extras' = extras + 1
    BY <2>1 DEF Extra
  <2>3. extras' \in Nat /\ extras' # 0
    BY <1>1, <2>2
  <2>4. QED BY <2>2, <2>3 DEF ReadOnlyInv, Untouched
<1>4. CASE LoseConnection
  <2>1. /\ server' = server /\ toServer' = <<>> /\ toClient' = <<>> /\ extras' = extras
    BY <1>4 DEF LoseConnection, CutConnection
  <2>2. QED BY <1>1, <2>1, InSmall DEF ReadOnlyInv
<1>5. CASE ConnectAgain \/ UNCHANGED syncVars
  <2>1. UNCHANGED <<server, toServer, toClient, extras, actionList, redoActionList>>
    BY <1>5 DEF ConnectAgain, syncVars, vars, docVars, netVars
  <2>2. QED BY <2>1 DEF ReadOnlyInv, Untouched
<1>6. CASE ClientReadsAnswer
  <2>1. PICK answer : answer = Head(toClient)
    OBVIOUS
  <2>2. /\ toClient # <<>> /\ toClient' = Tail(toClient)
        /\ UNCHANGED <<actionList, redoActionList, extras, server>>
        /\ \/ answer.type = "PT_GET_CHILDREN" /\ OnItemListReceived(answer)
           \/ answer.type = "PT_GET_ITEM" /\ OnItemReceived(answer)
    BY <1>6, <2>1 DEF ClientReadsAnswer
  <2>3. SUFFICES ASSUME Untouched
                 PROVE  /\ \A m \in In(toServer') : OldNews(server, m)
                        /\ \A m \in In(toClient') : OldAnswer(server, m)
    BY <1>1, <2>2 DEF ReadOnlyInv, Untouched
  <2>4. In(toClient) = {answer} \cup In(toClient') /\ answer \in Answer
    BY <1>1, <2>1, <2>2, InFirst
  <2>5. OldAnswer(server, answer) /\ \A m \in In(toClient') : OldAnswer(server, m)
    BY <1>1, <2>3, <2>4
  <2>6. \A m \in In(toServer') : OldNews(server, m)
    BY <2>2, <2>3, <2>4, <2>5, ListUnmoved, DataUnmoved
  <2>7. QED BY <2>5, <2>6
<1>7. CASE ClientReadsResponse
  <2>1. /\ UNCHANGED <<actionList, redoActionList, extras, server, toServer>>
        /\ \E n \in 1..Len(toClient) : toClient' = SubSeq(toClient, n + 1, Len(toClient))
    BY <1>7 DEF ClientReadsResponse, docVars
  <2>2. In(toClient') \subseteq In(toClient)
    BY <1>1, <2>1, InSkipped
  <2>3. QED BY <1>1, <2>1, <2>2 DEF ReadOnlyInv, Untouched
<1>8. CASE ServerReads
  <2>1. CASE Untouched
    BY <1>8, <2>1, ServerUnmoved
  <2>2. CASE ~Untouched
    <3>1. UNCHANGED <<actionList, redoActionList, extras>>
      BY <1>8 DEF ServerReads, docVars
    <3>2. QED BY <1>1, <2>2, <3>1 DEF ReadOnlyInv, Untouched
  <2>3. QED BY <2>1, <2>2
<1>9. QED BY <1>2, <1>3, <1>4, <1>5, <1>6, <1>7, <1>8 DEF SyncNext

\* Reading a document does not change it.
THEOREM ReadingChangesNothing == SyncSpec => LoadingReadOnly
<1>1. SyncInit => ReadOnlyInv
  <2>1. SUFFICES ASSUME SyncInit PROVE ReadOnlyInv
    OBVIOUS
  <2>2. PICK e : e = [type |-> "PT_GET_CHILDREN", item |-> NoId, request |-> 0]
    OBVIOUS
  <2>3. toServer = <<e>> /\ toClient = <<>> /\ extras = 0
    BY <2>1, <2>2 DEF SyncInit
  <2>4. OldNews(server, e)
    BY <2>2 DEF OldNews
  <2>5. QED BY <2>3, <2>4, InSmall DEF ReadOnlyInv
<1>2. SyncInv /\ ReadOnlyInv /\ [SyncNext]_syncVars => ReadOnlyInv'
  BY ReadOnlyKeeps
<1>3. SyncInv /\ ReadOnlyInv /\ [SyncNext]_syncVars =>
        [/\ actionList = <<>> /\ redoActionList = <<>> /\ extras = 0
         /\ doubts \subseteq {"answer misread", "packets lost"}
         => server' = server]_syncVars
  BY ReadOnlyKeeps DEF Untouched
<1>4. QED BY <1>1, <1>2, <1>3, SyncInvHolds, PTL DEF SyncSpec, LoadingReadOnly

---------------------------------------------------------------------------
(* A list of children, on both sides.                                      *)

\* The children c of node y of a copy, and their entries e in an answer.
Listed(s, y, c, e) ==
  /\ c \in Seq(Item) /\ e \in Seq(Entry) /\ Len(e) = Len(c)
  /\ s.tree.firstChild[y] = IF c = <<>> THEN Nil ELSE c[1]
  /\ \A j, k \in 1..Len(c) : c[j] = c[k] => j = k
  /\ \A k \in 1..Len(c) :
       /\ c[k] \in InTree(s.tree) /\ s.tree.parent[c[k]] = y
       /\ s.tree.prev[c[k]] = IF k = 1 THEN Nil ELSE c[k - 1]
       /\ s.tree.next[c[k]] = IF k = Len(c) THEN Nil ELSE c[k + 1]
       /\ e[k].id = s.id[c[k]] /\ e[k].done = s.done[c[k]]
       /\ e[k].prev = IF k = 1 THEN NoId ELSE e[k - 1].id

\* The chain of the children of a node.
LEMMA ChildrenChain ==
  ASSUME NEW t \in Tree, OnwardAgree(t), ChainsEnd(t), NEW y \in InTree(t), NEW c, c = Children(t, y)
  PROVE  /\ c \in Seq(Item) /\ t.firstChild[y] = IF c = <<>> THEN Nil ELSE c[1]
         /\ \A j, k \in 1..Len(c) : c[j] = c[k] => j = k
         /\ \A k \in 1..Len(c) :
              /\ c[k] \in InTree(t) /\ c[k] # Root /\ t.parent[c[k]] = y
              /\ t.prev[c[k]] = IF k = 1 THEN Nil ELSE c[k - 1]
              /\ t.next[c[k]] = IF k = Len(c) THEN Nil ELSE c[k + 1]
<1>1. PICK n : n = Len(c)
  OBVIOUS
<1>2. y \in Node /\ InTree(t) \in SUBSET Node /\ ClosedBelow(t, InTree(t))
  BY InTreeLeast
<1>3. /\ c \in Seq(Item) /\ n \in Nat /\ (c # <<>> => n # 0)
      /\ \A k \in 1..n - 1 : t.next[c[k]] = c[k + 1]
      /\ c # <<>> => t.next[c[n]] = Nil
      /\ t.firstChild[y] = IF c = <<>> THEN Nil ELSE c[1]
      /\ \A S \in SUBSET Item : /\ t.firstChild[y] # Nil => t.firstChild[y] \in S
                                /\ \A x \in S : t.next[x] # Nil => t.next[x] \in S
                                => \A k \in 1..n : c[k] \in S
  BY <1>1, <1>2, ChildrenAre DEF Siblings
<1>4. \A x \in Node : /\ t.next[x] # Nil => t.next[x] \in Item /\ t.prev[t.next[x]] = x /\ t.parent[t.next[x]] = t.parent[x]
                      /\ t.firstChild[x] # Nil => t.firstChild[x] \in Item /\ t.parent[t.firstChild[x]] = x /\ t.prev[t.firstChild[x]] = Nil
  BY DEF OnwardAgree, Tree, ItemOrNil
<1>5. \A k \in 1..n : c[k] \in InTree(t) /\ c[k] \in Item /\ t.parent[c[k]] = y
  <2>1. PICK S \in SUBSET Item : S = {x \in Item : x \in InTree(t) /\ t.parent[x] = y}
    OBVIOUS
  <2>2. t.firstChild[y] # Nil => t.firstChild[y] \in S
    BY <1>2, <1>4, <2>1 DEF ClosedBelow
  <2>3. \A x \in S : x \in Node /\ x # Root
    BY <2>1 DEF Item
  <2>4. \A x \in S : t.next[x] # Nil => t.next[x] \in S
    BY <1>2, <1>4, <2>1, <2>3 DEF ClosedBelow
  <2>5. \A k \in 1..n : c[k] \in S
    BY <1>3, <2>2, <2>4
  <2>6. QED BY <2>1, <2>5
<1>6. \A k \in 1..n : t.next[c[k]] = IF k = n THEN Nil ELSE c[k + 1]
  <2>1. SUFFICES ASSUME NEW k \in 1..n PROVE t.next[c[k]] = IF k = n THEN Nil ELSE c[k + 1]
    OBVIOUS
  <2>2. c # <<>>
    BY <1>1, <1>3
  <2>3. CASE k = n
    BY <1>3, <2>2, <2>3
  <2>4. CASE k # n
    <3>1. k \in 1..n - 1
      BY <1>3, <2>4
    <3>2. QED BY <1>3, <2>4, <3>1
  <2>5. QED BY <2>3, <2>4
<1>7. \A k \in 1..n : t.prev[c[k]] = IF k = 1 THEN Nil ELSE c[k - 1]
  <2>1. SUFFICES ASSUME NEW k \in 1..n PROVE t.prev[c[k]] = IF k = 1 THEN Nil ELSE c[k - 1]
    OBVIOUS
  <2>2. CASE k = 1
    <3>1. t.firstChild[y] = c[1] /\ c[1] # Nil /\ c # <<>>
      BY <1>1, <1>3, <1>5, <2>1, <2>2, NodeAssumption DEF Item
    <3>2. QED BY <1>2, <1>4, <2>2, <3>1
  <2>3. CASE k # 1
    <3>1. k - 1 \in 1..n /\ k - 1 # n /\ k - 1 + 1 = k
      BY <1>3, <2>3
    <3>2. t.next[c[k - 1]] = c[k] /\ c[k] \in Item /\ c[k - 1] \in Item
      BY <1>5, <1>6, <3>1
    <3>3. c[k] # Nil /\ c[k - 1] \in Node
      BY <3>2, NodeAssumption DEF Item
    <3>4. QED BY <1>4, <2>3, <3>2, <3>3
  <2>4. QED BY <2>2, <2>3
<1>8. ASSUME NEW j \in 1..n, NEW k \in 1..n, j < k, c[j] = c[k] PROVE FALSE
  <2>1. PICK S : S = {c[i] : i \in j..(k - 1)}
    OBVIOUS
  <2>2. \A i \in j..(k - 1) : i \in 1..n /\ i # n /\ i + 1 \in 1..n
    BY <1>3, <1>8
  <2>3. S \in SUBSET Node /\ c[j] \in S
    BY <1>3, <1>5, <1>8, <2>1, <2>2 DEF Item
  <2>4. \A x \in S : t.next[x] \in S
    <3>1. SUFFICES ASSUME NEW i \in j..(k - 1) PROVE t.next[c[i]] \in S
      BY <2>1
    <3>2. t.next[c[i]] = c[i + 1]
      BY <1>6, <2>2
    <3>3. CASE i + 1 = k
      BY <1>8, <2>3, <3>2, <3>3
    <3>4. CASE i + 1 # k
      <4>1. i + 1 \in j..(k - 1)
        BY <1>3, <3>4
      <4>2. QED BY <2>1, <3>2, <4>1
    <3>5. QED BY <3>3, <3>4
  <2>5. QED BY <2>3, <2>4 DEF ChainsEnd
<1>9. \A j, k \in 1..n : c[j] = c[k] => j = k
  <2>1. SUFFICES ASSUME NEW j \in 1..n, NEW k \in 1..n, c[j] = c[k] PROVE j = k
    OBVIOUS
  <2>2. j < k \/ k < j \/ j = k
    BY <1>3
  <2>3. QED BY <1>8, <2>1, <2>2
<1>10. QED BY <1>1, <1>3, <1>5, <1>6, <1>7, <1>9 DEF Item

\* What the server answers lists the children.
LEMMA ListAnswered ==
  ASSUME NEW s, Sound(s), NEW p, p.type = "PT_GET_CHILDREN", Found(s, p.item) # Nil
  PROVE  \E r, c : /\ Reply(s, p) = <<r>> /\ r.type = "PT_GET_CHILDREN" /\ r.item = p.item
                   /\ r.request = p.request /\ Listed(s, Found(s, p.item), c, r.children)
<1>1. PICK x, c, e : /\ x = Found(s, p.item) /\ c = IF x = Nil THEN <<>> ELSE Children(s.tree, x)
                     /\ e = [k \in DOMAIN c |-> [id |-> s.id[c[k]], done |-> s.done[c[k]],
                              prev |-> IF s.tree.prev[c[k]] = Nil THEN NoId ELSE s.id[s.tree.prev[c[k]]]]]
  OBVIOUS
<1>2. PICK r : /\ Reply(s, p) = <<r>> /\ r.type = "PT_GET_CHILDREN"
               /\ r.item = p.item /\ r.children = e /\ r.request = p.request
  <2>1. PICK r : r = [type |-> "PT_GET_CHILDREN", item |-> p.item, children |-> e, request |-> p.request]
    OBVIOUS
  <2>2. Reply(s, p) = <<r>>
    BY Zenon, <1>1, <2>1 DEF Reply, SendChildrenIds
  <2>3. /\ r.type = "PT_GET_CHILDREN" /\ r.item = p.item /\ r.children = e /\ r.request = p.request
    BY <2>1
  <2>4. QED BY <2>2, <2>3
<1>3. /\ s.tree \in Tree /\ OnwardAgree(s.tree) /\ ChainsEnd(s.tree) /\ Coherent(s)
      /\ InTree(s.tree) = s.heap /\ s.id \in [Node -> Nat] /\ s.done \in [Item -> BOOLEAN]
      /\ s.heap \in SUBSET Node /\ \A z \in s.heap \ {Root} : s.id[z] # NoId
  BY CopyParts DEF Sound, Coherent
<1>4. x \in InTree(s.tree) /\ c = Children(s.tree, x)
  BY <1>1, <1>3, FoundIn
<1>5. PICK t \in Tree : t = s.tree
  BY <1>3
<1>6. PICK n : t = s.tree /\ n = Len(c)
  BY <1>5
<1>7. /\ c \in Seq(Item) /\ t.firstChild[x] = IF c = <<>> THEN Nil ELSE c[1]
      /\ \A j, k \in 1..n : c[j] = c[k] => j = k
      /\ \A k \in 1..n :
           /\ c[k] \in InTree(t) /\ c[k] # Root /\ t.parent[c[k]] = x
           /\ t.prev[c[k]] = IF k = 1 THEN Nil ELSE c[k - 1]
           /\ t.next[c[k]] = IF k = n THEN Nil ELSE c[k + 1]
  BY <1>3, <1>4, <1>6, ChildrenChain
<1>8. n \in Nat /\ DOMAIN c = 1..n
  BY <1>6, <1>7
<1>9. ASSUME NEW k \in 1..n
      PROVE  /\ e[k] \in Entry /\ e[k].id = s.id[c[k]] /\ e[k].done = s.done[c[k]]
             /\ e[k].prev = IF k = 1 THEN NoId ELSE s.id[c[k - 1]]
  <2>1. PICK y, d, i, v : y = c[k] /\ d = s.done[y] /\ i = s.id[y]
                          /\ v = IF t.prev[y] = Nil THEN NoId ELSE s.id[t.prev[y]]
    OBVIOUS
  <2>2. e[k] = [id |-> i, done |-> d, prev |-> v]
    BY Zenon, <1>1, <1>6, <1>8, <2>1
  <2>3. y \in Item /\ y \in Node /\ y \in s.heap /\ y # Root
    BY <1>3, <1>6, <1>7, <2>1 DEF Item
  <2>4. d \in BOOLEAN /\ i \in Id
    BY <1>3, <2>1, <2>3 DEF Id
  <2>5. v = IF k = 1 THEN NoId ELSE s.id[c[k - 1]]
    <3>1. CASE k = 1
      BY <1>7, <2>1, <3>1
    <3>2. CASE k # 1
      <4>1. k - 1 \in 1..n
        BY <1>8, <3>2
      <4>2. c[k - 1] # Nil
        BY <1>7, <4>1, NodeAssumption, <1>3, <1>6
      <4>3. QED BY <1>7, <2>1, <3>2, <4>2
    <3>3. QED BY <3>1, <3>2
  <2>6. v \in Nat
    <3>1. CASE k = 1
      BY <2>5, <3>1 DEF NoId
    <3>2. CASE k # 1
      <4>1. k - 1 \in 1..n
        BY <1>8, <3>2
      <4>2. c[k - 1] \in Node
        BY <1>3, <1>6, <1>7, <4>1
      <4>3. QED BY <1>3, <2>5, <3>2, <4>2
    <3>3. QED BY <3>1, <3>2
  <2>7. e[k] \in Entry
    BY <2>2, <2>4, <2>6 DEF Entry
  <2>8. QED BY <2>1, <2>2, <2>5, <2>7
<1>10. e \in Seq(Entry) /\ Len(e) = n
  <2>1. DOMAIN e = 1..n
    BY <1>1, <1>8
  <2>2. e \in [1..n -> Entry]
    BY Zenon, <1>1, <1>8, <1>9
  <2>3. QED BY <1>8, <2>2, SeqDef, LenProperties
<1>11. \A k \in 1..n : e[k].prev = IF k = 1 THEN NoId ELSE e[k - 1].id
  <2>1. SUFFICES ASSUME NEW k \in 1..n PROVE e[k].prev = IF k = 1 THEN NoId ELSE e[k - 1].id
    OBVIOUS
  <2>2. k # 1 => k - 1 \in 1..n
    BY <1>8
  <2>3. QED BY <1>9, <2>2
<1>12. Listed(s, x, c, e)
  BY <1>6, <1>7, <1>9, <1>10, <1>11 DEF Listed
<1>13. x = Found(s, p.item)
  BY <1>1
<1>14. Listed(s, Found(s, p.item), c, r.children)
  BY <1>2, <1>12, <1>13
<1>15. QED BY <1>2, <1>14

\* A tree t over the objects H that is part of the copy s, with at[x] for x and
\* with siblings of a node either all or not yet, but for those after f.
Partly(at, H, t, ids, s, f) ==
  /\ Root \in H /\ at \in [H \cup {Nil} -> NodeOrNil] /\ at[Nil] = Nil /\ at[Root] = Root
  /\ \A x, y \in H \cup {Nil} : at[x] = at[y] => x = y
  /\ \A x \in H :
       /\ at[x] \in s.heap /\ s.id[at[x]] = ids[x]
       /\ t.firstChild[x] \in H \cup {Nil}
       /\ t.firstChild[x] # Nil => s.tree.firstChild[at[x]] = at[t.firstChild[x]]
       /\ t.next[x] \in H \cup {Nil}
       /\ x # f => s.tree.next[at[x]] = at[t.next[x]]
  /\ \A x \in H \ {Root} :
       /\ t.prev[x] \in H \cup {Nil} /\ s.tree.prev[at[x]] = at[t.prev[x]]
       /\ t.parent[x] \in H /\ s.tree.parent[at[x]] = at[t.parent[x]]
       /\ t.firstChild[t.parent[x]] # Nil
  /\ f # Nil => f \in H \ {Root} /\ t.next[f] = Nil

\* The child c[k] of p is added to H as i, after the one before it.
Growing(w, t, H, ids, at, f, p, c, e, k, i, u, G, ids2, bt) ==
  /\ t \in Tree /\ LinksAgree(t) /\ ChainsEnd(t)
  /\ H \in SUBSET Node /\ H = InTree(t) /\ \A x \in Item \ H : Unlinked(t, x)
  /\ ids \in [Node -> Nat] /\ Partly(at, H, t, ids, w, f)
  /\ p \in H /\ Listed(w, at[p], c, e) /\ k \in 1..Len(c) /\ \A x \in H : at[x] # c[k]
  /\ f = Nil <=> k = 1
  /\ k = 1 => t.firstChild[p] = Nil
  /\ k # 1 => at[f] = c[k - 1]
  /\ i \in Item /\ i \notin H /\ G = H \cup {i}
  /\ u = AddAsChild(t, p, i, IF e[k].prev = NoId THEN Nil ELSE FindItem(t, ids, e[k].prev))
  /\ ids2[i] = e[k].id /\ \A x \in H : ids2[x] = ids[x]
  /\ bt \in [G \cup {Nil} -> NodeOrNil]
  /\ bt[i] = c[k] /\ \A x \in H \cup {Nil} : bt[x] = at[x]

\* Then the two sides fit again.
LEMMA PartlyGrows ==
  ASSUME NEW w, Sound(w), NEW t, NEW H, NEW ids, NEW at, NEW f, NEW p, NEW c, NEW e, NEW k,
         NEW i, NEW u, NEW G, NEW ids2, NEW bt, Growing(w, t, H, ids, at, f, p, c, e, k, i, u, G, ids2, bt)
  PROVE  /\ Partly(bt, G, u, ids2, w, i)
         /\ InTree(u) = G /\ u.firstChild[i] = Nil /\ u.firstChild[p] # Nil
         /\ \A x \in H \ {p} : u.firstChild[x] = t.firstChild[x]
<1>1. PICK b : b = IF e[k].prev = NoId THEN Nil ELSE FindItem(t, ids, e[k].prev)
  OBVIOUS
<1>2. /\ t \in Tree /\ LinksAgree(t) /\ ChainsEnd(t)
      /\ H \in SUBSET Node /\ H = InTree(t) /\ (\A x \in Item \ H : Unlinked(t, x))
      /\ ids \in [Node -> Nat] /\ Partly(at, H, t, ids, w, f)
      /\ p \in H /\ Listed(w, at[p], c, e) /\ k \in 1..Len(c) /\ (\A x \in H : at[x] # c[k])
      /\ (f = Nil <=> k = 1)
      /\ (k = 1 => t.firstChild[p] = Nil)
      /\ (k # 1 => at[f] = c[k - 1])
      /\ i \in Item /\ i \notin H /\ G = H \cup {i} /\ u = AddAsChild(t, p, i, b)
      /\ b = (IF e[k].prev = NoId THEN Nil ELSE FindItem(t, ids, e[k].prev))
      /\ ids2[i] = e[k].id /\ (\A x \in H : ids2[x] = ids[x])
      /\ bt \in [H \cup {i} \cup {Nil} -> NodeOrNil]
      /\ bt[i] = c[k] /\ (\A x \in H \cup {Nil} : bt[x] = at[x])
  BY <1>1 DEF Growing
<1>3. /\ w.tree \in Tree /\ w.heap \in SUBSET Node /\ w.id \in [Node -> Nat]
      /\ \A x \in w.heap \ {Root} : w.id[x] # NoId
      /\ \A x, y \in w.heap : w.id[x] = w.id[y] => x = y
      /\ w.heap = InTree(w.tree)
  BY CopyParts DEF Sound, Coherent
<1>4. Listed(w, at[p], c, e)
  BY DEF Growing
<1>5. /\ c \in Seq(Item) /\ e \in Seq(Entry) /\ Len(e) = Len(c) /\ Len(c) \in Nat
      /\ w.tree.firstChild[at[p]] = IF c = <<>> THEN Nil ELSE c[1]
      /\ \A j \in 1..Len(c) :
       /\ c[j] \in w.heap /\ w.tree.parent[c[j]] = at[p]
       /\ w.tree.prev[c[j]] = IF j = 1 THEN Nil ELSE c[j - 1]
       /\ w.tree.next[c[j]] = IF j = Len(c) THEN Nil ELSE c[j + 1]
       /\ e[j].id = w.id[c[j]]
       /\ e[j].prev = IF j = 1 THEN NoId ELSE e[j - 1].id
       /\ c[j] \in Item /\ c[j] \in Node /\ c[j] # Root /\ c[j] # Nil
  BY <1>3, <1>4, NodeAssumption DEF Listed, Item
<1> USE <1>2
<1>6. /\ Root \in H /\ at \in [H \cup {Nil} -> NodeOrNil] /\ at[Nil] = Nil /\ at[Root] = Root
      /\ \A x, y \in H \cup {Nil} : at[x] = at[y] => x = y
      /\ f # Nil => f \in H \ {Root} /\ t.next[f] = Nil
      /\ \A x \in H :
       /\ at[x] \in w.heap /\ w.id[at[x]] = ids[x]
       /\ t.firstChild[x] \in H \cup {Nil}
       /\ t.firstChild[x] # Nil => w.tree.firstChild[at[x]] = at[t.firstChild[x]]
       /\ t.next[x] \in H \cup {Nil}
       /\ x # f => w.tree.next[at[x]] = at[t.next[x]]
      /\ \A x \in H \ {Root} :
       /\ t.prev[x] \in H \cup {Nil} /\ w.tree.prev[at[x]] = at[t.prev[x]]
       /\ t.parent[x] \in H /\ w.tree.parent[at[x]] = at[t.parent[x]]
       /\ t.firstChild[t.parent[x]] # Nil
  BY DEF Partly
<1>7. Nil \notin H /\ i \notin H \cup {Nil} /\ i \in Node /\ f \in ItemOrNil /\ p \in Node /\ i # f /\ i # Root
  BY <1>6, NodeAssumption DEF Item, ItemOrNil
<1>8. k # 1 => k - 1 \in 1..Len(c) /\ k - 1 # Len(c) /\ k - 1 + 1 = k
  BY <1>5
<1>9. b = f
  <2>1. CASE k = 1
    BY <1>5, <2>1
  <2>2. CASE k # 1
    <3>1. e[k].prev = ids[f] /\ ids[f] # NoId /\ f \in H
      <4>1. f \in H \ {Root} /\ at[f] = c[k - 1] /\ k - 1 \in 1..Len(c)
        BY <1>6, <1>8, <2>2
      <4>2. e[k].prev = e[k - 1].id /\ e[k - 1].id = w.id[c[k - 1]]
        BY <1>5, <2>2, <4>1
      <4>3. c[k - 1] \in w.heap /\ c[k - 1] # Root /\ w.id[at[f]] = ids[f]
        BY <1>5, <1>6, <4>1
      <4>4. QED BY <1>3, <4>1, <4>2, <4>3
    <3>2. b = FindItem(t, ids, ids[f])
      BY <3>1
    <3>3. OnwardAgree(t)
      BY AgreeOnward
    <3>4. /\ b \in InTree(t) \cup {Nil} /\ (b # Nil => ids[b] = ids[f])
          /\ b = Nil => \A x \in InTree(t) : ids[x] # ids[f]
      BY <3>2, <3>3, FoundThere
    <3>5. b \in H /\ ids[b] = ids[f]
      BY <3>1, <3>4
    <3>6. w.id[at[b]] = w.id[at[f]] /\ at[b] \in w.heap /\ at[f] \in w.heap
      BY <1>6, <3>1, <3>5
    <3>7. at[b] = at[f]
      BY <1>3, <3>6
    <3>8. QED BY <1>6, <3>1, <3>5, <3>7
  <2>3. QED BY <2>1, <2>2
<1>10. f # Nil => t.parent[f] = p
  <2>1. SUFFICES ASSUME f # Nil PROVE t.parent[f] = p
    OBVIOUS
  <2>2. at[f] = c[k - 1] /\ w.tree.parent[c[k - 1]] = at[p]
    BY <1>5, <1>8, <2>1
  <2>3. at[t.parent[f]] = at[p] /\ t.parent[f] \in H
    BY <1>6, <2>1, <2>2
  <2>4. QED BY <1>6, <2>3
<1>11. u = InsertAfter(t, p, i, f)
  BY <1>9, <1>10 DEF AddAsChild, WrongAfter
<1>12. (IF f = Nil THEN t.firstChild[p] ELSE t.next[f]) = Nil
  BY <1>6
<1>13. Unlinked(t, i) /\ t.firstChild[i] = Nil /\ t.next[i] = Nil /\ t.prev[i] = Nil
  BY DEF Unlinked
<1>14. \A x \in Node :
         /\ u.parent[x] = IF x = i THEN p ELSE t.parent[x]
         /\ u.firstChild[x] = IF f = Nil /\ x = p THEN i ELSE t.firstChild[x]
         /\ u.next[x] = IF x = i THEN Nil ELSE IF x = f THEN i ELSE t.next[x]
         /\ u.prev[x] = IF x = i THEN f ELSE t.prev[x]
  <2>1. TAKE x \in Node
  <2>2. x # Nil
    BY NodeAssumption
  <2>3. QED BY <1>7, <1>11, <1>12, <1>13, <2>2, InsertFields
<1>15. InTree(u) = H \cup {i}
  <2>1. InTree(u) \subseteq H \cup {i}
    BY <1>6, <1>7, <1>11, <1>13, InsertReached
  <2>2. Hung(t)
    <3>1. \A x \in Node \ InTree(t) : x \in Item \ H
      BY <1>6 DEF Item
    <3>2. QED BY <3>1 DEF Hung, Unlinked
  <2>3. Detached(t, i)
    BY <1>7, <1>13, NodeAssumption DEF Unlinked, Detached, LinksAgree, Item
  <2>4. f # Nil => Linked(t, f)
    BY <1>6, ReachedLinked
  <2>5. InTree(t) \cup {i} \subseteq InTree(u)
    BY <1>7, <1>9, <1>13, <2>2, <2>3, <2>4, HungAdds
  <2>6. QED BY <2>1, <2>5
<1>16. /\ bt \in [H \cup {i} \cup {Nil} -> NodeOrNil] /\ bt[i] = c[k]
       /\ \A x \in H \cup {Nil} : bt[x] = at[x]
  OBVIOUS
<1>17. \A x, y \in H \cup {i} \cup {Nil} : bt[x] = bt[y] => x = y
  <2>1. \A x \in H \cup {Nil} : at[x] # c[k]
    BY <1>5, <1>6
  <2>2. QED BY <1>6, <1>7, <1>16, <2>1
<1>18. ids2[i] = w.id[c[k]] /\ \A x \in H : ids2[x] = ids[x]
  BY <1>5
<1>19. u.firstChild[p] # Nil
  <2>1. CASE f = Nil
    BY <1>7, <1>14, <2>1
  <2>2. CASE f # Nil
    BY <1>6, <1>7, <1>10, <1>14, <2>2
  <2>3. QED BY <2>1, <2>2
<1>20. \A x \in H \cup {i} :
         /\ bt[x] \in w.heap /\ w.id[bt[x]] = ids2[x]
         /\ u.firstChild[x] \in H \cup {i} \cup {Nil}
         /\ u.firstChild[x] # Nil => w.tree.firstChild[bt[x]] = bt[u.firstChild[x]]
  <2>1. SUFFICES ASSUME NEW x \in H
                 PROVE  /\ bt[x] \in w.heap /\ w.id[bt[x]] = ids2[x]
                        /\ u.firstChild[x] \in H \cup {i} \cup {Nil}
                        /\ u.firstChild[x] # Nil => w.tree.firstChild[bt[x]] = bt[u.firstChild[x]]
    BY <1>5, <1>7, <1>13, <1>14, <1>16, <1>18
  <2>2. x \in Node /\ bt[x] = at[x] /\ ids2[x] = ids[x]
    BY <1>16, <1>18
  <2>3. CASE f = Nil /\ x = p
    <3>1. c # <<>>
      BY <1>5
    <3>2. w.tree.firstChild[at[p]] = c[k] /\ u.firstChild[x] = i
      BY <1>5, <1>14, <2>2, <2>3, <3>1
    <3>3. QED BY <1>6, <1>16, <2>2, <2>3, <3>2
  <2>4. CASE ~(f = Nil /\ x = p)
    <3>1. u.firstChild[x] = t.firstChild[x]
      BY <1>14, <2>2, <2>4
    <3>2. QED BY <1>6, <1>16, <2>2, <3>1
  <2>5. QED BY <2>3, <2>4
<1>21. \A x \in H \cup {i} :
         /\ u.next[x] \in H \cup {i} \cup {Nil}
         /\ x # i => w.tree.next[bt[x]] = bt[u.next[x]]
  <2>1. SUFFICES ASSUME NEW x \in H
                 PROVE  u.next[x] \in H \cup {i} \cup {Nil} /\ w.tree.next[bt[x]] = bt[u.next[x]]
    BY <1>7, <1>14
  <2>2. x \in Node /\ bt[x] = at[x] /\ x # i
    BY <1>7, <1>16
  <2>3. CASE x = f
    <3>1. w.tree.next[c[k - 1]] = c[k] /\ at[f] = c[k - 1]
      <4>1. f # Nil
        BY <1>7, <2>3
      <4>2. k - 1 \in 1..Len(c) /\ k - 1 # Len(c) /\ k - 1 + 1 = k
        BY <1>8, <4>1
      <4>3. w.tree.next[c[k - 1]] = c[k - 1 + 1]
        BY <1>5, <4>2
      <4>4. QED BY <4>1, <4>2, <4>3
    <3>2. QED BY <1>14, <1>16, <2>2, <2>3, <3>1
  <2>4. CASE x # f
    BY <1>6, <1>14, <1>16, <2>2, <2>4
  <2>5. QED BY <2>3, <2>4
<1>22. \A x \in (H \cup {i}) \ {Root} :
         /\ u.prev[x] \in H \cup {i} \cup {Nil} /\ w.tree.prev[bt[x]] = bt[u.prev[x]]
  <2>1. TAKE x \in (H \cup {i}) \ {Root}
  <2>2. CASE x = i
    <3>1. w.tree.prev[c[k]] = at[f] /\ f \in H \cup {Nil}
      BY <1>5, <1>6
    <3>2. QED BY <1>7, <1>14, <1>16, <2>2, <3>1
  <2>3. CASE x # i
    BY <1>6, <1>14, <1>16, <2>3
  <2>4. QED BY <2>2, <2>3
<1>23. \A x \in (H \cup {i}) \ {Root} :
         /\ u.parent[x] \in H \cup {i} /\ w.tree.parent[bt[x]] = bt[u.parent[x]]
         /\ u.firstChild[u.parent[x]] # Nil
  <2>1. TAKE x \in (H \cup {i}) \ {Root}
  <2>2. CASE x = i
    BY <1>5, <1>7, <1>14, <1>16, <1>19, <2>2
  <2>3. CASE x # i
    <3>1. x \in H \ {Root} /\ x \in Node /\ u.parent[x] = t.parent[x] /\ t.parent[x] \in H
      BY <1>6, <1>14, <2>3
    <3>2. u.firstChild[t.parent[x]] # Nil
      BY <1>6, <1>7, <1>14, <3>1
    <3>3. QED BY <1>6, <1>16, <3>1, <3>2
  <2>4. QED BY <2>2, <2>3
<1>24. Partly(bt, H \cup {i}, u, ids2, w, i)
  <2>1. u.next[i] = Nil
    BY <1>7, <1>14
  <2>2. Root \in H \cup {i} /\ bt[Nil] = Nil /\ bt[Root] = Root /\ i \in (H \cup {i}) \ {Root}
    BY <1>6, <1>7, <1>16
  <2>3. G = H \cup {i}
    OBVIOUS
  <2>4. bt \in [G \cup {Nil} -> NodeOrNil] /\ \A x, y \in G \cup {Nil} : bt[x] = bt[y] => x = y
    BY <1>16, <1>17, <2>3
  <2>5. \A x \in G :
       /\ bt[x] \in w.heap /\ w.id[bt[x]] = ids2[x]
       /\ u.firstChild[x] \in G \cup {Nil}
       /\ u.firstChild[x] # Nil => w.tree.firstChild[bt[x]] = bt[u.firstChild[x]]
       /\ u.next[x] \in G \cup {Nil}
       /\ x # i => w.tree.next[bt[x]] = bt[u.next[x]]
    BY <1>20, <1>21, <2>3
  <2>6. \A x \in G \ {Root} :
       /\ u.prev[x] \in G \cup {Nil} /\ w.tree.prev[bt[x]] = bt[u.prev[x]]
       /\ u.parent[x] \in G /\ w.tree.parent[bt[x]] = bt[u.parent[x]]
       /\ u.firstChild[u.parent[x]] # Nil
    BY <1>22, <1>23, <2>3
  <2>7. /\ Root \in G /\ bt[Nil] = Nil /\ bt[Root] = Root
        /\ i # Nil => i \in G \ {Root} /\ u.next[i] = Nil
    BY <2>1, <2>2, <2>3
  <2>8. Partly(bt, G, u, ids2, w, i)
    BY Zenon, <2>4, <2>5, <2>6, <2>7 DEF Partly
  <2>9. QED BY <2>3, <2>8
<1>25. u.firstChild[i] = Nil /\ \A x \in H \ {p} : u.firstChild[x] = t.firstChild[x]
  BY <1>7, <1>13, <1>14
<1>26. QED BY <1>15, <1>16, <1>19, <1>24, <1>25

\* The client's document after k of the children c of p arrived.
Loaded(at, p, c, e, s, k, bt) ==
  /\ s.heap = InTree(s.tree)
  /\ \A x \in heap : /\ bt[x] = at[x] /\ s.id[x] = itemId[x] /\ s.done[x] = done[x]
                     /\ x # p => s.tree.firstChild[x] = tree.firstChild[x]
  /\ \A x \in s.heap \ heap : /\ s.tree.firstChild[x] = Nil
                              /\ \E j \in 1..k : bt[x] = c[j] /\ s.done[x] = e[j].done
  /\ \A j \in 1..k : \E x \in s.heap \ heap : bt[x] = c[j]
  /\ \A x \in s.heap : s.id[x] < s.nextId
  /\ \A x \in Item \ s.heap : s.done[x] = FALSE

\* The document after k of the children, f the last of them, Nil before the first.
Stage(w, at, p, c, e, s, k) == \E bt, f :
  /\ Partly(bt, s.heap, s.tree, s.id, w, f) /\ Loaded(at, p, c, e, s, k, bt)
  /\ f = Nil <=> k = 0
  /\ k = 0 => s.tree.firstChild[p] = Nil
  /\ k # 0 => bt[f] = c[k] /\ s.tree.firstChild[p] # Nil

\* One more.
LEMMA RoundLoads ==
  ASSUME IndInv, NEW w, Sound(w), NEW at, NEW p \in heap, NEW c, NEW e, Listed(w, at[p], c, e),
         \A x \in heap, j \in 1..Len(c) : at[x] # c[j],
         NEW k \in Nat, k + 1 \in 1..Len(c), NEW s, Fetched(s, k), s.heap # Node,
         Stage(w, at, p, c, e, s, k), NEW r, r = LoadChild(s, p, e[k + 1])
  PROVE  Stage(w, at, p, c, e, r, k + 1)
<1>1. PICK bt, f :
        /\ Partly(bt, s.heap, s.tree, s.id, w, f) /\ Loaded(at, p, c, e, s, k, bt)
        /\ (f = Nil <=> k = 0)
        /\ (k = 0 => s.tree.firstChild[p] = Nil)
        /\ (k # 0 => bt[f] = c[k])
  BY DEF Stage
<1>2. PICK m \in 1..Len(c) : m = k + 1
  OBVIOUS
<1>3. /\ s.tree \in Tree /\ LinksAgree(s.tree) /\ ChainsEnd(s.tree) /\ s.heap \in SUBSET Node
      /\ heap \subseteq s.heap /\ \A x \in Item \ s.heap : Unlinked(s.tree, x)
      /\ s.id \in [Node -> Nat] /\ s.nextId \in Nat /\ s.done \in [Node -> BOOLEAN]
  BY DEF Fetched, Numbered, Id
<1>4. /\ s.heap = InTree(s.tree)
      /\ \A x \in heap : /\ bt[x] = at[x] /\ s.id[x] = itemId[x] /\ s.done[x] = done[x]
                         /\ x # p => s.tree.firstChild[x] = tree.firstChild[x]
      /\ \A x \in s.heap \ heap : /\ s.tree.firstChild[x] = Nil
                                  /\ \E j \in 1..k : bt[x] = c[j] /\ s.done[x] = e[j].done
      /\ \A j \in 1..k : \E x \in s.heap \ heap : bt[x] = c[j]
      /\ \A x \in s.heap : s.id[x] < s.nextId
      /\ \A x \in Item \ s.heap : s.done[x] = FALSE
  BY <1>1 DEF Loaded
<1>5. Root \in s.heap
  BY <1>1 DEF Partly
<1>6. PICK i : i = NextFree(s.heap)
  OBVIOUS
<1>7. i \in Item /\ i \in Node /\ i \notin s.heap /\ p \in s.heap
  BY <1>3, <1>5, <1>6, Allocates
<1>8. PICK b, u, ids, t, H :
        /\ b = IF e[m].prev = NoId THEN Nil ELSE FindItem(s.tree, s.id, e[m].prev)
        /\ u = AddAsChild(s.tree, p, i, b) /\ ids = [s.id EXCEPT ![i] = e[m].id]
        /\ t = s.tree /\ H = s.heap
  OBVIOUS
<1>9. /\ r.tree = u /\ r.heap = H \cup {i} /\ r.id = ids
      /\ r.done = [s.done EXCEPT ![i] = e[m].done]
      /\ r.nextId = IF e[m].id >= s.nextId THEN e[m].id + 1 ELSE s.nextId
  BY <1>2, <1>6, <1>8 DEF LoadChild
<1>10. Listed(w, bt[p], c, e) /\ Len(c) \in Nat /\ e[m] \in Entry /\ e[m].id \in Nat
  <2>1. Listed(w, bt[p], c, e)
    BY <1>4
  <2>2. c \in Seq(Item) /\ e \in Seq(Entry) /\ Len(e) = Len(c)
    BY DEF Listed
  <2>3. e[m] \in Entry
    BY <2>2
  <2>4. QED BY <2>1, <2>2, <2>3 DEF Entry, Id
<1>11. \A j, l \in 1..Len(c) : c[j] = c[l] => j = l
  BY DEF Listed
<1>12. \A x \in H : bt[x] # c[m]
  <2>1. TAKE x \in H
  <2>2. CASE x \in heap
    BY <1>4, <2>2
  <2>3. CASE x \notin heap
    <3>1. PICK j \in 1..k : bt[x] = c[j]
      BY <1>4, <1>8, <2>3
    <3>2. j \in 1..Len(c) /\ j # m
      BY <1>2, <1>10
    <3>3. QED BY <1>11, <3>1, <3>2
  <2>4. QED BY <2>2, <2>3
<1>13. /\ f = Nil <=> m = 1
       /\ m = 1 => t.firstChild[p] = Nil
       /\ m # 1 => bt[f] = c[m - 1]
  BY <1>1, <1>2, <1>8
<1>14. /\ t \in Tree /\ LinksAgree(t) /\ ChainsEnd(t) /\ H \in SUBSET Node /\ H = InTree(t)
       /\ \A x \in Item \ H : Unlinked(t, x)
       /\ Partly(bt, H, t, s.id, w, f) /\ p \in H /\ i \notin H
       /\ b = IF e[m].prev = NoId THEN Nil ELSE FindItem(t, s.id, e[m].prev)
       /\ u = AddAsChild(t, p, i, b)
  BY <1>1, <1>3, <1>4, <1>7, <1>8
<1>15. ids[i] = e[m].id /\ \A x \in H : ids[x] = s.id[x]
  BY <1>3, <1>7, <1>8
<1>16. c[m] \in NodeOrNil /\ bt \in [H \cup {Nil} -> NodeOrNil] /\ Nil # i
  <2>1. Partly(bt, H, t, s.id, w, f)
    BY <1>14
  <2>2. bt \in [H \cup {Nil} -> NodeOrNil]
    BY <2>1 DEF Partly
  <2>3. c \in Seq(Item)
    BY DEF Listed
  <2>4. c[m] \in Item
    BY <2>3
  <2>5. QED BY <1>7, <2>2, <2>4, NodeAssumption DEF NodeOrNil, Item
<1>17. PICK G : G = H \cup {i}
  OBVIOUS
<1>18. PICK ct \in [H \cup {i} \cup {Nil} -> NodeOrNil] :
         ct[i] = c[m] /\ \A x \in H \cup {Nil} : ct[x] = bt[x]
  <2>1. PICK g : g = [x \in H \cup {i} \cup {Nil} |-> IF x = i THEN c[m] ELSE bt[x]]
    OBVIOUS
  <2>2. g \in [H \cup {i} \cup {Nil} -> NodeOrNil]
    BY <1>16, <2>1
  <2>3. g[i] = c[m] /\ \A x \in H \cup {Nil} : g[x] = bt[x]
    BY <1>7, <1>8, <1>16, <2>1
  <2>4. QED BY <2>2, <2>3
<1>19. /\ Partly(ct, H \cup {i}, u, ids, w, i)
       /\ InTree(u) = H \cup {i} /\ u.firstChild[i] = Nil /\ u.firstChild[p] # Nil
       /\ \A x \in H \ {p} : u.firstChild[x] = t.firstChild[x]
  <2>1. u = AddAsChild(t, p, i, IF e[m].prev = NoId THEN Nil ELSE FindItem(t, s.id, e[m].prev))
    BY <1>8
  <2>2. Growing(w, t, H, s.id, bt, f, p, c, e, m, i, u, G, ids, ct)
    BY <1>3, <1>7, <1>8, <1>10, <1>12, <1>13, <1>14, <1>15, <1>17, <1>18, <2>1 DEF Growing
  <2>3. /\ Partly(ct, G, u, ids, w, i)
        /\ InTree(u) = G /\ u.firstChild[i] = Nil /\ u.firstChild[p] # Nil
        /\ \A x \in H \ {p} : u.firstChild[x] = t.firstChild[x]
    BY <2>2, PartlyGrows
  <2>4. QED BY <1>17, <2>3
<1>20. /\ ids[i] = e[m].id /\ \A x \in H : ids[x] = s.id[x]
       /\ r.done[i] = e[m].done /\ \A x \in Node \ {i} : r.done[x] = s.done[x]
  BY <1>3, <1>7, <1>8, <1>9
<1>21. heap \subseteq H /\ i \notin heap
  BY <1>3, <1>7, <1>8
<1>22. ASSUME NEW x \in heap
       PROVE  /\ ct[x] = at[x] /\ r.id[x] = itemId[x] /\ r.done[x] = done[x]
              /\ x # p => r.tree.firstChild[x] = tree.firstChild[x]
  <2>1. x \in H /\ x # i /\ x \in Node
    BY <1>14, <1>21
  <2>2. QED BY <1>4, <1>8, <1>9, <1>19, <1>18, <1>20, <2>1
<1>23. ASSUME NEW x \in r.heap \ heap
       PROVE  /\ r.tree.firstChild[x] = Nil
              /\ \E j \in 1..m : ct[x] = c[j] /\ r.done[x] = e[j].done
  <2>1. CASE x = i
    BY <1>2, <1>9, <1>19, <1>18, <1>20, <2>1
  <2>2. CASE x # i
    <3>1. x \in H \ heap /\ x \in Node /\ x # p /\ x \in s.heap \ heap
      BY <1>8, <1>9, <1>14, <2>2
    <3>2. PICK j \in 1..k : bt[x] = c[j] /\ s.done[x] = e[j].done
      BY <1>4, <3>1
    <3>3. j \in 1..m /\ ct[x] = c[j] /\ r.done[x] = e[j].done
      BY <1>2, <1>18, <1>20, <2>2, <3>1, <3>2
    <3>4. t.firstChild[x] = Nil
      BY <1>4, <1>8, <3>1
    <3>5. QED BY <1>9, <1>19, <3>1, <3>3, <3>4
  <2>3. QED BY <2>1, <2>2
<1>24. ASSUME NEW j \in 1..m PROVE \E x \in r.heap \ heap : ct[x] = c[j]
  <2>1. CASE j = m
    BY <1>9, <1>18, <1>21, <2>1
  <2>2. CASE j # m
    <3>1. j \in 1..k
      BY <1>2, <2>2
    <3>2. PICK x \in s.heap \ heap : bt[x] = c[j]
      BY <1>4, <3>1
    <3>3. QED BY <1>8, <1>9, <1>18, <3>2
  <2>3. QED BY <2>1, <2>2
<1>25. ASSUME NEW x \in r.heap PROVE r.id[x] < r.nextId
  <2>1. CASE x = i
    BY <1>3, <1>9, <1>10, <1>20, <2>1
  <2>2. CASE x # i
    <3>1. x \in H /\ r.id[x] = s.id[x] /\ s.id[x] < s.nextId /\ s.id[x] \in Nat
      BY <1>3, <1>4, <1>8, <1>9, <1>20, <2>2
    <3>2. QED BY <1>3, <1>9, <1>10, <3>1
  <2>3. QED BY <2>1, <2>2
<1>26. ASSUME NEW x \in Item \ r.heap PROVE r.done[x] = FALSE
  <2>1. x \in Item \ s.heap /\ x # i /\ x \in Node
    BY <1>8, <1>9 DEF Item
  <2>2. QED BY <1>4, <1>20, <2>1
<1>27. r.heap = InTree(r.tree)
  BY <1>9, <1>19
<1>28. Loaded(at, p, c, e, r, m, ct)
  BY <1>22, <1>23, <1>24, <1>25, <1>26, <1>27 DEF Loaded
<1>29. i # Nil /\ r.tree.firstChild[p] # Nil /\ Partly(ct, r.heap, r.tree, r.id, w, i)
  BY <1>7, <1>9, <1>19, <1>18, NodeAssumption
<1>30. i = Nil <=> m = 0
  BY <1>2, <1>29
<1>31. Stage(w, at, p, c, e, r, m)
  BY <1>18, <1>28, <1>29, <1>30 DEF Stage
<1>32. QED BY <1>2, <1>31

\* The children of a node that was not opened are not there.
LEMMA NotYet ==
  ASSUME NEW w, Sound(w), NEW t, NEW H, NEW ids, NEW at, Partly(at, H, t, ids, w, Nil),
         NEW p \in H, t.firstChild[p] = Nil, NEW c, NEW e, Listed(w, at[p], c, e)
  PROVE  \A x \in H, j \in 1..Len(c) : at[x] # c[j]
<1>1. SUFFICES ASSUME NEW x \in H, NEW j \in 1..Len(c), at[x] = c[j] PROVE FALSE
  OBVIOUS
<1>2. c \in Seq(Item) /\ w.tree.parent[c[j]] = at[p]
  BY DEF Listed
<1>3. c[j] \in Item
  BY <1>2
<1>4. x # Root
  BY <1>1, <1>3 DEF Partly, Item
<1>5. t.parent[x] \in H /\ at[t.parent[x]] = at[p] /\ t.firstChild[t.parent[x]] # Nil
  BY <1>1, <1>2, <1>4 DEF Partly
<1>6. t.parent[x] = p
  BY <1>5 DEF Partly
<1>7. QED BY <1>5, <1>6

\* All of them.
LEMMA ListLoads ==
  ASSUME IndInv, PlacesSane, Numbered(itemId, heap), nextId \in Id, done \in [Node -> BOOLEAN],
         heap = InTree(tree), Named, NEW w, Sound(w), NEW at, Partly(at, heap, tree, itemId, w, Nil),
         NEW p \in heap, tree.firstChild[p] = Nil, NEW c, NEW e, Listed(w, at[p], c, e),
         Cardinality(Node \ heap) >= Len(e), NEW s, s = LoadChildren(p, e)
  PROVE  /\ Fetched(s, Len(c))
         /\ \E bt : /\ Partly(bt, s.heap, s.tree, s.id, w, Nil) /\ Loaded(at, p, c, e, s, Len(c), bt)
                    /\ Len(c) # 0 => s.tree.firstChild[p] # Nil
<1>1. /\ c \in Seq(Item) /\ e \in Seq(Entry) /\ Len(e) = Len(c)
      /\ \A k \in 1..Len(c) : w.tree.next[c[k]] = IF k = Len(c) THEN Nil ELSE c[k + 1]
  BY DEF Listed
<1>2. PICK n \in Nat : n = Len(c) /\ n = Len(e)
  BY <1>1
<1>3. PICK a : /\ LoadChildren(p, e) = a[Len(e)]
               /\ \A k \in 0..Len(e) : a[k] = Round(a, p, e, k)
  BY <1>1, LoadUnrolls
<1>4. heap \in SUBSET Node /\ IsFiniteSet(heap) /\ Cardinality(Node \ heap) >= n
      /\ Cardinality(heap) \in Nat /\ Cardinality(Node \ heap) = Cardinality(Node) - Cardinality(heap)
  <2>1. heap \in SUBSET Node /\ IsFiniteSet(heap) /\ IsFiniteSet(Node \ heap)
    BY HeapFinite, FS_Subset, FS_Difference DEF IndInv, TypeOK
  <2>2. heap \cap Node = heap /\ Node \cap heap = heap
    BY <2>1
  <2>3. Cardinality(Node \ heap) = Cardinality(Node) - Cardinality(Node \cap heap)
    BY HeapFinite, FS_Difference
  <2>4. Cardinality(heap) \in Nat
    BY <2>1, FS_CardinalityType
  <2>5. QED BY <1>2, <2>1, <2>2, <2>3, <2>4
<1> DEFINE T == {k \in Nat : k <= n => Fetched(a[k], k) /\ Stage(w, at, p, c, e, a[k], k)}
<1>5. 0 \in T
  <2>1. PICK r : r = [tree |-> tree, heap |-> heap, id |-> itemId, nextId |-> nextId, done |-> done,
                      added |-> <<>>]
    OBVIOUS
  <2>2. a[0] = r
    BY <1>2, <1>3, <2>1 DEF Round
  <2>3. HeapOK /\ PlacesAt(tree.parent, heap)
    BY Parts DEF IndInv, PlacesSane, PlacesAt, Past, Future
  <2>4. Cardinality(heap) = Cardinality(heap) + 0
    BY <1>4
  <2>5. Fetched(r, 0)
    BY <2>1, <2>3, <2>4 DEF Fetched, HeapOK, LinksConsistent, ChainsFinite, FreshUnlinked
  <2>6. /\ \A x \in heap : itemId[x] < nextId
        /\ \A x \in Item \ heap : done[x] = FALSE
    BY DEF Named, Item
  <2>7. r.tree = tree /\ r.heap = heap /\ r.id = itemId /\ r.nextId = nextId /\ r.done = done
    BY <2>1
  <2>8. Loaded(at, p, c, e, r, 0, at)
    BY <2>6, <2>7 DEF Loaded
  <2>9. Partly(at, r.heap, r.tree, r.id, w, Nil)
    BY <2>7
  <2>10. Stage(w, at, p, c, e, r, 0)
    BY <2>7, <2>8, <2>9 DEF Stage
  <2>11. QED BY <2>2, <2>5, <2>10
<1>6. ASSUME NEW k \in Nat, k \in T PROVE k + 1 \in T
  <2> SUFFICES ASSUME k + 1 <= n PROVE Fetched(a[k + 1], k + 1) /\ Stage(w, at, p, c, e, a[k + 1], k + 1)
    OBVIOUS
  <2>1. /\ k + 1 \in 0..Len(e) /\ k + 1 # 0 /\ (k + 1) - 1 = k /\ k <= n
        /\ k + 1 \in 1..Len(e) /\ k + 1 \in 1..Len(c)
    BY <1>2
  <2>2. Fetched(a[k], k) /\ Stage(w, at, p, c, e, a[k], k)
    BY <1>6, <2>1
  <2>3. a[k + 1] = LoadChild(a[k], p, e[k + 1])
    BY <1>3, <2>1 DEF Round
  <2>4. e[k + 1] \in Entry
    BY <1>1, <2>1
  <2>5. a[k].heap # Node
    <3>1. SUFFICES ASSUME a[k].heap = Node PROVE FALSE
      OBVIOUS
    <3>2. Cardinality(Node) = Cardinality(heap) + k
      BY <2>2, <3>1 DEF Fetched
    <3>3. QED BY <1>4, <3>2
  <2>6. Fetched(a[k + 1], k + 1)
    BY <2>2, <2>3, <2>4, <2>5, RoundFetched
  <2>7. \A x \in heap, j \in 1..Len(c) : at[x] # c[j]
    <3>1. /\ Sound(w) /\ Partly(at, heap, tree, itemId, w, Nil) /\ p \in heap
          /\ tree.firstChild[p] = Nil /\ Listed(w, at[p], c, e)
      OBVIOUS
    <3>2. QED BY ONLY <3>1, NotYet
  <2>8. PICK v, r : v = a[k] /\ r = a[k + 1]
    OBVIOUS
  <2>9. Fetched(v, k) /\ Stage(w, at, p, c, e, v, k) /\ v.heap # Node /\ r = LoadChild(v, p, e[k + 1])
    BY <2>2, <2>3, <2>5, <2>8
  <2>10. Stage(w, at, p, c, e, r, k + 1)
    BY <2>1, <2>7, <2>9, RoundLoads
  <2>11. QED BY <2>6, <2>8, <2>10
<1>7. n \in T
  <2>1. Nat \subseteq T
    <3> HIDE DEF T
    <3>1. QED BY <1>5, <1>6, SetInduction
  <2>2. QED BY <2>1
<1>8. Fetched(s, n) /\ Stage(w, at, p, c, e, s, n)
  <2>1. s = a[n]
    BY <1>2, <1>3
  <2>2. QED BY <1>7, <2>1
<1>9. PICK bt, f :
        /\ Partly(bt, s.heap, s.tree, s.id, w, f) /\ Loaded(at, p, c, e, s, n, bt)
        /\ (f = Nil <=> n = 0)
        /\ (n # 0 => bt[f] = c[n] /\ s.tree.firstChild[p] # Nil)
  BY <1>8 DEF Stage
<1>10. PICK t, H, ids : t = s.tree /\ H = s.heap /\ ids = s.id
  OBVIOUS
<1>11. Partly(bt, H, t, ids, w, f)
  BY <1>9, <1>10
<1>12. f # Nil => w.tree.next[bt[f]] = bt[t.next[f]]
  <2>1. SUFFICES ASSUME f # Nil PROVE w.tree.next[bt[f]] = bt[t.next[f]]
    OBVIOUS
  <2>2. t.next[f] = Nil /\ bt[Nil] = Nil
    BY <1>11, <2>1 DEF Partly
  <2>3. bt[f] = c[n] /\ n \in 1..Len(c) /\ n = Len(c)
    BY <1>2, <1>9, <2>1
  <2>4. QED BY <1>1, <2>2, <2>3
<1>13. Partly(bt, H, t, ids, w, Nil)
  BY <1>11, <1>12 DEF Partly
<1>14. QED BY <1>2, <1>8, <1>9, <1>10, <1>13

---------------------------------------------------------------------------
(* A document that is loading.                                             *)

\* What is under way between the two sides.
Sent(q, r) == In(q) \cup In(r)

\* Packets that leave the copy w as it is, but for texts and the marks of what
\* has arrived; lists that fit w, each asked for once by an item without children.
Heard(w, H, t, ids, q, r) ==
  /\ \A m \in In(q) :
       /\ m.type \notin {"PT_ITEM_CREATED", "PT_ITEM_DELETED", "PT_ITEM_MOVED"}
       /\ m.type = "PT_ITEM_DONE_CHANGED" => \E x \in H : m.item = ids[x]
  /\ \A m \in In(r) : m.type = "PT_GET_CHILDREN" =>
       \E c : Listed(w, Found(w, m.item), c, m.children)
  /\ \A m \in Sent(q, r) : m.type = "PT_GET_CHILDREN" =>
       \E x \in H : ids[x] = m.item /\ t.firstChild[x] = Nil
  /\ \A m, n \in Sent(q, r) : m.type = "PT_GET_CHILDREN" /\ n.type = "PT_GET_CHILDREN" /\ m.item = n.item
       => m.request = n.request

\* The client has a part of the server's document.
PartialHeld(at) ==
  /\ heap = InTree(tree) /\ Sound(server)
  /\ Partly(at, heap, tree, itemId, server, Nil)
  /\ Heard(server, heap, tree, itemId, toServer, toClient)

\* The object an item stands for is found by the item's id, and no two items
\* have one id.
LEMMA PartlyFinds ==
  ASSUME NEW w, Sound(w), NEW at, NEW H, NEW t, NEW ids, NEW f, Partly(at, H, t, ids, w, f)
  PROVE  /\ \A x \in H : Found(w, ids[x]) = at[x] /\ at[x] \in w.heap /\ w.id[at[x]] = ids[x]
         /\ \A x, y \in H : ids[x] = ids[y] => x = y
<1>1. /\ Coherent(w) /\ w.heap = InTree(w.tree)
      /\ \A x, y \in w.heap : w.id[x] = w.id[y] => x = y
  BY DEF Sound
<1>2. /\ \A x \in H : at[x] \in w.heap /\ w.id[at[x]] = ids[x]
      /\ \A x, y \in H \cup {Nil} : at[x] = at[y] => x = y
  BY DEF Partly
<1>3. ASSUME NEW x \in H PROVE Found(w, ids[x]) = at[x]
  <2>1. PICK y : y = Found(w, ids[x])
    OBVIOUS
  <2>2. y # Nil
    BY <1>1, <1>2, <2>1, FoundIn
  <2>3. y \in w.heap /\ w.id[y] = ids[x]
    BY <1>1, <2>1, <2>2, FoundIn
  <2>4. QED BY <1>1, <1>2, <2>1, <2>3
<1>4. QED BY <1>1, <1>2, <1>3

\* A mark changes the mark of one item.
LEMMA MarkOnly ==
  ASSUME NEW w, Coherent(w), NEW m, m.type = "PT_ITEM_DONE_CHANGED"
  PROVE  \E v : /\ v = Handle(w, m) /\ \A y \in Item : y # Found(w, m.item) => v.done[y] = w.done[y]
               /\ v.heap = w.heap /\ v.tree = w.tree /\ v.text = w.text /\ v.id = w.id
<1>1. PICK v, j : /\ v = Handle(w, m) /\ j = Found(w, m.item)
                  /\ v.done = IF j = Nil THEN w.done ELSE [w.done EXCEPT ![j] = m.done]
                  /\ v.heap = w.heap /\ v.tree = w.tree /\ v.text = w.text /\ v.id = w.id
  BY ServerMarks
<1>2. w.done \in [Item -> BOOLEAN]
  BY CopyParts
<1>3. \A y \in Item : y # j => v.done[y] = w.done[y]
  BY <1>1, <1>2
<1>4. QED BY <1>1, <1>3

\* What a packet that is no command does to a copy.
LEMMA QuietHandle ==
  ASSUME NEW w, Sound(w), NEW m \in Packet,
         m.type \notin {"PT_ITEM_CREATED", "PT_ITEM_DELETED", "PT_ITEM_MOVED"}
  PROVE  \E u : /\ u = Handle(w, m) /\ Sound(u) /\ u.tree = w.tree /\ u.heap = w.heap /\ u.id = w.id
                /\ m.type # "PT_ITEM_CHANGED" => u.text = w.text
                /\ m.type = "PT_ITEM_DONE_CHANGED" => \A y \in Item : y # Found(w, m.item) => u.done[y] = w.done[y]
                /\ m.type # "PT_ITEM_DONE_CHANGED" => u.done = w.done
<1>1. /\ Coherent(w) /\ w.heap = InTree(w.tree)
      /\ \A x, y \in w.heap : w.id[x] = w.id[y] => x = y
  BY DEF Sound
<1>2. PICK u : u = Handle(w, m)
  OBVIOUS
<1>3. Coherent(u)
  BY <1>1, <1>2, HandleCoherent
<1>4. /\ u.tree = w.tree /\ u.heap = w.heap /\ u.id = w.id
      /\ m.type # "PT_ITEM_CHANGED" => u.text = w.text
      /\ m.type = "PT_ITEM_DONE_CHANGED" => \A y \in Item : y # Found(w, m.item) => u.done[y] = w.done[y]
      /\ m.type # "PT_ITEM_DONE_CHANGED" => u.done = w.done
  <2>1. CASE m.type = "PT_ITEM_CHANGED"
    <3>1. PICK v, j : /\ v = Handle(w, m) /\ j = Found(w, m.item)
                      /\ v.text = IF j = Nil THEN w.text ELSE [w.text EXCEPT ![j] = m.text]
                      /\ v.heap = w.heap /\ v.tree = w.tree /\ v.done = w.done /\ v.id = w.id
      BY <1>1, <2>1, ServerEdits
    <3>2. QED BY <1>2, <2>1, <3>1
  <2>2. CASE m.type = "PT_ITEM_DONE_CHANGED"
    <3>1. PICK v : /\ v = Handle(w, m) /\ \A y \in Item : y # Found(w, m.item) => v.done[y] = w.done[y]
                   /\ v.heap = w.heap /\ v.tree = w.tree /\ v.text = w.text /\ v.id = w.id
      BY <1>1, <2>2, MarkOnly
    <3>2. QED BY <1>2, <2>2, <3>1
  <2>3. CASE m.type \notin {"PT_ITEM_CHANGED", "PT_ITEM_DONE_CHANGED"}
    <3>1. u = w
      BY <1>2, <2>3 DEF Handle
    <3>2. QED BY <2>3, <3>1
  <2>4. QED BY <2>1, <2>2, <2>3
<1>5. Sound(u)
  BY <1>1, <1>3, <1>4 DEF Sound
<1>6. QED BY <1>2, <1>4, <1>5

\* The parts fit as long as links and ids are the same.
LEMMA FitsStill ==
  ASSUME NEW w, NEW u, u.tree = w.tree, u.heap = w.heap, u.id = w.id
  PROVE  /\ \A i : Found(u, i) = Found(w, i)
         /\ \A at, H, t, ids, f : Partly(at, H, t, ids, w, f) => Partly(at, H, t, ids, u, f)
<1>1. \A i : Found(u, i) = Found(w, i)
  BY DEF Found
<1>2. \A at, H, t, ids, f : Partly(at, H, t, ids, w, f) => Partly(at, H, t, ids, u, f)
  BY DEF Partly
<1>3. QED BY <1>1, <1>2

\* So do the lists whose items are marked as before.
LEMMA ListedStill ==
  ASSUME NEW w, NEW u, u.tree = w.tree, u.heap = w.heap, u.id = w.id,
         NEW y, NEW c, NEW e, Listed(w, y, c, e), \A j \in 1..Len(c) : u.done[c[j]] = w.done[c[j]]
  PROVE  Listed(u, y, c, e)
<1>1. /\ c \in Seq(Item) /\ e \in Seq(Entry) /\ Len(e) = Len(c)
      /\ u.tree.firstChild[y] = IF c = <<>> THEN Nil ELSE c[1]
      /\ \A j, k \in 1..Len(c) : c[j] = c[k] => j = k
  BY DEF Listed
<1>2. ASSUME NEW k \in 1..Len(c)
      PROVE  /\ c[k] \in InTree(u.tree) /\ u.tree.parent[c[k]] = y
             /\ u.tree.prev[c[k]] = IF k = 1 THEN Nil ELSE c[k - 1]
             /\ u.tree.next[c[k]] = IF k = Len(c) THEN Nil ELSE c[k + 1]
             /\ e[k].id = u.id[c[k]] /\ e[k].done = u.done[c[k]]
             /\ e[k].prev = IF k = 1 THEN NoId ELSE e[k - 1].id
  BY DEF Listed
<1>3. QED BY <1>1, <1>2 DEF Listed

\* Fewer packets, and more that ask for no list.
LEMMA HeardSince ==
  ASSUME NEW w, NEW H, NEW t, NEW ids, NEW q, NEW r, Heard(w, H, t, ids, q, r), NEW q2, NEW r2,
         In(r2) \subseteq In(r),
         \A m \in In(q2) :
           \/ m \in In(q)
           \/ /\ m.type \in {"PT_ITEM_CHANGED", "PT_ITEM_DONE_CHANGED", "PT_DOC_SAVE", "PT_GET_ITEM"}
              /\ m.type = "PT_ITEM_DONE_CHANGED" => \E x \in H : m.item = ids[x]
  PROVE  Heard(w, H, t, ids, q2, r2)
<1>1. \A m \in In(q2) :
        /\ m.type \notin {"PT_ITEM_CREATED", "PT_ITEM_DELETED", "PT_ITEM_MOVED"}
        /\ m.type = "PT_ITEM_DONE_CHANGED" => \E x \in H : m.item = ids[x]
  BY DEF Heard
<1>2. \A m \in In(r2) : m.type = "PT_GET_CHILDREN" => \E c : Listed(w, Found(w, m.item), c, m.children)
  BY DEF Heard
<1>3. \A m \in Sent(q2, r2) : m.type = "PT_GET_CHILDREN" => m \in Sent(q, r)
  BY DEF Sent
<1>4. \A m \in Sent(q2, r2) : m.type = "PT_GET_CHILDREN" =>
        \E x \in H : ids[x] = m.item /\ t.firstChild[x] = Nil
  BY <1>3 DEF Heard
<1>5. \A m, n \in Sent(q2, r2) : m.type = "PT_GET_CHILDREN" /\ n.type = "PT_GET_CHILDREN" /\ m.item = n.item
       => m.request = n.request
  BY <1>3 DEF Heard
<1>6. QED BY <1>1, <1>2, <1>4, <1>5 DEF Heard

\* A list answers a request for one.
LEMMA ListOnly ==
  ASSUME NEW s, Coherent(s), NEW p \in Packet, NEW m \in In(Reply(s, p)), m.type = "PT_GET_CHILDREN"
  PROVE  p.type = "PT_GET_CHILDREN"
<1>1. SUFFICES ASSUME p.type # "PT_GET_CHILDREN" PROVE FALSE
  OBVIOUS
<1>2. CASE p.type = "PT_GET_ITEM"
  <2>1. PICK i : i = Found(s, p.item)
    OBVIOUS
  <2>2. CASE i = Nil
    <3>1. Reply(s, p) = <<>>
      BY <1>2, <2>1, <2>2 DEF Reply, SendItem
    <3>2. QED BY <3>1, InSmall
  <2>3. CASE i # Nil
    <3>1. PICK r : r = [type |-> "PT_GET_ITEM", item |-> p.item, text |-> s.text[i], request |-> p.request]
      OBVIOUS
    <3>2. Reply(s, p) = <<r>>
      BY <1>2, <2>1, <2>3, <3>1 DEF Reply, SendItem
    <3>3. m = r
      BY <3>2, InSmall
    <3>4. QED BY <3>1, <3>3
  <2>4. QED BY <2>2, <2>3
<1>3. CASE p.type # "PT_GET_ITEM"
  <2>1. PICK q : q = Reply(s, p)
    OBVIOUS
  <2>2. Answering(p, q)
    BY <2>1, ReplyIs
  <2>3. PICK k \in 1..Len(q) : m = q[k]
    BY <2>1 DEF In
  <2>4. q[k].type # "PT_RESPONSE"
    BY <2>3
  <2>5. QED BY <1>1, <1>3, <2>2, <2>4 DEF Answering
<1>4. QED BY <1>2, <1>3

\* The server handles a packet: it still has what the client has a part of.
LEMMA HeardHandled ==
  ASSUME NEW w, Sound(w), NEW at, NEW H, NEW t, NEW ids, Partly(at, H, t, ids, w, Nil),
         NEW q \in Seq(Packet), q # <<>>, NEW r \in Seq(Answer), Heard(w, H, t, ids, q, r),
         NEW m, m = Head(q), NEW a, a = Reply(w, m), NEW u, u = Handle(w, m),
         NEW q2, q2 = Tail(q), NEW r2, r2 = r \o a
  PROVE  /\ Sound(u) /\ Partly(at, H, t, ids, u, Nil) /\ Heard(u, H, t, ids, q2, r2)
         /\ u.tree = w.tree /\ u.heap = w.heap /\ u.id = w.id
<1>1. m = Head(q) /\ a = Reply(w, m)
  OBVIOUS
<1>2. m \in Packet /\ In(q) = {m} \cup In(q2) /\ Coherent(w) /\ w.heap \in SUBSET Node
  BY <1>1, InFirst, CopyParts DEF Sound
<1>3. a \in Seq(Answer)
  BY <1>1, <1>2, ReplyIs DEF Answering
<1>4. In(r2) = In(r) \cup In(a)
  BY <1>1, <1>3, InJoined
<1>5. /\ \A n \in In(q) :
           /\ n.type \notin {"PT_ITEM_CREATED", "PT_ITEM_DELETED", "PT_ITEM_MOVED"}
           /\ n.type = "PT_ITEM_DONE_CHANGED" => \E x \in H : n.item = ids[x]
      /\ \A n \in In(r) : n.type = "PT_GET_CHILDREN" =>
           \E c : Listed(w, Found(w, n.item), c, n.children)
      /\ \A n \in Sent(q, r) : n.type = "PT_GET_CHILDREN" =>
           \E x \in H : ids[x] = n.item /\ t.firstChild[x] = Nil
      /\ \A n, o \in Sent(q, r) : n.type = "PT_GET_CHILDREN" /\ o.type = "PT_GET_CHILDREN" /\ n.item = o.item
           => n.request = o.request
  BY DEF Heard
<1>6. m \in In(q) /\ m \in Sent(q, r)
  BY <1>2 DEF Sent
<1>7. /\ Sound(u) /\ u.tree = w.tree /\ u.heap = w.heap /\ u.id = w.id
      /\ m.type = "PT_ITEM_DONE_CHANGED" => \A y \in Item : y # Found(w, m.item) => u.done[y] = w.done[y]
      /\ m.type # "PT_ITEM_DONE_CHANGED" => u.done = w.done
  <2>1. m.type \notin {"PT_ITEM_CREATED", "PT_ITEM_DELETED", "PT_ITEM_MOVED"}
    BY <1>5, <1>6
  <2>2. PICK v : /\ v = Handle(w, m) /\ Sound(v) /\ v.tree = w.tree /\ v.heap = w.heap /\ v.id = w.id
                 /\ m.type # "PT_ITEM_CHANGED" => v.text = w.text
                 /\ m.type = "PT_ITEM_DONE_CHANGED" => \A y \in Item : y # Found(w, m.item) => v.done[y] = w.done[y]
                 /\ m.type # "PT_ITEM_DONE_CHANGED" => v.done = w.done
    BY <1>2, <2>1, QuietHandle
  <2>3. QED BY <1>1, <2>2
<1>8. Partly(at, H, t, ids, u, Nil) /\ \A i : Found(u, i) = Found(w, i)
  BY <1>7, FitsStill
<1>9. \A x \in H : Found(w, ids[x]) = at[x] /\ at[x] \in w.heap
  BY PartlyFinds
<1>10. ASSUME NEW n \in In(a), n.type = "PT_GET_CHILDREN"
       PROVE  /\ m.type = "PT_GET_CHILDREN" /\ n.item = m.item /\ n.request = m.request
              /\ \E c : Listed(w, Found(w, n.item), c, n.children)
  <2>1. m.type = "PT_GET_CHILDREN"
    BY <1>1, <1>2, <1>10, ListOnly
  <2>2. PICK x \in H : ids[x] = m.item
    BY <1>5, <1>6, <2>1
  <2>3. Found(w, m.item) # Nil
    BY <1>2, <1>9, <2>2, NodeAssumption
  <2>4. PICK b, c : /\ Reply(w, m) = <<b>> /\ b.type = "PT_GET_CHILDREN" /\ b.item = m.item
                    /\ b.request = m.request /\ Listed(w, Found(w, m.item), c, b.children)
    BY <2>1, <2>3, ListAnswered
  <2>5. n = b
    <3>1. a = <<b>>
      BY <1>1, <2>4
    <3>2. In(<<b>>) = {b}
      BY InSmall
    <3>3. QED BY <1>10, <3>1, <3>2
  <2>6. QED BY <2>1, <2>4, <2>5
<1>11. ASSUME NEW n \in In(r2), n.type = "PT_GET_CHILDREN"
       PROVE  \E c : Listed(u, Found(u, n.item), c, n.children)
  <2>1. PICK y : y = Found(w, n.item) /\ y = Found(u, n.item)
    BY <1>8
  <2>2. PICK e : e = n.children
    OBVIOUS
  <2>3. CASE n \in In(a)
    <3>1. PICK c : Listed(w, y, c, e)
      BY <1>10, <1>11, <2>1, <2>2, <2>3
    <3>2. u.done = w.done
      BY <1>7, <1>10, <1>11, <2>3
    <3>3. \A j \in 1..Len(c) : u.done[c[j]] = w.done[c[j]]
      BY <3>2
    <3>4. Listed(u, y, c, e)
      BY <1>7, <3>1, <3>3, ListedStill
    <3>5. QED BY <2>1, <2>2, <3>4
  <2>4. CASE n \in In(r)
    <3>1. PICK c : Listed(w, y, c, e)
      BY <1>5, <1>11, <2>1, <2>2, <2>4
    <3>2. PICK p \in H : ids[p] = n.item /\ t.firstChild[p] = Nil
      BY <1>5, <1>11, <2>4 DEF Sent
    <3>3. y = at[p]
      BY <1>9, <2>1, <3>2
    <3>4. \A x \in H, j \in 1..Len(c) : at[x] # c[j]
      <4>1. Listed(w, at[p], c, e)
        BY <3>1, <3>3
      <4>2. p \in H /\ t.firstChild[p] = Nil
        BY <3>2
      <4>3. QED BY Zenon, <4>1, <4>2, NotYet
    <3>5. \A j \in 1..Len(c) : u.done[c[j]] = w.done[c[j]]
      <4>1. CASE m.type = "PT_ITEM_DONE_CHANGED"
        <5>1. PICK x \in H : m.item = ids[x]
          BY <1>5, <1>6, <4>1
        <5>2. Found(w, m.item) = at[x]
          BY <1>9, <5>1
        <5>3. \A j \in 1..Len(c) : c[j] \in Item
          BY <3>1 DEF Listed
        <5>4. QED BY <1>7, <3>4, <4>1, <5>2, <5>3
      <4>2. CASE m.type # "PT_ITEM_DONE_CHANGED"
        BY <1>7, <4>2
      <4>3. QED BY <4>1, <4>2
    <3>6. Listed(u, y, c, e)
      BY <1>7, <3>1, <3>5, ListedStill
    <3>7. QED BY <2>1, <2>2, <3>6
  <2>5. QED BY <1>4, <1>11, <2>3, <2>4
<1>12. ASSUME NEW n \in Sent(q2, r2), n.type = "PT_GET_CHILDREN"
       PROVE  \E o \in Sent(q, r) : o.type = "PT_GET_CHILDREN" /\ o.item = n.item /\ o.request = n.request
  <2>1. n \in Sent(q, r) \/ n \in In(a)
    BY <1>2, <1>4, <1>12 DEF Sent
  <2>2. QED BY <1>6, <1>10, <1>12, <2>1
<1>13. \A n \in Sent(q2, r2) : n.type = "PT_GET_CHILDREN" =>
         \E x \in H : ids[x] = n.item /\ t.firstChild[x] = Nil
  BY <1>5, <1>12
<1>14. ASSUME NEW n \in Sent(q2, r2), NEW o \in Sent(q2, r2),
              n.type = "PT_GET_CHILDREN" /\ o.type = "PT_GET_CHILDREN" /\ n.item = o.item
       PROVE  n.request = o.request
  <2>1. PICK n0 \in Sent(q, r) : n0.type = "PT_GET_CHILDREN" /\ n0.item = n.item /\ n0.request = n.request
    BY <1>12, <1>14
  <2>2. PICK o0 \in Sent(q, r) : o0.type = "PT_GET_CHILDREN" /\ o0.item = o.item /\ o0.request = o.request
    BY <1>12, <1>14
  <2>3. QED BY <1>5, <1>14, <2>1, <2>2
<1>15. Heard(u, H, t, ids, q2, r2)
  BY <1>2, <1>5, <1>11, <1>13, <1>14 DEF Heard
<1>16. QED BY <1>7, <1>8, <1>15

\* What is under way asks for something else than what is read.
LEMMA AskedOnce ==
  ASSUME NEW q, NEW r, NEW R, NEW n, Matched(q, r, R, n), r # <<>>, Head(r).type # "PT_RESPONSE"
  PROVE  \A m \in Sent(q, Tail(r)) : m.type = "PT_GET_CHILDREN" => m.request # Head(r).request
<1>1. PICK a, v, S : a = Head(r).request /\ v = Tail(r) /\ S = R \ {a}
  OBVIOUS
<1>2. Matched(q, v, S, n)
  BY <1>1, MatchedRead
<1>3. /\ \A k \in Req(q) : q[k].request \in S
      /\ \A k \in Ans(v) : v[k].request \in S
  BY <1>2 DEF Matched
<1>4. ASSUME NEW m \in In(q), m.type = "PT_GET_CHILDREN" PROVE m.request # a
  <2>1. PICK k \in 1..Len(q) : m = q[k]
    BY DEF In
  <2>2. k \in Req(q)
    BY <1>4, <2>1 DEF Req
  <2>3. QED BY <1>1, <1>3, <2>1, <2>2
<1>5. ASSUME NEW m \in In(v), m.type = "PT_GET_CHILDREN" PROVE m.request # a
  <2>1. PICK k \in 1..Len(v) : m = v[k]
    BY DEF In
  <2>2. k \in Ans(v)
    BY <1>5, <2>1 DEF Ans
  <2>3. QED BY <1>1, <1>3, <2>1, <2>2
<1>6. QED BY <1>1, <1>4, <1>5 DEF Sent

\* A list read, and what it asks for: the packets under way still fit.
LEMMA HeardGrows ==
  ASSUME NEW w, Sound(w), NEW at, Partly(at, heap, tree, itemId, w, Nil), requestId \in Nat,
         NEW p \in heap, tree.firstChild[p] = Nil, NEW c, NEW e, Listed(w, at[p], c, e),
         NEW s, NEW bt, Partly(bt, s.heap, s.tree, s.id, w, Nil), Loaded(at, p, c, e, s, Len(c), bt),
         heap \subseteq s.heap, NEW q, NEW r, NEW R, NEW n, Matched(q, r, R, n), r # <<>>,
         Head(r).type = "PT_GET_CHILDREN", Head(r).item = itemId[p],
         Heard(w, heap, tree, itemId, q, r), NEW q2, q2 = q \o RequestsFor(e), NEW r2, r2 = Tail(r)
  PROVE  Heard(w, s.heap, s.tree, s.id, q2, r2)
<1>1. PICK a, f : a = Head(r) /\ f = RequestsFor(e)
  OBVIOUS
<1>2. q \in Seq(Packet) /\ r \in Seq(Answer)
  BY DEF Matched
<1>3. /\ c \in Seq(Item) /\ e \in Seq(Entry) /\ Len(e) = Len(c)
      /\ \A j, k \in 1..Len(c) : c[j] = c[k] => j = k
      /\ \A k \in 1..Len(c) : c[k] \in InTree(w.tree) /\ e[k].id = w.id[c[k]]
  BY DEF Listed
<1>4. f \in Seq(Packet)
  BY <1>1, <1>3, AskedPackets
<1>5. In(q2) = In(q) \cup In(f)
  BY <1>1, <1>2, <1>4, InJoined
<1>6. In(r) = {a} \cup In(r2)
  BY <1>1, <1>2, InFirst
<1>7. \A m \in In(f) : \E j \in 1..Len(c) :
              /\ m.item = e[j].id /\ m.type \in {"PT_GET_CHILDREN", "PT_GET_ITEM"}
              /\ m.type = "PT_GET_CHILDREN" => m.request = requestId + (2 * j - 2)
  <2>1. \A m \in In(f) : \E j \in 1..Len(e) :
              /\ m.item = e[j].id /\ m.type \in {"PT_GET_CHILDREN", "PT_GET_ITEM"}
              /\ m.type = "PT_GET_CHILDREN" => m.request = requestId + (2 * j - 2)
    BY <1>1, <1>3, AskedFor
  <2>2. QED BY <1>3, <2>1
<1>8. /\ \A m \in In(q) :
           /\ m.type \notin {"PT_ITEM_CREATED", "PT_ITEM_DELETED", "PT_ITEM_MOVED"}
           /\ m.type = "PT_ITEM_DONE_CHANGED" => \E x \in heap : m.item = itemId[x]
      /\ \A m \in In(r) : m.type = "PT_GET_CHILDREN" =>
           \E d : Listed(w, Found(w, m.item), d, m.children)
      /\ \A m \in Sent(q, r) : m.type = "PT_GET_CHILDREN" =>
           \E x \in heap : itemId[x] = m.item /\ tree.firstChild[x] = Nil
      /\ \A m, o \in Sent(q, r) : m.type = "PT_GET_CHILDREN" /\ o.type = "PT_GET_CHILDREN" /\ m.item = o.item
           => m.request = o.request
  BY DEF Heard
<1>9. /\ w.heap = InTree(w.tree)
      /\ \A x, y \in w.heap : w.id[x] = w.id[y] => x = y
  BY DEF Sound
<1>10. /\ \A x \in heap : at[x] \in w.heap /\ w.id[at[x]] = itemId[x]
       /\ \A x \in s.heap : w.id[bt[x]] = s.id[x]
  BY DEF Partly
<1>11. /\ \A x \in heap : s.id[x] = itemId[x] /\ (x # p => s.tree.firstChild[x] = tree.firstChild[x])
       /\ \A x \in s.heap \ heap : s.tree.firstChild[x] = Nil
       /\ \A j \in 1..Len(c) : \E x \in s.heap \ heap : bt[x] = c[j]
  BY DEF Loaded
<1>12. \A x \in heap, j \in 1..Len(c) : at[x] # c[j]
  <2>1. Sound(w) /\ Partly(at, heap, tree, itemId, w, Nil) /\ Listed(w, at[p], c, e)
    OBVIOUS
  <2>2. p \in heap /\ tree.firstChild[p] = Nil
    OBVIOUS
  <2>3. QED BY ONLY <2>1, <2>2, NotYet
<1>13. a \in Sent(q, r) /\ a.type = "PT_GET_CHILDREN" /\ a.item = itemId[p]
  BY <1>1, <1>6 DEF Sent
<1>14. \A m \in Sent(q, r2) : m \in Sent(q, r) /\ (m.type = "PT_GET_CHILDREN" => m.request # a.request)
  <2>1. \A m \in Sent(q, r2) : m.type = "PT_GET_CHILDREN" => m.request # a.request
    BY <1>1, AskedOnce
  <2>2. QED BY <1>6, <2>1 DEF Sent
<1>15. ASSUME NEW m \in Sent(q, r2), m.type = "PT_GET_CHILDREN"
       PROVE  \E x \in heap : x # p /\ itemId[x] = m.item /\ tree.firstChild[x] = Nil
  <2>1. PICK x \in heap : itemId[x] = m.item /\ tree.firstChild[x] = Nil
    BY <1>8, <1>14, <1>15
  <2>2. m.item # a.item
    BY <1>8, <1>13, <1>14, <1>15
  <2>3. QED BY <1>13, <2>1, <2>2
<1>16. ASSUME NEW m \in Sent(q2, r2), m.type = "PT_GET_CHILDREN"
       PROVE  \/ m \in Sent(q, r2)
              \/ \E j \in 1..Len(c) : m.item = w.id[c[j]] /\ m.request = requestId + (2 * j - 2)
  <2>1. m \in Sent(q, r2) \/ m \in In(f)
    BY <1>5 DEF Sent
  <2>2. QED BY <1>3, <1>7, <1>16, <2>1
<1>17. ASSUME NEW m \in Sent(q2, r2), m.type = "PT_GET_CHILDREN"
       PROVE  \E x \in s.heap : s.id[x] = m.item /\ s.tree.firstChild[x] = Nil
  <2>1. CASE m \in Sent(q, r2)
    <3>1. PICK x \in heap : x # p /\ itemId[x] = m.item /\ tree.firstChild[x] = Nil
      BY <1>15, <1>17, <2>1
    <3>2. QED BY <1>11, <3>1
  <2>2. CASE \E j \in 1..Len(c) : m.item = w.id[c[j]]
    <3>1. PICK j \in 1..Len(c) : m.item = w.id[c[j]]
      BY <2>2
    <3>2. PICK x \in s.heap \ heap : bt[x] = c[j]
      BY <1>11
    <3>3. QED BY <1>10, <1>11, <3>1, <3>2
  <2>3. QED BY <1>16, <1>17, <2>1, <2>2
<1>18. ASSUME NEW m \in Sent(q, r2), m.type = "PT_GET_CHILDREN", NEW j \in 1..Len(c)
       PROVE  m.item # w.id[c[j]]
  <2>1. PICK x \in heap : itemId[x] = m.item
    BY <1>15, <1>18
  <2>2. at[x] \in w.heap /\ c[j] \in w.heap /\ w.id[at[x]] = m.item /\ at[x] # c[j]
    BY <1>3, <1>9, <1>10, <1>12, <2>1
  <2>3. QED BY <1>9, <2>2
<1>19. ASSUME NEW m \in Sent(q2, r2), NEW o \in Sent(q2, r2),
              m.type = "PT_GET_CHILDREN" /\ o.type = "PT_GET_CHILDREN" /\ m.item = o.item
       PROVE  m.request = o.request
  <2>1. CASE m \in Sent(q, r2) /\ o \in Sent(q, r2)
    BY <1>8, <1>14, <1>19, <2>1
  <2>2. CASE m \notin Sent(q, r2) /\ o \notin Sent(q, r2)
    <3>1. PICK j \in 1..Len(c) : m.item = w.id[c[j]] /\ m.request = requestId + (2 * j - 2)
      BY <1>16, <1>19, <2>2
    <3>2. PICK k \in 1..Len(c) : o.item = w.id[c[k]] /\ o.request = requestId + (2 * k - 2)
      BY <1>16, <1>19, <2>2
    <3>3. c[j] = c[k]
      <4>1. c[j] \in w.heap /\ c[k] \in w.heap
        BY <1>3, <1>9, <3>1, <3>2
      <4>2. w.id[c[j]] = w.id[c[k]]
        BY <1>19, <3>1, <3>2
      <4>3. QED BY <1>9, <4>1, <4>2
    <3>4. QED BY <1>3, <3>1, <3>2, <3>3
  <2>3. CASE m \in Sent(q, r2) /\ o \notin Sent(q, r2)
    BY <1>16, <1>18, <1>19, <2>3
  <2>4. CASE m \notin Sent(q, r2) /\ o \in Sent(q, r2)
    BY <1>16, <1>18, <1>19, <2>4
  <2>5. QED BY <2>1, <2>2, <2>3, <2>4
<1>20. ASSUME NEW m \in In(q2)
       PROVE  /\ m.type \notin {"PT_ITEM_CREATED", "PT_ITEM_DELETED", "PT_ITEM_MOVED"}
              /\ m.type = "PT_ITEM_DONE_CHANGED" => \E x \in s.heap : m.item = s.id[x]
  <2>1. CASE m \in In(q)
    BY <1>8, <1>11, <2>1
  <2>2. CASE m \in In(f)
    BY <1>7, <2>2
  <2>3. QED BY <1>5, <2>1, <2>2
<1>21. \A m \in In(r2) : m.type = "PT_GET_CHILDREN" => \E d : Listed(w, Found(w, m.item), d, m.children)
  BY <1>6, <1>8
<1>22. QED BY <1>17, <1>19, <1>20, <1>21 DEF Heard

\* The list e of the children c of p, read: s is the client's document now.
Brought(at, p, c, e, s, bt) ==
  /\ p \in heap /\ tree.firstChild[p] = Nil /\ e \in Seq(Entry)
  /\ Listed(server, at[p], c, e) /\ Loaded(at, p, c, e, s, Len(c), bt)
  /\ Len(c) # 0 => s.tree.firstChild[p] # Nil
  /\ s.tree = tree' /\ s.heap = heap' /\ s.id = itemId' /\ s.done = done' /\ s.nextId = nextId'
  /\ heap \subseteq s.heap /\ toServer' = toServer \o RequestsFor(e)

\* The client reads a list.
LEMMA ListPartly ==
  ASSUME SyncInv, Named, NEW at, PartialHeld(at), NEW answer \in Answer, answer.type = "PT_GET_CHILDREN",
         toClient # <<>>, answer = Head(toClient), toClient' = Tail(toClient),
         OnItemListReceived(answer), server' = server
  PROVE  \E p, c, s, bt : /\ itemId[p] = answer.item /\ Brought(at, p, c, answer.children, s, bt)
                          /\ Named' /\ PartialHeld(bt)'
<1>1. /\ IndInv /\ PlacesSane /\ Numbered(itemId, heap) /\ nextId \in Id /\ done \in [Node -> BOOLEAN]
      /\ Coherent(server) /\ Matched(toServer, toClient, requests, requestId) /\ requestId \in Nat
      /\ toClient \in Seq(Answer)
  BY DEF SyncInv, ClientSound, Matched
<1>2. PICK w : w = server
  OBVIOUS
<1>3. /\ heap = InTree(tree) /\ Sound(w) /\ Partly(at, heap, tree, itemId, w, Nil)
      /\ Heard(w, heap, tree, itemId, toServer, toClient)
  BY <1>2 DEF PartialHeld
<1>4. answer \in Sent(toServer, toClient) /\ answer \in In(toClient)
  <2>1. In(toClient) = {answer} \cup In(Tail(toClient))
    BY <1>1, InFirst
  <2>2. QED BY <2>1 DEF Sent
<1>5. /\ \E x \in heap : itemId[x] = answer.item /\ tree.firstChild[x] = Nil
      /\ \E d : Listed(w, Found(w, answer.item), d, answer.children)
  BY <1>3, <1>4 DEF Heard
<1>6. PICK p \in heap : itemId[p] = answer.item /\ tree.firstChild[p] = Nil
  BY <1>5
<1>7. Found(w, answer.item) = at[p]
  <2>1. \A x \in heap : Found(w, itemId[x]) = at[x]
    BY <1>3, PartlyFinds
  <2>2. QED BY <1>6, <2>1
<1>8. PICK e : e = answer.children
  OBVIOUS
<1>9. e \in Seq(Entry)
  BY <1>8 DEF Answer
<1>10. PICK c : Listed(w, at[p], c, e)
  BY <1>5, <1>7, <1>8
<1>11. ClientFinds(answer.item) = p
  <2>1. /\ tree \in Tree /\ LinksAgree(tree) /\ ChainsEnd(tree)
    BY <1>1 DEF IndInv, TypeOK, LinksConsistent, ChainsFinite
  <2>2. OnwardAgree(tree)
    BY <2>1, AgreeOnward
  <2>3. PICK y : y = FindItem(tree, itemId, answer.item)
    OBVIOUS
  <2>4. /\ y \in InTree(tree) \cup {Nil}
        /\ y # Nil => itemId[y] = answer.item
        /\ y = Nil => \A x \in InTree(tree) : itemId[x] # answer.item
    BY <2>1, <2>2, <2>3, FoundThere
  <2>5. y \in heap /\ itemId[y] = itemId[p]
    BY <1>3, <1>6, <2>4
  <2>6. y = p
    BY <1>6, <2>5 DEF Named
  <2>7. QED BY <2>3, <2>6 DEF ClientFinds
<1>12. PICK s, f : s = LoadChildren(p, e) /\ f = RequestsFor(e)
  OBVIOUS
<1>13. /\ Cardinality(Node \ heap) >= Len(e)
       /\ s.tree = tree' /\ s.heap = heap' /\ s.id = itemId' /\ s.nextId = nextId' /\ s.done = done'
       /\ toServer' = toServer \o f
  <2>1. p # Nil
    BY <1>1, <1>6, NodeAssumption DEF IndInv, TypeOK
  <2>2. QED BY <1>8, <1>11, <1>12, <2>1 DEF OnItemListReceived
<1>14. /\ Fetched(s, Len(c))
       /\ \E bt : /\ Partly(bt, s.heap, s.tree, s.id, w, Nil) /\ Loaded(at, p, c, e, s, Len(c), bt)
                  /\ Len(c) # 0 => s.tree.firstChild[p] # Nil
  <2>1. /\ tree.firstChild[p] = Nil /\ Listed(w, at[p], c, e) /\ Cardinality(Node \ heap) >= Len(e)
        /\ s = LoadChildren(p, e) /\ Sound(w) /\ Partly(at, heap, tree, itemId, w, Nil) /\ heap = InTree(tree)
    BY <1>3, <1>6, <1>10, <1>12, <1>13
  <2>2. p \in heap /\ Named
    OBVIOUS
  <2>3. QED BY ONLY <1>1, <2>1, <2>2, ListLoads
<1>15. PICK bt : /\ Partly(bt, s.heap, s.tree, s.id, w, Nil) /\ Loaded(at, p, c, e, s, Len(c), bt)
                 /\ Len(c) # 0 => s.tree.firstChild[p] # Nil
  BY <1>14
<1>16. heap \subseteq s.heap
  BY <1>14 DEF Fetched
<1>17. PICK q2, r2 : q2 = toServer \o f /\ r2 = Tail(toClient)
  OBVIOUS
<1>18. Heard(w, s.heap, s.tree, s.id, q2, r2)
  <2>1. /\ tree.firstChild[p] = Nil /\ Listed(w, at[p], c, e) /\ Sound(w) /\ p \in heap
        /\ Partly(at, heap, tree, itemId, w, Nil) /\ requestId \in Nat
        /\ Matched(toServer, toClient, requests, requestId) /\ toClient # <<>>
    BY <1>1, <1>3, <1>6, <1>10
  <2>2. /\ Partly(bt, s.heap, s.tree, s.id, w, Nil) /\ Loaded(at, p, c, e, s, Len(c), bt) /\ heap \subseteq s.heap
    BY <1>15, <1>16
  <2>3. Head(toClient).type = "PT_GET_CHILDREN" /\ Head(toClient).item = itemId[p]
    BY <1>6
  <2>4. q2 = toServer \o RequestsFor(e) /\ r2 = Tail(toClient) /\ Heard(w, heap, tree, itemId, toServer, toClient)
    BY <1>3, <1>12, <1>17
  <2>5. QED BY ONLY <2>1, <2>2, <2>3, <2>4, HeardGrows
<1>19. s.heap = InTree(s.tree) /\ (\A x \in s.heap : s.id[x] < s.nextId) /\ \A x \in Item \ s.heap : s.done[x] = FALSE
  BY <1>15 DEF Loaded
<1>20. \A x, y \in s.heap : s.id[x] = s.id[y] => x = y
  BY <1>3, <1>15, PartlyFinds
<1>21. Named'
  BY <1>13, <1>19, <1>20 DEF Named
<1>22. PartialHeld(bt)'
  BY <1>2, <1>3, <1>13, <1>15, <1>17, <1>18, <1>19 DEF PartialHeld
<1>23. Brought(at, p, c, e, s, bt)
  BY <1>2, <1>6, <1>9, <1>10, <1>12, <1>13, <1>15, <1>16 DEF Brought
<1>24. QED BY <1>6, <1>8, <1>21, <1>22, <1>23

\* The packets of a mark: one for each item marked.
LEMMA DoneTells ==
  ASSUME Numbered(itemId, heap), NEW items \in Seq(Item \cap heap), NEW b \in BOOLEAN,
         NEW q, q = DonePackets(items, b)
  PROVE  /\ q \in Seq(Packet) /\ Len(q) = Len(items)
         /\ \A k \in 1..Len(q) : /\ q[k].type = "PT_ITEM_DONE_CHANGED" /\ q[k].done = b
                                 /\ q[k].item = itemId[items[k]] /\ items[k] \in Item \cap heap
<1>1. q \in Seq(Packet)
  BY DoneWritten
<1>2. q = [k \in 1..Len(items) |-> [type |-> "PT_ITEM_DONE_CHANGED", item |-> itemId[items[k]], done |-> b]]
  BY DEF DonePackets
<1>3. Len(q) = Len(items)
  BY <1>2, LenProperties
<1>4. QED BY <1>1, <1>2, <1>3

\* What the user's mark does, and tells.
LEMMA MarkTells ==
  ASSUME SyncInv, SetItemDone
  PROVE  \E items \in Seq(Item \cap heap), b \in BOOLEAN : \E q :
           /\ q = DonePackets(items, b)
           /\ done' = [x \in Node |-> IF \E k \in DOMAIN items : items[k] = x THEN b ELSE done[x]]
           /\ toServer' = IF connected THEN toServer \o q ELSE toServer
<1>1. IndInv /\ PlacesSane /\ done \in [Node -> BOOLEAN]
  BY DEF SyncInv, ClientSound
<1>2. PICK i \in OnScreen : LET items == IF done[i] THEN <<i>> ELSE Marked(i) IN
        /\ done' = [x \in Node |-> IF \E k \in DOMAIN items : items[k] = x THEN ~done[i] ELSE done[x]]
        /\ Write(DonePackets(items, ~done[i]))
  BY DEF SetItemDone
<1>3. PICK items : items = IF done[i] THEN <<i>> ELSE Marked(i)
  OBVIOUS
<1>4. i \in Item /\ i \in heap /\ i \in Node
  BY <1>1, OnScreenFacts DEF Item
<1>5. items \in Seq(Item \cap heap)
  <2>1. Marked(i) \in Seq(Item \cap heap)
    BY <1>1, <1>4, MarkedOnHeap
  <2>2. <<i>> \in Seq(Item \cap heap)
    BY <1>4
  <2>3. QED BY <1>3, <2>1, <2>2
<1>6. PICK b \in BOOLEAN : b = ~done[i]
  BY <1>1, <1>4
<1>7. PICK q : q = DonePackets(items, b)
  OBVIOUS
<1>8. /\ done' = [x \in Node |-> IF \E k \in DOMAIN items : items[k] = x THEN b ELSE done[x]]
      /\ Write(q)
  BY <1>2, <1>3, <1>6, <1>7
<1>9. QED BY <1>5, <1>6, <1>7, <1>8 DEF Write

\* What is not marked keeps its mark.
LEMMA UnmarkedStay ==
  ASSUME Named, IndInv, NEW items \in Seq(Item \cap heap), NEW b \in BOOLEAN, NEW flags,
         flags = [x \in Node |-> IF \E k \in DOMAIN items : items[k] = x THEN b ELSE done[x]]
  PROVE  \A x \in Item \ heap : ~flags[x]
<1>1. ASSUME NEW x \in Item \ heap PROVE ~flags[x]
  <2>1. ~\E k \in DOMAIN items : items[k] = x
    OBVIOUS
  <2>2. flags[x] = done[x]
    BY <2>1 DEF Item
  <2>3. QED BY <2>2 DEF Named
<1>2. QED BY <1>1

\* The part the client has stays, when no more lists are asked for.
LEMMA StillPartial ==
  ASSUME NEW at, PartialHeld(at), UNCHANGED <<tree, heap, itemId, server>>,
         In(toClient') \subseteq In(toClient),
         \A m \in In(toServer') :
           \/ m \in In(toServer)
           \/ /\ m.type \in {"PT_ITEM_CHANGED", "PT_ITEM_DONE_CHANGED", "PT_DOC_SAVE", "PT_GET_ITEM"}
              /\ m.type = "PT_ITEM_DONE_CHANGED" => \E x \in heap : m.item = itemId[x]
  PROVE  PartialHeld(at)'
<1>1. /\ heap = InTree(tree) /\ Sound(server) /\ Partly(at, heap, tree, itemId, server, Nil)
      /\ Heard(server, heap, tree, itemId, toServer, toClient)
  BY DEF PartialHeld
<1>2. PICK q, r : q = toServer' /\ r = toClient'
  OBVIOUS
<1>3. Heard(server, heap, tree, itemId, q, r)
  BY <1>1, <1>2, HeardSince
<1>4. QED BY <1>1, <1>2, <1>3 DEF PartialHeld

\* A text read and sent back asks for nothing.
LEMMA TextPartial ==
  ASSUME SyncInv, NEW at, PartialHeld(at), NEW answer \in Answer, answer.type = "PT_GET_ITEM",
         toClient # <<>>, toClient' = Tail(toClient), OnItemReceived(answer), server' = server
  PROVE  PartialHeld(at)'
<1>1. toServer \in Seq(Packet) /\ toClient \in Seq(Answer)
  BY DEF SyncInv, Matched
<1>2. In(toClient') \subseteq In(toClient)
  <2>1. In(toClient) = {Head(toClient)} \cup In(Tail(toClient))
    BY <1>1, InFirst
  <2>2. QED BY <2>1
<1>3. ASSUME NEW m \in In(toServer') PROVE m \in In(toServer) \/ m.type = "PT_ITEM_CHANGED"
  <2>1. CASE toServer' = toServer
    BY <1>3, <2>1
  <2>2. CASE \E e \in Packet : toServer' = toServer \o <<e>> /\ e.type = "PT_ITEM_CHANGED"
    <3>1. PICK e \in Packet : toServer' = toServer \o <<e>> /\ e.type = "PT_ITEM_CHANGED"
      BY <2>2
    <3>2. <<e>> \in Seq(Packet)
      OBVIOUS
    <3>3. In(toServer \o <<e>>) = In(toServer) \cup In(<<e>>)
      BY <1>1, <3>2, InJoined
    <3>4. In(<<e>>) = {e}
      BY InSmall
    <3>5. QED BY <1>3, <3>1, <3>3, <3>4
  <2>3. QED BY <2>1, <2>2, TextEchoed
<1>4. UNCHANGED <<tree, heap, itemId>>
  BY DEF OnItemReceived, idVars
<1>5. QED BY <1>2, <1>3, <1>4, StillPartial

\* The inductive invariant for the ids: unless the user was too early, they are
\* in order, and what is loaded of the document is a part of the server's.
PartInv == "edited early" \notin doubts =>
  Named /\ (pendingRequests # 0 => \E at : PartialHeld(at))

\* A command is too early or comes after loading.
LEMMA UserNamed ==
  ASSUME SyncInv, SyncInv', PartInv, UserStep
  PROVE  PartInv'
<1>1. SUFFICES ASSUME "edited early" \notin doubts' PROVE Named' /\ pendingRequests' = 0
  BY DEF PartInv
<1>2. /\ pendingRequests' = pendingRequests /\ done' = done /\ NumberNewItem
      /\ heap' \ heap \subseteq {NextFree(heap)} /\ doubts \cup Edited \subseteq doubts'
      /\ Command \/ UndoLastAction \/ RedoAction
  BY DEF UserStep
<1>3. pendingRequests = 0 /\ "edited early" \notin doubts
  BY <1>1, <1>2 DEF Edited, Doubt
<1>4. Named
  BY <1>3 DEF PartInv
<1>5. IndInv /\ IndInv' /\ nextId \in Id /\ itemId \in [Node -> Nat]
  BY DEF SyncInv, ClientSound, Numbered
<1>6. heap \subseteq heap'
  BY <1>2, <1>5, StepTells
<1>7. Named'
  BY <1>2, <1>4, <1>5, <1>6, NamedKept
<1>8. QED BY <1>2, <1>3, <1>7

\* Marks and saves.
LEMMA ExtraTells ==
  ASSUME SyncInv, Named, SetItemDone \/ SaveDocument
  PROVE  /\ UNCHANGED <<tree, heap, itemId, nextId, server, pendingRequests, toClient>> /\ doubts \subseteq doubts'
         /\ \A x \in Item \ heap : ~done'[x]
         /\ \A m \in In(toServer') : \/ m \in In(toServer)
                                     \/ m.type = "PT_DOC_SAVE"
                                     \/ m.type = "PT_ITEM_DONE_CHANGED" /\ \E x \in heap : m.item = itemId[x]
<1>1. /\ UNCHANGED <<tree, heap, itemId, nextId, server, pendingRequests, toClient>> /\ doubts \subseteq doubts'
  BY DEF SetItemDone, SaveDocument, Save, Extra, docVars, idVars
<1>2. Named
  OBVIOUS
<1>3. /\ IndInv /\ Numbered(itemId, heap) /\ toServer \in Seq(Packet)
  BY DEF SyncInv, ClientSound, Matched
<1>4. /\ \A x \in Item \ heap : ~done'[x]
      /\ \A m \in In(toServer') : \/ m \in In(toServer)
                                  \/ m.type = "PT_DOC_SAVE"
                                  \/ m.type = "PT_ITEM_DONE_CHANGED" /\ \E x \in heap : m.item = itemId[x]
  <2>1. CASE SetItemDone
    <3>1. PICK items \in Seq(Item \cap heap), b \in BOOLEAN : \E q :
           /\ q = DonePackets(items, b)
           /\ done' = [x \in Node |-> IF \E k \in DOMAIN items : items[k] = x THEN b ELSE done[x]]
           /\ toServer' = IF connected THEN toServer \o q ELSE toServer
      BY <2>1, MarkTells
    <3>2. PICK q :
           /\ q = DonePackets(items, b)
           /\ done' = [x \in Node |-> IF \E k \in DOMAIN items : items[k] = x THEN b ELSE done[x]]
           /\ toServer' = IF connected THEN toServer \o q ELSE toServer
      BY <3>1
    <3>3. /\ q \in Seq(Packet)
          /\ \A k \in 1..Len(q) : /\ q[k].type = "PT_ITEM_DONE_CHANGED"
                                  /\ q[k].item = itemId[items[k]] /\ items[k] \in Item \cap heap
      BY <1>3, <3>2, DoneTells
    <3>4. PICK flags : flags = done'
      OBVIOUS
    <3>5. \A x \in Item \ heap : ~flags[x]
      BY <1>2, <1>3, <3>2, <3>4, UnmarkedStay
    <3>6. \A m \in In(q) : m.type = "PT_ITEM_DONE_CHANGED" /\ \E x \in heap : m.item = itemId[x]
      BY <3>3 DEF In
    <3>7. In(toServer \o q) = In(toServer) \cup In(q)
      BY <1>3, <3>3, InJoined
    <3>8. QED BY <3>2, <3>4, <3>5, <3>6, <3>7
  <2>2. CASE SaveDocument
    <3>1. PICK e : e = [type |-> "PT_DOC_SAVE"]
      OBVIOUS
    <3>2. e \in Packet /\ e.type = "PT_DOC_SAVE"
      BY <3>1 DEF Packet
    <3>3. toServer' = (IF connected THEN toServer \o <<e>> ELSE toServer) /\ done' = done
      BY <2>2, <3>1 DEF SaveDocument, Write
    <3>4. <<e>> \in Seq(Packet)
      BY <3>2
    <3>5. In(toServer \o <<e>>) = In(toServer) \cup In(<<e>>)
      BY <1>3, <3>4, InJoined
    <3>6. In(<<e>>) = {e}
      BY InSmall
    <3>7. \A x \in Item \ heap : ~done[x]
      BY <1>2 DEF Named
    <3>8. QED BY <3>2, <3>3, <3>5, <3>6, <3>7
  <2>3. QED BY <2>1, <2>2
<1>5. QED BY <1>1, <1>4

\* They leave what is loaded in its place.
LEMMA ExtraPartial ==
  ASSUME SyncInv, Named, SetItemDone \/ SaveDocument, NEW at, PartialHeld(at)
  PROVE  PartialHeld(at)'
<1>1. /\ UNCHANGED <<tree, heap, itemId, nextId, server, pendingRequests, toClient>>
      /\ \A m \in In(toServer') : \/ m \in In(toServer)
                                  \/ m.type = "PT_DOC_SAVE"
                                  \/ m.type = "PT_ITEM_DONE_CHANGED" /\ \E x \in heap : m.item = itemId[x]
  BY ExtraTells
<1>2. QED BY <1>1, StillPartial

\* And the ids as they are.
LEMMA ExtraNamed ==
  ASSUME SyncInv, PartInv, SetItemDone \/ SaveDocument
  PROVE  PartInv'
<1>1. SUFFICES ASSUME "edited early" \notin doubts' PROVE Named' /\ (pendingRequests' # 0 => \E at : PartialHeld(at)')
  BY DEF PartInv
<1>2. doubts \subseteq doubts'
  BY DEF SetItemDone, SaveDocument, Extra
<1>3. Named /\ (pendingRequests # 0 => \E at : PartialHeld(at))
  BY <1>1, <1>2 DEF PartInv
<1>4. /\ UNCHANGED <<heap, itemId, nextId, pendingRequests>> /\ \A x \in Item \ heap : ~done'[x]
  BY <1>3, ExtraTells
<1>5. Named'
  BY <1>3, <1>4, NamedStays
<1>6. QED BY <1>3, <1>4, <1>5, ExtraPartial

\* What the network and the server do.
LEMMA NetPartial ==
  ASSUME SyncInv, NEW at, PartialHeld(at),
         LoseConnection \/ ConnectAgain \/ ClientReadsResponse \/ ServerReads \/ UNCHANGED syncVars
  PROVE  PartialHeld(at)'
<1>1. UNCHANGED <<tree, heap, itemId>>
  BY DEF LoseConnection, CutConnection, ConnectAgain, ClientReadsResponse, ServerReads, docVars, idVars,
         syncVars, vars, netVars
<1>2. Coherent(server) /\ toServer \in Seq(Packet) /\ toClient \in Seq(Answer)
  BY DEF SyncInv, Matched
<1>3. CASE LoseConnection
  <2>1. server' = server /\ toServer' = <<>> /\ toClient' = <<>>
    BY <1>3 DEF LoseConnection, CutConnection
  <2>2. In(<<>>) = {}
    BY InSmall
  <2>3. QED BY <1>1, <2>1, <2>2, StillPartial
<1>4. CASE ConnectAgain \/ UNCHANGED syncVars
  <2>1. server' = server /\ toServer' = toServer /\ toClient' = toClient
    BY <1>4 DEF ConnectAgain, syncVars, netVars
  <2>2. QED BY <1>1, <2>1, StillPartial
<1>5. CASE ClientReadsResponse
  <2>1. /\ server' = server /\ toServer' = toServer
        /\ \E n \in 1..Len(toClient) : toClient' = SubSeq(toClient, n + 1, Len(toClient))
    BY <1>5 DEF ClientReadsResponse
  <2>2. In(toClient') \subseteq In(toClient)
    BY <1>2, <2>1, InSkipped
  <2>3. QED BY <1>1, <2>1, <2>2, StillPartial
<1>6. CASE ServerReads
  <2>1. PICK u, q, r, m, a : /\ u = server' /\ q = toServer' /\ r = toClient'
                             /\ m = Head(toServer) /\ a = Reply(server, m)
    OBVIOUS
  <2>2. toServer # <<>> /\ u = Handle(server, m) /\ q = Tail(toServer) /\ r = toClient \o a
    BY <1>6, <2>1 DEF ServerReads
  <2>3. /\ heap = InTree(tree) /\ Sound(server) /\ Partly(at, heap, tree, itemId, server, Nil)
        /\ Heard(server, heap, tree, itemId, toServer, toClient)
    BY DEF PartialHeld
  <2>4. Sound(u) /\ Partly(at, heap, tree, itemId, u, Nil) /\ Heard(u, heap, tree, itemId, q, r)
    BY <1>2, <2>1, <2>2, <2>3, HeardHandled
  <2>5. QED BY <1>1, <2>1, <2>3, <2>4 DEF PartialHeld
<1>7. QED BY <1>3, <1>4, <1>5, <1>6

\* It brings no doubt about ids.
LEMMA NetNamed ==
  ASSUME SyncInv, PartInv,
         LoseConnection \/ ConnectAgain \/ ClientReadsResponse \/ ServerReads \/ UNCHANGED syncVars
  PROVE  PartInv'
<1>1. SUFFICES ASSUME "edited early" \notin doubts' PROVE Named' /\ (pendingRequests' # 0 => \E at : PartialHeld(at)')
  BY DEF PartInv
<1>2. /\ UNCHANGED <<tree, heap, itemId, nextId, done, pendingRequests>> /\ doubts \subseteq doubts'
  BY DEF LoseConnection, CutConnection, ConnectAgain, ClientReadsResponse, ServerReads, docVars, idVars,
         syncVars, vars, netVars
<1>3. Named /\ (pendingRequests # 0 => \E at : PartialHeld(at))
  BY <1>1, <1>2 DEF PartInv
<1>4. Named'
  <2>1. \A x \in Item \ heap : ~done'[x]
    BY <1>2, <1>3 DEF Named
  <2>2. QED BY <1>2, <1>3, <2>1, NamedStays
<1>5. QED BY <1>2, <1>3, <1>4, NetPartial

\* Answers.
LEMMA AnswerNamed ==
  ASSUME SyncInv, PartInv, ClientReadsAnswer
  PROVE  PartInv'
<1>1. PICK answer : answer = Head(toClient)
  OBVIOUS
<1>2. /\ toClient # <<>> /\ toClient' = Tail(toClient) /\ answer.request \in requests
      /\ UNCHANGED <<server, doubts>>
      /\ \/ answer.type = "PT_GET_CHILDREN" /\ OnItemListReceived(answer)
         \/ answer.type = "PT_GET_ITEM" /\ OnItemReceived(answer)
  BY <1>1 DEF ClientReadsAnswer
<1>3. Matched(toServer, toClient, requests, requestId) /\ pendingRequests = Cardinality(requests)
      /\ toClient \in Seq(Answer)
  BY DEF SyncInv, Matched
<1>4. pendingRequests # 0
  <2>1. IsFiniteSet(requests)
    BY <1>3, RequestsFinite
  <2>2. QED BY <1>2, <1>3, <2>1, FS_EmptySet
<1>5. SUFFICES ASSUME "edited early" \notin doubts PROVE Named' /\ \E at : PartialHeld(at)'
  BY <1>2 DEF PartInv
<1>6. Named /\ \E at : PartialHeld(at)
  BY <1>4, <1>5 DEF PartInv
<1>7. PICK at : PartialHeld(at)
  BY <1>6
<1>8. answer \in Answer
  BY <1>1, <1>2, <1>3, InFirst
<1>9. CASE answer.type = "PT_GET_CHILDREN" /\ OnItemListReceived(answer)
  <2>1. \E p, c, s, bt : /\ itemId[p] = answer.item /\ Brought(at, p, c, answer.children, s, bt)
                         /\ Named' /\ PartialHeld(bt)'
    BY <1>1, <1>2, <1>6, <1>7, <1>8, <1>9, ListPartly
  <2>2. QED BY <2>1
<1>10. CASE answer.type = "PT_GET_ITEM" /\ OnItemReceived(answer)
  <2>1. PartialHeld(at)'
    BY <1>2, <1>7, <1>8, <1>10, TextPartial
  <2>2. UNCHANGED <<heap, itemId, nextId, done>>
    BY <1>10 DEF OnItemReceived, idVars
  <2>3. \A x \in Item \ heap : ~done'[x]
    BY <1>6, <2>2 DEF Named
  <2>4. Named'
    BY <1>6, <2>2, <2>3, NamedStays
  <2>5. QED BY <2>1, <2>4
<1>11. QED BY <1>2, <1>9, <1>10

\* Loading starts with the root, and a request for its children.
LEMMA PartBegins ==
  ASSUME SyncInit
  PROVE  /\ Named
         /\ \E at : /\ at \in [{Root, Nil} -> {Root, Nil}] /\ at[Root] = Root /\ at[Nil] = Nil /\ PartialHeld(at)
<1>1. /\ tree = EmptyTree /\ itemId = [x \in Node |-> NoId] /\ nextId = FirstId /\ heap = InTree(tree)
      /\ done = [x \in Node |-> FALSE] /\ toClient = <<>> /\ server \in ServerCopies
  BY NothingLoaded DEF SyncInit, Init
<1>2. SyncInv
  BY SyncBegins
<1>3. tree \in Tree /\ heap \in SUBSET Node /\ Root \in Node /\ Root # Nil
  BY <1>2, NodeAssumption DEF SyncInv, ClientSound, IndInv, TypeOK
<1>4. /\ tree.firstChild[Root] = Nil /\ tree.next[Root] = Nil
  BY <1>1, <1>3 DEF EmptyTree, NoLinks
<1>5. heap = {Root}
  <2>1. ClosedBelow(tree, {Root})
    BY <1>4 DEF ClosedBelow
  <2>2. {Root} \in SUBSET Node
    BY <1>3
  <2>3. QED BY <1>1, <1>3, <2>1, <2>2, InTreeLeast
<1>6. PICK w : w = server
  OBVIOUS
<1>7. Sound(w)
  BY <1>1, <1>6, StoreSound
<1>8. Root \in w.heap /\ w.id[Root] = NoId /\ w.tree \in Tree /\ OnwardAgree(w.tree)
  BY <1>7, CopyParts DEF Sound, Coherent
<1>9. w.tree.next[Root] = Nil
  <2>1. PICK t : t = w.tree
    OBVIOUS
  <2>2. t \in Tree /\ (t.next[Root] # Nil => t.prev[t.next[Root]] = Root)
    BY <1>3, <1>8, <2>1 DEF OnwardAgree
  <2>3. t.next[Root] = Nil
    BY <1>3, <2>2 DEF Tree, ItemOrNil, Item
  <2>4. QED BY <2>1, <2>3
<1>10. PICK at : at = [x \in {Root, Nil} |-> x]
  OBVIOUS
<1>11. at \in [{Root, Nil} -> {Root, Nil}] /\ at[Root] = Root /\ at[Nil] = Nil
  BY <1>10
<1>12. Partly(at, heap, tree, itemId, w, Nil)
  <2>1. heap \cup {Nil} = {Root, Nil} /\ Root \in NodeOrNil /\ Nil \in NodeOrNil /\ Root \in Node /\ Root # Nil
    BY <1>3, <1>5 DEF NodeOrNil
  <2>2. at \in [heap \cup {Nil} -> NodeOrNil]
    BY <1>10, <2>1
  <2>3. itemId[Root] = NoId
    BY <1>1, <2>1
  <2>4. \A x, y \in heap \cup {Nil} : at[x] = at[y] => x = y
    BY <1>11, <2>1
  <2>5. \A x \in heap : x = Root
    BY <1>5
  <2>6. heap \ {Root} = {} /\ Root \in heap
    BY <1>5
  <2>7. QED BY <1>4, <1>8, <1>9, <1>11, <2>2, <2>3, <2>4, <2>5, <2>6 DEF Partly
<1>13. PICK e : e = [type |-> "PT_GET_CHILDREN", item |-> NoId, request |-> 0]
  OBVIOUS
<1>14. toServer = <<e>>
  BY <1>13 DEF SyncInit
<1>15. In(toServer) = {e} /\ In(toClient) = {} /\ Sent(toServer, toClient) = {e}
  BY <1>1, <1>14, InSmall DEF Sent
<1>16. Heard(w, heap, tree, itemId, toServer, toClient)
  <2>1. e.type = "PT_GET_CHILDREN" /\ e.item = NoId
    BY <1>13
  <2>2. itemId[Root] = NoId /\ Root \in heap
    BY <1>1, <1>3, <1>5
  <2>3. QED BY <1>4, <1>15, <2>1, <2>2 DEF Heard
<1>17. PartialHeld(at)
  BY <1>1, <1>6, <1>7, <1>12, <1>16 DEF PartialHeld
<1>18. Named
  <2>1. FirstId \in Nat /\ FirstId # 0 /\ NoId = 0
    BY FirstIdAssumption DEF NoId
  <2>2. \A x \in heap : x = Root /\ itemId[x] = 0
    BY <1>1, <1>3, <1>5, <2>1
  <2>3. \A x \in Item \ heap : ~done[x]
    BY <1>1 DEF Item
  <2>4. nextId > 0 /\ 0 < nextId
    BY <1>1, <2>1
  <2>5. QED BY <2>2, <2>3, <2>4 DEF Named
<1>19. QED BY <1>11, <1>17, <1>18

\* Every step.
LEMMA PartKeeps ==
  ASSUME SyncInv, SyncInv', PartInv, [SyncNext]_syncVars
  PROVE  PartInv'
BY UserNamed, ExtraNamed, NetNamed, AnswerNamed DEF SyncNext

\* The invariant.
LEMMA PartInvHolds == SyncSpec => []PartInv
<1>1. SyncInit => PartInv
  BY PartBegins DEF PartInv
<1>2. SyncInv /\ SyncInv' /\ PartInv /\ [SyncNext]_syncVars => PartInv'
  BY PartKeeps
<1>3. QED BY <1>1, <1>2, SyncInvHolds, PTL DEF SyncSpec

\* However the lists of children arrive (onItemListReceived, nextId), and
\* whatever is marked, saved or lost meanwhile, no two objects of the client have
\* one id, as long as no command was given before everything was loaded.
THEOREM IdsStayUnique == SyncSpec => []IdsUnique
<1>1. PartInv => IdsUnique
  BY DEF PartInv, Named, IdsUnique
<1>2. QED BY <1>1, PartInvHolds, PTL

\* A copy that differs in marks only.
Alike(s, u) == /\ Sound(u) /\ u.tree = s.tree /\ u.heap = s.heap /\ u.id = s.id /\ u.text = s.text

\* The marks after the first k packets of q: each as before, or as one of the
\* packets says.
Remarked(s, u, q, k) == \A y \in Item :
  \/ u.done[y] = s.done[y] /\ \A j \in 1..k : q[j].type = "PT_ITEM_DONE_CHANGED" => Found(s, q[j].item) # y
  \/ \E j \in 1..k : q[j].type = "PT_ITEM_DONE_CHANGED" /\ Found(s, q[j].item) = y /\ u.done[y] = q[j].done

\* A packet that tells no more than marks.
Faint(s, m) == OldNews(s, m) \/ m.type \in {"PT_ITEM_DONE_CHANGED", "PT_DOC_SAVE"}

\* What it does.
LEMMA FaintHandle ==
  ASSUME NEW s, NEW v, Alike(s, v), NEW m \in Packet, Faint(s, m)
  PROVE  \E u : /\ u = Handle(v, m) /\ Alike(s, u)
                /\ m.type # "PT_ITEM_DONE_CHANGED" => u = v
                /\ \A y \in Item : m.type = "PT_ITEM_DONE_CHANGED" =>
                     u.done[y] = IF y = Found(s, m.item) THEN m.done ELSE v.done[y]
<1>1. /\ Sound(v) /\ v.tree = s.tree /\ v.heap = s.heap /\ v.id = s.id /\ v.text = s.text
  BY DEF Alike
<1>2. Coherent(v)
  BY <1>1 DEF Sound
<1>3. \A i : Found(v, i) = Found(s, i)
  BY <1>1, FitsStill
<1>4. CASE m.type = "PT_ITEM_DONE_CHANGED"
  <2>1. PICK u, j : /\ u = Handle(v, m) /\ j = Found(v, m.item)
                    /\ u.done = IF j = Nil THEN v.done ELSE [v.done EXCEPT ![j] = m.done]
                    /\ u.heap = v.heap /\ u.tree = v.tree /\ u.text = v.text /\ u.id = v.id
    BY <1>2, <1>4, ServerMarks
  <2>2. v.done \in [Item -> BOOLEAN]
    BY <1>2, CopyParts
  <2>3. Nil \notin Item
    BY NodeAssumption DEF Item
  <2>4. \A y \in Item : u.done[y] = IF y = j THEN m.done ELSE v.done[y]
    BY <2>1, <2>2, <2>3
  <2>5. m.type \notin {"PT_ITEM_CREATED", "PT_ITEM_DELETED", "PT_ITEM_MOVED"}
    BY <1>4
  <2>6. Sound(u)
    <3>1. PICK z : z = Handle(v, m) /\ Sound(z)
      BY <1>1, <2>5, QuietHandle
    <3>2. QED BY <2>1, <3>1
  <2>7. Alike(s, u)
    BY <1>1, <2>1, <2>6 DEF Alike
  <2>8. j = Found(s, m.item)
    BY <1>3, <2>1
  <2>9. QED BY <1>4, <2>1, <2>4, <2>7, <2>8
<1>5. CASE m.type # "PT_ITEM_DONE_CHANGED"
  <2>1. Handle(v, m) = v
    <3>1. CASE m.type = "PT_DOC_SAVE"
      BY <3>1 DEF Handle
    <3>2. CASE OldNews(s, m)
      <4>1. OldNews(v, m)
        BY <1>1, <1>3, <3>2 DEF OldNews, Known
      <4>2. QED BY <1>2, <4>1, OldNewsIdle
    <3>3. QED BY <1>5, <3>1, <3>2 DEF Faint
  <2>2. QED BY <1>5, <2>1
<1>6. QED BY <1>4, <1>5

\* What many of them do.
LEMMA FaintAll ==
  ASSUME NEW s, Sound(s), NEW q \in Seq(Packet), \A m \in In(q) : Faint(s, m)
  PROVE  \E u : u = HandleAll(s, q) /\ Alike(s, u) /\ Remarked(s, u, q, Len(q))
<1>1. PICK n \in Nat : n = Len(q)
  OBVIOUS
<1>2. PICK a : HandleAll(s, q) = a[n] /\ \A k \in 0..n : a[k] = Turn(s, q, a, k)
  BY <1>1, HandleUnrolls
<1> DEFINE T == {k \in Nat : k <= n => Alike(s, a[k]) /\ Remarked(s, a[k], q, k)}
<1>3. 0 \in T
  <2>1. a[0] = s
    BY <1>2 DEF Turn
  <2>2. Alike(s, s)
    BY DEF Alike
  <2>3. Remarked(s, s, q, 0)
    BY DEF Remarked
  <2>4. QED BY <2>1, <2>2, <2>3
<1>4. ASSUME NEW k \in Nat, k \in T PROVE k + 1 \in T
  <2>1. SUFFICES ASSUME k + 1 <= n PROVE Alike(s, a[k + 1]) /\ Remarked(s, a[k + 1], q, k + 1)
    OBVIOUS
  <2>2. PICK v, m : v = a[k] /\ m = q[k + 1]
    OBVIOUS
  <2>3. Alike(s, v) /\ Remarked(s, v, q, k)
    BY <1>4, <2>1, <2>2
  <2>4. m \in Packet /\ m \in In(q) /\ k + 1 \in 1..n
    BY <1>1, <2>1, <2>2 DEF In
  <2>5. Faint(s, m)
    BY <2>4
  <2>6. PICK u : /\ u = Handle(v, m) /\ Alike(s, u)
                 /\ m.type # "PT_ITEM_DONE_CHANGED" => u = v
                 /\ \A y \in Item : m.type = "PT_ITEM_DONE_CHANGED" =>
                      u.done[y] = IF y = Found(s, m.item) THEN m.done ELSE v.done[y]
    BY <2>3, <2>4, <2>5, FaintHandle
  <2>7. a[k + 1] = u
    <3>1. k + 1 \in 0..n /\ k + 1 # 0 /\ (k + 1) - 1 = k
      BY <2>1
    <3>2. a[k + 1] = Turn(s, q, a, k + 1)
      BY <1>2, <3>1
    <3>3. QED BY <2>2, <2>6, <3>1, <3>2 DEF Turn
  <2>8. ASSUME NEW y \in Item
        PROVE  \/ u.done[y] = s.done[y] /\ \A j \in 1..k + 1 : q[j].type = "PT_ITEM_DONE_CHANGED" => Found(s, q[j].item) # y
               \/ \E j \in 1..k + 1 : q[j].type = "PT_ITEM_DONE_CHANGED" /\ Found(s, q[j].item) = y /\ u.done[y] = q[j].done
    <3>1. \A j \in 1..k + 1 : j \in 1..k \/ j = k + 1
      OBVIOUS
    <3>2. k + 1 \in 1..k + 1 /\ \A j \in 1..k : j \in 1..k + 1
      OBVIOUS
    <3>3. CASE m.type = "PT_ITEM_DONE_CHANGED" /\ Found(s, m.item) = y
      <4>1. u.done[y] = m.done
        BY <2>6, <3>3
      <4>2. QED BY <2>2, <3>2, <3>3, <4>1
    <3>4. CASE m.type = "PT_ITEM_DONE_CHANGED" => Found(s, m.item) # y
      <4>1. u.done[y] = v.done[y]
        BY <2>6, <3>4
      <4>2. \/ v.done[y] = s.done[y] /\ \A j \in 1..k : q[j].type = "PT_ITEM_DONE_CHANGED" => Found(s, q[j].item) # y
            \/ \E j \in 1..k : q[j].type = "PT_ITEM_DONE_CHANGED" /\ Found(s, q[j].item) = y /\ v.done[y] = q[j].done
        BY <2>3 DEF Remarked
      <4>3. CASE v.done[y] = s.done[y] /\ \A j \in 1..k : q[j].type = "PT_ITEM_DONE_CHANGED" => Found(s, q[j].item) # y
        BY <2>2, <3>1, <3>4, <4>1, <4>3
      <4>4. CASE \E j \in 1..k : q[j].type = "PT_ITEM_DONE_CHANGED" /\ Found(s, q[j].item) = y /\ v.done[y] = q[j].done
        BY <3>2, <4>1, <4>4
      <4>5. QED BY <4>2, <4>3, <4>4
    <3>5. QED BY <3>3, <3>4
  <2>9. QED BY <2>6, <2>7, <2>8 DEF Remarked
<1>5. n \in T
  <2> HIDE DEF T
  <2>1. Nat \subseteq T
    BY <1>3, <1>4, SetInduction
  <2>2. QED BY <2>1
<1>6. QED BY <1>1, <1>2, <1>5

\* What the client lacks is asked for; the packets under way tell the server no
\* more than marks, with which its copy has the client's.
Complete(w, at, H, t, ids, texts, marks, q, r) ==
  /\ \A x \in H : t.firstChild[x] = Nil =>
       \/ w.tree.firstChild[at[x]] = Nil
       \/ \E m \in Sent(q, r) : m.type = "PT_GET_CHILDREN" /\ m.item = ids[x]
  /\ \A x \in H \ {Root} :
       \/ texts[x] = w.text[at[x]]
       \/ \E m \in Sent(q, r) : m.type = "PT_GET_ITEM" /\ m.item = ids[x]
  /\ \A m \in In(q) : Faint(w, m)
  /\ \A m \in In(r) : OldAnswer(w, m)
  /\ \A x \in H \ {Root} : HandleAll(w, q).done[at[x]] = marks[x]

\* The document as it loads.
CompleteHeld(at) ==
  /\ actionList = <<>> /\ redoActionList = <<>> /\ plugged = [x \in Item |-> x \in heap]
  /\ \A x \in Item \ heap : text[x] = EmptyText
  /\ Complete(server, at, heap, tree, itemId, text, done, toServer, toClient)

\* Requests and answers are kept, and no text changes.
LEMMA CompleteSince ==
  ASSUME NEW w, NEW at, NEW H, NEW t, NEW ids, NEW texts, NEW marks, NEW q, NEW r,
         Complete(w, at, H, t, ids, texts, marks, q, r), NEW q2, NEW r2, NEW marks2,
         \A m \in In(q2) : Faint(w, m), In(r2) \subseteq In(r),
         \A m \in Sent(q, r) : m.type \in {"PT_GET_CHILDREN", "PT_GET_ITEM"} => m \in Sent(q2, r2),
         \A x \in H \ {Root} : HandleAll(w, q2).done[at[x]] = marks2[x]
  PROVE  Complete(w, at, H, t, ids, texts, marks2, q2, r2)
<1>1. \A x \in H : t.firstChild[x] = Nil =>
       \/ w.tree.firstChild[at[x]] = Nil
       \/ \E m \in Sent(q2, r2) : m.type = "PT_GET_CHILDREN" /\ m.item = ids[x]
  BY DEF Complete
<1>2. \A x \in H \ {Root} :
       \/ texts[x] = w.text[at[x]]
       \/ \E m \in Sent(q2, r2) : m.type = "PT_GET_ITEM" /\ m.item = ids[x]
  BY DEF Complete
<1>3. \A m \in In(r2) : OldAnswer(w, m)
  BY DEF Complete
<1>4. QED BY <1>1, <1>2, <1>3 DEF Complete

\* More packets at the end.
LEMMA FaintMore ==
  ASSUME NEW w, Sound(w), NEW q \in Seq(Packet), NEW f \in Seq(Packet),
         \A m \in In(q) : Faint(w, m), \A m \in In(f) : Faint(w, m), NEW q2, q2 = q \o f,
         NEW h, h = HandleAll(w, q), NEW u, u = HandleAll(w, q2)
  PROVE  /\ Alike(w, h) /\ Alike(w, u)
         /\ Remarked(w, h, q, Len(q)) /\ Remarked(h, u, f, Len(f))
<1>1. PICK v : v = HandleAll(w, q) /\ Alike(w, v) /\ Remarked(w, v, q, Len(q))
  BY FaintAll
<1>2. Alike(w, h) /\ Remarked(w, h, q, Len(q))
  BY <1>1
<1>3. Sound(h) /\ h.tree = w.tree /\ h.heap = w.heap /\ h.id = w.id /\ h.text = w.text
  BY <1>2 DEF Alike
<1>4. \A i : Found(h, i) = Found(w, i)
  BY <1>3, FitsStill
<1>5. \A m \in In(f) : Faint(h, m)
  BY <1>3, <1>4 DEF Faint, OldNews, Known
<1>6. PICK z : z = HandleAll(h, f) /\ Alike(h, z) /\ Remarked(h, z, f, Len(f))
  BY <1>3, <1>5, FaintAll
<1>7. HandleAll(w, q2) = HandleAll(HandleAll(w, q), f)
  BY HandleMore
<1>8. u = z
  BY <1>6, <1>7
<1>9. Alike(w, u) /\ Remarked(h, u, f, Len(f))
  BY <1>3, <1>6, <1>8 DEF Alike
<1>10. QED BY <1>2, <1>9

\* A list asked for is one answer.
LEMMA OneList ==
  ASSUME NEW w, NEW m, m.type = "PT_GET_CHILDREN"
  PROVE  \E b : Reply(w, m) = <<b>> /\ b.type = "PT_GET_CHILDREN" /\ b.item = m.item
<1>1. PICK x, c, e : /\ x = Found(w, m.item) /\ c = IF x = Nil THEN <<>> ELSE Children(w.tree, x)
                     /\ e = [j \in DOMAIN c |-> [id |-> w.id[c[j]], done |-> w.done[c[j]],
                               prev |-> IF w.tree.prev[c[j]] = Nil THEN NoId ELSE w.id[w.tree.prev[c[j]]]]]
  OBVIOUS
<1>2. PICK b : Reply(w, m) = <<b>> /\ b.type = "PT_GET_CHILDREN" /\ b.item = m.item
  BY <1>1, ListReply
<1>3. QED BY <1>2

\* The server reads.
LEMMA CompleteReads ==
  ASSUME NEW w, Sound(w), NEW at, NEW H, NEW t, NEW ids, Partly(at, H, t, ids, w, Nil), NEW texts, NEW marks,
         NEW q \in Seq(Packet), q # <<>>, NEW r \in Seq(Answer), Complete(w, at, H, t, ids, texts, marks, q, r),
         NEW m, m = Head(q), NEW a, a = Reply(w, m), NEW u, u = Handle(w, m),
         NEW q2, q2 = Tail(q), NEW r2, r2 = r \o a
  PROVE  Complete(u, at, H, t, ids, texts, marks, q2, r2)
<1>1. /\ \A x \in H : t.firstChild[x] = Nil =>
           \/ w.tree.firstChild[at[x]] = Nil
           \/ \E n \in Sent(q, r) : n.type = "PT_GET_CHILDREN" /\ n.item = ids[x]
      /\ \A x \in H \ {Root} :
           \/ texts[x] = w.text[at[x]]
           \/ \E n \in Sent(q, r) : n.type = "PT_GET_ITEM" /\ n.item = ids[x]
      /\ \A n \in In(q) : Faint(w, n)
      /\ \A n \in In(r) : OldAnswer(w, n)
      /\ \A x \in H \ {Root} : HandleAll(w, q).done[at[x]] = marks[x]
  BY DEF Complete
<1>2. m \in Packet /\ In(q) = {m} \cup In(q2) /\ Coherent(w) /\ w.heap \in SUBSET Node
  BY InFirst, CopyParts DEF Sound
<1>3. Faint(w, m)
  BY <1>1, <1>2
<1>4. Alike(w, u)
  <2>1. Alike(w, w)
    BY DEF Alike
  <2>2. PICK v : v = Handle(w, m) /\ Alike(w, v)
    BY <1>2, <1>3, <2>1, FaintHandle
  <2>3. QED BY <2>2
<1>5. u.tree = w.tree /\ u.heap = w.heap /\ u.id = w.id /\ u.text = w.text
  BY <1>4 DEF Alike
<1>6. \A i : Found(u, i) = Found(w, i)
  BY <1>5, FitsStill
<1>7. a \in Seq(Answer)
  BY <1>2, ReplyIs DEF Answering
<1>8. In(r2) = In(r) \cup In(a)
  BY <1>7, InJoined
<1>9. Sent(q2, r2) = In(q2) \cup In(r) \cup In(a) /\ Sent(q, r) = {m} \cup In(q2) \cup In(r)
  BY <1>2, <1>8 DEF Sent
<1>10. m.type = "PT_GET_CHILDREN" => \E n \in In(a) : n.type = "PT_GET_CHILDREN" /\ n.item = m.item
  <2>1. SUFFICES ASSUME m.type = "PT_GET_CHILDREN" PROVE \E n \in In(a) : n.type = "PT_GET_CHILDREN" /\ n.item = m.item
    OBVIOUS
  <2>2. PICK b : Reply(w, m) = <<b>> /\ b.type = "PT_GET_CHILDREN" /\ b.item = m.item
    BY <2>1, OneList
  <2>4. In(<<b>>) = {b}
    BY InSmall
  <2>5. QED BY <2>2, <2>4
<1>11. ASSUME NEW x \in H, m.type = "PT_GET_ITEM", m.item = ids[x]
       PROVE  \E n \in In(a) : n.type = "PT_GET_ITEM" /\ n.item = ids[x]
  <2>1. Found(w, ids[x]) = at[x] /\ at[x] \in w.heap
    BY PartlyFinds
  <2>2. Found(w, m.item) # Nil
    BY <1>2, <1>11, <2>1, NodeAssumption
  <2>3. PICK i : i = Found(w, m.item)
    OBVIOUS
  <2>4. PICK b : b = [type |-> "PT_GET_ITEM", item |-> m.item, text |-> w.text[i], request |-> m.request]
    OBVIOUS
  <2>5. Reply(w, m) = <<b>>
    BY <1>11, <2>2, <2>3, <2>4 DEF Reply, SendItem
  <2>6. In(<<b>>) = {b}
    BY InSmall
  <2>7. QED BY <1>11, <2>4, <2>5, <2>6
<1>12. \A x \in H : t.firstChild[x] = Nil =>
         \/ u.tree.firstChild[at[x]] = Nil
         \/ \E n \in Sent(q2, r2) : n.type = "PT_GET_CHILDREN" /\ n.item = ids[x]
  BY <1>1, <1>5, <1>9, <1>10
<1>13. \A x \in H \ {Root} :
         \/ texts[x] = u.text[at[x]]
         \/ \E n \in Sent(q2, r2) : n.type = "PT_GET_ITEM" /\ n.item = ids[x]
  BY <1>1, <1>5, <1>9, <1>11
<1>14. \A n \in In(q2) : Faint(u, n)
  BY <1>1, <1>2, <1>5, <1>6 DEF Faint, OldNews, Known
<1>15. \A n \in In(a) : OldAnswer(w, n)
  <2>1. CASE OldNews(w, m)
    BY <1>2, <2>1, OldNewsAnswered
  <2>2. CASE m.type \in {"PT_ITEM_DONE_CHANGED", "PT_DOC_SAVE"}
    <3>1. Answering(m, a)
      BY <1>2, ReplyIs
    <3>2. \A k \in 1..Len(a) : a[k].type = "PT_RESPONSE"
      BY <2>2, <3>1 DEF Answering
    <3>3. QED BY <3>2 DEF In, OldAnswer
  <2>3. QED BY <1>3, <2>1, <2>2 DEF Faint
<1>16. \A n \in In(r2) : OldAnswer(u, n)
  BY <1>1, <1>5, <1>6, <1>8, <1>15 DEF OldAnswer, Known
<1>17. HandleAll(u, q2) = HandleAll(w, q)
  BY HandleFirst
<1>18. QED BY <1>1, <1>12, <1>13, <1>14, <1>16, <1>17 DEF Complete

\* The items of a list that has arrived are asked for in turn, and marked as in
\* the server's copy.
LEMMA CompleteGrows ==
  ASSUME NEW w, Sound(w), w = server, NEW at, Partly(at, heap, tree, itemId, w, Nil), requestId \in Nat,
         NEW p, NEW c, NEW e, NEW s, NEW bt, Brought(at, p, c, e, s, bt),
         Partly(bt, s.heap, s.tree, s.id, w, Nil), NEW q \in Seq(Packet), NEW r \in Seq(Answer), r # <<>>,
         Head(r).type = "PT_GET_CHILDREN", Head(r).item = itemId[p],
         Heard(w, heap, tree, itemId, q, r), NEW texts, Complete(w, at, heap, tree, itemId, texts, done, q, r),
         NEW f, f = RequestsFor(e), NEW q2, q2 = q \o f, NEW r2, r2 = Tail(r)
  PROVE  Complete(w, bt, s.heap, s.tree, s.id, texts, s.done, q2, r2)
<1>1. /\ p \in heap /\ tree.firstChild[p] = Nil /\ e \in Seq(Entry)
      /\ Listed(w, at[p], c, e) /\ Loaded(at, p, c, e, s, Len(c), bt)
      /\ Len(c) # 0 => s.tree.firstChild[p] # Nil
      /\ heap \subseteq s.heap
  BY DEF Brought
<1>2. /\ c \in Seq(Item) /\ Len(e) = Len(c) /\ Len(c) \in Nat
      /\ w.tree.firstChild[at[p]] = IF c = <<>> THEN Nil ELSE c[1]
      /\ \A k \in 1..Len(c) : c[k] \in Item /\ e[k].id = w.id[c[k]] /\ e[k].done = w.done[c[k]]
  BY <1>1 DEF Listed
<1>3. /\ \A x \in heap : /\ bt[x] = at[x] /\ s.id[x] = itemId[x] /\ s.done[x] = done[x]
                         /\ x # p => s.tree.firstChild[x] = tree.firstChild[x]
      /\ \A x \in s.heap \ heap : \E j \in 1..Len(c) : bt[x] = c[j] /\ s.done[x] = e[j].done
  BY <1>1 DEF Loaded
<1>4. /\ \A x \in heap : tree.firstChild[x] = Nil =>
           \/ w.tree.firstChild[at[x]] = Nil
           \/ \E m \in Sent(q, r) : m.type = "PT_GET_CHILDREN" /\ m.item = itemId[x]
      /\ \A x \in heap \ {Root} :
           \/ texts[x] = w.text[at[x]]
           \/ \E m \in Sent(q, r) : m.type = "PT_GET_ITEM" /\ m.item = itemId[x]
      /\ \A m \in In(q) : Faint(w, m)
      /\ \A m \in In(r) : OldAnswer(w, m)
      /\ \A x \in heap \ {Root} : HandleAll(w, q).done[at[x]] = done[x]
  BY DEF Complete
<1>5. /\ \A m \in In(f) : m.type \in {"PT_GET_CHILDREN", "PT_GET_ITEM"}
      /\ \A j \in 1..Len(c) : \A type \in {"PT_GET_CHILDREN", "PT_GET_ITEM"} :
           \E m \in In(f) : m.type = type /\ m.item = e[j].id
  <2>1. /\ \A m \in In(RequestsFor(e)) : \E j \in 1..Len(e) :
              /\ m.item = e[j].id /\ m.type \in {"PT_GET_CHILDREN", "PT_GET_ITEM"}
              /\ m.type = "PT_GET_CHILDREN" => m.request = requestId + (2 * j - 2)
        /\ \A j \in 1..Len(e) : \A type \in {"PT_GET_CHILDREN", "PT_GET_ITEM"} :
              \E m \in In(RequestsFor(e)) : m.type = type /\ m.item = e[j].id
    BY <1>1, AskedFor
  <2>2. QED BY <1>2, <2>1
<1>6. f \in Seq(Packet)
  BY <1>1, AskedPackets
<1>7. In(q2) = In(q) \cup In(f) /\ In(r) = {Head(r)} \cup In(r2)
  BY <1>6, InJoined, InFirst
<1>8. Sent(q2, r2) = In(q) \cup In(f) \cup In(r2) /\ Sent(q, r) = In(q) \cup {Head(r)} \cup In(r2)
  BY <1>7 DEF Sent
<1>9. \A x, y \in heap : itemId[x] = itemId[y] => x = y
  BY PartlyFinds
<1>10. ASSUME NEW x \in s.heap \ heap
       PROVE  \A type \in {"PT_GET_CHILDREN", "PT_GET_ITEM"} :
                \E m \in Sent(q2, r2) : m.type = type /\ m.item = s.id[x]
  <2>1. PICK j \in 1..Len(c) : bt[x] = c[j]
    BY <1>3
  <2>2. s.id[x] = w.id[bt[x]]
    BY DEF Partly
  <2>3. s.id[x] = e[j].id
    BY <1>2, <2>1, <2>2
  <2>4. ASSUME NEW type \in {"PT_GET_CHILDREN", "PT_GET_ITEM"}
        PROVE  \E m \in Sent(q2, r2) : m.type = type /\ m.item = s.id[x]
    <3>1. PICK m \in In(f) : m.type = type /\ m.item = e[j].id
      BY <1>5
    <3>2. QED BY <1>8, <2>3, <3>1
  <2>5. QED BY <2>4
<1>11. ASSUME NEW x \in s.heap, s.tree.firstChild[x] = Nil
       PROVE  \/ w.tree.firstChild[bt[x]] = Nil
              \/ \E m \in Sent(q2, r2) : m.type = "PT_GET_CHILDREN" /\ m.item = s.id[x]
  <2>1. CASE x = p
    <3>1. c = <<>>
      BY <1>1, <1>2, <1>11, <2>1
    <3>2. QED BY <1>1, <1>2, <1>3, <2>1, <3>1
  <2>2. CASE x \in heap /\ x # p
    <3>1. tree.firstChild[x] = Nil /\ bt[x] = at[x] /\ s.id[x] = itemId[x]
      BY <1>3, <1>11, <2>2
    <3>2. CASE \E m \in Sent(q, r) : m.type = "PT_GET_CHILDREN" /\ m.item = itemId[x]
      <4>1. PICK m \in Sent(q, r) : m.type = "PT_GET_CHILDREN" /\ m.item = itemId[x]
        BY <3>2
      <4>2. m # Head(r)
        BY <1>1, <1>9, <2>2, <4>1
      <4>3. QED BY <1>8, <3>1, <4>1, <4>2
    <3>3. QED BY <1>4, <2>2, <3>1, <3>2
  <2>3. CASE x \notin heap
    BY <1>10, <2>3
  <2>4. QED BY <2>1, <2>2, <2>3
<1>12. ASSUME NEW x \in s.heap \ {Root}
       PROVE  \/ texts[x] = w.text[bt[x]]
              \/ \E m \in Sent(q2, r2) : m.type = "PT_GET_ITEM" /\ m.item = s.id[x]
  <2>1. CASE x \in heap
    <3>1. bt[x] = at[x] /\ s.id[x] = itemId[x]
      BY <1>3, <2>1
    <3>2. CASE \E m \in Sent(q, r) : m.type = "PT_GET_ITEM" /\ m.item = itemId[x]
      BY <1>8, <3>1, <3>2
    <3>3. QED BY <1>4, <2>1, <3>1, <3>2
  <2>2. CASE x \notin heap
    BY <1>10, <2>2
  <2>3. QED BY <2>1, <2>2
<1>13. \A m \in In(f) : Faint(w, m)
  BY <1>5 DEF Faint, OldNews
<1>14. PICK h, u : h = HandleAll(w, q) /\ u = HandleAll(w, q2)
  OBVIOUS
<1>15. /\ Alike(w, h) /\ Alike(w, u)
       /\ Remarked(w, h, q, Len(q)) /\ Remarked(h, u, f, Len(f))
  <2>1. /\ Sound(w) /\ q \in Seq(Packet) /\ q2 = q \o f
        /\ \A m \in In(q) : Faint(w, m)
    BY <1>4
  <2>2. QED BY ONLY <1>6, <1>13, <1>14, <2>1, FaintMore
<1>16. \A y \in Item : u.done[y] = h.done[y]
  <2>1. \A k \in 1..Len(f) : f[k].type # "PT_ITEM_DONE_CHANGED"
    BY <1>5 DEF In
  <2>2. QED BY <1>15, <2>1 DEF Remarked
<1>17. \A x \in s.heap \ {Root} : bt[x] \in Item
  <2>1. /\ Root \in s.heap /\ bt \in [s.heap \cup {Nil} -> NodeOrNil] /\ bt[Nil] = Nil /\ bt[Root] = Root
        /\ \A x, y \in s.heap \cup {Nil} : bt[x] = bt[y] => x = y
    BY DEF Partly
  <2>2. s.heap \in SUBSET Node \/ \A x \in s.heap : bt[x] \in w.heap
    BY DEF Partly
  <2>3. \A x \in s.heap : bt[x] \in w.heap
    BY DEF Partly
  <2>4. w.heap \in SUBSET Node
    BY CopyParts DEF Sound
  <2>5. QED BY <2>1, <2>3, <2>4 DEF Item
<1>18. ASSUME NEW x \in s.heap \ {Root} PROVE u.done[bt[x]] = s.done[x]
  <2>1. CASE x \in heap
    <3>1. bt[x] = at[x] /\ s.done[x] = done[x] /\ h.done[at[x]] = done[x] /\ bt[x] \in Item
      BY <1>3, <1>4, <1>14, <1>17, <2>1
    <3>2. QED BY <1>16, <3>1
  <2>2. CASE x \notin heap
    <3>1. PICK j \in 1..Len(c) : bt[x] = c[j] /\ s.done[x] = e[j].done
      BY <1>3, <2>2
    <3>2. c[j] \in Item /\ e[j].done = w.done[c[j]]
      BY <1>2
    <3>3. ASSUME NEW k \in 1..Len(q), q[k].type = "PT_ITEM_DONE_CHANGED" PROVE Found(w, q[k].item) # c[j]
      <4>1. PICK m \in In(q) : m = q[k]
        BY DEF In
      <4>2. PICK y \in heap : m.item = itemId[y]
        BY <3>3, <4>1 DEF Heard
      <4>3. \A z \in heap : Found(w, itemId[z]) = at[z]
        BY PartlyFinds
      <4>4. at[y] # c[j]
        <5>1. \A z \in heap, i \in 1..Len(c) : at[z] # c[i]
          <6>1. /\ p \in heap /\ tree.firstChild[p] = Nil /\ Listed(w, at[p], c, e) /\ Sound(w)
              /\ Partly(at, heap, tree, itemId, w, Nil)
          BY <1>1
        <6>2. QED BY ONLY <6>1, NotYet
        <5>2. QED BY <5>1
      <4>5. Found(w, m.item) = at[y]
        BY <4>2, <4>3
      <4>6. QED BY <4>1, <4>4, <4>5
    <3>4. h.done[c[j]] = w.done[c[j]]
      BY <1>15, <3>2, <3>3 DEF Remarked
    <3>5. QED BY <1>16, <3>1, <3>2, <3>4
  <2>3. QED BY <2>1, <2>2
<1>19. \A m \in In(q2) : Faint(w, m)
  BY <1>4, <1>7, <1>13
<1>20. \A m \in In(r2) : OldAnswer(w, m)
  BY <1>4, <1>7
<1>21. \A x \in s.heap \ {Root} : HandleAll(w, q2).done[bt[x]] = s.done[x]
  BY <1>14, <1>18
<1>22. QED BY <1>11, <1>12, <1>19, <1>20, <1>21 DEF Complete

\* An item stands for an item.
LEMMA PartlyItems ==
  ASSUME NEW w, Sound(w), NEW at, NEW H, NEW t, NEW ids, NEW f, Partly(at, H, t, ids, w, f)
  PROVE  \A x \in H \ {Root} : at[x] \in Item
<1>1. /\ Root \in H /\ at[Root] = Root
      /\ \A x, y \in H \cup {Nil} : at[x] = at[y] => x = y
      /\ \A x \in H : at[x] \in w.heap
  BY DEF Partly
<1>2. w.heap \in SUBSET Node
  BY CopyParts DEF Sound
<1>3. QED BY <1>1, <1>2 DEF Item

\* A list is read.
LEMMA ListComplete ==
  ASSUME SyncInv, Named, NEW at, PartialHeld(at), CompleteHeld(at), NEW answer \in Answer,
         answer.type = "PT_GET_CHILDREN", toClient # <<>>, answer = Head(toClient), toClient' = Tail(toClient),
         OnItemListReceived(answer), UNCHANGED <<actionList, redoActionList, server>>,
         NEW p, itemId[p] = answer.item, NEW c, NEW s, NEW bt, Brought(at, p, c, answer.children, s, bt),
         PartialHeld(bt)'
  PROVE  CompleteHeld(bt)'
<1>1. /\ requestId \in Nat /\ toServer \in Seq(Packet) /\ toClient \in Seq(Answer)
  BY DEF SyncInv, Matched
<1>2. PICK w : w = server
  OBVIOUS
<1>3. /\ Sound(w) /\ Partly(at, heap, tree, itemId, w, Nil)
      /\ Heard(w, heap, tree, itemId, toServer, toClient)
  BY <1>2 DEF PartialHeld
<1>4. /\ s.tree = tree' /\ s.heap = heap' /\ s.id = itemId' /\ s.done = done'
      /\ heap \subseteq s.heap /\ toServer' = toServer \o RequestsFor(answer.children)
  BY DEF Brought
<1>5. Partly(bt, s.heap, s.tree, s.id, w, Nil)
  BY <1>2, <1>4 DEF PartialHeld
<1>6. PICK e, f, q2, r2 : /\ e = answer.children /\ f = RequestsFor(e) /\ q2 = toServer \o f /\ r2 = Tail(toClient)
  OBVIOUS
<1>7. Brought(at, p, c, e, s, bt)
  BY <1>6
<1>8. /\ actionList = <<>> /\ redoActionList = <<>> /\ plugged = [x \in Item |-> x \in heap]
      /\ \A x \in Item \ heap : text[x] = EmptyText
      /\ Complete(w, at, heap, tree, itemId, text, done, toServer, toClient)
  BY <1>2 DEF CompleteHeld
<1>9. Head(toClient).type = "PT_GET_CHILDREN" /\ Head(toClient).item = itemId[p]
  OBVIOUS
<1>10. Complete(w, bt, s.heap, s.tree, s.id, text, s.done, q2, r2)
  <2>1. toClient # <<>>
    OBVIOUS
  <2>2. f = RequestsFor(e) /\ q2 = toServer \o f /\ r2 = Tail(toClient)
    BY <1>6
  <2>3. Complete(w, at, heap, tree, itemId, text, done, toServer, toClient)
    BY <1>8
  <2>4. QED BY ONLY <1>1, <1>2, <1>3, <1>5, <1>7, <1>9, <2>1, <2>2, <2>3, CompleteGrows
<1>11. text' = text /\ plugged' = [x \in Item |-> plugged[x] \/ x \in heap' \ heap]
  BY DEF OnItemListReceived
<1>12. plugged' = [x \in Item |-> x \in heap']
  <2>1. PICK G : G = heap' /\ heap \subseteq G
    BY <1>4
  <2>2. plugged' = [x \in Item |-> plugged[x] \/ x \in G \ heap]
    BY <1>11, <2>1
  <2>3. ASSUME NEW x \in Item PROVE (plugged[x] \/ x \in G \ heap) = (x \in G)
    <3>1. plugged[x] = (x \in heap)
      BY <1>8
    <3>2. CASE x \in heap
      BY <2>1, <3>1, <3>2, Zenon
    <3>3. CASE x \notin heap
      <4>1. ~plugged[x]
        BY <3>1, <3>3
      <4>2. (plugged[x] \/ x \in G \ heap) <=> (x \in G)
        BY <3>3, <4>1
      <4>3. QED BY <4>2
    <3>4. QED BY <3>2, <3>3
  <2>4. QED BY <2>1, <2>2, <2>3, Zenon
<1>13. Complete(server', bt, heap', tree', itemId', text', done', toServer', toClient')
  BY <1>2, <1>4, <1>6, <1>10, <1>11
<1>14. QED BY <1>4, <1>8, <1>11, <1>12, <1>13 DEF CompleteHeld

\* A text is read, and sent back.
LEMMA TextComplete ==
  ASSUME SyncInv, Named, NEW at, PartialHeld(at), CompleteHeld(at), NEW answer \in Answer,
         answer.type = "PT_GET_ITEM", toClient # <<>>, answer = Head(toClient), toClient' = Tail(toClient),
         OnItemReceived(answer), UNCHANGED <<actionList, redoActionList, server>>
  PROVE  CompleteHeld(at)'
<1>1. /\ toServer \in Seq(Packet) /\ toClient \in Seq(Answer) /\ text \in [Item -> Text]
      /\ tree \in Tree /\ LinksAgree(tree) /\ ChainsEnd(tree)
  BY DEF SyncInv, ClientSound, IndInv, TypeOK, LinksConsistent, ChainsFinite, Matched
<1>2. PICK w : w = server
  OBVIOUS
<1>3. /\ Sound(w) /\ Partly(at, heap, tree, itemId, w, Nil) /\ heap = InTree(tree)
  BY <1>2 DEF PartialHeld
<1>4. /\ actionList = <<>> /\ redoActionList = <<>> /\ plugged = [x \in Item |-> x \in heap]
      /\ \A x \in Item \ heap : text[x] = EmptyText
      /\ Complete(w, at, heap, tree, itemId, text, done, toServer, toClient)
  BY <1>2 DEF CompleteHeld
<1>5. PICK q, r, q2, r2, texts : /\ q = toServer /\ r = toClient /\ q2 = toServer' /\ r2 = Tail(r)
                                 /\ texts = text'
  OBVIOUS
<1>6. /\ \A x \in heap : tree.firstChild[x] = Nil =>
           \/ w.tree.firstChild[at[x]] = Nil
           \/ \E m \in Sent(q, r) : m.type = "PT_GET_CHILDREN" /\ m.item = itemId[x]
      /\ \A x \in heap \ {Root} :
           \/ text[x] = w.text[at[x]]
           \/ \E m \in Sent(q, r) : m.type = "PT_GET_ITEM" /\ m.item = itemId[x]
      /\ \A m \in In(q) : Faint(w, m)
      /\ \A m \in In(r) : OldAnswer(w, m)
      /\ \A x \in heap \ {Root} : HandleAll(w, q).done[at[x]] = done[x]
  BY <1>4, <1>5 DEF Complete
<1>7. In(r) = {answer} \cup In(r2)
  BY <1>1, <1>5, InFirst
<1>8. Known(w, answer)
  BY <1>6, <1>7 DEF OldAnswer
<1>9. /\ \A x \in heap : Found(w, itemId[x]) = at[x] /\ at[x] \in w.heap
      /\ \A x, y \in heap : itemId[x] = itemId[y] => x = y
  BY <1>3, PartlyFinds
<1>10. PICK i : i = ClientFinds(answer.item)
  OBVIOUS
<1>11. \A x \in heap : itemId[x] = answer.item => x = i
  <2>1. OnwardAgree(tree)
    BY <1>1, AgreeOnward
  <2>2. /\ i \in InTree(tree) \cup {Nil}
        /\ i # Nil => itemId[i] = answer.item
        /\ i = Nil => \A x \in InTree(tree) : itemId[x] # answer.item
    BY <1>1, <1>10, <2>1, FoundThere DEF ClientFinds
  <2>3. QED BY <1>3, <1>9, <2>2
<1>12. /\ UNCHANGED <<tree, heap, plugged, itemId, done>>
  BY DEF OnItemReceived, idVars
<1>13. \/ i = Nil /\ texts = text /\ q2 = q
       \/ \E e \in Packet :
            /\ i \in heap \ {Root} /\ itemId[i] = answer.item
            /\ texts = [text EXCEPT ![i] = answer.text] /\ q2 = q \o <<e>>
            /\ e.type = "PT_ITEM_CHANGED" /\ e.item = answer.item /\ e.text = answer.text
  BY Zenon, <1>3, <1>5, <1>10, TextEchoed
<1>14. \E f \in Seq(Packet) : /\ q2 = q \o f
                              /\ \A m \in In(f) : Faint(w, m) /\ m.type # "PT_ITEM_DONE_CHANGED"
  <2>1. CASE q2 = q
    <3>1. <<>> \in Seq(Packet) /\ q \o <<>> = q
      BY <1>1, <1>5
    <3>2. In(<<>>) = {}
      BY InSmall
    <3>3. QED BY <2>1, <3>1, <3>2
  <2>2. CASE \E e \in Packet : /\ q2 = q \o <<e>> /\ e.type = "PT_ITEM_CHANGED" /\ e.item = answer.item
                               /\ e.text = answer.text
    <3>1. PICK e \in Packet : /\ q2 = q \o <<e>> /\ e.type = "PT_ITEM_CHANGED" /\ e.item = answer.item
                              /\ e.text = answer.text
      BY <2>2
    <3>2. Faint(w, e)
      BY <1>8, <3>1 DEF Faint, OldNews, Known
    <3>3. <<e>> \in Seq(Packet)
      OBVIOUS
    <3>4. In(<<e>>) = {e}
      BY InSmall
    <3>5. QED BY <3>1, <3>2, <3>3, <3>4
  <2>3. QED BY <1>13, <2>1, <2>2
<1>15. PICK f \in Seq(Packet) : /\ q2 = q \o f
                                /\ \A m \in In(f) : Faint(w, m) /\ m.type # "PT_ITEM_DONE_CHANGED"
  BY <1>14
<1>16. In(q2) = In(q) \cup In(f)
  BY <1>1, <1>5, <1>15, InJoined
<1>17. \A m \in Sent(q, r) : m = answer \/ m \in Sent(q2, r2)
  BY <1>7, <1>16 DEF Sent
<1>18. \A x \in heap : tree.firstChild[x] = Nil =>
         \/ w.tree.firstChild[at[x]] = Nil
         \/ \E m \in Sent(q2, r2) : m.type = "PT_GET_CHILDREN" /\ m.item = itemId[x]
  BY <1>6, <1>17
<1>19. ASSUME NEW x \in heap \ {Root}
       PROVE  \/ texts[x] = w.text[at[x]]
              \/ \E m \in Sent(q2, r2) : m.type = "PT_GET_ITEM" /\ m.item = itemId[x]
  <2>1. x \in Item /\ x # Nil
    BY <1>1, NodeAssumption, InTreeLeast, <1>3 DEF Item
  <2>2. CASE itemId[x] = answer.item
    <3>1. x = i
      BY <1>11, <2>2
    <3>2. texts = [text EXCEPT ![i] = answer.text]
      BY <1>13, <2>1, <3>1
    <3>3. texts[x] = answer.text
      BY <1>1, <2>1, <3>1, <3>2
    <3>4. Found(w, answer.item) = at[x] /\ at[x] # Nil
      <4>1. w.heap \in SUBSET Node
        BY <1>3, CopyParts DEF Sound
      <4>2. QED BY <1>9, <2>2, <4>1, NodeAssumption
    <3>5. answer.text = w.text[at[x]]
      BY <1>8, <3>4 DEF Known
    <3>6. QED BY <3>3, <3>5
  <2>3. CASE itemId[x] # answer.item
    <3>1. texts[x] = text[x]
      BY <1>1, <1>13, <2>1, <2>3
    <3>2. CASE \E m \in Sent(q, r) : m.type = "PT_GET_ITEM" /\ m.item = itemId[x]
      BY <1>17, <2>3, <3>2
    <3>3. QED BY <1>6, <3>1, <3>2
  <2>4. QED BY <2>2, <2>3
<1>20. \A m \in In(q2) : Faint(w, m)
  BY <1>6, <1>15, <1>16
<1>21. \A m \in In(r2) : OldAnswer(w, m)
  BY <1>6, <1>7
<1>22. \A x \in heap \ {Root} : HandleAll(w, q2).done[at[x]] = done[x]
  <2>5. PICK h, u : h = HandleAll(w, q) /\ u = HandleAll(w, q2)
    OBVIOUS
  <2>1. Remarked(h, u, f, Len(f))
    <3>1. /\ Sound(w) /\ q \in Seq(Packet) /\ f \in Seq(Packet) /\ q2 = q \o f
          /\ \A m \in In(q) : Faint(w, m)
          /\ \A m \in In(f) : Faint(w, m)
      BY <1>1, <1>3, <1>5, <1>6, <1>15
    <3>2. QED BY ONLY <2>5, <3>1, FaintMore
  <2>4. \A k \in 1..Len(f) : f[k].type # "PT_ITEM_DONE_CHANGED"
    BY <1>15 DEF In
  <2>2. \A x \in heap \ {Root} : at[x] \in Item
    BY <1>3, PartlyItems
  <2>3. QED BY <1>6, <2>5, <2>1, <2>2, <2>4 DEF Remarked
<1>23. Complete(w, at, heap, tree, itemId, texts, done, q2, r2)
  BY <1>18, <1>19, <1>20, <1>21, <1>22 DEF Complete
<1>24. \A x \in Item \ heap : texts[x] = EmptyText
  BY <1>1, <1>4, <1>13
<1>25. Complete(server', at, heap', tree', itemId', text', done', toServer', toClient')
  BY <1>2, <1>5, <1>12, <1>23
<1>26. QED BY <1>4, <1>5, <1>12, <1>24, <1>25 DEF CompleteHeld

\* Marks are told.
LEMMA MarkComplete ==
  ASSUME SyncInv, NEW at, PartialHeld(at), CompleteHeld(at), SetItemDone, doubts' = {}
  PROVE  CompleteHeld(at)'
<1>1. /\ toServer \in Seq(Packet) /\ toClient \in Seq(Answer) /\ Numbered(itemId, heap) /\ heap \in SUBSET Node
  BY DEF SyncInv, ClientSound, IndInv, TypeOK, Matched
<1>2. PICK w : w = server
  OBVIOUS
<1>3. Sound(w) /\ Partly(at, heap, tree, itemId, w, Nil)
  BY <1>2 DEF PartialHeld
<1>4. /\ actionList = <<>> /\ redoActionList = <<>> /\ plugged = [x \in Item |-> x \in heap]
      /\ \A x \in Item \ heap : text[x] = EmptyText
      /\ Complete(w, at, heap, tree, itemId, text, done, toServer, toClient)
  BY <1>2 DEF CompleteHeld
<1>5. UNCHANGED <<docVars, plugged, itemId, server, toClient>>
  BY DEF SetItemDone, Extra, idVars
<1>6. connected
  BY DEF SetItemDone, Extra, Doubt
<1>7. PICK items \in Seq(Item \cap heap), b \in BOOLEAN : \E q :
        /\ q = DonePackets(items, b)
        /\ done' = [x \in Node |-> IF \E k \in DOMAIN items : items[k] = x THEN b ELSE done[x]]
        /\ toServer' = IF connected THEN toServer \o q ELSE toServer
  BY MarkTells
<1>8. PICK f :
        /\ f = DonePackets(items, b)
        /\ done' = [x \in Node |-> IF \E k \in DOMAIN items : items[k] = x THEN b ELSE done[x]]
        /\ toServer' = IF connected THEN toServer \o f ELSE toServer
  BY <1>7
<1>9. /\ f \in Seq(Packet) /\ Len(f) = Len(items)
      /\ \A k \in 1..Len(f) : /\ f[k].type = "PT_ITEM_DONE_CHANGED" /\ f[k].done = b
                              /\ f[k].item = itemId[items[k]] /\ items[k] \in Item \cap heap
  BY <1>1, <1>8, DoneTells
<1>10. PICK q, r, q2, marks : q = toServer /\ r = toClient /\ q2 = toServer' /\ marks = done'
  OBVIOUS
<1>11. q2 = q \o f
  BY <1>6, <1>8, <1>10
<1>12. Complete(w, at, heap, tree, itemId, text, done, q, r)
  BY <1>4, <1>10
<1>13. /\ \A m \in In(q) : Faint(w, m)
       /\ \A x \in heap \ {Root} : HandleAll(w, q).done[at[x]] = done[x]
  BY <1>12 DEF Complete
<1>14. \A m \in In(f) : Faint(w, m)
  BY <1>9 DEF In, Faint
<1>15. PICK h, u : h = HandleAll(w, q) /\ u = HandleAll(w, q2)
  OBVIOUS
<1>16. Alike(w, h) /\ Remarked(h, u, f, Len(f))
  <2>1. Sound(w) /\ q \in Seq(Packet) /\ f \in Seq(Packet) /\ q2 = q \o f
    BY <1>1, <1>3, <1>9, <1>10, <1>11
  <2>2. /\ \A m \in In(q) : Faint(w, m)
        /\ \A m \in In(f) : Faint(w, m)
    BY <1>13, <1>14
  <2>3. QED BY ONLY <1>15, <2>1, <2>2, FaintMore
<1>17. \A i : Found(h, i) = Found(w, i)
  <2>1. h.tree = w.tree /\ h.heap = w.heap /\ h.id = w.id
    BY <1>16 DEF Alike
  <2>2. QED BY <2>1, FitsStill
<1>18. \A k \in 1..Len(f) : Found(h, f[k].item) = at[items[k]]
  <2>1. \A x \in heap : Found(w, itemId[x]) = at[x]
    BY <1>3, PartlyFinds
  <2>2. QED BY <1>9, <1>17, <2>1
<1>19. ASSUME NEW x \in heap \ {Root} PROVE u.done[at[x]] = marks[x]
  <2>1. at[x] \in Item
    BY <1>3, PartlyItems
  <2>2. \/ /\ u.done[at[x]] = h.done[at[x]]
           /\ \A j \in 1..Len(f) : f[j].type = "PT_ITEM_DONE_CHANGED" => Found(h, f[j].item) # at[x]
        \/ \E j \in 1..Len(f) : /\ f[j].type = "PT_ITEM_DONE_CHANGED" /\ Found(h, f[j].item) = at[x]
                                /\ u.done[at[x]] = f[j].done
    BY <1>16, <2>1 DEF Remarked
  <2>3. marks[x] = IF \E k \in 1..Len(items) : items[k] = x THEN b ELSE done[x]
    BY <1>1, <1>8, <1>10
  <2>4. \A y, z \in heap : at[y] = at[z] => y = z
    BY <1>3 DEF Partly
  <2>5. CASE \E k \in 1..Len(items) : items[k] = x
    <3>1. PICK k \in 1..Len(f) : items[k] = x
      BY <1>9, <2>5
    <3>2. f[k].type = "PT_ITEM_DONE_CHANGED" /\ Found(h, f[k].item) = at[x]
      BY <1>9, <1>18, <3>1
    <3>3. u.done[at[x]] = b
      BY <1>9, <2>2, <3>2
    <3>4. QED BY <2>3, <2>5, <3>3
  <2>6. CASE ~\E k \in 1..Len(items) : items[k] = x
    <3>1. \A j \in 1..Len(f) : Found(h, f[j].item) # at[x]
      BY <1>9, <1>18, <2>4, <2>6
    <3>2. u.done[at[x]] = h.done[at[x]]
      BY <2>2, <3>1
    <3>3. QED BY <1>13, <1>15, <2>3, <2>6, <3>2
  <2>7. QED BY <2>5, <2>6
<1>20. In(q2) = In(q) \cup In(f)
  BY <1>1, <1>9, <1>10, <1>11, InJoined
<1>21. Complete(w, at, heap, tree, itemId, text, marks, q2, r)
  <2>1. \A m \in In(q2) : Faint(w, m)
    BY <1>13, <1>14, <1>20
  <2>2. \A m \in Sent(q, r) : m.type \in {"PT_GET_CHILDREN", "PT_GET_ITEM"} => m \in Sent(q2, r)
    BY <1>20 DEF Sent
  <2>3. \A x \in heap \ {Root} : HandleAll(w, q2).done[at[x]] = marks[x]
    BY <1>15, <1>19
  <2>4. In(r) \subseteq In(r)
    OBVIOUS
  <2>5. QED BY ONLY <1>12, <2>1, <2>2, <2>3, <2>4, CompleteSince
<1>22. Complete(server', at, heap', tree', itemId', text', done', toServer', toClient')
  BY <1>2, <1>5, <1>10, <1>21 DEF docVars
<1>23. QED BY <1>4, <1>5, <1>22 DEF CompleteHeld, docVars

\* A save asks for the file, and changes nothing else.
LEMMA SaveComplete ==
  ASSUME SyncInv, NEW at, PartialHeld(at), CompleteHeld(at), SaveDocument, doubts' = {}
  PROVE  CompleteHeld(at)'
<1>1. /\ toServer \in Seq(Packet) /\ toClient \in Seq(Answer)
  BY DEF SyncInv, Matched
<1>2. PICK w : w = server
  OBVIOUS
<1>3. Sound(w) /\ Partly(at, heap, tree, itemId, w, Nil)
  BY <1>2 DEF PartialHeld
<1>4. /\ actionList = <<>> /\ redoActionList = <<>> /\ plugged = [x \in Item |-> x \in heap]
      /\ \A x \in Item \ heap : text[x] = EmptyText
      /\ Complete(w, at, heap, tree, itemId, text, done, toServer, toClient)
  BY <1>2 DEF CompleteHeld
<1>5. UNCHANGED <<tree, text, heap, actionList, redoActionList, plugged, itemId, done, server, toClient>>
  BY DEF SaveDocument, Save, Extra, idVars
<1>6. connected
  BY DEF SaveDocument, Extra, Doubt
<1>7. PICK q, r, q2, e, f : /\ q = toServer /\ r = toClient /\ q2 = toServer' /\ e = [type |-> "PT_DOC_SAVE"]
                            /\ f = <<e>>
  OBVIOUS
<1>8. /\ q2 = q \o f
  BY <1>6, <1>7 DEF SaveDocument, Write
<1>9. e \in Packet /\ f \in Seq(Packet) /\ e.type = "PT_DOC_SAVE"
  <2>1. e \in Packet /\ e.type = "PT_DOC_SAVE"
    BY <1>7 DEF Packet
  <2>2. QED BY <1>7, <2>1
<1>10. In(f) = {e}
  BY <1>7, InSmall
<1>11. Complete(w, at, heap, tree, itemId, text, done, q, r)
  BY <1>4, <1>7
<1>12. /\ \A m \in In(q) : Faint(w, m)
       /\ \A x \in heap \ {Root} : HandleAll(w, q).done[at[x]] = done[x]
  BY <1>11 DEF Complete
<1>13. \A m \in In(f) : Faint(w, m)
  BY <1>9, <1>10 DEF Faint
<1>14. PICK h, u : h = HandleAll(w, q) /\ u = HandleAll(w, q2)
  OBVIOUS
<1>15. Alike(w, h) /\ Remarked(h, u, f, Len(f))
  <2>1. Sound(w) /\ q \in Seq(Packet) /\ f \in Seq(Packet) /\ q2 = q \o f
    BY <1>1, <1>3, <1>7, <1>8, <1>9
  <2>2. /\ \A m \in In(q) : Faint(w, m)
        /\ \A m \in In(f) : Faint(w, m)
    BY <1>12, <1>13
  <2>3. QED BY ONLY <1>14, <2>1, <2>2, FaintMore
<1>16. \A y \in Item : u.done[y] = h.done[y]
  <2>1. \A k \in 1..Len(f) : f[k].type # "PT_ITEM_DONE_CHANGED"
    BY <1>9, <1>10 DEF In
  <2>2. QED BY <1>15, <2>1 DEF Remarked
<1>17. \A x \in heap \ {Root} : HandleAll(w, q2).done[at[x]] = done[x]
  <2>1. \A x \in heap \ {Root} : at[x] \in Item
    BY <1>3, PartlyItems
  <2>2. QED BY <1>12, <1>14, <1>16, <2>1
<1>18. In(q2) = In(q) \cup In(f)
  <2>1. q \in Seq(Packet) /\ f \in Seq(Packet)
    BY <1>1, <1>7, <1>9
  <2>2. In(q \o f) = In(q) \cup In(f)
    BY ONLY <2>1, InJoined
  <2>3. QED BY <1>8, <2>2
<1>19. Complete(w, at, heap, tree, itemId, text, done, q2, r)
  <2>1. \A m \in In(q2) : Faint(w, m)
    BY <1>12, <1>13, <1>18
  <2>2. \A m \in Sent(q, r) : m.type \in {"PT_GET_CHILDREN", "PT_GET_ITEM"} => m \in Sent(q2, r)
    BY <1>18 DEF Sent
  <2>3. In(r) \subseteq In(r)
    OBVIOUS
  <2>4. QED BY ONLY <1>11, <1>17, <2>1, <2>2, <2>3, CompleteSince
<1>20. Complete(server', at, heap', tree', itemId', text', done', toServer', toClient')
  BY <1>2, <1>5, <1>7, <1>19
<1>21. QED BY <1>4, <1>5, <1>20 DEF CompleteHeld

\* Without a doubt the network loses nothing but responses.
LEMMA NetComplete ==
  ASSUME SyncInv, NEW at, PartialHeld(at), CompleteHeld(at), doubts' = {},
         LoseConnection \/ ConnectAgain \/ ClientReadsResponse \/ ServerReads \/ UNCHANGED syncVars
  PROVE  CompleteHeld(at)'
<1>1. /\ toServer \in Seq(Packet) /\ toClient \in Seq(Answer)
  BY DEF SyncInv, Matched
<1>2. /\ UNCHANGED <<tree, text, heap, actionList, redoActionList, plugged, itemId, done>>
  BY DEF LoseConnection, CutConnection, ConnectAgain, ClientReadsResponse, ServerReads, docVars, idVars,
         syncVars, vars, netVars
<1>3. PICK w, q, r, q2, r2 : /\ w = server /\ q = toServer /\ r = toClient /\ q2 = toServer' /\ r2 = toClient'
  OBVIOUS
<1>4. Sound(w) /\ Partly(at, heap, tree, itemId, w, Nil)
  BY <1>3 DEF PartialHeld
<1>5. /\ actionList = <<>> /\ redoActionList = <<>> /\ plugged = [x \in Item |-> x \in heap]
      /\ \A x \in Item \ heap : text[x] = EmptyText
      /\ Complete(w, at, heap, tree, itemId, text, done, q, r)
  BY <1>3 DEF CompleteHeld
<1>6. /\ \A m \in In(q) : Faint(w, m)
      /\ \A x \in heap \ {Root} : HandleAll(w, q).done[at[x]] = done[x]
  BY <1>5 DEF Complete
<1>7. SUFFICES \E u : u = server' /\ Complete(u, at, heap, tree, itemId, text, done, q2, r2)
  BY <1>2, <1>3, <1>5 DEF CompleteHeld
<1>8. CASE server' = server /\ q2 = q /\ In(r2) \subseteq In(r) /\ \A m \in In(r) : m \in In(r2) \/ m.type = "PT_RESPONSE"
  <2>1. \A m \in Sent(q, r) : m.type \in {"PT_GET_CHILDREN", "PT_GET_ITEM"} => m \in Sent(q2, r2)
    BY <1>8 DEF Sent
  <2>2. /\ \A m \in In(q2) : Faint(w, m)
        /\ \A x \in heap \ {Root} : HandleAll(w, q2).done[at[x]] = done[x]
    BY <1>6, <1>8
  <2>3. Complete(w, at, heap, tree, itemId, text, done, q, r) /\ In(r2) \subseteq In(r)
    BY <1>5, <1>8
  <2>4. Complete(w, at, heap, tree, itemId, text, done, q2, r2)
    BY ONLY <2>1, <2>2, <2>3, CompleteSince
  <2>5. QED BY <1>3, <1>8, <2>4
<1>9. CASE LoseConnection
  <2>1. /\ server' = server /\ q2 = <<>> /\ r2 = <<>> /\ q = <<>>
        /\ \A k \in 1..Len(r) : r[k].type = "PT_RESPONSE"
    <3>1. /\ server' = server /\ toServer' = <<>> /\ toClient' = <<>>
          /\ Doubt("packets lost", toServer # <<>> \/ \E k \in DOMAIN toClient : toClient[k].type # "PT_RESPONSE") = {}
      BY <1>9 DEF LoseConnection, CutConnection
    <3>2. toServer = <<>> /\ \A k \in DOMAIN toClient : toClient[k].type = "PT_RESPONSE"
      BY <3>1 DEF Doubt
    <3>3. DOMAIN toClient = 1..Len(toClient)
      BY <1>1
    <3>4. QED BY <1>3, <3>1, <3>2, <3>3
  <2>2. In(<<>>) = {}
    BY InSmall
  <2>3. \A m \in In(r) : m.type = "PT_RESPONSE"
    BY <2>1 DEF In
  <2>4. QED BY <1>8, <2>1, <2>2, <2>3
<1>10. CASE ConnectAgain \/ UNCHANGED syncVars
  <2>1. server' = server /\ toServer' = toServer /\ toClient' = toClient
    BY <1>10 DEF ConnectAgain, syncVars, netVars
  <2>2. QED BY <1>3, <1>8, <2>1
<1>11. CASE ClientReadsResponse
  <2>1. PICK n \in 1..Len(r) : /\ r2 = SubSeq(r, n + 1, Len(r)) /\ \A k \in 1..n : r[k].type = "PT_RESPONSE"
    BY <1>1, <1>3, <1>11 DEF ClientReadsResponse, Doubt
  <2>2. server' = server /\ q2 = q
    BY <1>3, <1>11 DEF ClientReadsResponse
  <2>3. r \in Seq(Answer)
    BY <1>1, <1>3
  <2>4. /\ In(r2) \subseteq In(r)
        /\ \A m \in In(r) : m \in In(r2) \/ \E k \in 1..n : m = r[k]
    <3>1. /\ In(SubSeq(r, n + 1, Len(r))) \subseteq In(r)
          /\ \A m \in In(r) : m \in In(SubSeq(r, n + 1, Len(r))) \/ \E k \in 1..n : m = r[k]
      BY <2>3, InSkipped
    <3>2. QED BY <2>1, <3>1
  <2>5. QED BY <1>8, <2>1, <2>2, <2>4
<1>12. CASE ServerReads
  <2>1. PICK u, m, a : u = server' /\ m = Head(q) /\ a = Reply(w, m)
    OBVIOUS
  <2>2. q # <<>> /\ u = Handle(w, m) /\ q2 = Tail(q) /\ r2 = r \o a
    BY <1>3, <1>12, <2>1 DEF ServerReads
  <2>3. q \in Seq(Packet) /\ r \in Seq(Answer)
    BY <1>1, <1>3
  <2>4. Complete(w, at, heap, tree, itemId, text, done, q, r) /\ m = Head(q) /\ a = Reply(w, m)
    BY <1>5, <2>1
  <2>5. Complete(u, at, heap, tree, itemId, text, done, q2, r2)
    BY ONLY <1>4, <2>2, <2>3, <2>4, CompleteReads
  <2>6. QED BY <2>1, <2>5
<1>13. QED BY <1>9, <1>10, <1>11, <1>12

\* When nothing is asked for any more, the part is the whole.
LEMMA PartlyWhole ==
  ASSUME NEW w, Sound(w), NEW at, NEW H \in SUBSET Node, NEW t, NEW ids, Partly(at, H, t, ids, w, Nil),
         \A x \in H : t.firstChild[x] = Nil => w.tree.firstChild[at[x]] = Nil,
         NEW u, u = w.tree, NEW S, S = {at[x] : x \in H}
  PROVE  Pair(at, H, t, u) /\ w.heap \subseteq S
<1>1. /\ Root \in H /\ at \in [H \cup {Nil} -> NodeOrNil] /\ at[Nil] = Nil /\ at[Root] = Root
      /\ \A x, y \in H \cup {Nil} : at[x] = at[y] => x = y
      /\ \A x \in H :
           /\ at[x] \in w.heap
           /\ t.firstChild[x] \in H \cup {Nil}
           /\ t.firstChild[x] # Nil => w.tree.firstChild[at[x]] = at[t.firstChild[x]]
           /\ t.next[x] \in H \cup {Nil}
           /\ x # Nil => w.tree.next[at[x]] = at[t.next[x]]
      /\ \A x \in H \ {Root} :
           /\ t.prev[x] \in H \cup {Nil} /\ w.tree.prev[at[x]] = at[t.prev[x]]
           /\ t.parent[x] \in H /\ w.tree.parent[at[x]] = at[t.parent[x]]
  BY DEF Partly
<1>2. Nil \notin H
  BY NodeAssumption
<1>3. \A x \in H : w.tree.firstChild[at[x]] = at[t.firstChild[x]] /\ w.tree.next[at[x]] = at[t.next[x]]
  BY <1>1, <1>2
<1>4. Pair(at, H, t, u)
  BY <1>1, <1>3 DEF Pair
<1>5. w.tree \in Tree /\ w.heap \in SUBSET Node /\ w.heap = InTree(w.tree)
  BY CopyParts DEF Sound
<1>6. u = w.tree /\ S = {at[x] : x \in H}
  OBVIOUS
<1>7. S \in SUBSET Node
  BY <1>1, <1>5, <1>6
<1>8. ClosedBelow(u, S)
  <2>1. ASSUME NEW y \in S PROVE {u.firstChild[y], u.next[y]} \ {Nil} \subseteq S
    <3>1. PICK x \in H : y = at[x]
      BY <1>6
    <3>2. u.firstChild[y] = at[t.firstChild[x]] /\ u.next[y] = at[t.next[x]]
      BY <1>3, <1>6, <3>1
    <3>3. t.firstChild[x] \in H \cup {Nil} /\ t.next[x] \in H \cup {Nil}
      BY <1>1
    <3>4. \A z \in H \cup {Nil} : at[z] = Nil \/ at[z] \in S
      BY <1>1, <1>6
    <3>5. QED BY <3>2, <3>3, <3>4
  <2>2. Root \in S
    BY <1>1, <1>6
  <2>3. QED BY <2>1, <2>2 DEF ClosedBelow
<1>9. InTree(u) \subseteq S
  BY <1>5, <1>6, <1>7, <1>8, InTreeLeast
<1>10. QED BY <1>4, <1>5, <1>9

\* Then the document mirrors the copy.
LEMMA AllLoaded ==
  ASSUME SyncInv, Named, pendingRequests = 0, NEW at, PartialHeld(at), CompleteHeld(at)
  PROVE  LiveHeld
<1>1. /\ IndInv /\ Numbered(itemId, heap) /\ pendingRequests = Cardinality(requests)
      /\ Matched(toServer, toClient, requests, requestId)
      /\ toServer \in Seq(Packet) /\ toClient \in Seq(Answer)
  BY DEF SyncInv, ClientSound, Matched
<1>2. tree \in Tree /\ heap \in SUBSET Node /\ FreshUnlinked
  BY <1>1 DEF IndInv, TypeOK
<1>3. PICK w, q, r, u : w = server /\ q = toServer /\ r = toClient /\ u = HandleAll(w, q)
  OBVIOUS
<1>4. /\ heap = InTree(tree) /\ Sound(w) /\ Partly(at, heap, tree, itemId, w, Nil)
  BY <1>3 DEF PartialHeld
<1>5. /\ actionList = <<>> /\ redoActionList = <<>> /\ plugged = [x \in Item |-> x \in heap]
      /\ \A x \in Item \ heap : text[x] = EmptyText
      /\ Complete(w, at, heap, tree, itemId, text, done, q, r)
  BY <1>3 DEF CompleteHeld
<1>6. requests = {}
  <2>1. IsFiniteSet(requests) /\ Cardinality(requests) = 0
    BY <1>1, RequestsFinite
  <2>2. QED BY <2>1, FS_EmptySet
<1>7. \A m \in Sent(q, r) : m.type \notin {"PT_GET_CHILDREN", "PT_GET_ITEM"}
  <2>1. /\ \A k \in Req(q) : q[k].request \in requests
        /\ \A k \in Ans(r) : r[k].request \in requests
    BY <1>1, <1>3 DEF Matched
  <2>2. Req(q) = {} /\ Ans(r) = {}
    BY <1>6, <2>1
  <2>3. /\ \A k \in 1..Len(q) : q[k].type \notin {"PT_GET_CHILDREN", "PT_GET_ITEM"}
        /\ \A k \in 1..Len(r) : r[k].type = "PT_RESPONSE"
    BY <2>2 DEF Req, Ans
  <2>4. QED BY <2>3 DEF Sent, In
<1>8. /\ \A x \in heap : tree.firstChild[x] = Nil => w.tree.firstChild[at[x]] = Nil
      /\ \A x \in heap \ {Root} : text[x] = w.text[at[x]] /\ u.done[at[x]] = done[x]
      /\ \A m \in In(q) : Faint(w, m)
  BY <1>3, <1>5, <1>7 DEF Complete
<1>9. Alike(w, u)
  <2>1. q \in Seq(Packet)
    BY <1>1, <1>3
  <2>2. PICK v : v = HandleAll(w, q) /\ Alike(w, v)
    BY <1>4, <1>8, <2>1, FaintAll
  <2>3. QED BY <1>3, <2>2
<1>10. Sound(u) /\ u.tree = w.tree /\ u.heap = w.heap /\ u.id = w.id /\ u.text = w.text
  BY <1>9 DEF Alike
<1>11. Pair(at, heap, tree, w.tree) /\ \A y \in w.heap : \E x \in heap : at[x] = y
  <2>1. PICK z, S : z = w.tree /\ S = {at[x] : x \in heap}
    OBVIOUS
  <2>2. Pair(at, heap, tree, z) /\ w.heap \subseteq S
    <3>1. /\ heap \in SUBSET Node /\ Sound(w) /\ Partly(at, heap, tree, itemId, w, Nil)
          /\ \A x \in heap : tree.firstChild[x] = Nil => w.tree.firstChild[at[x]] = Nil
      BY <1>2, <1>4, <1>8
    <3>2. QED BY ONLY <2>1, <3>1, PartlyWhole
  <2>3. QED BY <2>1, <2>2
<1>12. \A x \in heap : at[x] \in w.heap /\ w.id[at[x]] = itemId[x]
  BY <1>4 DEF Partly
<1>13. Mirrors(at, heap, tree, text, done, itemId, u)
  BY <1>4, <1>8, <1>10, <1>11, <1>12 DEF Mirrors
<1>14. Mirrored(u)
  BY <1>13 DEF Mirrored
<1>15. \A x \in Item \ heap : Unlinked(tree, x) /\ text[x] = EmptyText
  BY <1>2, <1>5 DEF FreshUnlinked
<1>16. Held
  BY <1>1, <1>4, <1>5, <1>15, HeldBegins
<1>17. u = Handled
  BY <1>3 DEF Handled
<1>18. QED BY <1>10, <1>14, <1>16, <1>17 DEF LiveHeld, Sound

\* A document that is loading, with nothing lost.
Loading == \E at : PartialHeld(at) /\ CompleteHeld(at)

\* The inductive invariant for the mirror: the document is a part of the
\* server's with the rest on its way, until all of it is there.
CompleteInv == doubts = {} => IF pendingRequests = 0 THEN LiveHeld ELSE Loading

\* The last answer makes it whole.
LEMMA LoadedNext == (SyncInv /\ Named /\ pendingRequests = 0 /\ Loading => LiveHeld)'
<1>1. SyncInv /\ Named /\ pendingRequests = 0 /\ Loading => LiveHeld
  BY AllLoaded DEF Loading
<1>2. QED BY <1>1, PTL

\* An answer read.
LEMMA AnswerComplete ==
  ASSUME SyncInv, Named, Loading, ClientReadsAnswer
  PROVE  Named' /\ Loading'
<1>1. PICK answer : answer = Head(toClient)
  OBVIOUS
<1>2. /\ toClient # <<>> /\ toClient' = Tail(toClient)
      /\ UNCHANGED <<actionList, redoActionList, server>>
      /\ \/ answer.type = "PT_GET_CHILDREN" /\ OnItemListReceived(answer)
         \/ answer.type = "PT_GET_ITEM" /\ OnItemReceived(answer)
  BY <1>1 DEF ClientReadsAnswer
<1>3. toClient \in Seq(Answer)
  BY DEF SyncInv, Matched
<1>4. answer \in Answer
  BY <1>1, <1>2, <1>3, InFirst
<1>5. PICK at : PartialHeld(at) /\ CompleteHeld(at)
  BY DEF Loading
<1>6. CASE answer.type = "PT_GET_CHILDREN" /\ OnItemListReceived(answer)
  <2>1. \E p, c, s, bt : /\ itemId[p] = answer.item /\ Brought(at, p, c, answer.children, s, bt)
                         /\ Named' /\ PartialHeld(bt)'
    BY <1>1, <1>2, <1>4, <1>5, <1>6, ListPartly
  <2>2. PICK p, c, s, bt : /\ itemId[p] = answer.item /\ Brought(at, p, c, answer.children, s, bt)
                           /\ Named' /\ PartialHeld(bt)'
    BY <2>1
  <2>3. CompleteHeld(bt)'
    BY <1>1, <1>2, <1>4, <1>5, <1>6, <2>2, ListComplete
  <2>4. QED BY <2>2, <2>3 DEF Loading
<1>7. CASE answer.type = "PT_GET_ITEM" /\ OnItemReceived(answer)
  <2>1. PartialHeld(at)'
    BY <1>1, <1>2, <1>4, <1>5, <1>7, TextPartial
  <2>2. CompleteHeld(at)'
    BY <1>1, <1>2, <1>4, <1>5, <1>7, TextComplete
  <2>3. UNCHANGED <<heap, itemId, nextId, done>>
    BY <1>7 DEF OnItemReceived, idVars
  <2>4. \A x \in Item \ heap : ~done'[x]
    BY <2>3 DEF Named
  <2>5. Named'
    BY <2>3, <2>4, NamedStays
  <2>6. QED BY <2>1, <2>2, <2>5 DEF Loading
<1>8. QED BY <1>2, <1>6, <1>7

\* Once all is loaded.
LEMMA LiveKeeps ==
  ASSUME LiveHeld, pendingRequests = 0, SyncInv', doubts' = {}, [SyncNext]_syncVars
  PROVE  LiveHeld' /\ pendingRequests' = 0
<1>1. SyncInv
  BY DEF LiveHeld
<1>2. CASE UserStep
  BY <1>2, UserLive DEF UserStep
<1>3. CASE SetItemDone
  BY <1>3, MarkLive DEF SetItemDone, Extra
<1>4. CASE SaveDocument
  BY <1>4, SaveLive DEF SaveDocument, Extra
<1>5. CASE ServerReads
  BY <1>5, ReadLive DEF ServerReads
<1>6. CASE LoseConnection \/ ConnectAgain \/ ClientReadsResponse \/ UNCHANGED syncVars
  <2>1. UNCHANGED <<docVars, plugged, idVars, done, server, toServer>>
    <3>1. CASE LoseConnection
      BY <3>1 DEF LoseConnection, CutConnection, Doubt
    <3>2. CASE ConnectAgain \/ ClientReadsResponse
      BY <3>2 DEF ConnectAgain, ClientReadsResponse
    <3>3. CASE UNCHANGED syncVars
      BY <3>3 DEF syncVars, vars, netVars
    <3>4. QED BY <1>6, <3>1, <3>2, <3>3
  <2>2. pendingRequests' = 0
    BY <1>6 DEF LoseConnection, CutConnection, ConnectAgain, ClientReadsResponse, syncVars, netVars
  <2>3. QED BY <2>1, <2>2, IdleLive
<1>7. CASE ClientReadsAnswer
  <2>1. /\ Matched(toServer, toClient, requests, requestId) /\ Cardinality(requests) = 0
    BY <1>1 DEF SyncInv
  <2>2. IsFiniteSet(requests)
    BY <2>1, RequestsFinite
  <2>3. requests = {}
    BY <2>1, <2>2, FS_EmptySet
  <2>4. QED BY <1>7, <2>3 DEF ClientReadsAnswer
<1>8. QED BY <1>2, <1>3, <1>4, <1>5, <1>6, <1>7 DEF SyncNext

\* Every step.
LEMMA CompleteKeeps ==
  ASSUME SyncInv, SyncInv', PartInv, CompleteInv, [SyncNext]_syncVars
  PROVE  CompleteInv'
<1>1. SUFFICES ASSUME doubts' = {} PROVE IF pendingRequests' = 0 THEN LiveHeld' ELSE Loading'
  BY DEF CompleteInv
<1>2. doubts = {}
  BY <1>1 DEF SyncNext, UserStep, SetItemDone, SaveDocument, Extra, LoseConnection, CutConnection,
              ConnectAgain, ClientReadsAnswer, ClientReadsResponse, ServerReads, syncVars
<1>3. CASE pendingRequests = 0
  <2>1. LiveHeld
    BY <1>2, <1>3 DEF CompleteInv
  <2>2. QED BY <1>1, <1>3, <2>1, LiveKeeps
<1>4. CASE pendingRequests # 0
  <2>1. Loading /\ Named
    BY <1>2, <1>4 DEF CompleteInv, PartInv
  <2>2. PICK at : PartialHeld(at) /\ CompleteHeld(at)
    BY <2>1 DEF Loading
  <2>3. CASE UserStep
    <3>1. Edited \subseteq doubts'
      BY <2>3 DEF UserStep
    <3>2. QED BY <1>1, <1>4, <3>1 DEF Edited, Doubt
  <2>4. CASE SetItemDone \/ SaveDocument
    <3>1. PartialHeld(at)'
      BY <2>1, <2>2, <2>4, ExtraPartial
    <3>2. CompleteHeld(at)'
      BY <1>1, <2>2, <2>4, MarkComplete, SaveComplete
    <3>3. pendingRequests' = pendingRequests
      BY <2>4 DEF SetItemDone, SaveDocument, Extra
    <3>4. QED BY <1>4, <3>1, <3>2, <3>3 DEF Loading
  <2>5. CASE LoseConnection \/ ConnectAgain \/ ClientReadsResponse \/ ServerReads \/ UNCHANGED syncVars
    <3>1. PartialHeld(at)'
      BY <2>2, <2>5, NetPartial
    <3>2. CompleteHeld(at)'
      BY <1>1, <2>2, <2>5, NetComplete
    <3>3. pendingRequests' = pendingRequests
      BY <2>5 DEF LoseConnection, CutConnection, ConnectAgain, ClientReadsResponse, ServerReads, syncVars, netVars
    <3>4. QED BY <1>4, <3>1, <3>2, <3>3 DEF Loading
  <2>6. CASE ClientReadsAnswer
    BY <2>1, <2>6, AnswerComplete, LoadedNext
  <2>7. QED BY <2>3, <2>4, <2>5, <2>6 DEF SyncNext
<1>5. QED BY <1>3, <1>4

\* Loading starts with the root, and a request for what is below it.
LEMMA CompleteBegins ==
  ASSUME SyncInit
  PROVE  CompleteInv
<1>1. /\ plugged = [x \in Item |-> x \in heap] /\ text = [x \in Item |-> EmptyText]
      /\ actionList = <<>> /\ redoActionList = <<>> /\ toClient = <<>> /\ pendingRequests = 1
      /\ itemId = [x \in Node |-> NoId]
  BY DEF SyncInit, Init
<1>2. PICK at : at \in [{Root, Nil} -> {Root, Nil}] /\ at[Root] = Root /\ at[Nil] = Nil /\ PartialHeld(at)
  BY PartBegins
<1>3. PICK w, q, r : w = server /\ q = toServer /\ r = toClient
  OBVIOUS
<1>4. heap = {Root}
  <2>1. Partly(at, heap, tree, itemId, w, Nil)
    BY <1>2, <1>3 DEF PartialHeld
  <2>2. Root \in heap /\ DOMAIN at = heap \cup {Nil} /\ DOMAIN at = {Root, Nil}
    BY <1>2, <2>1 DEF Partly
  <2>3. SyncInv
    BY SyncBegins
  <2>4. Nil \notin heap
    BY <2>3, NodeAssumption DEF SyncInv, ClientSound, IndInv, TypeOK
  <2>5. QED BY <2>2, <2>4
<1>5. PICK e : e = [type |-> "PT_GET_CHILDREN", item |-> NoId, request |-> 0]
  OBVIOUS
<1>6. q = <<e>> /\ r = <<>>
  BY <1>1, <1>3, <1>5 DEF SyncInit
<1>7. In(q) = {e} /\ In(r) = {} /\ Sent(q, r) = {e}
  BY <1>6, InSmall DEF Sent
<1>8. e.type = "PT_GET_CHILDREN" /\ e.item = itemId[Root]
  BY <1>1, <1>5, NodeAssumption
<1>9. Faint(w, e)
  BY <1>8 DEF Faint, OldNews
<1>10. \A x \in heap : \E m \in Sent(q, r) : m.type = "PT_GET_CHILDREN" /\ m.item = itemId[x]
  BY <1>4, <1>7, <1>8
<1>11. heap \ {Root} = {}
  BY <1>4
<1>12. Complete(w, at, heap, tree, itemId, text, done, q, r)
  BY <1>7, <1>9, <1>10, <1>11 DEF Complete
<1>13. CompleteHeld(at)
  BY <1>1, <1>3, <1>12 DEF CompleteHeld
<1>14. QED BY <1>1, <1>2, <1>13 DEF CompleteInv, Loading

\* A document that loads while it is marked and saved, and one that is edited
\* after it was loaded, is what the server's copy becomes with what is under way,
\* once nothing is left to load and as long as none of the doubts was raised
\* (RemoteDB, incomingMessage).
THEOREM LoadedMirrors == SyncSpec => []Mirror
<1>1. SyncInit => CompleteInv
  BY CompleteBegins
<1>2. SyncInv /\ SyncInv' /\ PartInv /\ CompleteInv /\ [SyncNext]_syncVars => CompleteInv'
  BY CompleteKeeps
<1>3. CompleteInv => Mirror
  <2>1. SUFFICES ASSUME CompleteInv, doubts = {}, pendingRequests = 0
                 PROVE  OutlineOf(Handled) = Outline(tree, itemId, Labels(text, done))
    BY DEF Mirror, OutlineOf, Handled
  <2>2. LiveHeld
    BY <2>1 DEF CompleteInv
  <2>3. Steady /\ Coherent(Handled) /\ Mirrored(Handled)
    BY <2>2, SessionSteady DEF LiveHeld
  <2>4. QED BY <2>3, MirrorReads
<1>4. QED BY <1>1, <1>2, <1>3, SyncInvHolds, PartInvHolds, PTL DEF SyncSpec
===============================================================================
