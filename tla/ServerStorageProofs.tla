------------------------ MODULE ServerStorageProofs ------------------------
(***************************************************************************)
(* The tree the server works on is sound, as the packets leave it and as   *)
(* it is read back from whatever part of it was written; a document that   *)
(* was saved comes back, and of one that was not saved to the end the part *)
(* that was written.                                                       *)
(***************************************************************************)
EXTENDS ServerStorage, ItemTreeProofs

\* A tree among the objects that were allocated: its links agree, it ends, and
\* no other object is linked.
SoundIn(t, heap) == /\ t \in Tree /\ LinksAgree(t) /\ Grounded(t)
                    /\ \A x \in Item \ heap : Unlinked(t, x)

\* A document has a sound tree.  One that is read may ask for more objects than
\* there are.
Sound(s) == /\ s = [tree |-> s.tree, text |-> s.text, done |-> s.done, heap |-> s.heap,
                    id |-> s.id]
            /\ s.heap \subseteq NodeOrNil /\ Root \in s.heap
            /\ DOMAIN s.id = Node /\ s.id[Root] = NoId
            /\ SoundIn(s.tree, s.heap)

\* While a file is read, the items in the map are allocated.
SoundLoad(l) == /\ l = [doc |-> l.doc, items |-> l.items, current |-> l.current,
                        threw |-> l.threw]
                /\ Sound(l.doc) /\ l.items \subseteq Node \cap l.doc.heap
                /\ l.current \in (Node \cap l.doc.heap) \cup {Nil}

\* A file is a sequence of items.
FileRead(f) == \E S : f.items \in Seq(S)

CopyInv == FileRead(file) /\ (copy # Nil => Sound(copy))

---------------------------------------------------------------------------
(* Linking and taking out.                                                 *)

\* The next object is a new item, if there is one.
LEMMA NextFreeFacts ==
  ASSUME NEW heap, Root \in heap
  PROVE  \/ Node \subseteq heap /\ NextFree(heap) = Nil
         \/ ~(Node \subseteq heap) /\ NextFree(heap) \in Item \ heap
BY DEF NextFree, Item

\* A new item is linked to nothing.
LEMMA NewDetached ==
  ASSUME NEW t, NEW heap, SoundIn(t, heap), NEW n \in Item \ heap
  PROVE  Detached(t, n) /\ t.firstChild[n] = Nil
<1>1. Unlinked(t, n) /\ LinksAgree(t) /\ n \in Node /\ n # Nil
  BY NodeAssumption DEF SoundIn, Item
<1>2. \A p \in Node : t.firstChild[p] # n
  BY <1>1, NodeAssumption DEF LinksAgree, Unlinked
<1>3. QED BY <1>1, <1>2 DEF Detached, Unlinked

\* An object that is linked below another is allocated.
LEMMA LinkedAllocated ==
  ASSUME NEW t, NEW heap, SoundIn(t, heap), NEW x \in Node
  PROVE  /\ t.firstChild[x] # Nil => t.firstChild[x] \in Item \cap heap
         /\ t.next[x] # Nil => t.next[x] \in Item \cap heap
<1>1. t \in Tree /\ LinksAgree(t) /\ x # Nil
  BY NodeAssumption DEF SoundIn
<1>2. t.firstChild[x] \in ItemOrNil /\ t.next[x] \in ItemOrNil
  BY <1>1 DEF Tree
<1>3. \A y \in Item : Unlinked(t, y) => y # t.firstChild[x] /\ y # t.next[x]
  BY <1>1, NodeAssumption DEF LinksAgree, Unlinked, Item
<1>4. QED BY <1>2, <1>3 DEF SoundIn, ItemOrNil

\* InsertAfter of an item that is linked to nothing.
LEMMA InsertSound ==
  ASSUME NEW t, NEW heap, SoundIn(t, heap), NEW p \in Node \cap heap, NEW n \in Item,
         Detached(t, n), t.firstChild[n] = Nil, n # p,
         NEW a \in ItemOrNil, a \in heap \cup {Nil}, a # n, ~WrongAfter(t, p, a)
  PROVE  SoundIn(InsertAfter(t, p, n, a), heap \cup {n})
<1>1. t \in Tree /\ LinksAgree(t) /\ Grounded(t) /\ ChainsEnd(t)
  BY GroundedChains DEF SoundIn
<1>2. PICK u, f : u = InsertAfter(t, p, n, a)
                  /\ f = IF a = Nil THEN t.firstChild[p] ELSE t.next[a]
  OBVIOUS
<1>3. u \in Tree /\ LinksAgree(u) /\ Grounded(u)
  BY <1>1, <1>2, InsertTyped, InsertLinks, InsertGrounded
<1>4. a # Nil => a \in Node
  BY DEF ItemOrNil, Item
<1>5. f # Nil => f \in heap
  BY <1>2, <1>4, LinkedAllocated
<1>6. ASSUME NEW x \in Item \ (heap \cup {n}) PROVE Unlinked(u, x)
  <2>1. Unlinked(t, x) /\ x \in Node /\ x # p /\ x # a /\ x # n /\ x # f /\ x # Nil
    BY <1>5, <1>6, NodeAssumption DEF SoundIn, Item
  <2>2. QED BY <1>1, <1>2, <2>1, InsertFields DEF Unlinked
<1>7. QED BY <1>2, <1>3, <1>6 DEF SoundIn

\* DetachFromTree of any object.
LEMMA DetachSound ==
  ASSUME NEW t, NEW heap, SoundIn(t, heap), NEW i \in Node \cap heap
  PROVE  SoundIn(DetachFromTree(t, i), heap)
<1>1. t \in Tree /\ LinksAgree(t) /\ Grounded(t) /\ ChainsEnd(t)
  BY GroundedChains DEF SoundIn
<1>2. CASE i = Root
  BY <1>1, <1>2, DetachRoot
<1>3. CASE i \in Item
  <2>1. PICK u : u = DetachFromTree(t, i)
    OBVIOUS
  <2>2. u \in Tree /\ LinksAgree(u) /\ Grounded(u)
    BY <1>1, <1>3, <2>1, DetachTyped, DetachLinks, DetachGrounded
  <2>3. ASSUME NEW x \in Item \ heap PROVE Unlinked(u, x)
    <3>1. Unlinked(t, x) /\ x \in Node /\ x # i /\ x # Nil
      BY <2>3, NodeAssumption DEF SoundIn, Item
    <3>2. t.prev[i] # x /\ t.next[i] # x /\ t.firstChild[x] # i
      BY <1>1, <1>3, <3>1, NodeAssumption DEF LinksAgree, Unlinked, Item
    <3>3. QED BY <1>1, <1>3, <2>1, <3>1, <3>2, DetachFields, NodeAssumption DEF Unlinked, Item
  <2>4. QED BY <2>1, <2>2, <2>3 DEF SoundIn
<1>4. QED BY <1>2, <1>3 DEF Item

\* An item that was taken out, with what is below it, is linked elsewhere in the
\* tree: below a node that is left there, first or after one of its children.
LEMMA MoveLinks ==
  ASSUME NEW t \in Tree, LinksAgree(t), Grounded(t), NEW i \in Item,
         NEW d, d = DetachFromTree(t, i), NEW p \in InTree(d),
         NEW a \in ItemOrNil, a \in InTree(d) \cup {Nil}, ~WrongAfter(d, p, a)
  PROVE  LET u == InsertAfter(d, p, i, a) IN
         /\ u \in Tree /\ LinksAgree(u) /\ Grounded(u) /\ i # p /\ i # a
         /\ i \in InTree(t) => InTree(u) \subseteq InTree(t)
<1>1. /\ d \in Tree /\ LinksAgree(d) /\ Grounded(d) /\ ChainsEnd(d) /\ Detached(d, i)
      /\ ChainsEnd(t)
  BY GroundedChains, DetachTyped, DetachLinks, DetachGrounded, DetachDetaches
<1>2. /\ Nil \notin Node /\ i \in Node /\ i # Root /\ i # Nil /\ Root \in Node
      /\ \A x \in Node : /\ d.firstChild[x] \in Node \cup {Nil}
                         /\ d.next[x] \in Node \cup {Nil} /\ d.prev[x] \in Node \cup {Nil}
  BY <1>1, NodeAssumption DEF Tree, ItemOrNil, Item
<1>3. PICK L \in SUBSET Node : L = InTree(d) /\ ClosedBelow(d, L) /\ Onward(d, L) /\ Root \in L
  BY <1>1, InTreeLeast, InTreeOnward
<1>4. \A x \in Node : d.firstChild[x] # i /\ d.next[x] # i
  BY <1>1, <1>2 DEF Detached, LinksAgree
<1>5. i \notin L
  <2>1. PICK S \in SUBSET Node : S = L \ {i}
    OBVIOUS
  <2>2. ClosedBelow(d, S)
    BY <1>2, <1>3, <1>4, <2>1 DEF ClosedBelow
  <2>3. L \subseteq S
    BY <1>1, <1>3, <2>2, InTreeLeast
  <2>4. QED BY <2>1, <2>3
<1>6. p \in Node /\ i # p /\ i # a /\ (a # Nil => a \in Node /\ a \in L) /\ p \in L
  BY <1>2, <1>3, <1>5
<1>7. PICK u, follower : /\ u = InsertAfter(d, p, i, a)
                         /\ follower = IF a = Nil THEN d.firstChild[p] ELSE d.next[a]
  OBVIOUS
<1>8. u \in Tree /\ LinksAgree(u) /\ ChainsEnd(u)
  BY <1>1, <1>6, <1>7, InsertTyped, InsertLinks, InsertChains
<1>9. \A x \in Node : /\ u.firstChild[x] = IF a = Nil /\ x = p THEN i ELSE d.firstChild[x]
                      /\ u.next[x] = IF x = i THEN follower
                                     ELSE IF x = a THEN i ELSE d.next[x]
  BY <1>1, <1>6, <1>7, InsertFields
<1>10. PICK M \in SUBSET Node : M = InTree(u) /\ Onward(u, M) /\ Root \in M
  BY <1>8, InTreeLeast, InTreeOnward
<1>11. L \subseteq M
  <2>1. ASSUME NEW x \in M PROVE {d.firstChild[x]} \ {Nil} \subseteq M
    <3>1. CASE a = Nil /\ x = p
      <4>1. u.firstChild[x] = i /\ i \in M
        BY <1>2, <1>9, <1>10, <3>1 DEF Onward
      <4>2. u.next[i] = d.firstChild[x]
        BY <1>2, <1>7, <1>9, <3>1
      <4>3. QED BY <1>10, <4>1, <4>2 DEF Onward
    <3>2. CASE ~(a = Nil /\ x = p)
      BY <1>9, <1>10, <3>2 DEF Onward
    <3>3. QED BY <3>1, <3>2
  <2>2. ASSUME NEW x \in M PROVE {d.next[x]} \ {Nil} \subseteq M
    <3>1. CASE x = i
      BY <1>1, <3>1 DEF Detached
    <3>2. CASE x = a /\ x # i
      <4>1. u.next[x] = i /\ i \in M
        BY <1>2, <1>9, <1>10, <3>2 DEF Onward
      <4>2. u.next[i] = d.next[x]
        BY <1>2, <1>6, <1>7, <1>9, <1>10, <3>2
      <4>3. QED BY <1>10, <4>1, <4>2 DEF Onward
    <3>3. CASE x # a /\ x # i
      BY <1>9, <1>10, <3>3 DEF Onward
    <3>4. QED BY <3>1, <3>2, <3>3
  <2>3. ClosedBelow(d, M)
    BY <1>10, <2>1, <2>2 DEF ClosedBelow
  <2>4. QED BY <1>1, <1>3, <2>3, InTreeLeast
<1>12. p \in M /\ (a # Nil => a \in M) /\ i \in M
  <2>1. p \in M /\ (a # Nil => a \in M)
    BY <1>6, <1>11
  <2>2. CASE a = Nil
    BY <1>2, <1>6, <1>9, <1>10, <2>1, <2>2 DEF Onward
  <2>3. CASE a # Nil
    BY <1>2, <1>6, <1>9, <1>10, <2>1, <2>3 DEF Onward
  <2>4. QED BY <2>1, <2>2, <2>3
<1>13. Grounded(u)
  <2>1. SUFFICES ASSUME NEW S \in SUBSET Node, S # {}
                 PROVE  \E x \in S : u.firstChild[x] \notin S /\ u.next[x] \notin S
    BY DEF Grounded
  <2>2. CASE S \cap M = {}
    <3>1. PICK x \in S : d.firstChild[x] \notin S /\ d.next[x] \notin S
      BY <1>1, <2>1 DEF Grounded
    <3>2. x \in Node /\ x # p /\ x # i /\ x # a
      BY <1>2, <1>12, <2>2, <3>1
    <3>3. QED BY <1>9, <3>1, <3>2
  <2>3. CASE S \cap M # {}
    <3>1. PICK P : P = S \cap M
      OBVIOUS
    <3>2. P \in (SUBSET M) \ {{}}
      BY <2>3, <3>1
    <3>3. PICK x \in P : u.firstChild[x] \notin P /\ u.next[x] \notin P
      BY <1>8, <1>10, <3>2, AgreeOnward, TreeGrounded DEF GroundedIn
    <3>4. x \in S /\ x \in M /\ Nil \notin S
      BY <1>2, <2>1, <3>1, <3>3
    <3>5. u.firstChild[x] \in M \cup {Nil} /\ u.next[x] \in M \cup {Nil}
      BY <1>10, <3>4 DEF Onward
    <3>6. QED BY <3>1, <3>3, <3>4, <3>5
  <2>4. QED BY <2>2, <2>3
<1>14. ASSUME i \in InTree(t) PROVE M \subseteq InTree(t)
  <2>1. PICK T \in SUBSET Node : T = InTree(t) /\ Onward(t, T) /\ Root \in T
    BY InTreeLeast, InTreeOnward
  <2>2. L \subseteq T
    BY <1>3, <1>14, <2>1, DetachReached
  <2>3. \A x \in Node : /\ d.firstChild[x] = IF x = t.parent[i] /\ t.firstChild[x] = i
                                             THEN t.next[i] ELSE t.firstChild[x]
                        /\ d.next[x] = IF x = i THEN Nil
                                       ELSE IF x = t.prev[i] THEN t.next[i] ELSE t.next[x]
    BY DetachFields
  <2>4. i \in T /\ {t.next[i]} \ {Nil} \subseteq T
    BY <1>14, <2>1 DEF Onward
  <2>5. \A x \in T : {d.firstChild[x], d.next[x]} \ {Nil} \subseteq T
    BY <2>1, <2>3, <2>4 DEF Onward
  <2>6. p \in T /\ (a # Nil => a \in T)
    BY <1>6, <2>2
  <2>7. {follower} \ {Nil} \subseteq T
    BY <1>7, <2>5, <2>6
  <2>8. \A x \in T : {u.firstChild[x], u.next[x]} \ {Nil} \subseteq T
    BY <1>9, <2>1, <2>4, <2>5, <2>7
  <2>9. ClosedBelow(u, T)
    BY <2>1, <2>8 DEF ClosedBelow
  <2>10. QED BY <1>8, <1>10, <2>1, <2>9, InTreeLeast
<1>15. QED BY <1>6, <1>7, <1>8, <1>10, <1>13, <1>14

---------------------------------------------------------------------------
(* The handlers.                                                           *)

\* findItem from the root of a document: an allocated object, and the root for
\* its own id only.
LEMMA FoundThere ==
  ASSUME NEW s, Sound(s), NEW i
  PROVE  /\ Found(s, i) \in (Node \cap s.heap) \cup {Nil}
         /\ Found(s, i) = Root => i = NoId
<1>1. PICK t, heap : t = s.tree /\ heap = s.heap /\ SoundIn(t, heap) /\ Root \in heap
  BY DEF Sound
<1>2. PICK S \in SUBSET Node : S = Node \cap heap
  OBVIOUS
<1>3. \A x \in S : {t.firstChild[x], t.next[x]} \ {Nil} \subseteq S
  BY <1>1, <1>2, LinkedAllocated DEF Item
<1>4. t \in Tree /\ Grounded(t) /\ Root \in S
  BY <1>1, <1>2, NodeAssumption DEF SoundIn
<1>5. PICK r : r = FindItem(t, s.id, i)
  OBVIOUS
<1>6. r \in S \cup {Nil} /\ (r # Nil => s.id[r] = i)
  BY <1>3, <1>4, <1>5, FindItemThere
<1>7. Root # Nil /\ s.id[Root] = NoId
  BY NodeAssumption DEF Sound
<1>8. QED BY <1>1, <1>2, <1>5, <1>6, <1>7 DEF Found

\* The constructor of an item, with its parent.
Born(t, n, p) == [t EXCEPT !.parent = [@ EXCEPT ![n] = p]]

\* A new item has its parent before it is linked.
LEMMA BornSound ==
  ASSUME NEW t, NEW heap, SoundIn(t, heap), NEW n \in Item \ heap, NEW p \in Node
  PROVE  /\ SoundIn(Born(t, n, p), heap \cup {n})
         /\ Detached(Born(t, n, p), n) /\ Born(t, n, p).firstChild[n] = Nil
<1>1. /\ t \in Tree /\ LinksAgree(t) /\ ChainsEnd(t) /\ Grounded(t)
      /\ Detached(t, n) /\ t.firstChild[n] = Nil
  BY NewDetached, GroundedChains DEF SoundIn
<1>2. PICK r : r = Reparented(t, n, p)
  OBVIOUS
<1>3. Born(t, n, p) = r
  BY <1>1, <1>2 DEF Born, Reparented, Tree
<1>4. /\ r \in Tree /\ r.firstChild = t.firstChild /\ r.next = t.next /\ r.prev = t.prev
      /\ \A x \in Node : r.parent[x] = IF x = n THEN p ELSE t.parent[x]
  BY <1>1, <1>2, ReparentedFields
<1>5. LinksAgree(r)
  BY <1>1, <1>2, ReparentedKeeps
<1>6. Grounded(r)
  BY <1>1, <1>4 DEF Grounded
<1>7. Detached(r, n) /\ r.firstChild[n] = Nil
  BY <1>1, <1>4 DEF Detached
<1>8. \A x \in Item \ (heap \cup {n}) : Unlinked(r, x)
  BY <1>4 DEF SoundIn, Unlinked, Item
<1>9. QED BY <1>3, <1>4, <1>5, <1>6, <1>7, <1>8 DEF SoundIn

\* createItem, as long as there are objects.
LEMMA CreateSound ==
  ASSUME NEW s, Sound(s), ~(Node \subseteq s.heap), NEW packet
  PROVE  Sound(CreateItem(s, packet))
<1>1. PICK parent, n, a : /\ parent = Found(s, packet.parent) /\ n = NextFree(s.heap)
                          /\ a = PrevFound(s, packet)
  OBVIOUS
<1>2. CASE parent = Nil
  BY <1>1, <1>2 DEF CreateItem
<1>3. CASE parent # Nil
  <2>1. /\ parent \in Node \cap s.heap /\ n \in Item \ s.heap
        /\ a \in Item \cap s.heap \/ a = Nil
    <3>1. parent \in Node \cap s.heap
      BY <1>1, <1>3, FoundThere
    <3>2. n \in Item \ s.heap
      BY <1>1, NextFreeFacts DEF Sound
    <3>3. Found(s, packet.prev) \in (Node \cap s.heap) \cup {Nil}
          /\ (Found(s, packet.prev) = Root => packet.prev = NoId)
      BY FoundThere
    <3>4. a \in Item \cap s.heap \/ a = Nil
      BY <1>1, <3>3 DEF PrevFound, Item
    <3>5. QED BY <3>1, <3>2, <3>4
  <2>2. PICK t, born, h : /\ t = s.tree /\ SoundIn(t, s.heap) /\ born = Born(t, n, parent)
                          /\ h = s.heap \cup {n}
    BY DEF Sound
  <2>3. SoundIn(born, h) /\ Detached(born, n) /\ born.firstChild[n] = Nil
    BY <2>1, <2>2, BornSound
  <2>4. SoundIn(ServerAddAsChild(born, parent, n, a), h)
    <3>1. CASE WrongAfter(born, parent, a)
      BY <2>3, <3>1 DEF ServerAddAsChild
    <3>2. CASE ~WrongAfter(born, parent, a)
      <4>1. /\ parent \in Node \cap h /\ n # parent /\ n \in Item
            /\ a \in ItemOrNil /\ a \in h \cup {Nil} /\ a # n
        BY <2>1, <2>2, NodeAssumption DEF Item, ItemOrNil
      <4>2. SoundIn(InsertAfter(born, parent, n, a), h \cup {n})
        BY <2>3, <3>2, <4>1, InsertSound
      <4>3. h \cup {n} = h
        BY <2>2
      <4>4. QED BY <3>2, <4>2, <4>3 DEF ServerAddAsChild
    <3>3. QED BY <3>1, <3>2
  <2>5. PICK u, x, d, j : /\ u = ServerAddAsChild(born, parent, n, a)
                          /\ x = [s.text EXCEPT ![n] = EmptyText]
                          /\ d = [s.done EXCEPT ![n] = FALSE]
                          /\ j = [s.id EXCEPT ![n] = packet.item]
    OBVIOUS
  <2>6. CreateItem(s, packet) = [tree |-> u, text |-> x, done |-> d, heap |-> h, id |-> j]
    BY <1>1, <1>3, <2>2, <2>5 DEF CreateItem, Born
  <2>7. DOMAIN j = Node /\ j[Root] = NoId /\ h \subseteq NodeOrNil /\ Root \in h
    BY <2>1, <2>2, <2>5, NodeAssumption DEF Sound, Item, NodeOrNil
  <2>8. QED BY <2>4, <2>5, <2>6, <2>7 DEF Sound
<1>4. QED BY <1>2, <1>3

\* moveItem, to a place that is left in the tree without the item.
LEMMA MoveDone ==
  ASSUME NEW s, Sound(s), NEW packet, packet.item # NoId, ~Astray(s, packet)
  PROVE  \E u : /\ MoveItem(s, packet) = [s EXCEPT !.tree = u] /\ SoundIn(u, s.heap)
                /\ InTree(u) \subseteq InTree(s.tree)
<1>1. PICK t, h, i, p, a : /\ t = s.tree /\ h = s.heap /\ i = Found(s, packet.item)
                           /\ p = Found(s, packet.parent) /\ a = PrevFound(s, packet)
  OBVIOUS
<1>2. /\ SoundIn(t, h) /\ t \in Tree /\ LinksAgree(t) /\ Grounded(t) /\ Root \in h
      /\ [s EXCEPT !.tree = t] = s
  BY <1>1 DEF Sound, SoundIn
<1>3. CASE i = Nil \/ p = Nil
  BY <1>1, <1>2, <1>3 DEF MoveItem
<1>4. CASE i # Nil /\ p # Nil
  <2>1. i \in Item \cap h
    BY <1>1, <1>4, FoundThere DEF Item
  <2>2. p \in Node \cap h
    BY <1>1, <1>4, FoundThere
  <2>3. a \in Item \cap h \/ a = Nil
    BY <1>1, FoundThere DEF PrevFound, Item
  <2>4. PICK d : d = DetachFromTree(t, i) /\ SoundIn(d, h)
    BY <1>2, <2>1, DetachSound DEF Item
  <2>5. p \in InTree(d) /\ a \in InTree(d) \cup {Nil}
    BY <1>1, <1>4, <2>4 DEF Astray
  <2>6. i \in InTree(t)
    <3>1. PICK M \in SUBSET Node : M = InTree(t) /\ Root \in M /\ Onward(t, M)
      BY <1>2, InTreeLeast, InTreeOnward
    <3>2. \A x \in M : {t.firstChild[x], t.next[x]} \ {Nil} \subseteq M
      BY <3>1 DEF Onward
    <3>3. FindItem(t, s.id, packet.item) \in M \cup {Nil}
      BY <1>2, <3>1, <3>2, FindItemThere
    <3>4. QED BY <1>1, <1>4, <3>1, <3>3 DEF Found
  <2>7. PICK u : u = ServerAddAsChild(d, p, i, a)
    OBVIOUS
  <2>8. MoveItem(s, packet) = [s EXCEPT !.tree = u]
    BY <1>1, <1>4, <2>4, <2>7 DEF MoveItem
  <2>9. CASE WrongAfter(d, p, a)
    <3>1. u = d
      BY <2>7, <2>9 DEF ServerAddAsChild
    <3>2. InTree(d) \subseteq InTree(t)
      BY <1>2, <2>1, <2>4, <2>6, DetachReached
    <3>3. QED BY <1>1, <2>4, <2>8, <3>1, <3>2
  <2>10. CASE ~WrongAfter(d, p, a)
    <3>1. u = InsertAfter(d, p, i, a) /\ a \in ItemOrNil
      BY <2>3, <2>7, <2>10 DEF ServerAddAsChild, ItemOrNil
    <3>2. /\ u \in Tree /\ LinksAgree(u) /\ Grounded(u) /\ i # p /\ i # a
          /\ InTree(u) \subseteq InTree(t)
      BY <1>2, <2>1, <2>4, <2>5, <2>6, <2>10, <3>1, MoveLinks
    <3>3. ASSUME NEW x \in Item \ h PROVE Unlinked(u, x)
      <4>1. PICK follower : follower = IF a = Nil THEN d.firstChild[p] ELSE d.next[a]
        OBVIOUS
      <4>2. follower = Nil \/ follower \in h
        BY <2>2, <2>3, <2>4, <4>1, LinkedAllocated DEF Item
      <4>3. /\ x \in Node /\ x # Nil /\ x # i /\ x # p /\ x # a /\ x # follower
            /\ Unlinked(d, x) /\ d \in Tree
        BY <2>1, <2>2, <2>3, <2>4, <3>3, <4>2, NodeAssumption DEF SoundIn, Item
      <4>4. QED BY <2>1, <2>2, <3>1, <4>1, <4>3, InsertFields DEF Unlinked
    <3>4. SoundIn(u, h)
      BY <3>2, <3>3 DEF SoundIn
    <3>5. QED BY <1>1, <2>8, <3>2, <3>4
  <2>11. QED BY <2>9, <2>10
<1>5. QED BY <1>3, <1>4

\* What the server can know of a move it is sent.
MoveSent(s, packet) ==
  packet.type = "PT_ITEM_MOVED" => packet.item # NoId /\ ~Astray(s, packet)

\* Whatever is handled.
LEMMA HandleSound ==
  ASSUME NEW s, Sound(s), NEW packet, MoveSent(s, packet),
         packet.type = "PT_ITEM_CREATED" => ~(Node \subseteq s.heap)
  PROVE  Sound(Handle(s, packet))
<1>1. CASE packet.type = "PT_ITEM_CREATED"
  BY <1>1, CreateSound DEF Handle
<1>2. CASE packet.type = "PT_ITEM_DELETED"
  <2>1. PICK i : i = Found(s, packet.item)
    OBVIOUS
  <2>2. CASE i = Nil
    BY <1>2, <2>1, <2>2 DEF Handle, RemoveItemById
  <2>3. CASE i # Nil
    <3>1. i \in Node \cap s.heap
      BY <2>1, <2>3, FoundThere
    <3>2. PICK u : u = DetachFromTree(s.tree, i) /\ SoundIn(u, s.heap)
      BY <3>1, DetachSound DEF Sound
    <3>3. Handle(s, packet) = [s EXCEPT !.tree = u]
      BY <1>2, <2>1, <2>3, <3>2 DEF Handle, RemoveItemById
    <3>4. QED BY <3>2, <3>3 DEF Sound
  <2>4. QED BY <2>2, <2>3
<1>3. CASE packet.type = "PT_ITEM_CHANGED"
  BY <1>3 DEF Handle, SetText, Sound
<1>4. CASE packet.type = "PT_ITEM_DONE_CHANGED"
  BY <1>4 DEF Handle, SetDone, Sound
<1>5. CASE packet.type = "PT_ITEM_MOVED"
  <2>1. PICK u : MoveItem(s, packet) = [s EXCEPT !.tree = u] /\ SoundIn(u, s.heap)
    BY <1>5, MoveDone DEF MoveSent
  <2>2. Handle(s, packet) = MoveItem(s, packet)
    BY <1>5 DEF Handle
  <2>3. QED BY <2>1, <2>2 DEF Sound
<1>6. CASE packet.type \notin {"PT_ITEM_CREATED", "PT_ITEM_DELETED", "PT_ITEM_CHANGED",
                               "PT_ITEM_MOVED", "PT_ITEM_DONE_CHANGED"}
  BY <1>6 DEF Handle
<1>7. QED BY <1>1, <1>2, <1>3, <1>4, <1>5, <1>6

---------------------------------------------------------------------------
(* Reading.                                                                *)

\* addAsLastChild links an item after the last child, and no object nowhere.
LEMMA AddLastSound ==
  ASSUME NEW t, NEW heap, SoundIn(t, heap), Root \in heap, NEW p \in Node \cap heap,
         NEW n, n = NextFree(heap)
  PROVE  SoundIn(AddAsLastChild(t, p, n), heap \cup {n})
<1>1. /\ t \in Tree /\ LinksAgree(t) /\ ChainsEnd(t)
      /\ t = [parent |-> t.parent, next |-> t.next, prev |-> t.prev,
              firstChild |-> t.firstChild]
  BY GroundedChains DEF SoundIn, Tree
<1>2. PICK a : a = LastChild(t, p)
  OBVIOUS
<1>3. /\ t.firstChild[p] = Nil => a = Nil
      /\ a # Nil => a \in Item \cap heap /\ t.next[a] = Nil /\ t.parent[a] = p
  <2>1. t.firstChild[p] = Nil => a = Nil
    BY <1>2 DEF LastChild
  <2>2. ASSUME a # Nil PROVE a \in Item \cap heap /\ t.next[a] = Nil /\ t.parent[a] = p
    <3>1. /\ a \in Item /\ t.next[a] = Nil /\ t.parent[a] = p
      BY <1>1, <1>2, <2>2, LastChildFacts
    <3>2. ~Unlinked(t, a)
      BY <3>1, NodeAssumption DEF Unlinked
    <3>3. QED BY <3>1, <3>2 DEF SoundIn
  <2>3. QED BY <2>1, <2>2
<1>4. CASE n \in Item \ heap
  <2>1. Detached(t, n) /\ t.firstChild[n] = Nil /\ n # p /\ n \in Node /\ n # Nil
    BY <1>4, NewDetached, NodeAssumption DEF Item
  <2>2. CASE t.firstChild[p] = Nil
    <3>1. AddAsLastChild(t, p, n) = InsertAfter(t, p, n, Nil)
      BY <2>2 DEF AddAsLastChild, ServerAddAsChild, WrongAfter
    <3>2. SoundIn(InsertAfter(t, p, n, Nil), heap \cup {n})
      BY <1>4, <2>1, InsertSound DEF WrongAfter, ItemOrNil
    <3>3. QED BY <3>1, <3>2
  <2>3. CASE t.firstChild[p] # Nil
    <3>1. a # Nil
      <4>1. ChainsEnd(t) /\ t.firstChild[p] # Nil
        BY <1>1, <2>3
      <4>2. PICK C \in SUBSET Node : C = Chain(t, p)
        BY DEF Chain
      <4>3. t.firstChild[p] \in C
        BY <1>1, <2>3, <4>2 DEF Chain, Tree, ItemOrNil, Item
      <4>4. PICK y \in C : t.next[y] \notin C
        BY <4>1, <4>2, <4>3 DEF ChainsEnd
      <4>5. t.next[y] = Nil
        BY <1>1, <4>2, <4>4 DEF Chain, Tree, ItemOrNil, Item
      <4>6. a \in C
        BY <1>2, <2>3, <4>2, <4>4, <4>5 DEF LastChild
      <4>7. QED BY <4>2, <4>6, NodeAssumption
    <3>2. a \in Item \cap heap /\ t.next[a] = Nil /\ t.parent[a] = p /\ a # n /\ a \in Node
      BY <1>3, <1>4, <3>1 DEF Item
    <3>3. AddAsLastChild(t, p, n) = [t EXCEPT !.next = [t.next EXCEPT ![a] = n],
                                              !.prev = [t.prev EXCEPT ![n] = a],
                                              !.parent = [t.parent EXCEPT ![n] = p]]
      BY <1>2, <2>3 DEF AddAsLastChild
    <3>4. [t.next EXCEPT ![a] = n] = [x \in Node |-> IF x = n THEN t.next[a]
                                                   ELSE IF x = a THEN n ELSE t.next[x]]
      BY <1>1, <2>1, <3>2 DEF Tree, Detached
    <3>5. [t.prev EXCEPT ![n] = a] = [x \in Node |-> IF x = n /\ a # Nil THEN a
                                                   ELSE IF x = t.next[a] THEN n ELSE t.prev[x]]
      BY <1>1, <2>1, <3>1, <3>2, NodeAssumption DEF Tree
    <3>6. AddAsLastChild(t, p, n) = InsertAfter(t, p, n, a)
      <4>1. PICK x, v, r : /\ x = [t.next EXCEPT ![a] = n] /\ v = [t.prev EXCEPT ![n] = a]
                           /\ r = [t.parent EXCEPT ![n] = p]
        OBVIOUS
      <4>2. InsertAfter(t, p, n, a) = [parent |-> r, firstChild |-> t.firstChild,
                                       next |-> x, prev |-> v]
        BY <3>1, <3>4, <3>5, <4>1 DEF InsertAfter
      <4>3. AddAsLastChild(t, p, n) = [t EXCEPT !.next = x, !.prev = v, !.parent = r]
        BY <3>3, <4>1
      <4>4. QED BY <1>1, <4>2, <4>3
    <3>7. SoundIn(InsertAfter(t, p, n, a), heap \cup {n})
      BY <1>4, <2>1, <3>2, InsertSound DEF WrongAfter, ItemOrNil
    <3>8. QED BY <3>6, <3>7
  <2>4. QED BY <2>2, <2>3
<1>5. CASE n = Nil
  <2>1. /\ t.firstChild \in [Node -> ItemOrNil] /\ t.next \in [Node -> ItemOrNil]
        /\ t.prev \in [Node -> ItemOrNil] /\ t.parent \in [Node -> NodeOrNil] /\ Nil \notin Node
    BY <1>1, NodeAssumption DEF Tree
  <2>2. AddAsLastChild(t, p, n) = t
    <3>1. CASE t.firstChild[p] = Nil
      <4>1. AddAsLastChild(t, p, n) = InsertAfter(t, p, Nil, Nil)
        BY <1>5, <3>1 DEF AddAsLastChild, ServerAddAsChild, WrongAfter
      <4>2. /\ [t.parent EXCEPT ![Nil] = p] = t.parent
            /\ [t.firstChild EXCEPT ![p] = Nil] = t.firstChild
            /\ [x \in Node |-> IF x = Nil THEN t.firstChild[p]
                               ELSE IF x = Nil THEN Nil ELSE t.next[x]] = t.next
            /\ [x \in Node |-> IF x = Nil /\ Nil # Nil THEN Nil
                               ELSE IF x = t.firstChild[p] THEN Nil ELSE t.prev[x]] = t.prev
        BY <2>1, <3>1
      <4>3. QED BY <1>1, <4>1, <4>2 DEF InsertAfter
    <3>2. CASE t.firstChild[p] # Nil
      <4>1. AddAsLastChild(t, p, n) = [t EXCEPT !.next = [t.next EXCEPT ![a] = Nil],
                                                !.prev = [t.prev EXCEPT ![Nil] = a],
                                                !.parent = [t.parent EXCEPT ![Nil] = p]]
        BY <1>2, <1>5, <3>2 DEF AddAsLastChild
      <4>2. [t.next EXCEPT ![a] = Nil] = t.next
        BY <1>3, <2>1
      <4>3. [t.prev EXCEPT ![Nil] = a] = t.prev /\ [t.parent EXCEPT ![Nil] = p] = t.parent
        BY <2>1
      <4>4. QED BY <1>1, <4>1, <4>2, <4>3
    <3>3. QED BY <3>1, <3>2
  <2>3. Item \ (heap \cup {n}) \subseteq Item \ heap
    OBVIOUS
  <2>4. QED BY <2>2, <2>3 DEF SoundIn
<1>6. QED BY <1>4, <1>5, NextFreeFacts

\* The next item is entered in the map, or the reading ends.
LEMMA RegisterSound ==
  ASSUME NEW l, SoundLoad(l)
  PROVE  SoundLoad(Register(l))
<1>1. CASE l.current = Nil
  BY <1>1 DEF Register
<1>2. CASE l.current # Nil /\ \E x \in l.items : l.doc.id[x] = l.doc.id[l.current]
  <2>1. Register(l) = [l EXCEPT !.threw = TRUE]
    BY <1>2 DEF Register
  <2>2. QED BY <2>1 DEF SoundLoad
<1>3. CASE l.current # Nil /\ ~\E x \in l.items : l.doc.id[x] = l.doc.id[l.current]
  <2>1. Register(l) = [l EXCEPT !.items = @ \cup {l.current}]
    BY <1>3 DEF Register
  <2>2. QED BY <1>3, <2>1 DEF SoundLoad
<1>4. QED BY <1>1, <1>2, <1>3

\* Its parent is in the map, or it stays out of the tree.
LEMMA ReadItemSound ==
  ASSUME NEW l, SoundLoad(l), NEW entry, NEW whole
  PROVE  SoundLoad(ReadItem(l, entry, whole))
<1>1. PICK d, h, n, t : d = l.doc /\ h = d.heap /\ n = NextFree(h) /\ t = d.tree
  OBVIOUS
<1>2. /\ Sound(d) /\ SoundIn(t, h) /\ Root \in h /\ h \subseteq NodeOrNil
      /\ l.items \subseteq Node \cap h
  BY <1>1 DEF SoundLoad, Sound
<1>3. n \in Item \ h \/ n = Nil
  BY <1>1, <1>2, NextFreeFacts
<1>4. PICK parents : parents = {x \in l.items : d.id[x] = entry.parent}
  OBVIOUS
<1>5. PICK u : u = IF whole # "parent" /\ parents # {}
                   THEN AddAsLastChild(t, CHOOSE x \in parents : TRUE, n) ELSE t
  OBVIOUS
<1>6. SoundIn(u, h \cup {n})
  <2>1. CASE whole # "parent" /\ parents # {}
    <3>1. PICK p : p = (CHOOSE x \in parents : TRUE)
      OBVIOUS
    <3>2. p \in Node \cap h
      BY <1>2, <1>4, <2>1, <3>1
    <3>3. SoundIn(AddAsLastChild(t, p, n), h \cup {n})
      BY <1>1, <1>2, <3>2, AddLastSound
    <3>4. QED BY <1>5, <2>1, <3>1, <3>3
  <2>2. CASE ~(whole # "parent" /\ parents # {})
    BY <1>2, <1>5, <2>2 DEF SoundIn
  <2>3. QED BY <2>1, <2>2
<1>7. PICK x, v, j : /\ x = [d.text EXCEPT ![n] = IF whole \in {"item", "done"} THEN entry.text
                                                  ELSE EmptyText]
                     /\ v = [d.done EXCEPT ![n] = whole = "item" /\ entry.done]
                     /\ j = [d.id EXCEPT ![n] = entry.id]
  OBVIOUS
<1>8. PICK r : r = [tree |-> u, text |-> x, done |-> v, heap |-> h \cup {n}, id |-> j]
  OBVIOUS
<1>9. ReadItem(l, entry, whole) = [l EXCEPT !.current = n, !.doc = r]
  BY <1>1, <1>4, <1>5, <1>7, <1>8 DEF ReadItem
<1>10. DOMAIN j = Node /\ j[Root] = NoId /\ h \cup {n} \subseteq NodeOrNil
  BY <1>2, <1>3, <1>7, NodeAssumption DEF Sound, Item, NodeOrNil
<1>11. Sound(r)
  BY <1>2, <1>6, <1>8, <1>10 DEF Sound
<1>12. l.items \subseteq Node \cap r.heap /\ n \in (Node \cap r.heap) \cup {Nil}
  BY <1>2, <1>3, <1>8 DEF Item
<1>13. QED BY <1>9, <1>11, <1>12 DEF SoundLoad

\* An empty document is sound.
LEMMA NewSound == Sound(NewCopy)
<1>1. /\ NoLinks \in [Node -> NodeOrNil] /\ NoLinks \in [Node -> ItemOrNil]
      /\ \A x \in Node : NoLinks[x] = Nil
  BY DEF NoLinks, NodeOrNil, ItemOrNil
<1>2. EmptyTree \in Tree /\ LinksAgree(EmptyTree) /\ \A x \in Node : Unlinked(EmptyTree, x)
  BY <1>1 DEF EmptyTree, Tree, LinksAgree, Unlinked
<1>3. Grounded(EmptyTree)
  BY <1>1, NodeAssumption DEF EmptyTree, Grounded
<1>4. SoundIn(EmptyTree, {Root})
  BY <1>2, <1>3 DEF SoundIn, Item
<1>5. PICK x, d, i : /\ x = [y \in Item |-> EmptyText] /\ d = [y \in Item |-> FALSE]
                     /\ i = [y \in Node |-> NoId]
  OBVIOUS
<1>6. NewCopy = [tree |-> EmptyTree, text |-> x, heap |-> {Root}, done |-> d, id |-> i]
  BY <1>5 DEF NewCopy
<1>7. DOMAIN i = Node /\ i[Root] = NoId /\ {Root} \subseteq NodeOrNil
  BY <1>5, NodeAssumption DEF NodeOrNil
<1>8. QED BY <1>4, <1>6, <1>7 DEF Sound

\* One turn of the loop.
LoadStep(f, after, k) ==
  IF k = 0 THEN [doc |-> NewCopy, items |-> {Root}, current |-> Nil, threw |-> FALSE]
  ELSE LET l == Register(after[k - 1]) IN
       IF l.threw THEN l
       ELSE ReadItem(l, f.items[k], IF k = Len(f.items) /\ f.stop # "end" THEN f.stop
                                    ELSE "item")

\* Turn by turn a file can be read.
LEMMA LoadExists ==
  ASSUME NEW f
  PROVE  \A m \in Nat : \E after : after = [k \in 0..m |-> LoadStep(f, after, k)]
<1> DEFINE T == {m \in Nat : \E after : after = [k \in 0..m |-> LoadStep(f, after, k)]}
<1>1. 0 \in T
  <2>1. PICK a : a = [k \in 0..0 |-> LoadStep(f, <<>>, k)]
    OBVIOUS
  <2>2. LoadStep(f, a, 0) = LoadStep(f, <<>>, 0)
    BY DEF LoadStep
  <2>3. \A k \in 0..0 : k = 0
    OBVIOUS
  <2>4. a = [k \in 0..0 |-> LoadStep(f, a, k)]
    <3> HIDE DEF T
    <3>1. QED BY <2>1, <2>2, <2>3
  <2>5. QED BY <2>4
<1>2. ASSUME NEW m \in Nat, m \in T
      PROVE  m + 1 \in T
  <2>1. PICK a : a = [k \in 0..m |-> LoadStep(f, a, k)]
    BY <1>2
  <2> DEFINE b == [k \in 0..m + 1 |-> IF k = m + 1 THEN LoadStep(f, a, k) ELSE a[k]]
  <2>2. b = [k \in 0..m + 1 |-> LoadStep(f, b, k)]
    <3>1. ASSUME NEW k \in 0..m + 1
          PROVE  b[k] = LoadStep(f, b, k)
      <4>1. k # 0 => k - 1 \in 0..m /\ b[k - 1] = a[k - 1]
        OBVIOUS
      <4>2. LoadStep(f, b, k) = LoadStep(f, a, k)
        BY <4>1 DEF LoadStep
      <4>3. CASE k = m + 1
        BY <4>2, <4>3
      <4>4. CASE k # m + 1
        <5>1. k \in 0..m /\ b[k] = a[k]
          BY <4>4
        <5>2. a[k] = LoadStep(f, a, k)
          BY <2>1, <5>1
        <5>3. QED BY <4>2, <5>1, <5>2
      <4>5. QED BY <4>3, <4>4
    <3>2. QED BY <3>1
  <2>3. \E c : c = [k \in 0..m + 1 |-> LoadStep(f, c, k)]
    BY <2>2
  <2>4. QED BY <2>3
<1>3. Nat \subseteq T
  <2> HIDE DEF T
  <2>1. QED BY <1>1, <1>2, SetInduction
<1>4. QED BY <1>3

\* loadTree ends with what there is after the last turn.
LEMMA LoadUnfolded ==
  ASSUME NEW f, FileRead(f)
  PROVE  \E n \in Nat : \E a : /\ n = Len(f.items) /\ DOMAIN f.items = 1..n /\ LoadTree(f) = a[n]
                              /\ \A k \in 0..n : a[k] = LoadStep(f, a, k)
<1>1. PICK n \in Nat : n = Len(f.items) /\ DOMAIN f.items = 1..n
  <2>1. PICK S : f.items \in Seq(S)
    BY DEF FileRead
  <2>2. QED BY <2>1, LenProperties
<1>2. PICK a : a = [k \in 0..n |-> LoadStep(f, a, k)] /\ LoadTree(f) = a[n]
  <2> DEFINE A == CHOOSE a : a = [k \in 0..Len(f.items) |-> LoadStep(f, a, k)]
  <2>1. \E a : a = [k \in 0..Len(f.items) |-> LoadStep(f, a, k)]
    BY <1>1, LoadExists
  <2>2. A = [k \in 0..Len(f.items) |-> LoadStep(f, A, k)]
    BY <2>1
  <2>3. LoadTree(f) = A[Len(f.items)]
    BY DEF LoadTree, LoadStep
  <2>4. QED BY <1>1, <2>2, <2>3
<1>3. \A k \in 0..n : a[k] = LoadStep(f, a, k)
  BY <1>2
<1>4. QED BY <1>1, <1>2, <1>3

\* loadTree makes a sound tree of any file, whether it throws or not.
LEMMA LoadTreeSound ==
  ASSUME NEW f, FileRead(f)
  PROVE  SoundLoad(LoadTree(f))
<1>1. PICK n \in Nat : \E a : n = Len(f.items) /\ LoadTree(f) = a[n]
                              /\ \A k \in 0..n : a[k] = LoadStep(f, a, k)
  BY LoadUnfolded
<1>2. PICK a : n = Len(f.items) /\ LoadTree(f) = a[n]
  /\ \A k \in 0..n : a[k] = LoadStep(f, a, k)
  BY <1>1
<1>3. \A k \in 0..n : a[k] = LoadStep(f, a, k)
  BY <1>2
<1> DEFINE T == {k \in Nat : k <= n => SoundLoad(a[k])}
<1>4. 0 \in T
  <2>1. PICK l : l = [doc |-> NewCopy, items |-> {Root}, current |-> Nil, threw |-> FALSE]
    OBVIOUS
  <2>2. a[0] = l
    <3>1. 0 \in 0..n
      OBVIOUS
    <3>2. LoadStep(f, a, 0) = l
      BY <2>1 DEF LoadStep
    <3>3. QED BY <1>3, <3>1, <3>2
  <2>3. {Root} \subseteq Node \cap NewCopy.heap
    BY NodeAssumption DEF NewCopy
  <2>4. SoundLoad(l)
    BY <2>1, <2>3, NewSound DEF SoundLoad
  <2>5. QED BY <2>2, <2>4
<1>5. ASSUME NEW k \in Nat, k \in T PROVE k + 1 \in T
  <2> SUFFICES ASSUME k + 1 <= n PROVE SoundLoad(a[k + 1])
    OBVIOUS
  <2>1. k + 1 \in 0..n /\ k + 1 # 0 /\ (k + 1) - 1 = k /\ k <= n
    BY <1>1
  <2>2. SoundLoad(a[k])
    BY <1>5, <2>1
  <2>3. PICK l : l = Register(a[k]) /\ SoundLoad(l)
    BY <2>2, RegisterSound
  <2>4. PICK e, w : /\ e = f.items[k + 1]
                    /\ w = IF k + 1 = Len(f.items) /\ f.stop # "end" THEN f.stop ELSE "item"
    OBVIOUS
  <2>5. a[k + 1] = IF l.threw THEN l ELSE ReadItem(l, e, w)
    BY <1>3, <2>1, <2>3, <2>4 DEF LoadStep
  <2>6. SoundLoad(ReadItem(l, e, w))
    BY <2>3, ReadItemSound
  <2>7. QED BY <2>3, <2>5, <2>6
<1>6. Nat \subseteq T
  <2> HIDE DEF T
  <2>1. QED BY <1>4, <1>5, SetInduction
<1>7. SoundLoad(a[n])
  BY <1>1, <1>6
<1>8. QED BY <1>2, <1>7

\* A document without items gets a new one, while there are objects.
LEMMA NewChildSound ==
  ASSUME NEW s, Sound(s), s.tree.firstChild[Root] = Nil
  PROVE  Sound(CreateNewChild(s))
<1>1. PICK t, h, n : t = s.tree /\ h = s.heap /\ n = NextFree(h)
  OBVIOUS
<1>2. /\ SoundIn(t, h) /\ Root \in Node \cap h /\ h \subseteq NodeOrNil /\ t.firstChild[Root] = Nil
  BY <1>1, NodeAssumption DEF Sound
<1>3. PICK u, j : /\ u = ServerAddAsChild(t, Root, n, Nil)
                  /\ j = [s.id EXCEPT ![n] = Max({s.id[x] : x \in s.heap}) + 1]
  OBVIOUS
<1>4. SoundIn(u, h \cup {n})
  <2>1. AddAsLastChild(t, Root, n) = u
    BY <1>2, <1>3 DEF AddAsLastChild
  <2>2. SoundIn(AddAsLastChild(t, Root, n), h \cup {n})
    BY <1>1, <1>2, AddLastSound
  <2>3. QED BY <2>1, <2>2
<1>5. CreateNewChild(s) = [s EXCEPT !.tree = u, !.heap = h \cup {n}, !.id = j]
  BY <1>1, <1>3 DEF CreateNewChild
<1>6. n \in Item \/ n = Nil
  BY <1>1, <1>2, NextFreeFacts
<1>7. DOMAIN j = Node /\ j[Root] = NoId /\ h \cup {n} \subseteq NodeOrNil
  BY <1>2, <1>3, <1>6, NodeAssumption DEF Sound, Item, NodeOrNil
<1>8. QED BY <1>2, <1>4, <1>5, <1>7 DEF Sound

\* loadData gives a sound document.
LEMMA LoadDataSound ==
  ASSUME NEW f, FileRead(f)
  PROVE  Sound(LoadData(f).doc)
<1>1. PICK l : l = LoadTree(f) /\ SoundLoad(l)
  BY LoadTreeSound
<1>2. CASE l.threw \/ l.doc.tree.firstChild[Root] # Nil
  BY <1>1, <1>2 DEF LoadData, SoundLoad
<1>3. CASE ~(l.threw \/ l.doc.tree.firstChild[Root] # Nil)
  <2>1. LoadData(f) = [l EXCEPT !.doc = CreateNewChild(l.doc)]
    BY <1>1, <1>3 DEF LoadData
  <2>2. LoadData(f).doc = CreateNewChild(l.doc)
    BY <1>1, <2>1 DEF SoundLoad
  <2>3. QED BY <1>1, <1>3, <2>2, NewChildSound DEF SoundLoad
<1>4. QED BY <1>2, <1>3

---------------------------------------------------------------------------
(* Writing.                                                                *)

\* What is written of an item.
EntryAt(s, x) == [id |-> s.id[x], parent |-> s.id[s.tree.parent[x]], text |-> s.text[x],
                  done |-> s.done[x]]

\* saveNode comes to an end, wherever it is called: f[x] is what it leaves at x.
LEMMA EntriesFolded ==
  ASSUME NEW s, Sound(s)
  PROVE  \E S : \E f \in [NodeOrNil -> Seq(S)] :
           /\ f[Nil] = <<>> /\ EntriesOf(s) = f[s.tree.firstChild[Root]]
           /\ \A x \in Node : /\ <<EntryAt(s, x)>> \in Seq(S)
                             /\ f[x] = <<EntryAt(s, x)>> \o f[s.tree.firstChild[x]] \o f[s.tree.next[x]]
<1> DEFINE Entry(x) == EntryAt(s, x)
           Step(f, x) == IF x = Nil THEN <<>>
                         ELSE <<Entry(x)>> \o f[s.tree.firstChild[x]] \o f[s.tree.next[x]]
           From == CHOOSE f : f = [x \in NodeOrNil |-> Step(f, x)]
           S == {Entry(x) : x \in Node}
<1>1. PICK t : t = s.tree /\ t \in Tree /\ Grounded(t)
  BY DEF Sound, SoundIn
<1>2. /\ \A x \in Node : t.firstChild[x] \in NodeOrNil /\ t.next[x] \in NodeOrNil
      /\ Nil \in NodeOrNil /\ Nil \notin Node
  BY <1>1, NodeAssumption DEF Tree, ItemOrNil, Item, NodeOrNil
<1>3. \A x \in Node : <<Entry(x)>> \in Seq(S)
  <2>1. \A e \in S : <<e>> \in Seq(S)
    <3> HIDE DEF S
    <3>1. QED OBVIOUS
  <2>2. \A x \in Node : Entry(x) \in S
    OBVIOUS
  <2> HIDE DEF Entry, S
  <2>3. QED BY <2>1, <2>2
<1>4. PICK R : R = Seq(S)
  OBVIOUS
<1>5. <<>> \in R /\ \A x \in Node, a \in R, b \in R : <<Entry(x)>> \o a \o b \in R
  <2> HIDE DEF Entry, S
  <2>1. <<>> \in R
    BY <1>4
  <2>2. \A a \in R, b \in R : a \o b \in R
    BY <1>4
  <2>3. QED BY <1>3, <1>4, <2>1, <2>2
<1>6. PICK f \in [NodeOrNil -> R] : f = [x \in NodeOrNil |-> Step(f, x)]
  <2> DEFINE G(x, a, b) == <<Entry(x)>> \o a \o b
  <2> HIDE DEF Entry, S
  <2>1. PICK g : g = [u \in Node \X R \X R |-> G(u[1], u[2], u[3])]
    OBVIOUS
  <2>2. g \in [Node \X R \X R -> R]
    BY <1>5, <2>1
  <2>3. PICK f \in [NodeOrNil -> R] : Folding(t, f, <<>>, g)
    BY <1>1, <1>5, <2>2, FoldExists
  <2>4. ASSUME NEW x \in NodeOrNil PROVE f[x] = Step(f, x)
    <3>1. CASE x = Nil
      BY <2>3, <3>1 DEF Folding
    <3>2. CASE x \in Node
      <4>1. PICK a \in R, b \in R : a = f[t.firstChild[x]] /\ b = f[t.next[x]]
        BY <1>2, <2>3, <3>2
      <4>2. f[x] = g[<<x, a, b>>]
        BY <2>3, <3>2, <4>1 DEF Folding
      <4>3. g[<<x, a, b>>] = G(x, a, b)
        <5> HIDE DEF G
        <5>1. QED BY <2>1, <3>2
      <4>4. Step(f, x) = G(x, a, b)
        BY <1>1, <1>2, <3>2, <4>1
      <4>5. QED BY <4>2, <4>3, <4>4
    <3>3. QED BY <3>1, <3>2 DEF NodeOrNil
  <2>5. f = [x \in NodeOrNil |-> Step(f, x)]
    <3> HIDE DEF Step
    <3>1. QED BY <2>3, <2>4
  <2>6. QED BY <2>3, <2>5
<1>7. From = [x \in NodeOrNil |-> Step(From, x)]
  <2>1. \E h : h = [x \in NodeOrNil |-> Step(h, x)]
    BY <1>6
  <2>2. QED BY <2>1
<1>8. EntriesOf(s) = From[s.tree.firstChild[Root]]
  BY DEF EntriesOf, EntryAt
<1>9. \A x \in NodeOrNil : From[x] \in R
  <2>1. From[Nil] \in R
    <3>1. From[Nil] = Step(From, Nil)
      <4> HIDE DEF From, Step
      <4>1. QED BY <1>2, <1>7
    <3>2. QED BY <1>5, <3>1
  <2>2. PICK T \in SUBSET Node : T = {x \in Node : From[x] \notin R}
    OBVIOUS
  <2>3. T = {}
    <3>1. SUFFICES ASSUME T # {} PROVE FALSE
      OBVIOUS
    <3>2. PICK x \in T : t.firstChild[x] \notin T /\ t.next[x] \notin T
      BY <1>1, <3>1 DEF Grounded
    <3>3. x \in Node /\ x \in NodeOrNil /\ From[x] \notin R
      BY <2>2, <3>2 DEF NodeOrNil
    <3>4. From[t.firstChild[x]] \in R /\ From[t.next[x]] \in R
      <4> HIDE DEF From
      <4>1. QED BY <1>2, <2>1, <2>2, <3>2, <3>3 DEF NodeOrNil
    <3>5. From[x] = Step(From, x)
      <4> HIDE DEF From, Step
      <4>1. QED BY <1>7, <3>3
    <3>6. Step(From, x) = <<Entry(x)>> \o From[t.firstChild[x]] \o From[t.next[x]]
      <4> HIDE DEF From, Entry
      <4>1. QED BY <1>1, <1>2, <3>3
    <3>7. QED
      <4> HIDE DEF From, Entry, Step, S
      <4>1. QED BY <1>5, <3>3, <3>4, <3>5, <3>6
  <2>4. QED
    <3> HIDE DEF From
    <3>1. QED BY <2>1, <2>2, <2>3 DEF NodeOrNil
<1> HIDE DEF From, Entry, S
<1>10. PICK g : g = From
  OBVIOUS
<1>11. g[Nil] = <<>> /\ EntriesOf(s) = g[s.tree.firstChild[Root]]
  <2>1. From[Nil] = Step(From, Nil)
    <3> HIDE DEF Step
    <3>1. QED BY <1>2, <1>7
  <2>2. QED BY <1>8, <1>10, <2>1
<1>12. g \in [NodeOrNil -> R]
  <2> HIDE DEF Step
  <2>1. g = [x \in NodeOrNil |-> Step(g, x)]
    BY <1>7, <1>10
  <2>2. \A x \in NodeOrNil : g[x] \in R
    BY <1>9, <1>10
  <2>3. QED BY <2>1, <2>2
<1>13. ASSUME NEW x \in Node
       PROVE  g[x] = <<Entry(x)>> \o g[s.tree.firstChild[x]] \o g[s.tree.next[x]]
  <2>1. x \in NodeOrNil /\ x # Nil
    BY <1>2 DEF NodeOrNil
  <2>2. From[x] = Step(From, x)
    <3> HIDE DEF Step
    <3>1. QED BY <1>7, <2>1
  <2>3. QED BY <1>10, <2>1, <2>2
<1>14. \A x \in Node : <<EntryAt(s, x)>> \in Seq(S)
  BY <1>3 DEF Entry
<1>15. \A x \in Node : g[x] = <<EntryAt(s, x)>> \o g[s.tree.firstChild[x]] \o g[s.tree.next[x]]
  BY <1>13 DEF Entry
<1>16. QED BY <1>4, <1>11, <1>12, <1>14, <1>15

\* It leaves a sequence of items.
LEMMA EntriesWritten ==
  ASSUME NEW s, Sound(s)
  PROVE  \E S : EntriesOf(s) \in Seq(S)
<1>1. PICK S : \E f \in [NodeOrNil -> Seq(S)] : EntriesOf(s) = f[s.tree.firstChild[Root]]
  BY EntriesFolded
<1>2. s.tree.firstChild[Root] \in NodeOrNil
  BY NodeAssumption DEF Sound, SoundIn, Tree, ItemOrNil, Item, NodeOrNil
<1>3. QED BY <1>1, <1>2

\* One thing, then some, then more.
LEMMA ThreeJoined ==
  ASSUME NEW S, NEW e \in S, NEW p \in Seq(S), NEW q \in Seq(S), NEW r, r = <<e>> \o p \o q
  PROVE  /\ r \in Seq(S) /\ Len(r) = 1 + Len(p) + Len(q) /\ r[1] = e
         /\ \A k \in 1..Len(p) : r[1 + k] = p[k]
         /\ \A k \in 1..Len(q) : r[1 + Len(p) + k] = q[k]
<1>1. PICK one, a, m, n : /\ one = <<e>> /\ a = one \o p /\ m = Len(p) /\ n = Len(q)
  OBVIOUS
<1>2. one \in Seq(S) /\ Len(one) = 1 /\ one[1] = e /\ m \in Nat /\ n \in Nat
  BY <1>1
<1>3. a \in Seq(S) /\ Len(a) = 1 + m /\ \A k \in 1..1 + m : a[k] = IF k <= 1 THEN one[k] ELSE p[k - 1]
  BY <1>1, <1>2, ConcatProperties
<1>4. /\ r \in Seq(S) /\ Len(r) = 1 + m + n
      /\ \A k \in 1..1 + m + n : r[k] = IF k <= 1 + m THEN a[k] ELSE q[k - (1 + m)]
  BY <1>1, <1>2, <1>3, ConcatProperties
<1>5. r[1] = e
  BY <1>2, <1>3, <1>4
<1>6. \A k \in 1..m : r[1 + k] = p[k]
  <2>1. SUFFICES ASSUME NEW k \in 1..m PROVE r[1 + k] = p[k]
    OBVIOUS
  <2>2. 1 + k \in 1..1 + m /\ 1 + k \in 1..1 + m + n /\ ~(1 + k <= 1) /\ (1 + k) - 1 = k
    BY <1>2
  <2>3. QED BY <1>3, <1>4, <2>2
<1>7. \A k \in 1..n : r[1 + m + k] = q[k]
  <2>1. SUFFICES ASSUME NEW k \in 1..n PROVE r[1 + m + k] = q[k]
    OBVIOUS
  <2>2. /\ 1 + m + k \in 1..1 + m + n /\ ~(1 + m + k <= 1 + m)
        /\ (1 + m + k) - (1 + m) = k
    BY <1>2
  <2>3. QED BY <1>4, <2>2
<1>8. QED BY <1>1, <1>4, <1>5, <1>6, <1>7

\* The nodes in the order in which saveNode meets them.
Walking(t, w) == /\ w \in [NodeOrNil -> Seq(Node)] /\ w[Nil] = <<>>
                 /\ \A x \in Node : w[x] = <<x>> \o w[t.firstChild[x]] \o w[t.next[x]]

\* In a tree that ends there is such an order.
LEMMA WalkExists ==
  ASSUME NEW t \in Tree, Grounded(t)
  PROVE  \E w : Walking(t, w)
<1>1. PICK R : R = Seq(Node) /\ <<>> \in R
  BY EmptySeq
<1>2. PICK g : g = [z \in Node \X R \X R |-> <<z[1]>> \o z[2] \o z[3]]
  OBVIOUS
<1>3. \A x \in Node, a \in R, b \in R : <<x>> \o a \o b \in R /\ g[<<x, a, b>>] = <<x>> \o a \o b
  <2>1. ASSUME NEW x \in Node, NEW a \in R, NEW b \in R
        PROVE  <<x>> \o a \o b \in R /\ g[<<x, a, b>>] = <<x>> \o a \o b
    <3>1. <<x>> \o a \o b \in R
      BY <1>1, ThreeJoined
    <3>2. <<x, a, b>> \in Node \X R \X R
      OBVIOUS
    <3>3. g[<<x, a, b>>] = <<x>> \o a \o b
      BY <1>2, <3>2
    <3>4. QED BY <3>1, <3>3
  <2>2. QED BY <2>1
<1>4. g \in [Node \X R \X R -> R]
  <2>1. ASSUME NEW z \in Node \X R \X R PROVE <<z[1]>> \o z[2] \o z[3] \in R
    <3>1. z[1] \in Node /\ z[2] \in R /\ z[3] \in R
      OBVIOUS
    <3>2. QED BY <1>1, <3>1, ThreeJoined
  <2>2. QED BY <1>2, <2>1
<1>5. PICK w \in [NodeOrNil -> R] : Folding(t, w, <<>>, g)
  BY <1>1, <1>4, FoldExists
<1>6. w[Nil] = <<>> /\ \A x \in Node : w[x] = g[<<x, w[t.firstChild[x]], w[t.next[x]]>>]
  BY <1>5 DEF Folding
<1>7. \A x \in Node : w[t.firstChild[x]] \in R /\ w[t.next[x]] \in R
  BY <1>5 DEF Tree, ItemOrNil, Item, NodeOrNil
<1>8. \A x \in Node : w[x] = <<x>> \o w[t.firstChild[x]] \o w[t.next[x]]
  BY <1>3, <1>6, <1>7
<1>9. QED BY <1>1, <1>5, <1>6, <1>8 DEF Walking

\* A pointer that leads from one node to another.
Leads(t, x, y) == t.firstChild[x] = y \/ t.next[x] = y

\* The nodes reached from x, each once, each after one that leads to it.
WalkFrom(t, x, v) ==
  /\ v \in Seq(Node) /\ Len(v) >= 1 /\ v[1] = x
  /\ \A j, k \in 1..Len(v) : v[j] = v[k] => j = k
  /\ \A y : y \in Reached(t, x) <=> \E k \in 1..Len(v) : v[k] = y
  /\ \A k \in 1..Len(v) : k = 1 \/ \E j \in 1..Len(v) : j < k /\ Leads(t, v[j], v[k])

\* What is met on the way is the node, what is below it and what follows it.
LEMMA WalkPart ==
  ASSUME NEW t \in Tree, NEW x \in Node, NEW p, NEW q, NEW v,
         v = <<x>> \o p \o q, LinksAgree(t), Grounded(t),
         IF t.firstChild[x] = Nil THEN p = <<>> ELSE WalkFrom(t, t.firstChild[x], p),
         IF t.next[x] = Nil THEN q = <<>> ELSE WalkFrom(t, t.next[x], q)
  PROVE  WalkFrom(t, x, v)
<1>1. PICK a, b, A, B, m, n : /\ a = t.firstChild[x] /\ b = t.next[x] /\ A = Reached(t, a)
                              /\ B = Reached(t, b) /\ m = Len(p) /\ n = Len(q)
  OBVIOUS
<1>2. p \in Seq(Node) /\ q \in Seq(Node)
  <2>1. <<>> \in Seq(Node)
    BY EmptySeq
  <2>2. p = <<>> \/ p \in Seq(Node)
    BY DEF WalkFrom
  <2>3. q = <<>> \/ q \in Seq(Node)
    BY DEF WalkFrom
  <2>4. QED BY <2>1, <2>2, <2>3
<1>3. /\ x \notin A /\ x \notin B /\ A \cap B = {} /\ Reached(t, x) = {x} \cup A \cup B
  BY <1>1, ReachedApart, ReachedParts
<1>4. Reached(t, Nil) = {}
  <2>1. Onward(t, {}) /\ {Nil} \ {Nil} = {} /\ {} \in SUBSET Node
    BY DEF Onward
  <2>2. QED BY <2>1 DEF Reached
<1>5. /\ m \in Nat /\ \A j, k \in 1..m : p[j] = p[k] => j = k
      /\ \A y : y \in A <=> \E k \in 1..m : p[k] = y
      /\ m # 0 => p[1] = a
      /\ \A k \in 1..m : k = 1 \/ \E j \in 1..m : j < k /\ Leads(t, p[j], p[k])
  <2>1. CASE a = Nil
    <3>1. m = 0
      BY <1>1, <2>1
    <3>2. QED BY <1>1, <1>4, <2>1, <3>1
  <2>2. CASE a # Nil
    BY <1>1, <1>2, <2>2 DEF WalkFrom
  <2>3. QED BY <2>1, <2>2
<1>6. /\ n \in Nat /\ \A j, k \in 1..n : q[j] = q[k] => j = k
      /\ \A y : y \in B <=> \E k \in 1..n : q[k] = y
      /\ n # 0 => q[1] = b
      /\ \A k \in 1..n : k = 1 \/ \E j \in 1..n : j < k /\ Leads(t, q[j], q[k])
  <2>1. CASE b = Nil
    <3>1. n = 0
      BY <1>1, <2>1
    <3>2. QED BY <1>1, <1>4, <2>1, <3>1
  <2>2. CASE b # Nil
    BY <1>1, <1>2, <2>2 DEF WalkFrom
  <2>3. QED BY <2>1, <2>2
<1>7. /\ v \in Seq(Node) /\ Len(v) = 1 + m + n /\ v[1] = x
      /\ \A k \in 1..m : v[1 + k] = p[k]
      /\ \A k \in 1..n : v[1 + m + k] = q[k]
  BY <1>1, <1>2, ThreeJoined
<1>8. ASSUME NEW k \in 1..Len(v)
      PROVE  \/ k = 1 /\ v[k] = x
             \/ \E i \in 1..m : k = 1 + i /\ v[k] = p[i] /\ v[k] \in A
             \/ \E i \in 1..n : k = 1 + m + i /\ v[k] = q[i] /\ v[k] \in B
  <2>1. CASE k = 1
    BY <1>7, <2>1
  <2>2. CASE k # 1 /\ k <= 1 + m
    <3>1. PICK i \in 1..m : k = 1 + i
      BY <1>5, <1>8, <2>2, k - 1 \in 1..m
    <3>2. QED BY <1>5, <1>7, <3>1
  <2>3. CASE ~(k <= 1 + m)
    <3>1. k - (1 + m) \in 1..n /\ k = 1 + m + (k - (1 + m))
      BY <1>5, <1>6, <1>7, <1>8, <2>3
    <3>2. PICK i \in 1..n : k = 1 + m + i
      BY <3>1
    <3>3. QED BY <1>6, <1>7, <3>2
  <2>4. QED BY <2>1, <2>2, <2>3
<1>9. \A k \in 1..m : 1 + k \in 1..Len(v)
  BY <1>5, <1>6, <1>7
<1>10. \A k \in 1..n : 1 + m + k \in 1..Len(v)
  BY <1>5, <1>6, <1>7
<1>11. ASSUME NEW j \in 1..Len(v), NEW k \in 1..Len(v), v[j] = v[k]
       PROVE  j = k
  <2>1. CASE v[j] = x
    BY <1>3, <1>8, <1>11, <2>1
  <2>2. CASE v[j] \in A
    <3>1. PICK i \in 1..m : j = 1 + i /\ v[j] = p[i]
      BY <1>3, <1>8, <2>2
    <3>2. PICK h \in 1..m : k = 1 + h /\ v[k] = p[h]
      BY <1>3, <1>8, <1>11, <2>2
    <3>3. QED BY <1>5, <1>11, <3>1, <3>2
  <2>3. CASE v[j] \in B
    <3>1. PICK i \in 1..n : j = 1 + m + i /\ v[j] = q[i]
      BY <1>3, <1>8, <2>3
    <3>2. PICK h \in 1..n : k = 1 + m + h /\ v[k] = q[h]
      BY <1>3, <1>8, <1>11, <2>3
    <3>3. QED BY <1>6, <1>11, <3>1, <3>2
  <2>4. QED BY <1>8, <2>1, <2>2, <2>3
<1>12. \A y : y \in Reached(t, x) => \E k \in 1..Len(v) : v[k] = y
  <2>1. SUFFICES ASSUME NEW y \in Reached(t, x) PROVE \E k \in 1..Len(v) : v[k] = y
    OBVIOUS
  <2>2. CASE y = x
    BY <1>5, <1>6, <1>7, <2>2, 1 \in 1..Len(v)
  <2>3. CASE y \in A
    <3>1. PICK i \in 1..m : p[i] = y
      BY <1>5, <2>3
    <3>2. QED BY <1>7, <1>9, <3>1
  <2>4. CASE y \in B
    <3>1. PICK i \in 1..n : q[i] = y
      BY <1>6, <2>4
    <3>2. QED BY <1>7, <1>10, <3>1
  <2>5. QED BY <1>3, <2>1, <2>2, <2>3, <2>4
<1>13. \A k \in 1..Len(v) : v[k] \in Reached(t, x)
  BY <1>3, <1>8
<1>14. ASSUME NEW k \in 1..Len(v), k # 1
       PROVE  \E j \in 1..Len(v) : j < k /\ Leads(t, v[j], v[k])
  <2>1. ASSUME NEW i \in 1..m, k = 1 + i, v[k] = p[i]
        PROVE  \E j \in 1..Len(v) : j < k /\ Leads(t, v[j], v[k])
    <3>1. CASE i = 1
      <4>1. v[k] = a /\ 1 < k /\ 1 \in 1..Len(v) /\ v[1] = x
        BY <1>5, <1>7, <1>14, <2>1, <3>1
      <4>2. QED BY <1>1, <4>1 DEF Leads
    <3>2. CASE i # 1
      <4>1. PICK j \in 1..m : j < i /\ Leads(t, p[j], p[i])
        BY <1>5, <3>2
      <4>2. 1 + j \in 1..Len(v) /\ 1 + j < k /\ v[1 + j] = p[j]
        BY <1>7, <1>9, <2>1, <4>1
      <4>3. QED BY <2>1, <4>1, <4>2
    <3>3. QED BY <3>1, <3>2
  <2>2. ASSUME NEW i \in 1..n, k = 1 + m + i, v[k] = q[i]
        PROVE  \E j \in 1..Len(v) : j < k /\ Leads(t, v[j], v[k])
    <3>1. CASE i = 1
      <4>1. v[k] = b /\ 1 < k /\ 1 \in 1..Len(v) /\ v[1] = x
        BY <1>5, <1>6, <1>7, <1>14, <2>2, <3>1
      <4>2. QED BY <1>1, <4>1 DEF Leads
    <3>2. CASE i # 1
      <4>1. PICK j \in 1..n : j < i /\ Leads(t, q[j], q[i])
        BY <1>6, <3>2
      <4>2. 1 + m + j \in 1..Len(v) /\ 1 + m + j < k /\ v[1 + m + j] = q[j]
        BY <1>5, <1>7, <1>10, <2>2, <4>1
      <4>3. QED BY <2>2, <4>1, <4>2
    <3>3. QED BY <3>1, <3>2
  <2>3. QED BY <1>8, <1>14, <2>1, <2>2
<1>15. Len(v) >= 1
  BY <1>5, <1>6, <1>7
<1>16. QED BY <1>7, <1>11, <1>12, <1>13, <1>14, <1>15 DEF WalkFrom

\* The walk from a node meets what is reached from it.
LEMMA WalkMeets ==
  ASSUME NEW t \in Tree, LinksAgree(t), Grounded(t), NEW w, Walking(t, w)
  PROVE  \A x \in Node : WalkFrom(t, x, w[x])
<1>1. PICK T \in SUBSET Node : T = {x \in Node : ~WalkFrom(t, x, w[x])}
  OBVIOUS
<1>2. T = {}
  <2>1. SUFFICES ASSUME T # {} PROVE FALSE
    OBVIOUS
  <2>2. PICK x \in T : t.firstChild[x] \notin T /\ t.next[x] \notin T
    BY <2>1 DEF Grounded
  <2>3. PICK a, b : a = t.firstChild[x] /\ b = t.next[x]
    OBVIOUS
  <2>4. (a = Nil \/ a \in Node) /\ (b = Nil \/ b \in Node) /\ x \in Node
    BY <2>3 DEF Tree, ItemOrNil, Item
  <2>5. w[x] = <<x>> \o w[a] \o w[b] /\ w[Nil] = <<>>
    BY <2>3, <2>4 DEF Walking
  <2>6. IF a = Nil THEN w[a] = <<>> ELSE WalkFrom(t, a, w[a])
    BY <1>1, <2>2, <2>3, <2>4, <2>5
  <2>7. IF b = Nil THEN w[b] = <<>> ELSE WalkFrom(t, b, w[b])
    BY <1>1, <2>2, <2>3, <2>4, <2>5
  <2>8. WalkFrom(t, x, w[x])
    BY <2>3, <2>4, <2>5, <2>6, <2>7, WalkPart
  <2>9. QED BY <1>1, <2>2, <2>8
<1>3. QED BY <1>1, <1>2

\* All the items of a tree, each once, each after its parent or sibling.
Preorder(t, W) ==
  /\ W \in Seq(Node)
  /\ \A j, k \in 1..Len(W) : W[j] = W[k] => j = k
  /\ \A y : y \in InTree(t) \ {Root} <=> \E k \in 1..Len(W) : W[k] = y
  /\ \A k \in 1..Len(W) :
       Leads(t, Root, W[k]) \/ \E j \in 1..Len(W) : j < k /\ Leads(t, W[j], W[k])

\* What is below the root is reached from its first child.
LEMMA BelowRoot ==
  ASSUME NEW t \in Tree, LinksAgree(t), Grounded(t)
  PROVE  Reached(t, t.firstChild[Root]) = InTree(t) \ {Root}
<1>1. PICK c, M, A : c = t.firstChild[Root] /\ M = InTree(t) /\ A = Reached(t, c)
  OBVIOUS
<1>2. M \in SUBSET Node /\ Root \in M /\ Onward(t, M)
  BY <1>1, InTreeLeast, InTreeOnward
<1>3. c \in NodeOrNil /\ Root \in Node
  BY <1>1, NodeAssumption DEF Tree, ItemOrNil, Item, NodeOrNil
<1>4. A \in SUBSET Node /\ {c} \ {Nil} \subseteq A /\ Onward(t, A)
  BY <1>1, <1>3, ReachedLeast
<1>5. {c} \ {Nil} \subseteq M
  BY <1>1, <1>2 DEF Onward
<1>6. A \subseteq M
  BY <1>1, <1>2, <1>3, <1>5, ReachedLeast
<1>7. Root \notin A
  BY <1>1, <1>3, ReachedApart
<1>8. M \subseteq A \cup {Root}
  <2>1. PICK S \in SUBSET Node : S = A \cup {Root}
    BY <1>3, <1>4
  <2>2. ClosedBelow(t, S)
    BY <1>1, <1>4, <2>1 DEF ClosedBelow, Onward
  <2>3. QED BY <1>1, <2>1, <2>2, InTreeLeast
<1>9. QED BY <1>1, <1>2, <1>6, <1>7, <1>8

\* The walk of saveNode meets all the items.
LEMMA WalkAll ==
  ASSUME NEW t \in Tree, LinksAgree(t), Grounded(t), NEW w, Walking(t, w)
  PROVE  Preorder(t, w[t.firstChild[Root]])
<1>1. PICK c, W : c = t.firstChild[Root] /\ W = w[c]
  OBVIOUS
<1>2. Reached(t, c) = InTree(t) \ {Root}
  BY <1>1, BelowRoot
<1>3. CASE c = Nil
  <2>1. W = <<>> /\ W \in Seq(Node) /\ Len(W) = 0
    BY <1>1, <1>3 DEF Walking, NodeOrNil
  <2>2. Reached(t, Nil) = {}
    <3>1. Onward(t, {}) /\ {Nil} \ {Nil} = {} /\ {} \in SUBSET Node
      BY DEF Onward
    <3>2. QED BY <3>1 DEF Reached
  <2>3. InTree(t) \ {Root} = {}
    BY <1>2, <1>3, <2>2
  <2>4. Preorder(t, W)
    BY <2>1, <2>3 DEF Preorder
  <2>5. QED BY <1>1, <2>4
<1>4. CASE c # Nil
  <2>1. c \in Node
    BY <1>1, <1>4, NodeAssumption DEF Tree, ItemOrNil, Item
  <2>2. WalkFrom(t, c, W)
    BY <1>1, <2>1, WalkMeets
  <2>3. \A k \in 1..Len(W) :
          Leads(t, Root, W[k]) \/ \E j \in 1..Len(W) : j < k /\ Leads(t, W[j], W[k])
    BY <1>1, <2>2 DEF WalkFrom, Leads
  <2>4. Preorder(t, W)
    BY <1>2, <2>2, <2>3 DEF WalkFrom, Preorder
  <2>5. QED BY <1>1, <2>4
<1>5. QED BY <1>3, <1>4

\* What saveNode writes of the nodes of W.
WrittenAlong(s, W) == /\ Len(EntriesOf(s)) = Len(W)
                      /\ \A k \in 1..Len(W) : EntriesOf(s)[k] = EntryAt(s, W[k])

\* saveNode writes the items of the tree in this order.
LEMMA SavedAlong ==
  ASSUME NEW s, Sound(s), NEW w, Walking(s.tree, w)
  PROVE  WrittenAlong(s, w[s.tree.firstChild[Root]])
<1>1. PICK t : t = s.tree /\ t \in Tree /\ LinksAgree(t) /\ Grounded(t)
  BY DEF Sound, SoundIn
<1>2. Walking(t, w)
  BY <1>1
<1>3. PICK S : \E f \in [NodeOrNil -> Seq(S)] :
                 /\ f[Nil] = <<>> /\ EntriesOf(s) = f[s.tree.firstChild[Root]]
                 /\ \A x \in Node :
                      /\ <<EntryAt(s, x)>> \in Seq(S)
                      /\ f[x] = <<EntryAt(s, x)>> \o f[s.tree.firstChild[x]] \o f[s.tree.next[x]]
  BY EntriesFolded
<1>4. PICK f \in [NodeOrNil -> Seq(S)] :
         /\ f[Nil] = <<>> /\ EntriesOf(s) = f[t.firstChild[Root]]
         /\ \A x \in Node : /\ <<EntryAt(s, x)>> \in Seq(S)
                           /\ f[x] = <<EntryAt(s, x)>> \o f[t.firstChild[x]] \o f[t.next[x]]
  BY <1>1, <1>3
<1> DEFINE Alike(p, v) == Len(p) = Len(v) /\ \A k \in 1..Len(v) : p[k] = EntryAt(s, v[k])
<1>5. \A x \in Node : t.firstChild[x] \in NodeOrNil /\ t.next[x] \in NodeOrNil
  BY <1>1 DEF Tree, ItemOrNil, Item, NodeOrNil
<1>6. Alike(f[Nil], w[Nil])
  BY <1>2, <1>4 DEF Walking
<1>7. ASSUME NEW x \in Node, Alike(f[t.firstChild[x]], w[t.firstChild[x]]),
             Alike(f[t.next[x]], w[t.next[x]])
      PROVE  Alike(f[x], w[x])
  <2>1. PICK p, q, u, v, e : /\ p = f[t.firstChild[x]] /\ q = f[t.next[x]]
                             /\ u = w[t.firstChild[x]] /\ v = w[t.next[x]] /\ e = EntryAt(s, x)
    OBVIOUS
  <2>2. /\ p \in Seq(S) /\ q \in Seq(S) /\ u \in Seq(Node) /\ v \in Seq(Node)
    BY <1>2, <1>4, <1>5, <2>1 DEF Walking
  <2>3. e \in S
    <3>1. <<e>> \in Seq(S) /\ Len(<<e>>) = 1 /\ <<e>>[1] = e
      BY <1>4, <2>1
    <3>2. QED BY <3>1
  <2>4. PICK m, n : m = Len(u) /\ n = Len(v) /\ m \in Nat /\ n \in Nat
                    /\ Len(p) = m /\ Len(q) = n
    <3>1. Len(p) = Len(u) /\ Len(q) = Len(v)
      BY <1>7, <2>1
    <3>2. Len(u) \in Nat /\ Len(v) \in Nat
      BY <2>2
    <3>3. QED BY <3>1, <3>2
  <2>5. PICK r : r = f[x] /\ r = <<e>> \o p \o q
    BY <1>4, <2>1
  <2>6. PICK z : z = w[x] /\ z = <<x>> \o u \o v
    BY <1>2, <2>1 DEF Walking
  <2>7. /\ Len(r) = 1 + m + n /\ r[1] = e
        /\ \A k \in 1..m : r[1 + k] = p[k]
        /\ \A k \in 1..n : r[1 + m + k] = q[k]
    <3>1. /\ Len(r) = 1 + Len(p) + Len(q) /\ r[1] = e
          /\ \A k \in 1..Len(p) : r[1 + k] = p[k]
          /\ \A k \in 1..Len(q) : r[1 + Len(p) + k] = q[k]
      <4> HIDE DEF Alike
      <4>1. QED BY <2>2, <2>3, <2>5, ThreeJoined
    <3>2. QED BY <2>4, <3>1
  <2>8. /\ Len(z) = 1 + m + n /\ z[1] = x
        /\ \A k \in 1..m : z[1 + k] = u[k]
        /\ \A k \in 1..n : z[1 + m + k] = v[k]
    BY <2>2, <2>4, <2>6, ThreeJoined
  <2>9. /\ \A k \in 1..m : p[k] = EntryAt(s, u[k])
        /\ \A k \in 1..n : q[k] = EntryAt(s, v[k])
    BY <1>7, <2>1, <2>4
  <2>10. ASSUME NEW k \in 1..1 + m + n
         PROVE  r[k] = EntryAt(s, z[k])
    <3>1. CASE k = 1
      BY <2>1, <2>7, <2>8, <3>1
    <3>2. CASE k # 1 /\ k <= 1 + m
      <4>1. PICK i \in 1..m : k = 1 + i
        BY <2>4, <2>10, <3>2, k - 1 \in 1..m
      <4>2. QED BY <2>7, <2>8, <2>9, <4>1
    <3>3. CASE ~(k <= 1 + m)
      <4>1. k - (1 + m) \in 1..n /\ k = 1 + m + (k - (1 + m))
        BY <2>4, <2>10, <3>3
      <4>2. PICK i \in 1..n : k = 1 + m + i
        BY <4>1
      <4>3. QED BY <2>7, <2>8, <2>9, <4>2
    <3>4. QED BY <3>1, <3>2, <3>3
  <2>11. QED BY <2>5, <2>6, <2>7, <2>8, <2>10
<1>8. \A x \in NodeOrNil : Alike(f[x], w[x])
  <2>1. PICK T \in SUBSET Node : T = {x \in Node : ~Alike(f[x], w[x])}
    OBVIOUS
  <2> HIDE DEF Alike
  <2>2. T = {}
    <3>1. SUFFICES ASSUME T # {} PROVE FALSE
      OBVIOUS
    <3>2. PICK x \in T : t.firstChild[x] \notin T /\ t.next[x] \notin T
      BY <1>1, <3>1 DEF Grounded
    <3>3. Alike(f[t.firstChild[x]], w[t.firstChild[x]])
      BY <1>5, <1>6, <2>1, <3>2 DEF NodeOrNil
    <3>4. Alike(f[t.next[x]], w[t.next[x]])
      BY <1>5, <1>6, <2>1, <3>2 DEF NodeOrNil
    <3>5. QED BY <1>7, <2>1, <3>2, <3>3, <3>4
  <2>3. QED BY <1>6, <2>1, <2>2 DEF NodeOrNil
<1>9. PICK c, W, e : c = t.firstChild[Root] /\ W = w[c] /\ e = EntriesOf(s)
  OBVIOUS
<1>10. c \in NodeOrNil /\ e = f[c]
  BY <1>4, <1>5, <1>9, NodeAssumption
<1>11. Alike(e, W)
  <2> HIDE DEF Alike
  <2>1. QED BY <1>8, <1>9, <1>10
<1>12. QED BY <1>1, <1>9, <1>11 DEF WrittenAlong

\* And there is such an order.
LEMMA SavedInOrder ==
  ASSUME NEW s, Sound(s)
  PROVE  \E w : LET W == w[s.tree.firstChild[Root]] IN
                Walking(s.tree, w) /\ Preorder(s.tree, W) /\ WrittenAlong(s, W)
<1>1. s.tree \in Tree /\ LinksAgree(s.tree) /\ Grounded(s.tree)
  BY DEF Sound, SoundIn
<1>2. PICK w : Walking(s.tree, w)
  BY <1>1, WalkExists
<1>3. QED BY <1>1, <1>2, WalkAll, SavedAlong

\* The file has the first items of a document; of the last one the number of its
\* parent may be cut.
PartOf(f, s, n) ==
  /\ n \in 0..Len(EntriesOf(s))
  /\ IF f.stop = "number"
     THEN n # 0 /\ \E i : f.items = [SubSeq(EntriesOf(s), 1, n) EXCEPT ![n].parent = i]
     ELSE f.items = SubSeq(EntriesOf(s), 1, n)

\* So it has when the writing stops anywhere.
LEMMA CutParts ==
  ASSUME NEW s, NEW old, NEW f \in Interrupted(old, s)
  PROVE  f.stop # "end" /\ \E n : PartOf(f, s, n)
<1>1. PICK e : e = EntriesOf(s) /\ Written(old, s).items = e
  BY DEF Written
<1> DEFINE Of(q, n, stop) == [items |-> SubSeq(q, 1, n), stop |-> stop]
           CutOf(q, n, number) == [Of(q, n, "number") EXCEPT !.items[n].parent = number]
           Cuts(q) == {Of(q, n, "item") : n \in 0..Len(q)}
                      \cup {Of(q, n, stop) : n \in 1..Len(q), stop \in {"parent", "text", "done"}}
                      \cup (UNION {{CutOf(q, n, number) : number \in Prefixes(q[n].parent)} :
                                     n \in 1..Len(q)})
           Upto(n, stop) == Of(e, n, stop)
           Cut(n, number) == CutOf(e, n, number)
<1>2. \/ \E n \in 0..Len(e) : f = Upto(n, "item")
      \/ \E n \in 1..Len(e) : \E stop \in {"parent", "text", "done"} : f = Upto(n, stop)
      \/ \E n \in 1..Len(e) : \E number : f = Cut(n, number)
  <2>1. Interrupted(old, s) = Cuts(Written(old, s).items)
    BY DEF Interrupted
  <2>2. f \in Cuts(e)
    <3> HIDE DEF Cuts
    <3>1. QED BY <1>1, <2>1
  <2>3. \A q : f \in Cuts(q) =>
           \/ \E n \in 0..Len(q) : f = Of(q, n, "item")
           \/ \E n \in 1..Len(q) : \E stop \in {"parent", "text", "done"} : f = Of(q, n, stop)
           \/ \E n \in 1..Len(q) : \E number : f = CutOf(q, n, number)
    <3> HIDE DEF Of, CutOf
    <3>1. QED OBVIOUS
  <2> HIDE DEF Of, CutOf, Cuts
  <2>4. QED BY <2>2, <2>3
<1>3. ASSUME NEW n \in 0..Len(e), f = Upto(n, "item")
      PROVE  f.stop # "end" /\ PartOf(f, s, n)
  BY <1>1, <1>3 DEF PartOf
<1>4. ASSUME NEW n \in 1..Len(e), NEW stop \in {"parent", "text", "done"}, f = Upto(n, stop)
      PROVE  f.stop # "end" /\ PartOf(f, s, n)
  BY <1>1, <1>4 DEF PartOf
<1>5. ASSUME NEW n \in 1..Len(e), NEW number, f = Cut(n, number)
      PROVE  f.stop # "end" /\ PartOf(f, s, n)
  <2>1. PICK q, r : q = SubSeq(e, 1, n) /\ r = [q EXCEPT ![n].parent = number]
    OBVIOUS
  <2>2. f = [items |-> r, stop |-> "number"]
    BY <1>5, <2>1
  <2>3. f.stop = "number" /\ f.items = r
    BY <2>2
  <2>4. n # 0 /\ n \in 0..Len(e)
    OBVIOUS
  <2>5. \E i : f.items = [SubSeq(e, 1, n) EXCEPT ![n].parent = i]
    BY <2>1, <2>3
  <2>6. QED BY <1>1, <2>3, <2>4, <2>5 DEF PartOf
<1>6. QED BY <1>2, <1>3, <1>4, <1>5

\* What there is to read of such a part: all but the parent of an item that was
\* cut in its number.
LEMMA PartItems ==
  ASSUME NEW s, Sound(s), NEW f, NEW n, PartOf(f, s, n)
  PROVE  /\ n \in Nat /\ Len(f.items) = n /\ n <= Len(EntriesOf(s)) /\ FileRead(f)
         /\ DOMAIN f.items = 1..n /\ (f.stop = "number" => n # 0)
         /\ \A k \in 1..n : /\ f.items[k].id = EntriesOf(s)[k].id
                            /\ ~(k = n /\ f.stop = "number") => f.items[k] = EntriesOf(s)[k]
<1>1. PICK e, S : e = EntriesOf(s) /\ e \in Seq(S)
  BY EntriesWritten
<1>2. PICK q : q = SubSeq(e, 1, n)
  OBVIOUS
<1>3. n \in 0..Len(e) /\ Len(e) \in Nat /\ n \in Nat
  BY <1>1 DEF PartOf
<1>4. /\ q \in Seq(S) /\ Len(q) = n /\ DOMAIN q = 1..n
      /\ \A k \in 1..n : q[k] = e[k]
  BY <1>1, <1>2, <1>3
<1>5. CASE f.stop # "number"
  <2>1. f.items = q
    BY <1>1, <1>2, <1>5 DEF PartOf
  <2>2. QED BY <1>1, <1>3, <1>4, <1>5, <2>1 DEF FileRead
<1>6. CASE f.stop = "number"
  <2>1. PICK i : n # 0 /\ f.items = [q EXCEPT ![n].parent = i]
    BY <1>1, <1>2, <1>6 DEF PartOf
  <2>2. PICK x : x = [q[n] EXCEPT !.parent = i]
    OBVIOUS
  <2>3. PICK r : r = f.items /\ r = [q EXCEPT ![n] = x]
    BY <2>1, <2>2
  <2>4. n \in 1..n
    BY <1>3, <2>1
  <2>5. DOMAIN r = 1..n /\ r[n] = x /\ \A k \in 1..n : k # n => r[k] = e[k]
    BY <1>4, <2>3, <2>4
  <2>6. x.id = e[n].id
    <3>1. PICK w, W : WrittenAlong(s, W) /\ W = w[s.tree.firstChild[Root]] /\ Walking(s.tree, w)
                      /\ Preorder(s.tree, W)
      BY SavedInOrder
    <3>2. n \in 1..Len(W)
      BY <1>1, <1>3, <2>1, <3>1 DEF WrittenAlong
    <3>3. q[n] = EntryAt(s, W[n])
      BY <1>1, <1>4, <2>4, <3>1, <3>2 DEF WrittenAlong
    <3>4. QED BY <1>4, <2>2, <2>4, <3>3 DEF EntryAt
  <2>7. r \in Seq(S \cup {x})
    <3>1. r = [k \in 1..n |-> r[k]]
      BY <1>4, <2>3
    <3>2. \A k \in 1..n : r[k] \in S \cup {x}
      BY <1>4, <2>3, <2>4
    <3>3. QED BY <1>3, <3>1, <3>2, IsASeq
  <2>8. Len(r) = n
    BY <1>3, <2>5, <2>7
  <2>9. FileRead(f)
    BY <2>3, <2>7 DEF FileRead
  <2>10. \A k \in 1..n : r[k].id = e[k].id /\ (k # n => r[k] = e[k])
    BY <2>5, <2>6
  <2>11. QED BY <1>1, <1>3, <1>6, <2>1, <2>3, <2>5, <2>8, <2>9, <2>10
<1>7. QED BY <1>5, <1>6

\* What is in the file can be read, wherever the writing stopped.
LEMMA FileWritten ==
  ASSUME NEW s, Sound(s), NEW old
  PROVE  FileRead(Written(old, s)) /\ \A f \in Interrupted(old, s) : FileRead(f)
<1>1. PICK e, S : e = EntriesOf(s) /\ e \in Seq(S)
  BY EntriesWritten
<1>2. PICK w : w = Written(old, s) /\ w.items = e
  <2>1. PICK w : w = Written(old, s)
    OBVIOUS
  <2>2. w = [items |-> e, stop |-> "end"]
    BY <1>1, <2>1 DEF Written
  <2>3. w.items = e
    BY <2>2
  <2>4. QED BY <2>1, <2>3
<1>3. ASSUME NEW f \in Interrupted(old, s) PROVE FileRead(f)
  <2>1. PICK n : PartOf(f, s, n)
    BY <1>3, CutParts
  <2>2. QED BY <2>1, PartItems
<1>4. QED BY <1>1, <1>2, <1>3 DEF FileRead

---------------------------------------------------------------------------
(* The server.                                                             *)

\* What a client sends, by its type.  It never moves or changes the root.
LEMMA PacketKinds ==
  ASSUME NEW packet \in Packets
  PROVE  \/ packet.type = "PT_ITEM_CREATED" /\ packet.item \in Ids
         \/ packet.type = "PT_ITEM_MOVED" /\ packet.item # NoId
         \/ packet.type = "PT_ITEM_DELETED"
         \/ packet.type = "PT_ITEM_CHANGED"
         \/ packet.type = "PT_ITEM_DONE_CHANGED" /\ packet.done \in BOOLEAN
<1>1. PICK t, known, ids : /\ t = copy.tree /\ known = InTree(t)
                           /\ ids = {copy.id[x] : x \in known} \ {NoId}
  OBVIOUS
<1> DEFINE Without(x) == DetachFromTree(t, x)
           New(p) == [type : {"PT_ITEM_CREATED"}, item : Ids, parent : {copy.id[p]},
                      prev : Places(t, p)]
           Move(x, p) == [type : {"PT_ITEM_MOVED"}, item : {copy.id[x]} \cap ids,
                          parent : {copy.id[p]}, prev : Places(Without(x), p)]
<1>2. \/ \E p \in known : packet \in New(p)
      \/ \E x \in known : \E p \in InTree(Without(x)) : packet \in Move(x, p)
      \/ packet \in [type : {"PT_ITEM_DELETED"}, item : ids]
      \/ packet \in [type : {"PT_ITEM_CHANGED"}, item : ids, text : Text]
      \/ packet \in [type : {"PT_ITEM_DONE_CHANGED"}, item : ids, done : BOOLEAN]
  BY <1>1 DEF Packets
<1>3. ASSUME NEW p \in known, packet \in New(p)
      PROVE  packet.type = "PT_ITEM_CREATED" /\ packet.item \in Ids
  <2>1. PICK before, above : packet \in [type : {"PT_ITEM_CREATED"}, item : Ids, parent : above,
                                         prev : before]
    BY <1>3
  <2>2. QED BY <2>1
<1>4. ASSUME NEW x \in known, NEW p \in InTree(Without(x)), packet \in Move(x, p)
      PROVE  packet.type = "PT_ITEM_MOVED" /\ packet.item # NoId
  <2>1. PICK before, above, moved : /\ packet \in [type : {"PT_ITEM_MOVED"}, item : moved,
                                                   parent : above, prev : before]
                                    /\ moved = {copy.id[x]} \cap ids
    BY <1>4
  <2>2. packet.type = "PT_ITEM_MOVED" /\ packet.item \in ids
    BY <2>1
  <2>3. QED BY <1>1, <2>2
<1> HIDE DEF New, Move
<1>5. CASE packet \in [type : {"PT_ITEM_DELETED"}, item : ids]
  BY <1>5
<1>6. CASE packet \in [type : {"PT_ITEM_CHANGED"}, item : ids, text : Text]
  BY <1>6
<1>7. CASE packet \in [type : {"PT_ITEM_DONE_CHANGED"}, item : ids, done : BOOLEAN]
  BY <1>7
<1>8. QED BY <1>2, <1>3, <1>4, <1>5, <1>6, <1>7

\* The first document is a new one.
LEMMA StorageInit ==
  ASSUME Init
  PROVE  CopyInv
<1>1. PICK empty : empty = [items |-> <<>>, stop |-> "item"]
  OBVIOUS
<1>2. FileRead(empty)
  <2>1. <<>> \in Seq({})
    OBVIOUS
  <2>2. QED BY <1>1, <2>1 DEF FileRead
<1>3. PICK new : new = LoadData(empty).doc /\ Sound(new)
  BY <1>2, LoadDataSound
<1>4. \/ copy = new /\ file = Written(empty, new)
      \/ copy = Nil /\ file = empty
  BY <1>1, <1>3 DEF Init
<1>5. FileRead(Written(empty, new))
  BY <1>3, FileWritten
<1>6. QED BY <1>2, <1>3, <1>4, <1>5 DEF CopyInv

\* Every step leaves a sound document and a file that can be read.
LEMMA StorageKeeps ==
  ASSUME CopyInv, [Next]_vars
  PROVE  CopyInv'
<1>1. CASE Receive
  <2>1. PICK packet \in Packets :
          /\ packet.type = "PT_ITEM_CREATED" => ~(Node \subseteq copy.heap)
          /\ packet.type = "PT_ITEM_MOVED" => ~Astray(copy, packet)
          /\ copy' = Handle(copy, packet)
    BY <1>1 DEF Receive
  <2>2. copy # Nil /\ file' = file /\ Sound(copy)
    BY <1>1 DEF Receive, CopyInv
  <2>3. PICK s : s = copy /\ MoveSent(s, packet)
    BY <2>1, PacketKinds DEF MoveSent
  <2>4. Sound(Handle(s, packet))
    BY <2>1, <2>2, <2>3, HandleSound
  <2>5. QED BY <2>1, <2>2, <2>3, <2>4 DEF CopyInv
<1>2. CASE Save
  <2>1. PICK s, old : s = copy /\ old = file /\ Sound(s)
    BY <1>2 DEF Save, CopyInv
  <2>2. FileRead(Written(old, s))
    BY <2>1, FileWritten
  <2>3. copy' = copy /\ file' = Written(old, s)
    BY <1>2, <2>1 DEF Save
  <2>4. QED BY <2>2, <2>3 DEF CopyInv
<1>3. CASE StopWhileSaving
  <2>1. PICK s, old : s = copy /\ old = file /\ Sound(s)
    BY <1>3 DEF StopWhileSaving, CopyInv
  <2>2. \A f \in Interrupted(old, s) : FileRead(f)
    BY <2>1, FileWritten
  <2>3. copy' = Nil /\ file' \in Interrupted(old, s)
    BY <1>3, <2>1 DEF StopWhileSaving
  <2>4. FileRead(file')
    BY <2>2, <2>3
  <2>5. QED BY <2>3, <2>4 DEF CopyInv
<1>4. CASE Stop
  BY <1>4 DEF Stop, CopyInv
<1>5. CASE Start
  <2>1. PICK f : f = file /\ Sound(LoadData(f).doc)
    BY LoadDataSound DEF CopyInv
  <2>2. file' = file /\ (copy' = Nil \/ copy' = LoadData(f).doc)
    BY <1>5, <2>1 DEF Start
  <2>3. QED BY <2>1, <2>2 DEF CopyInv
<1>6. CASE UNCHANGED vars
  BY <1>6 DEF vars, CopyInv
<1>7. QED BY <1>1, <1>2, <1>3, <1>4, <1>5, <1>6 DEF Next

\* The server's document is sound whatever packets of its clients it handles,
\* creations, moves, removals and changes, wherever it stops and whatever part of
\* the file it reads back (TodoServer, XmlDB): its links agree, findItem and
\* saveNode come to an end in it, and nothing is linked that was not allocated.
THEOREM CopyStaysSound == Spec => []CopyInv
<1>1. Init => CopyInv
  BY StorageInit
<1>2. CopyInv /\ [Next]_vars => CopyInv'
  BY StorageKeeps
<1>3. QED BY <1>1, <1>2, PTL DEF Spec

\* The tree the server works on has each item in one place, as addAsChild and
\* detachFromTree leave it after any packets, a move being both, and as
\* addAsLastChild leaves it after loading.
THEOREM CopyAlwaysWellFormed == Spec => []CopyWellFormed
<1>1. CopyInv => CopyWellFormed
  BY AgreeingEnteredOnce DEF CopyInv, Sound, SoundIn, CopyWellFormed
<1>2. QED BY <1>1, CopyStaysSound, PTL

---------------------------------------------------------------------------
(* No id twice: in the tree, in the file, and in what is read of it.       *)

\* The ids in a sequence of items, and that they differ.
IdsOf(q) == {q[k].id : k \in DOMAIN q}
Differ(q) == \A j, k \in DOMAIN q : q[j].id = q[k].id => j = k

\* A file that can be read without throwing.
FileIds(f) == Differ(f.items) /\ IdsOf(f.items) \subseteq Nat \ {NoId}

\* The items of a document have different ids.
Distinct(s) == \A x, y \in InTree(s.tree) : s.id[x] \in Nat /\ (s.id[x] = s.id[y] => x = y)

\* What is written behind other items differs from them if its ids do.
LEMMA JoinedDiffer ==
  ASSUME NEW S, NEW a \in Seq(S), NEW b \in Seq(S), Differ(a), Differ(b),
         IdsOf(a) \cap IdsOf(b) = {}
  PROVE  Differ(a \o b) /\ IdsOf(a \o b) \subseteq IdsOf(a) \cup IdsOf(b)
<1>1. PICK c, m, n : c = a \o b /\ m = Len(a) /\ n = Len(b)
  OBVIOUS
<1>2. /\ m \in Nat /\ n \in Nat /\ DOMAIN a = 1..m /\ DOMAIN b = 1..n /\ DOMAIN c = 1..m + n
      /\ \A k \in 1..m + n : c[k] = IF k <= m THEN a[k] ELSE b[k - m]
  BY <1>1, LenProperties, ConcatProperties
<1>3. \A k \in 1..m + n : /\ k <= m => c[k] = a[k] /\ k \in DOMAIN a
                          /\ ~(k <= m) => c[k] = b[k - m] /\ k - m \in DOMAIN b
  BY <1>2
<1>4. \A j \in DOMAIN a, k \in DOMAIN b : a[j].id # b[k].id
  BY DEF IdsOf
<1>5. ASSUME NEW j \in 1..m + n, NEW k \in 1..m + n, c[j].id = c[k].id
      PROVE  j = k
  <2>1. CASE j <= m /\ k <= m
    BY <1>3, <1>5, <2>1 DEF Differ
  <2>2. CASE ~(j <= m) /\ ~(k <= m)
    <3>1. j - m = k - m
      BY <1>3, <1>5, <2>2 DEF Differ
    <3>2. QED BY <1>2, <3>1
  <2>3. CASE j <= m /\ ~(k <= m)
    BY <1>3, <1>4, <1>5, <2>3
  <2>4. CASE ~(j <= m) /\ k <= m
    BY <1>3, <1>4, <1>5, <2>4
  <2>5. QED BY <2>1, <2>2, <2>3, <2>4
<1>6. \A k \in 1..m + n : c[k].id \in IdsOf(a) \cup IdsOf(b)
  BY <1>3 DEF IdsOf
<1>7. Differ(c)
  BY <1>2, <1>5 DEF Differ
<1>8. IdsOf(c) \subseteq IdsOf(a) \cup IdsOf(b)
  <2>1. ASSUME NEW i \in IdsOf(c) PROVE i \in IdsOf(a) \cup IdsOf(b)
    <3>1. PICK k \in 1..m + n : i = c[k].id
      BY <1>2, <2>1 DEF IdsOf
    <3>2. QED BY <1>6, <3>1
  <2>2. QED BY <2>1
<1>9. QED BY <1>1, <1>7, <1>8

\* saveNode writes no id twice.
LEMMA EntriesDiffer ==
  ASSUME NEW s, Sound(s), Distinct(s)
  PROVE  Differ(EntriesOf(s)) /\ IdsOf(EntriesOf(s)) \subseteq Nat \ {NoId}
<1>1. PICK t, M, ids : t = s.tree /\ M = InTree(t) /\ ids = s.id
  OBVIOUS
<1>2. t \in Tree /\ LinksAgree(t) /\ Grounded(t)
  BY <1>1 DEF Sound, SoundIn
<1>3. M \in SUBSET Node /\ Root \in M /\ Onward(t, M)
  BY <1>1, <1>2, InTreeLeast, InTreeOnward
<1>4. \A x, y \in M : ids[x] \in Nat /\ (ids[x] = ids[y] => x = y)
  BY <1>1 DEF Distinct
<1>5. ids[Root] = NoId
  BY <1>1 DEF Sound
<1>6. PICK S : \E f \in [NodeOrNil -> Seq(S)] :
                 /\ f[Nil] = <<>> /\ EntriesOf(s) = f[s.tree.firstChild[Root]]
                 /\ \A x \in Node :
                      /\ <<EntryAt(s, x)>> \in Seq(S)
                      /\ f[x] = <<EntryAt(s, x)>> \o f[s.tree.firstChild[x]] \o f[s.tree.next[x]]
  BY EntriesFolded
<1>7. PICK f \in [NodeOrNil -> Seq(S)] :
         /\ f[Nil] = <<>> /\ EntriesOf(s) = f[t.firstChild[Root]]
         /\ \A x \in Node : /\ <<EntryAt(s, x)>> \in Seq(S)
                           /\ f[x] = <<EntryAt(s, x)>> \o f[t.firstChild[x]] \o f[t.next[x]]
  BY <1>1, <1>6
<1> DEFINE Fits(x) == Differ(f[x]) /\ IdsOf(f[x]) \subseteq {ids[y] : y \in Reached(t, x)}
<1>8. Fits(Nil)
  BY <1>7 DEF Differ, IdsOf
<1>9. ASSUME NEW x \in M, Fits(t.firstChild[x]), Fits(t.next[x])
      PROVE  Fits(x)
  <2>1. PICK a, b, e, A, B : /\ a = t.firstChild[x] /\ b = t.next[x] /\ e = EntryAt(s, x)
                             /\ A = Reached(t, a) /\ B = Reached(t, b)
    OBVIOUS
  <2>2. x \in Node /\ a \in NodeOrNil /\ b \in NodeOrNil /\ x # Nil
    BY <1>2, <1>3, <2>1, NodeAssumption DEF Tree, ItemOrNil, Item, NodeOrNil
  <2>3. x \notin A /\ x \notin B /\ A \cap B = {} /\ Reached(t, x) = {x} \cup A \cup B
    BY <1>2, <2>1, <2>2, ReachedApart, ReachedParts
  <2>4. A \subseteq M /\ B \subseteq M
    <3>1. {a} \ {Nil} \subseteq M /\ {b} \ {Nil} \subseteq M
      BY <1>3, <2>1 DEF Onward
    <3>2. QED BY <1>2, <1>3, <2>1, <2>2, <3>1, ReachedLeast
  <2>5. e.id = ids[x] /\ <<e>> \in Seq(S) /\ f[x] = <<e>> \o f[a] \o f[b]
    BY <1>1, <1>7, <2>1, <2>2 DEF EntryAt
  <2>6. PICK one, p, q : one = <<e>> /\ p = f[a] /\ q = f[b]
    OBVIOUS
  <2>7. p \in Seq(S) /\ q \in Seq(S) /\ one \in Seq(S)
    BY <1>7, <2>2, <2>5, <2>6
  <2>8. /\ Differ(p) /\ IdsOf(p) \subseteq {ids[y] : y \in A}
        /\ Differ(q) /\ IdsOf(q) \subseteq {ids[y] : y \in B}
    BY <1>9, <2>1, <2>6
  <2>9. Differ(one) /\ IdsOf(one) = {ids[x]}
    <3>1. DOMAIN one = {1} /\ one[1] = e
      BY <2>6
    <3>2. QED BY <2>5, <3>1 DEF Differ, IdsOf
  <2>10. \A y \in A : ids[y] # ids[x] /\ \A z \in B : ids[z] # ids[x] /\ ids[z] # ids[y]
    BY <1>4, <2>3, <2>4
  <2>11. \A z \in B : ids[z] # ids[x]
    BY <1>4, <2>3, <2>4
  <2>12. PICK r : r = one \o p
    OBVIOUS
  <2>13. r \in Seq(S) /\ Differ(r) /\ IdsOf(r) \subseteq {ids[x]} \cup {ids[y] : y \in A}
    <3>1. IdsOf(one) \cap IdsOf(p) = {}
      BY <2>8, <2>9, <2>10
    <3>2. Differ(r) /\ IdsOf(r) \subseteq IdsOf(one) \cup IdsOf(p)
      BY <2>7, <2>8, <2>9, <2>12, <3>1, JoinedDiffer
    <3>3. r \in Seq(S)
      BY <2>7, <2>12
    <3>4. QED BY <2>8, <2>9, <3>2, <3>3
  <2>14. Differ(r \o q) /\ IdsOf(r \o q) \subseteq IdsOf(r) \cup IdsOf(q)
    <3>1. IdsOf(r) \cap IdsOf(q) = {}
      BY <2>8, <2>10, <2>11, <2>13
    <3>2. QED BY <2>7, <2>8, <2>13, <3>1, JoinedDiffer
  <2>15. f[x] = r \o q
    BY <2>5, <2>6, <2>12
  <2>16. IdsOf(f[x]) \subseteq {ids[y] : y \in {x} \cup A \cup B}
    BY <2>8, <2>13, <2>14, <2>15
  <2>17. QED BY <2>3, <2>14, <2>15, <2>16
<1>10. \A x \in M : Fits(x)
  <2>1. PICK T \in SUBSET Node : T = {x \in M : ~Fits(x)}
    BY <1>3
  <2>2. T = {}
    <3>1. SUFFICES ASSUME T # {} PROVE FALSE
      OBVIOUS
    <3>2. PICK x \in T : t.firstChild[x] \notin T /\ t.next[x] \notin T
      BY <1>2, <3>1 DEF Grounded
    <3>3. x \in M /\ ~Fits(x)
      BY <2>1, <3>2
    <3>4. \A y \in {t.firstChild[x], t.next[x]} : y = Nil \/ y \in M
      BY <1>3, <3>3 DEF Onward
    <3>5. Fits(t.firstChild[x]) /\ Fits(t.next[x])
      <4> HIDE DEF Fits
      <4>1. QED BY <1>8, <2>1, <3>2, <3>4
    <3>6. QED
      <4> HIDE DEF Fits
      <4>1. QED BY <1>9, <3>3, <3>5
  <2>3. QED
    <3> HIDE DEF Fits
    <3>1. QED BY <2>1, <2>2
<1>11. PICK c : c = t.firstChild[Root]
  OBVIOUS
<1>12. c = Nil \/ c \in M
  BY <1>3, <1>11 DEF Onward
<1>13. Fits(c)
  <2> HIDE DEF Fits
  <2>1. QED BY <1>8, <1>10, <1>12
<1>14. Reached(t, c) \subseteq M \ {Root}
  <2>1. c \in NodeOrNil /\ Root \in Node
    BY <1>2, <1>11, NodeAssumption DEF Tree, ItemOrNil, Item, NodeOrNil
  <2>2. {c} \ {Nil} \subseteq M
    BY <1>12
  <2>3. Root \notin Reached(t, c)
    BY <1>2, <1>11, <2>1, ReachedApart
  <2>4. QED BY <1>2, <1>3, <2>1, <2>2, <2>3, ReachedLeast
<1>15. \A y \in M \ {Root} : ids[y] \in Nat \ {NoId}
  BY <1>3, <1>4, <1>5
<1>16. QED BY <1>7, <1>11, <1>13, <1>14, <1>15

\* Nothing that is written, to the end or not, names an id twice.
LEMMA WrittenIds ==
  ASSUME NEW s, Sound(s), Distinct(s), NEW old
  PROVE  FileIds(Written(old, s)) /\ \A f \in Interrupted(old, s) : FileIds(f)
<1>1. PICK e, S : e = EntriesOf(s) /\ e \in Seq(S)
  BY EntriesWritten
<1>2. PICK w : w = Written(old, s) /\ w.items = e
  <2>1. PICK w : w = Written(old, s)
    OBVIOUS
  <2>2. w = [items |-> e, stop |-> "end"]
    BY <1>1, <2>1 DEF Written
  <2>3. w.items = e
    BY <2>2
  <2>4. QED BY <2>1, <2>3
<1>3. Differ(e) /\ IdsOf(e) \subseteq Nat \ {NoId}
  BY <1>1, EntriesDiffer
<1>4. ASSUME NEW f \in Interrupted(old, s) PROVE FileIds(f)
  <2>1. PICK n : PartOf(f, s, n)
    BY <1>4, CutParts
  <2>2. PICK q : q = f.items
    OBVIOUS
  <2>3. /\ DOMAIN q = 1..n /\ DOMAIN e = 1..Len(e) /\ n <= Len(e) /\ Len(e) \in Nat /\ n \in Nat
        /\ \A k \in 1..n : q[k].id = e[k].id
    BY <1>1, <2>1, <2>2, PartItems
  <2>4. Differ(q)
    BY <1>3, <2>3 DEF Differ
  <2>5. IdsOf(q) \subseteq IdsOf(e)
    BY <2>3 DEF IdsOf
  <2>6. QED BY <1>3, <2>2, <2>4, <2>5 DEF FileIds
<1>5. QED BY <1>2, <1>3, <1>4 DEF FileIds

\* All the objects of a document, linked or not, have different ids, and one has
\* the largest.  They stay countable after there were none left to take.
Numbered(s) == LET H == Node \cap s.heap IN
  /\ \A x, y \in H : s.id[x] \in Nat /\ (s.id[x] = s.id[y] => x = y)
  /\ \E m \in H : \A x \in H : s.id[m] >= s.id[x]
  /\ Nil \in s.heap => Node \subseteq s.heap

\* The ids of a document come from the first k items of a file.
ReadFrom(s, f, k) == \A x \in Node \cap s.heap : x = Root \/ \E j \in 1..k : s.id[x] = f.items[j].id

\* The k items that were read did not make the server throw.
ReadSoFar(l, f, k) == /\ l.threw = FALSE /\ l.current \notin l.items
                      /\ Numbered(l.doc) /\ ReadFrom(l.doc, f, k)

\* The next one does not either when it enters the last one in the map.
LEMMA RegisterReads ==
  ASSUME NEW l, SoundLoad(l), NEW f, NEW k, ReadSoFar(l, f, k)
  PROVE  Register(l).threw = FALSE /\ Register(l).doc = l.doc
<1>1. CASE l.current = Nil
  BY <1>1 DEF Register, ReadSoFar
<1>2. CASE l.current # Nil
  <2>1. PICK d, c, H : d = l.doc /\ c = l.current /\ H = Node \cap l.doc.heap
    OBVIOUS
  <2>2. c \in H /\ l.items \subseteq H /\ c \notin l.items
    BY <1>2, <2>1 DEF SoundLoad, ReadSoFar
  <2>3. \A x, y \in H : d.id[x] = d.id[y] => x = y
    BY <2>1 DEF ReadSoFar, Numbered
  <2>4. ~\E x \in l.items : d.id[x] = d.id[c]
    BY <2>2, <2>3
  <2>5. Register(l) = [l EXCEPT !.items = @ \cup {c}]
    BY <1>2, <2>1, <2>4 DEF Register
  <2>6. l = [doc |-> l.doc, items |-> l.items, current |-> l.current, threw |-> l.threw]
    BY DEF SoundLoad
  <2>7. QED BY <2>5, <2>6 DEF ReadSoFar
<1>3. QED BY <1>1, <1>2

\* An object with an id no other has.
LEMMA NumberedNext ==
  ASSUME NEW s, Sound(s), Numbered(s), NEW n, n = NextFree(s.heap), NEW i \in Nat,
         \A x \in Node \cap s.heap : s.id[x] # i,
         NEW r, r.heap = s.heap \cup {n}, r.id = [s.id EXCEPT ![n] = i]
  PROVE  Numbered(r)
<1>1. PICK H, h, a, b : /\ H = Node \cap h /\ h = s.heap /\ a = s.id /\ b = r.id
  OBVIOUS
<1>2. /\ \A x, y \in H : a[x] \in Nat /\ (a[x] = a[y] => x = y)
      /\ Nil \in h => Node \subseteq h
      /\ DOMAIN a = Node /\ Root \in h
  BY <1>1 DEF Numbered, Sound
<1>3. PICK m \in H : \A x \in H : a[m] >= a[x]
  BY <1>1 DEF Numbered
<1>4. b = [a EXCEPT ![n] = i] /\ \A x \in H : a[x] # i
  BY <1>1
<1>5. CASE n = Nil
  <2>1. \A x \in Node : b[x] = a[x]
    BY <1>2, <1>4, <1>5, NodeAssumption
  <2>2. Node \subseteq h
    <3>1. NextFree(h) = Nil /\ Root \in h
      BY <1>1, <1>2, <1>5
    <3>2. \/ Node \subseteq h
          \/ NextFree(h) \in Item \ h
      BY <3>1, NextFreeFacts
    <3>3. QED BY <3>1, <3>2, NodeAssumption DEF Item
  <2>3. Node \cap r.heap = H /\ Node \subseteq r.heap
    BY <1>1, <1>5, <2>2, NodeAssumption
  <2>4. \A x, y \in H : b[x] \in Nat /\ (b[x] = b[y] => x = y)
    BY <1>1, <1>2, <2>1
  <2>5. \A x \in H : b[m] >= b[x]
    BY <1>1, <1>3, <2>1
  <2>6. QED BY <1>1, <2>3, <2>4, <2>5 DEF Numbered
<1>6. CASE n \in Item \ h
  <2>1. PICK G : G = Node \cap r.heap
    OBVIOUS
  <2>2. G = H \cup {n} /\ n \notin H /\ n \in Node
    BY <1>1, <1>6, <2>1 DEF Item
  <2>3. b[n] = i /\ \A x \in H : b[x] = a[x]
    BY <1>1, <1>2, <1>4, <2>2
  <2>4. \A x, y \in G : b[x] \in Nat /\ (b[x] = b[y] => x = y)
    BY <1>2, <1>4, <2>2, <2>3
  <2>5. \E v \in G : \A x \in G : b[v] >= b[x]
    <3>1. CASE i >= a[m]
      <4>1. \A x \in H : i >= a[x]
        BY <1>2, <1>3, <3>1
      <4>2. QED BY <2>2, <2>3, <4>1
    <3>2. CASE ~(i >= a[m])
      BY <1>2, <1>3, <2>2, <2>3, <3>2
    <3>3. QED BY <3>1, <3>2
  <2>6. Nil \in r.heap => Node \subseteq r.heap
    BY <1>1, <1>2, <1>6, NodeAssumption DEF Item
  <2>7. QED BY <1>1, <2>1, <2>4, <2>5, <2>6 DEF Numbered
<1>7. QED BY <1>1, <1>2, <1>5, <1>6, NextFreeFacts

\* What is read next has an id of its own.
LEMMA ReadItemReads ==
  ASSUME NEW l, SoundLoad(l), l.threw = FALSE, NEW f, FileIds(f), NEW k \in Nat, NEW whole,
         DOMAIN f.items = 1..Len(f.items), Len(f.items) \in Nat, k + 1 <= Len(f.items),
         Numbered(l.doc), ReadFrom(l.doc, f, k)
  PROVE  ReadSoFar(ReadItem(l, f.items[k + 1], whole), f, k + 1)
<1>1. PICK s, h, n, e : s = l.doc /\ h = s.heap /\ n = NextFree(h) /\ e = f.items[k + 1]
  OBVIOUS
<1>2. PICK t, x, d, j : /\ ReadItem(l, e, whole)
                           = [l EXCEPT !.current = n,
                                       !.doc = [tree |-> t, text |-> x, done |-> d,
                                                heap |-> h \cup {n}, id |-> j]]
                        /\ j = [s.id EXCEPT ![n] = e.id]
  BY <1>1 DEF ReadItem
<1>3. PICK r : r = [tree |-> t, text |-> x, done |-> d, heap |-> h \cup {n}, id |-> j]
  OBVIOUS
<1>4. /\ r.heap = h \cup {n} /\ r.id = [s.id EXCEPT ![n] = e.id]
  BY <1>2, <1>3
<1>5. PICK u : u = ReadItem(l, e, whole) /\ u.threw = FALSE /\ u.current = n
               /\ u.items = l.items /\ u.doc = r
  <2>1. PICK u : u = ReadItem(l, e, whole)
    OBVIOUS
  <2>2. u = [l EXCEPT !.current = n, !.doc = r]
    BY <1>2, <1>3, <2>1
  <2>3. QED BY <2>1, <2>2 DEF SoundLoad
<1>6. Sound(s) /\ l.items \subseteq Node \cap h /\ Root \in h /\ DOMAIN s.id = Node
      /\ s.id[Root] = NoId
  BY <1>1 DEF SoundLoad, Sound
<1>7. e.id \in Nat \ {NoId} /\ \A i \in 1..k : f.items[i].id # e.id
  <2>1. k + 1 \in DOMAIN f.items
    OBVIOUS
  <2>2. \A i \in 1..k : i \in DOMAIN f.items /\ i # k + 1
    OBVIOUS
  <2>3. e.id \in IdsOf(f.items)
    BY <1>1, <2>1 DEF IdsOf
  <2>4. \A i \in 1..k : f.items[i].id # e.id
    BY <1>1, <2>1, <2>2 DEF FileIds, Differ
  <2>5. QED BY <2>3, <2>4 DEF FileIds
<1>8. \A y \in Node \cap h : s.id[y] # e.id
  BY <1>1, <1>6, <1>7 DEF ReadFrom
<1>9. Numbered(r)
  BY <1>1, <1>4, <1>6, <1>7, <1>8, NumberedNext
<1>10. n = Nil \/ n \in Item \ h
  BY <1>1, <1>6, NextFreeFacts
<1>11. n \notin l.items
  BY <1>6, <1>10, NodeAssumption
<1>12. ASSUME NEW y \in Node \cap r.heap, y # Root
       PROVE  \E i \in 1..k + 1 : r.id[y] = f.items[i].id
  <2>1. CASE y = n
    <3>1. r.id[y] = e.id
      BY <1>4, <1>6, <1>12, <2>1
    <3>2. QED BY <1>1, <3>1, k + 1 \in 1..k + 1
  <2>2. CASE y # n
    <3>1. y \in Node \cap h /\ r.id[y] = s.id[y]
      BY <1>4, <1>6, <1>12, <2>2
    <3>2. PICK i \in 1..k : s.id[y] = f.items[i].id
      BY <1>1, <1>12, <3>1 DEF ReadFrom
    <3>3. i \in 1..k + 1
      OBVIOUS
    <3>4. QED BY <3>1, <3>2, <3>3
  <2>3. QED BY <2>1, <2>2
<1>13. ReadFrom(r, f, k + 1)
  BY <1>12 DEF ReadFrom
<1>14. QED BY <1>1, <1>5, <1>9, <1>11, <1>13 DEF ReadSoFar

\* loadTree does not throw when the ids in the file differ.
LEMMA LoadTreeReads ==
  ASSUME NEW f, FileRead(f), FileIds(f)
  PROVE  LoadTree(f).threw = FALSE /\ Numbered(LoadTree(f).doc)
<1>1. PICK n \in Nat : \E a : /\ n = Len(f.items) /\ DOMAIN f.items = 1..n /\ LoadTree(f) = a[n]
                              /\ \A k \in 0..n : a[k] = LoadStep(f, a, k)
  BY LoadUnfolded
<1>2. PICK a : /\ n = Len(f.items) /\ DOMAIN f.items = 1..n /\ LoadTree(f) = a[n]
               /\ \A k \in 0..n : a[k] = LoadStep(f, a, k)
  BY <1>1
<1>3. \A k \in 0..n : a[k] = LoadStep(f, a, k)
  BY <1>2
<1> DEFINE T == {k \in Nat : k <= n => SoundLoad(a[k]) /\ ReadSoFar(a[k], f, k)}
<1>4. 0 \in T
  <2>1. PICK l : l = [doc |-> NewCopy, items |-> {Root}, current |-> Nil, threw |-> FALSE]
    OBVIOUS
  <2>2. a[0] = l
    <3>1. 0 \in 0..n
      OBVIOUS
    <3>2. LoadStep(f, a, 0) = l
      BY <2>1 DEF LoadStep
    <3>3. QED BY <1>3, <3>1, <3>2
  <2>3. PICK s : s = NewCopy /\ s.heap = {Root} /\ s.id = [x \in Node |-> NoId]
    <3>1. PICK x, d, i : /\ x = [y \in Item |-> EmptyText] /\ d = [y \in Item |-> FALSE]
                         /\ i = [y \in Node |-> NoId]
      OBVIOUS
    <3>2. PICK s : s = [tree |-> EmptyTree, text |-> x, heap |-> {Root}, done |-> d, id |-> i]
      OBVIOUS
    <3>3. s = NewCopy /\ s.heap = {Root} /\ s.id = i
      BY <3>1, <3>2 DEF NewCopy
    <3>4. QED BY <3>1, <3>3
  <2>4. {Root} \subseteq Node \cap s.heap
    BY <2>3, NodeAssumption
  <2>5. SoundLoad(l)
    BY <2>1, <2>3, <2>4, NewSound DEF SoundLoad
  <2>6. Node \cap s.heap = {Root} /\ s.id[Root] = 0 /\ Nil \notin s.heap
    BY <2>3, NodeAssumption DEF NoId
  <2>7. Numbered(s)
    BY <2>6 DEF Numbered
  <2>8. ReadFrom(s, f, 0)
    BY <2>6 DEF ReadFrom
  <2>9. l.threw = FALSE /\ l.current \notin l.items /\ l.doc = s
    BY <2>1, <2>3, NodeAssumption
  <2>10. QED
    BY <2>2, <2>5, <2>7, <2>8, <2>9 DEF ReadSoFar
<1>5. ASSUME NEW k \in Nat, k \in T PROVE k + 1 \in T
  <2> SUFFICES ASSUME k + 1 <= n PROVE SoundLoad(a[k + 1]) /\ ReadSoFar(a[k + 1], f, k + 1)
    OBVIOUS
  <2>1. k + 1 \in 0..n /\ k + 1 # 0 /\ (k + 1) - 1 = k /\ k <= n
    BY <1>1
  <2>2. SoundLoad(a[k]) /\ ReadSoFar(a[k], f, k)
    BY <1>5, <2>1
  <2>3. PICK l : /\ l = Register(a[k]) /\ SoundLoad(l)
                 /\ l.threw = FALSE /\ l.doc = a[k].doc
    BY <2>2, RegisterSound, RegisterReads
  <2>4. PICK e, w : /\ e = f.items[k + 1]
                    /\ w = IF k + 1 = Len(f.items) /\ f.stop # "end" THEN f.stop ELSE "item"
    OBVIOUS
  <2>5. a[k + 1] = ReadItem(l, e, w)
    BY <1>3, <2>1, <2>3, <2>4 DEF LoadStep
  <2>6. SoundLoad(ReadItem(l, e, w))
    BY <2>3, ReadItemSound
  <2>7. Numbered(l.doc) /\ ReadFrom(l.doc, f, k)
    BY <2>2, <2>3 DEF ReadSoFar
  <2>8. ReadSoFar(ReadItem(l, e, w), f, k + 1)
    <3>1. DOMAIN f.items = 1..Len(f.items) /\ Len(f.items) \in Nat /\ k + 1 <= Len(f.items)
      BY <1>1, <1>2
    <3>2. QED BY <2>3, <2>4, <2>7, <3>1, ReadItemReads
  <2>9. QED BY <2>5, <2>6, <2>8
<1>6. Nat \subseteq T
  <2> HIDE DEF T
  <2>1. QED BY <1>4, <1>5, SetInduction
<1>7. ReadSoFar(a[n], f, n)
  BY <1>1, <1>6
<1>8. QED BY <1>2, <1>7 DEF ReadSoFar

\* Then its items have different ids.
LEMMA NumberedDistinct ==
  ASSUME NEW s, Sound(s), Numbered(s)
  PROVE  Distinct(s)
<1>1. PICK t, h, H : t = s.tree /\ h = s.heap /\ H = Node \cap h /\ SoundIn(t, h) /\ Root \in h
  BY DEF Sound
<1>2. \A x \in H : {t.firstChild[x], t.next[x]} \ {Nil} \subseteq H
  BY <1>1, LinkedAllocated DEF Item
<1>3. Root \in H /\ H \in SUBSET Node /\ t \in Tree
  BY <1>1, NodeAssumption DEF SoundIn
<1>4. ClosedBelow(t, H)
  BY <1>2, <1>3 DEF ClosedBelow
<1>5. InTree(t) \subseteq H
  BY <1>3, <1>4, InTreeLeast
<1>6. QED BY <1>1, <1>5 DEF Distinct, Numbered

\* A new item of the server gets an id beyond all the others.
LEMMA NewChildNumbered ==
  ASSUME NEW s, Sound(s), Numbered(s)
  PROVE  Numbered(CreateNewChild(s))
<1>1. PICK h, n, i, S : h = s.heap /\ n = NextFree(h) /\ i = Max(S) + 1 /\ S = {s.id[x] : x \in h}
  OBVIOUS
<1>2. Root \in h /\ h \subseteq NodeOrNil /\ DOMAIN s.id = Node
  BY <1>1 DEF Sound
<1>3. PICK r : r = CreateNewChild(s)
  OBVIOUS
<1>4. r.heap = h \cup {n} /\ r.id = [s.id EXCEPT ![n] = i]
  BY <1>1, <1>3 DEF CreateNewChild, Sound
<1>5. CASE Node \subseteq h
  <2>1. n = Nil
    BY <1>1, <1>2, <1>5, NextFreeFacts
  <2>2. r.heap \cap Node = h \cap Node /\ Node \subseteq r.heap
    BY <1>4, <1>5, <2>1, NodeAssumption
  <2>3. \A x \in Node : r.id[x] = s.id[x]
    BY <1>2, <1>4, <2>1, NodeAssumption
  <2>4. PICK H : H = Node \cap h
    OBVIOUS
  <2>5. \A x, y \in H : r.id[x] \in Nat /\ (r.id[x] = r.id[y] => x = y)
    BY <1>1, <2>3, <2>4 DEF Numbered
  <2>6. \E m \in H : \A x \in H : r.id[m] >= r.id[x]
    BY <1>1, <2>3, <2>4 DEF Numbered
  <2>7. QED BY <1>3, <2>2, <2>4, <2>5, <2>6 DEF Numbered
<1>6. CASE ~(Node \subseteq h)
  <2>1. h \subseteq Node
    BY <1>1, <1>2, <1>6 DEF Numbered, NodeOrNil
  <2>2. PICK H : H = Node \cap h /\ H = h
    BY <2>1
  <2>3. PICK m \in H : \A x \in H : s.id[m] >= s.id[x]
    BY <1>1, <2>2 DEF Numbered
  <2>4. \A x \in H : s.id[x] \in Nat
    BY <1>1, <2>2 DEF Numbered
  <2>5. s.id[m] \in S /\ \A y \in S : s.id[m] >= y
    BY <1>1, <2>2, <2>3
  <2>6. Max(S) \in S /\ \A y \in S : Max(S) >= y
    BY <2>5 DEF Max
  <2>7. PICK v \in Nat : v = Max(S) /\ i = v + 1
    BY <1>1, <2>2, <2>4, <2>6
  <2>8. i \in Nat /\ \A x \in H : s.id[x] # i
    <3>1. \A x \in H : s.id[x] \in S /\ v >= s.id[x]
      BY <1>1, <2>2, <2>6, <2>7
    <3>2. QED BY <2>4, <2>7, <3>1
  <2>9. \A x \in Node \cap s.heap : s.id[x] # i
    BY <1>1, <2>2, <2>8
  <2>10. r.heap = s.heap \cup {n} /\ n = NextFree(s.heap)
    BY <1>1, <1>4
  <2>11. QED BY <1>3, <1>4, <2>8, <2>9, <2>10, NumberedNext
<1>7. QED BY <1>5, <1>6

\* The server starts with a file whose ids differ, and with different ids.
LEMMA LoadDataReads ==
  ASSUME NEW f, FileRead(f), FileIds(f)
  PROVE  LoadData(f).threw = FALSE /\ Distinct(LoadData(f).doc)
<1>1. PICK l, s : /\ l = LoadTree(f) /\ s = l.doc /\ l.threw = FALSE
                  /\ Sound(s) /\ Numbered(s) /\ SoundLoad(l)
  BY LoadTreeSound, LoadTreeReads DEF SoundLoad
<1>2. CASE s.tree.firstChild[Root] # Nil
  <2>1. LoadData(f) = l
    BY <1>1, <1>2 DEF LoadData
  <2>2. QED BY <1>1, <2>1, NumberedDistinct
<1>3. CASE s.tree.firstChild[Root] = Nil
  <2>1. PICK c : c = CreateNewChild(s) /\ Sound(c) /\ Numbered(c)
    BY <1>1, <1>3, NewChildSound, NewChildNumbered
  <2>2. PICK d : d = LoadData(f) /\ d = [l EXCEPT !.doc = c]
    BY <1>1, <1>3, <2>1 DEF LoadData
  <2>3. d.threw = FALSE /\ d.doc = c
    BY <1>1, <2>2 DEF SoundLoad
  <2>4. QED BY <2>1, <2>2, <2>3, NumberedDistinct
<1>4. QED BY <1>2, <1>3

\* Of what is handled only a creation with an id in use gives an id twice: the
\* item is found by none of the items the tree has.
LEMMA CreateDistinct ==
  ASSUME NEW s, Sound(s), Distinct(s), ~(Node \subseteq s.heap), NEW packet, packet.item \in Nat,
         Found(s, packet.item) = Nil
  PROVE  Distinct(CreateItem(s, packet))
<1>1. PICK parent, n, a : /\ parent = Found(s, packet.parent) /\ n = NextFree(s.heap)
                          /\ a = PrevFound(s, packet)
  OBVIOUS
<1>2. CASE parent = Nil
  BY <1>1, <1>2 DEF CreateItem
<1>3. CASE parent # Nil
  <2>1. PICK t, M, h : /\ t = s.tree /\ M = InTree(t) /\ h = s.heap /\ SoundIn(t, h) /\ Root \in h
                       /\ t \in Tree /\ LinksAgree(t) /\ Grounded(t)
    BY DEF Sound, SoundIn
  <2>2. M \in SUBSET Node /\ Root \in M /\ \A x \in M : {t.firstChild[x], t.next[x]} \ {Nil} \subseteq M
    BY <2>1, InTreeLeast, InTreeOnward DEF Onward
  <2>3. M \subseteq h
    <3>1. PICK H : H = Node \cap h
      OBVIOUS
    <3>2. \A x \in H : {t.firstChild[x], t.next[x]} \ {Nil} \subseteq H
      BY <2>1, <3>1, LinkedAllocated DEF Item
    <3>3. ClosedBelow(t, H) /\ H \in SUBSET Node
      BY <2>1, <3>1, <3>2, NodeAssumption DEF ClosedBelow
    <3>4. QED BY <2>1, <3>1, <3>3, InTreeLeast
  <2>4. n \in Item \ h /\ n \notin M
    BY <1>1, <2>1, <2>3, NextFreeFacts
  <2>5. \A i : FindItem(t, s.id, i) \in M \cup {Nil}
    BY <2>1, <2>2, FindItemThere
  <2>6. parent \in M /\ parent \in Node
    BY <1>1, <1>3, <2>1, <2>2, <2>5 DEF Found
  <2>7. a \in M \cup {Nil} /\ a \in ItemOrNil
    <3>1. Found(s, packet.prev) \in M \cup {Nil}
      BY <2>1, <2>5 DEF Found
    <3>2. Found(s, packet.prev) = Root => packet.prev = NoId
      BY FoundThere
    <3>3. QED BY <1>1, <2>2, <3>1, <3>2, NodeAssumption DEF PrevFound, ItemOrNil, Item
  <2>8. \A x \in M : s.id[x] # packet.item
    <3>1. FindItem(t, s.id, packet.item) = Nil
      BY <2>1 DEF Found
    <3>2. QED BY <2>1, <2>2, <3>1, FindItemThere
  <2>9. PICK born : /\ born = Born(t, n, parent) /\ born \in Tree /\ LinksAgree(born)
                    /\ born.firstChild[n] = Nil /\ InTree(born) = M
    <3>1. ChainsEnd(t) /\ Detached(t, n)
      BY <2>1, <2>4, NewDetached, GroundedChains
    <3>2. PICK r : r = Reparented(t, n, parent)
      OBVIOUS
    <3>3. LinksAgree(r) /\ InTree(r) = M
      BY <2>1, <2>4, <2>6, <3>1, <3>2, ReparentedKeeps
    <3>4. Born(t, n, parent) = r
      BY <2>1, <3>2 DEF Born, Reparented, Tree
    <3>5. r \in Tree /\ r.firstChild[n] = Nil
      <4>1. PICK q : q = Born(t, n, parent) /\ SoundIn(q, h \cup {n}) /\ q.firstChild[n] = Nil
        BY <2>1, <2>4, <2>6, BornSound
      <4>2. QED BY <3>4, <4>1 DEF SoundIn
    <3>6. QED BY <3>3, <3>4, <3>5
  <2>10. PICK u : u = ServerAddAsChild(born, parent, n, a) /\ InTree(u) \subseteq M \cup {n}
    <3>1. CASE WrongAfter(born, parent, a)
      BY <2>9, <3>1 DEF ServerAddAsChild
    <3>2. CASE ~WrongAfter(born, parent, a)
      <4>1. InTree(InsertAfter(born, parent, n, a)) \subseteq InTree(born) \cup {n}
        BY <2>4, <2>6, <2>7, <2>9, InsertReached
      <4>2. QED BY <2>9, <3>2, <4>1 DEF ServerAddAsChild
    <3>3. QED BY <3>1, <3>2
  <2>11. PICK x, d, g, j : /\ x = [s.text EXCEPT ![n] = EmptyText]
                           /\ d = [s.done EXCEPT ![n] = FALSE] /\ g = h \cup {n}
                           /\ j = [s.id EXCEPT ![n] = packet.item]
    OBVIOUS
  <2>12. PICK c : c = CreateItem(s, packet)
                  /\ c = [tree |-> u, text |-> x, done |-> d, heap |-> g, id |-> j]
    BY <1>1, <1>3, <2>1, <2>9, <2>10, <2>11 DEF CreateItem, Born
  <2>13. c.tree = u /\ c.id = j
    BY <2>12
  <2>14. j[n] = packet.item /\ \A y \in M : j[y] = s.id[y]
    BY <2>2, <2>4, <2>11 DEF Sound, Item
  <2>15. \A y, z \in M : s.id[y] \in Nat /\ (s.id[y] = s.id[z] => y = z)
    BY <2>1 DEF Distinct
  <2>16. \A y, z \in M \cup {n} : j[y] \in Nat /\ (j[y] = j[z] => y = z)
    BY <2>8, <2>14, <2>15
  <2>17. QED BY <2>10, <2>12, <2>13, <2>16 DEF Distinct
<1>4. QED BY <1>2, <1>3

\* Whatever is handled, but for such a creation.
LEMMA HandleDistinct ==
  ASSUME NEW s, Sound(s), Distinct(s), NEW packet, MoveSent(s, packet),
         packet.type = "PT_ITEM_CREATED" => /\ ~(Node \subseteq s.heap) /\ packet.item \in Nat
                                            /\ Found(s, packet.item) = Nil
  PROVE  Distinct(Handle(s, packet))
<1>1. CASE packet.type = "PT_ITEM_CREATED"
  BY <1>1, CreateDistinct DEF Handle
<1>2. CASE packet.type = "PT_ITEM_DELETED"
  <2>1. PICK i, t : i = Found(s, packet.item) /\ t = s.tree
    OBVIOUS
  <2>2. CASE i = Nil
    BY <1>2, <2>1, <2>2 DEF Handle, RemoveItemById
  <2>3. CASE i # Nil
    <3>1. t \in Tree /\ LinksAgree(t) /\ Grounded(t)
      BY <2>1 DEF Sound, SoundIn
    <3>2. i \in InTree(t) /\ i \in Node
      <4>1. PICK M \in SUBSET Node : M = InTree(t) /\ Root \in M
        BY <3>1, InTreeLeast
      <4>2. \A x \in M : {t.firstChild[x], t.next[x]} \ {Nil} \subseteq M
        BY <3>1, <4>1, InTreeOnward DEF Onward
      <4>3. FindItem(t, s.id, packet.item) \in M \cup {Nil}
        BY <3>1, <4>1, <4>2, FindItemThere
      <4>4. QED BY <2>1, <2>3, <4>1, <4>3 DEF Found
    <3>3. PICK u : u = DetachFromTree(t, i) /\ InTree(u) \subseteq InTree(t)
      <4>1. CASE i = Root
        BY <3>1, <4>1, DetachRoot
      <4>2. CASE i # Root
        BY <3>1, <3>2, <4>2, DetachReached DEF Item
      <4>3. QED BY <4>1, <4>2
    <3>4. PICK c : c = Handle(s, packet) /\ c = [s EXCEPT !.tree = u]
      BY <1>2, <2>1, <2>3, <3>3 DEF Handle, RemoveItemById
    <3>5. c.tree = u /\ c.id = s.id
      BY <3>4 DEF Sound
    <3>6. QED BY <2>1, <3>3, <3>4, <3>5 DEF Distinct
  <2>4. QED BY <2>2, <2>3
<1>3. CASE packet.type = "PT_ITEM_CHANGED"
  <2>1. PICK x, c : c = Handle(s, packet) /\ (c = s \/ c = [s EXCEPT !.text = x])
    BY <1>3 DEF Handle, SetText
  <2>2. c.tree = s.tree /\ c.id = s.id
    BY <2>1 DEF Sound
  <2>3. QED BY <2>1, <2>2 DEF Distinct
<1>4. CASE packet.type = "PT_ITEM_DONE_CHANGED"
  <2>1. PICK x, c : c = Handle(s, packet) /\ (c = s \/ c = [s EXCEPT !.done = x])
    BY <1>4 DEF Handle, SetDone
  <2>2. c.tree = s.tree /\ c.id = s.id
    BY <2>1 DEF Sound
  <2>3. QED BY <2>1, <2>2 DEF Distinct
<1>5. CASE packet.type = "PT_ITEM_MOVED"
  <2>1. PICK u : MoveItem(s, packet) = [s EXCEPT !.tree = u] /\ InTree(u) \subseteq InTree(s.tree)
    BY <1>5, MoveDone DEF MoveSent
  <2>2. PICK c : c = Handle(s, packet) /\ c = [s EXCEPT !.tree = u]
    BY <1>5, <2>1 DEF Handle
  <2>3. c.tree = u /\ c.id = s.id
    BY <2>2 DEF Sound
  <2>4. QED BY <2>1, <2>2, <2>3 DEF Distinct
<1>6. CASE packet.type \notin {"PT_ITEM_CREATED", "PT_ITEM_DELETED", "PT_ITEM_CHANGED",
                               "PT_ITEM_MOVED", "PT_ITEM_DONE_CHANGED"}
  BY <1>6 DEF Handle
<1>7. QED BY <1>1, <1>2, <1>3, <1>4, <1>5, <1>6

\* Until an item was created with an id in use, no id is twice in the document
\* or in the file, and the server has read whatever there was.
StartInv == ~collided => /\ ~refused /\ FileIds(file)
                         /\ copy # Nil => Distinct(copy)

\* The first document, and its file.
LEMMA StartInit ==
  ASSUME Init
  PROVE  StartInv
<1>1. PICK empty : empty = [items |-> <<>>, stop |-> "item"]
  OBVIOUS
<1>2. FileRead(empty) /\ FileIds(empty)
  <2>1. <<>> \in Seq({}) /\ DOMAIN <<>> = {} /\ empty.items = <<>>
    BY <1>1
  <2>2. FileRead(empty)
    BY <2>1 DEF FileRead
  <2>3. QED BY <2>1, <2>2 DEF FileIds, Differ, IdsOf
<1>3. PICK new : new = LoadData(empty).doc /\ Sound(new) /\ Distinct(new)
  BY <1>2, LoadDataSound, LoadDataReads
<1>4. /\ \/ copy = new /\ file = Written(empty, new)
         \/ copy = Nil /\ file = empty
      /\ refused = FALSE
  BY <1>1, <1>3 DEF Init
<1>5. FileIds(Written(empty, new))
  BY <1>3, WrittenIds
<1>6. QED BY <1>2, <1>3, <1>4, <1>5 DEF StartInv

\* Every step keeps the ids apart, or creates an item with an id in use.
LEMMA StartKeeps ==
  ASSUME CopyInv, StartInv, [Next]_vars
  PROVE  StartInv'
<1>1. CASE Receive
  <2>1. PICK packet \in Packets :
          /\ packet.type = "PT_ITEM_CREATED" => ~(Node \subseteq copy.heap)
          /\ packet.type = "PT_ITEM_MOVED" => ~Astray(copy, packet)
          /\ copy' = Handle(copy, packet)
          /\ collided' = (collided \/ (/\ packet.type = "PT_ITEM_CREATED"
                                       /\ Found(copy, packet.item) # Nil))
    BY <1>1 DEF Receive
  <2>2. copy # Nil /\ file' = file /\ refused' = refused /\ Sound(copy)
    BY <1>1 DEF Receive, CopyInv
  <2>3. SUFFICES ASSUME ~collided' PROVE ~refused' /\ FileIds(file') /\ Distinct(copy')
    BY DEF StartInv
  <2>4. ~collided /\ (packet.type = "PT_ITEM_CREATED" => Found(copy, packet.item) = Nil)
    BY <2>1, <2>3
  <2>5. ~refused /\ FileIds(file) /\ Distinct(copy)
    BY <2>2, <2>4 DEF StartInv
  <2>6. packet.type = "PT_ITEM_CREATED" => packet.item \in Nat
    BY PacketKinds, IdsAssumption
  <2>7. PICK s : s = copy /\ MoveSent(s, packet)
    BY <2>1, PacketKinds DEF MoveSent
  <2>8. Distinct(Handle(s, packet))
    BY <2>1, <2>2, <2>4, <2>5, <2>6, <2>7, HandleDistinct
  <2>9. QED BY <2>1, <2>2, <2>5, <2>7, <2>8
<1>2. CASE Save
  <2>1. PICK s, old : s = copy /\ old = file /\ Sound(s) /\ s # Nil
    BY <1>2 DEF Save, CopyInv
  <2>2. copy' = copy /\ file' = Written(old, s) /\ refused' = refused /\ collided' = collided
    BY <1>2, <2>1 DEF Save
  <2>3. Distinct(s) => FileIds(Written(old, s))
    BY <2>1, WrittenIds
  <2>4. QED BY <2>1, <2>2, <2>3 DEF StartInv
<1>3. CASE StopWhileSaving
  <2>1. PICK s, old : s = copy /\ old = file /\ Sound(s) /\ s # Nil
    BY <1>3 DEF StopWhileSaving, CopyInv
  <2>2. /\ copy' = Nil /\ file' \in Interrupted(old, s) /\ refused' = refused
        /\ collided' = collided
    BY <1>3, <2>1 DEF StopWhileSaving
  <2>3. Distinct(s) => \A f \in Interrupted(old, s) : FileIds(f)
    BY <2>1, WrittenIds
  <2>4. Distinct(s) => FileIds(file')
    BY <2>2, <2>3
  <2>5. QED BY <2>1, <2>2, <2>4 DEF StartInv
<1>4. CASE Stop
  BY <1>4 DEF Stop, StartInv
<1>5. CASE Start
  <2>1. PICK f, l : f = file /\ l = LoadData(f) /\ FileRead(f)
    BY DEF CopyInv
  <2>2. /\ file' = f /\ collided' = collided /\ refused' = l.threw
        /\ copy' = IF l.threw THEN Nil ELSE l.doc
    BY <1>5, <2>1 DEF Start
  <2>3. FileIds(f) => l.threw = FALSE /\ Distinct(l.doc)
    BY <2>1, LoadDataReads
  <2>4. QED BY <2>1, <2>2, <2>3 DEF StartInv
<1>6. CASE UNCHANGED vars
  BY <1>6 DEF vars, StartInv
<1>7. QED BY <1>1, <1>2, <1>3, <1>4, <1>5, <1>6 DEF Next

\* The server starts on every file it wrote, to the end or not, unless a client
\* created an item with an id in use ("Error: dublicate id!!" in loadTree).
THEOREM AlwaysStartsAgain == Spec => []StartsAgain
<1>1. Init => CopyInv /\ StartInv
  BY StorageInit, StartInit
<1>2. (CopyInv /\ StartInv) /\ [Next]_vars => (CopyInv /\ StartInv)'
  BY StorageKeeps, StartKeeps
<1>3. CopyInv /\ StartInv => StartsAgain
  BY DEF StartInv, StartsAgain
<1>4. QED BY <1>1, <1>2, <1>3, PTL DEF Spec

---------------------------------------------------------------------------
(* What is read is a copy of what was written.                             *)

\* As long as an item is left to read, there is an object left.
LEMMA RoomLeft ==
  ASSUME NEW D \in SUBSET Node, IsFiniteSet(D), NEW x \in Node \ D,
         NEW at, \A y \in D : at[y] \in Node
  PROVE  ~(Node \subseteq {at[y] : y \in D})
<1>1. SUFFICES ASSUME Node \subseteq {at[y] : y \in D} PROVE FALSE
  OBVIOUS
<1>2. PICK f : f = [y \in D |-> at[y]]
  OBVIOUS
<1>3. f \in Surjection(D, Node)
  <2>1. f \in [D -> Node]
    BY <1>2
  <2>2. \A y \in Node : \E z \in D : f[z] = y
    BY <1>1, <1>2
  <2>3. QED BY <2>1, <2>2 DEF Surjection
<1>4. IsFiniteSet(Node) /\ Cardinality(Node) <= Cardinality(D)
  BY <1>3, FS_Surjection
<1>5. Cardinality(D) <= Cardinality(Node) /\ (Cardinality(Node) = Cardinality(D) => Node = D)
  BY <1>4, FS_Subset
<1>6. Cardinality(D) \in Nat /\ Cardinality(Node) \in Nat
  BY <1>4, FS_CardinalityType
<1>7. QED BY <1>4, <1>5, <1>6

\* What addAsLastChild does to the pointers that lead down and on.
LEMMA AddLastFields ==
  ASSUME NEW u, NEW heap, SoundIn(u, heap), NEW p \in Node, NEW n \in Item \ heap
  PROVE  /\ u.firstChild[p] = Nil =>
              \A x \in Node : /\ AddAsLastChild(u, p, n).firstChild[x]
                                   = IF x = p THEN n ELSE u.firstChild[x]
                              /\ AddAsLastChild(u, p, n).next[x] = u.next[x]
         /\ u.firstChild[p] # Nil =>
              \A x \in Node : /\ AddAsLastChild(u, p, n).firstChild[x] = u.firstChild[x]
                              /\ AddAsLastChild(u, p, n).next[x]
                                   = IF x = LastChild(u, p) THEN n ELSE u.next[x]
<1>1. /\ u \in Tree /\ u.next[n] = Nil /\ Nil \notin Node /\ n \in Item /\ n \in Node
      /\ u = [parent |-> u.parent, next |-> u.next, prev |-> u.prev, firstChild |-> u.firstChild]
  BY NodeAssumption DEF SoundIn, Unlinked, Item, Tree
<1>2. CASE u.firstChild[p] = Nil
  <2>1. AddAsLastChild(u, p, n) = InsertAfter(u, p, n, Nil)
    BY <1>2 DEF AddAsLastChild, ServerAddAsChild, WrongAfter
  <2>2. PICK v : v = InsertAfter(u, p, n, Nil)
    OBVIOUS
  <2>3. \A x \in Node : /\ v.firstChild[x] = IF x = p THEN n ELSE u.firstChild[x]
                        /\ v.next[x] = IF x = n THEN Nil ELSE IF x = Nil THEN n ELSE u.next[x]
    BY <1>1, <1>2, <2>2, InsertFields DEF ItemOrNil
  <2>4. \A x \in Node : v.next[x] = u.next[x]
    BY <1>1, <2>3
  <2>5. QED BY <1>2, <2>1, <2>2, <2>3, <2>4
<1>3. CASE u.firstChild[p] # Nil
  <2>1. PICK a, f, v, r : /\ a = LastChild(u, p) /\ f = [u.next EXCEPT ![a] = n]
                          /\ v = [u.prev EXCEPT ![n] = a] /\ r = [u.parent EXCEPT ![n] = p]
    OBVIOUS
  <2>2. AddAsLastChild(u, p, n) = [u EXCEPT !.next = f, !.prev = v, !.parent = r]
    BY <1>3, <2>1 DEF AddAsLastChild
  <2>3. PICK w : w = AddAsLastChild(u, p, n)
    OBVIOUS
  <2>4. w.firstChild = u.firstChild /\ w.next = f
    BY <1>1, <2>2, <2>3
  <2>5. \A x \in Node : f[x] = IF x = a THEN n ELSE u.next[x]
    BY <1>1, <2>1 DEF Tree
  <2>6. QED BY <1>3, <2>1, <2>3, <2>4, <2>5
<1>4. QED BY <1>2, <1>3

\* The nodes of D have copies: at[x] is the copy of x.  A copy leads to copies,
\* and hangs below the copy of the node's parent.
Copied(t, D, u, at) ==
  \A x \in D :
    /\ u.firstChild[at[x]] = IF t.firstChild[x] \in D THEN at[t.firstChild[x]] ELSE Nil
    /\ u.next[at[x]] = IF t.next[x] \in D THEN at[t.next[x]] ELSE Nil
    /\ x # Root => t.parent[x] \in D /\ at[x] \in Chain(u, at[t.parent[x]])

\* Of the next item, all that leads to it and is copied is q, and nothing it
\* leads to is copied.
NextOf(t, D, x, q) ==
  /\ x \in Node \ D /\ x # Root /\ q \in D /\ Leads(t, q, x)
  /\ \A y \in D : Leads(t, y, x) => y = q
  /\ t.firstChild[x] \notin D \cup {x} /\ t.next[x] \notin D \cup {x}

\* Its parent is copied, and it goes last among those of its children that are.
LEMMA PlaceOfNext ==
  ASSUME NEW t \in Tree, LinksAgree(t), NEW D \in SUBSET Node, Root \in D,
         NEW u \in Tree, NEW at, \A y \in D : at[y] \in Node, Copied(t, D, u, at),
         NEW x, NEW q, NextOf(t, D, x, q)
  PROVE  /\ t.parent[x] \in D
         /\ t.firstChild[q] = x => /\ t.parent[x] = q /\ u.firstChild[at[q]] = Nil
                                   /\ t.next[q] # x
         /\ t.next[q] = x => /\ q # Root /\ t.parent[x] = t.parent[q]
                             /\ u.firstChild[at[t.parent[x]]] # Nil
                             /\ LastChild(u, at[t.parent[x]]) = at[q]
                             /\ t.firstChild[q] # x
<1>1. /\ x \in Node /\ x \notin D /\ q \in D /\ q \in Node /\ Nil \notin Node
      /\ t.firstChild[q] = x \/ t.next[q] = x
  BY NodeAssumption DEF NextOf, Leads
<1>2. ~(t.firstChild[q] = x /\ t.next[q] = x)
  BY <1>1, OnePointer
<1>3. CASE t.firstChild[q] = x
  <2>1. t.parent[x] = q
    BY <1>1, <1>3 DEF LinksAgree
  <2>2. u.firstChild[at[q]] = Nil
    BY <1>1, <1>3 DEF Copied
  <2>3. QED BY <1>1, <1>2, <1>3, <2>1, <2>2
<1>4. CASE t.next[q] = x
  <2>1. q # Root
    BY <1>1, <1>4, InTreeOnward
  <2>2. t.parent[x] = t.parent[q]
    BY <1>1, <1>4 DEF LinksAgree
  <2>3. PICK p, z : p = at[t.parent[x]] /\ z = at[q]
    OBVIOUS
  <2>4. t.parent[x] \in D /\ p \in Node /\ z \in Node /\ z \in Chain(u, p)
    BY <1>1, <2>1, <2>2, <2>3 DEF Copied
  <2>5. u.next[z] = Nil
    BY <1>1, <1>4, <2>3 DEF Copied
  <2>6. u.firstChild[p] # Nil
    <3>1. ASSUME u.firstChild[p] = Nil PROVE FALSE
      <4>1. PICK S \in SUBSET Node : S = {}
        OBVIOUS
      <4>2. /\ u.firstChild[p] # Nil => u.firstChild[p] \in S
            /\ \A y \in S : u.next[y] # Nil => u.next[y] \in S
        BY <3>1, <4>1
      <4>3. Chain(u, p) \subseteq S
        BY <2>4, <4>2, ChainLeast
      <4>4. QED BY <2>4, <4>1, <4>3
    <3>2. QED BY <3>1
  <2>7. LastChild(u, p) = z
    BY <2>4, <2>5, <2>6, LastChildIs
  <2>8. QED BY <1>2, <1>4, <2>1, <2>2, <2>3, <2>4, <2>6, <2>7
<1>5. QED BY <1>1, <1>3, <1>4

\* With the next item there is a copy of one more.
LEMMA CopyGrows ==
  ASSUME NEW t \in Tree, LinksAgree(t), NEW D \in SUBSET Node, Root \in D,
         NEW u, NEW heap, SoundIn(u, heap), Root \in heap,
         NEW at, \A y \in D : at[y] \in Node \cap heap,
         \A y, z \in D : at[y] = at[z] => y = z, Copied(t, D, u, at),
         NEW x, NEW q, NextOf(t, D, x, q), NEW n \in Item \ heap, n = NextFree(heap),
         NEW bt, bt[x] = n, \A y \in D : bt[y] = at[y]
  PROVE  Copied(t, D \cup {x}, AddAsLastChild(u, at[t.parent[x]], n), bt)
<1>1. /\ u \in Tree /\ LinksAgree(u) /\ Nil \notin Node /\ n \in Node /\ n # Nil
      /\ u.firstChild[n] = Nil /\ u.next[n] = Nil
  BY NodeAssumption DEF SoundIn, Unlinked, Item
<1>2. /\ x \in Node /\ x \notin D /\ x # Root /\ q \in D /\ q \in Node
      /\ t.firstChild[q] = x \/ t.next[q] = x
      /\ \A y \in D : t.firstChild[y] = x \/ t.next[y] = x => y = q
      /\ t.firstChild[x] \notin D \cup {x} /\ t.next[x] \notin D \cup {x}
  BY DEF NextOf, Leads
<1>3. PICK r, p, w, E : /\ r = t.parent[x] /\ p = at[r] /\ w = AddAsLastChild(u, p, n)
                        /\ E = D \cup {x}
  OBVIOUS
<1>4. \A y \in D : at[y] \in Node /\ at[y] # n /\ at[y] \in heap
  OBVIOUS
<1>5. /\ r \in D
      /\ t.firstChild[q] = x => r = q /\ u.firstChild[p] = Nil /\ t.next[q] # x
      /\ t.next[q] = x => /\ q # Root /\ r = t.parent[q] /\ u.firstChild[p] # Nil
                          /\ LastChild(u, p) = at[q] /\ t.firstChild[q] # x
  BY <1>1, <1>3, <1>4, PlaceOfNext
<1>6. p \in Node /\ p \in heap
  BY <1>3, <1>4, <1>5
<1>7. w \in Tree
  <2>1. SoundIn(w, heap \cup {n})
    BY <1>3, <1>6, AddLastSound
  <2>2. QED BY <2>1 DEF SoundIn
<1>8. \A y \in Node : /\ w.firstChild[y] = IF t.firstChild[q] = x /\ y = p THEN n
                                           ELSE u.firstChild[y]
                      /\ w.next[y] = IF t.next[q] = x /\ y = at[q] THEN n ELSE u.next[y]
  <2>1. CASE t.firstChild[q] = x
    BY <1>3, <1>5, <1>6, <2>1, AddLastFields
  <2>2. CASE t.next[q] = x
    BY <1>3, <1>5, <1>6, <2>2, AddLastFields
  <2>3. QED BY <1>2, <2>1, <2>2
<1>9. \A y \in D : /\ w.firstChild[at[y]] = IF t.firstChild[q] = x /\ y = q THEN n
                                            ELSE u.firstChild[at[y]]
                   /\ w.next[at[y]] = IF t.next[q] = x /\ y = q THEN n ELSE u.next[at[y]]
  <2>1. \A y \in D : at[y] = at[q] <=> y = q
    BY <1>2
  <2>2. t.firstChild[q] = x => p = at[q]
    BY <1>3, <1>5
  <2>3. QED BY <1>4, <1>8, <2>1, <2>2
<1>10. \A y \in D :
         /\ u.firstChild[at[y]] = IF t.firstChild[y] \in D THEN at[t.firstChild[y]] ELSE Nil
         /\ u.next[at[y]] = IF t.next[y] \in D THEN at[t.next[y]] ELSE Nil
         /\ y # Root => t.parent[y] \in D /\ at[y] \in Chain(u, at[t.parent[y]])
  BY DEF Copied
<1>11. ASSUME NEW y \in E
       PROVE  w.firstChild[bt[y]] = IF t.firstChild[y] \in E THEN bt[t.firstChild[y]] ELSE Nil
  <2>1. CASE y = x
    <3>1. w.firstChild[n] = Nil
      BY <1>1, <1>6, <1>8
    <3>2. QED BY <1>2, <1>3, <2>1, <3>1
  <2>2. CASE y \in D
    <3>1. t.firstChild[y] = x => y = q
      BY <1>2, <2>2
    <3>2. t.firstChild[y] = x => w.firstChild[at[y]] = n
      BY <1>9, <2>2, <3>1
    <3>3. t.firstChild[y] # x => w.firstChild[at[y]] = u.firstChild[at[y]]
      BY <1>9, <2>2
    <3>4. bt[y] = at[y] /\ (t.firstChild[y] \in D => bt[t.firstChild[y]] = at[t.firstChild[y]])
      BY <2>2
    <3>5. u.firstChild[at[y]] = IF t.firstChild[y] \in D THEN at[t.firstChild[y]] ELSE Nil
      BY <1>10, <2>2
    <3>6. QED BY <1>2, <1>3, <3>2, <3>3, <3>4, <3>5
  <2>3. QED BY <1>3, <2>1, <2>2
<1>12. ASSUME NEW y \in E
       PROVE  w.next[bt[y]] = IF t.next[y] \in E THEN bt[t.next[y]] ELSE Nil
  <2>1. CASE y = x
    <3>1. n # at[q]
      BY <1>2, <1>4
    <3>2. w.next[n] = Nil
      BY <1>1, <1>8, <3>1
    <3>3. QED BY <1>2, <1>3, <2>1, <3>2
  <2>2. CASE y \in D
    <3>1. t.next[y] = x => y = q
      BY <1>2, <2>2
    <3>2. t.next[y] = x => w.next[at[y]] = n
      BY <1>9, <2>2, <3>1
    <3>3. t.next[y] # x => w.next[at[y]] = u.next[at[y]]
      BY <1>9, <2>2
    <3>4. bt[y] = at[y] /\ (t.next[y] \in D => bt[t.next[y]] = at[t.next[y]])
      BY <2>2
    <3>5. u.next[at[y]] = IF t.next[y] \in D THEN at[t.next[y]] ELSE Nil
      BY <1>10, <2>2
    <3>6. QED BY <1>2, <1>3, <3>2, <3>3, <3>4, <3>5
  <2>3. QED BY <1>3, <2>1, <2>2
<1>13. \A y \in Node : Chain(u, y) \subseteq Chain(w, y)
  <2>1. SUFFICES ASSUME NEW y \in Node PROVE Chain(u, y) \subseteq Chain(w, y)
    OBVIOUS
  <2>2. u.firstChild[y] # Nil => w.firstChild[y] = u.firstChild[y]
    BY <1>5, <1>8
  <2>3. \A z \in Node : u.next[z] # Nil => w.next[z] = u.next[z]
    <3>1. t.next[q] = x => u.next[at[q]] = Nil
      BY <1>2, <1>10
    <3>2. QED BY <1>8, <3>1
  <2>4. QED BY <1>1, <1>7, <2>2, <2>3, ChainGrows
<1>14. n \in Chain(w, p)
  <2>1. CASE t.firstChild[q] = x
    <3>1. w.firstChild[p] = n
      BY <1>6, <1>8, <2>1
    <3>2. QED BY <1>1, <1>6, <1>7, <3>1, ChainLeast
  <2>2. CASE t.next[q] = x
    <3>1. q # Root /\ r = t.parent[q]
      BY <1>5, <2>2
    <3>2. at[q] \in Chain(u, p)
      BY <1>2, <1>3, <1>10, <3>1
    <3>3. at[q] \in Chain(w, p) /\ at[q] \in Node
      BY <1>2, <1>4, <1>6, <1>13, <3>2
    <3>4. w.next[at[q]] = n
      BY <1>2, <1>9, <2>2
    <3>5. QED BY <1>1, <1>6, <1>7, <3>3, <3>4, ChainLeast
  <2>3. QED BY <1>2, <2>1, <2>2
<1>15. ASSUME NEW y \in E, y # Root
       PROVE  t.parent[y] \in E /\ bt[y] \in Chain(w, bt[t.parent[y]])
  <2>1. CASE y = x
    BY <1>3, <1>5, <1>14, <2>1
  <2>2. CASE y \in D
    <3>1. t.parent[y] \in D /\ at[y] \in Chain(u, at[t.parent[y]])
      BY <1>10, <1>15, <2>2
    <3>2. at[y] \in Chain(w, at[t.parent[y]])
      BY <1>4, <1>13, <3>1
    <3>3. QED BY <1>3, <2>2, <3>1, <3>2
  <2>3. QED BY <1>3, <2>1, <2>2
<1>16. Copied(t, E, w, bt)
  BY <1>11, <1>12, <1>15 DEF Copied
<1>17. QED BY <1>3, <1>16

\* The root and the first k nodes of the walk.
Met(W, k) == {Root} \cup {W[j] : j \in 1..k}

\* They are finitely many, and one more with the next.
LEMMA MetGrows ==
  ASSUME NEW W \in Seq(Node), NEW k \in Nat, k <= Len(W)
  PROVE  /\ Met(W, k) \in SUBSET Node /\ Root \in Met(W, k) /\ IsFiniteSet(Met(W, k))
         /\ Met(W, 0) = {Root} /\ (k # 0 => Met(W, k) = Met(W, k - 1) \cup {W[k]})
<1>1. \A j \in 1..k : W[j] \in Node
  BY 1..k \subseteq 1..Len(W)
<1>2. Met(W, k) \in SUBSET Node /\ Root \in Met(W, k)
  BY <1>1, NodeAssumption DEF Met
<1>3. IsFiniteSet(Met(W, k))
  <2>1. PICK f : f = [j \in 0..k |-> IF j = 0 THEN Root ELSE W[j]]
    OBVIOUS
  <2>2. f \in Surjection(0..k, Met(W, k))
    <3>1. f \in [0..k -> Met(W, k)]
      <4>1. ASSUME NEW j \in 0..k PROVE (IF j = 0 THEN Root ELSE W[j]) \in Met(W, k)
        <5>1. CASE j = 0
          BY <1>2, <5>1
        <5>2. CASE j # 0
          BY <5>2, j \in 1..k DEF Met
        <5>3. QED BY <5>1, <5>2
      <4>2. QED BY <2>1, <4>1
    <3>2. ASSUME NEW y \in Met(W, k) PROVE \E j \in 0..k : f[j] = y
      <4>1. CASE y = Root
        BY <2>1, <4>1, 0 \in 0..k
      <4>2. CASE y # Root
        <5>1. PICK j \in 1..k : y = W[j]
          BY <3>2, <4>2 DEF Met
        <5>2. j \in 0..k /\ j # 0
          OBVIOUS
        <5>3. QED BY <2>1, <5>1, <5>2
      <4>3. QED BY <4>1, <4>2
    <3>3. QED BY <3>1, <3>2 DEF Surjection
  <2>3. IsFiniteSet(0..k)
    BY FS_Interval
  <2>4. QED BY <2>2, <2>3, FS_Surjection
<1>4. Met(W, 0) = {Root}
  BY 1..0 = {} DEF Met
<1>5. k # 0 => Met(W, k) = Met(W, k - 1) \cup {W[k]}
  <2>1. k # 0 => 1..k = (1..k - 1) \cup {k}
    OBVIOUS
  <2>2. QED BY <2>1 DEF Met
<1>6. QED BY <1>2, <1>3, <1>4, <1>5

\* The next node of the walk comes after the one that leads to it, and before
\* the ones it leads to.
LEMMA NextOfWalk ==
  ASSUME NEW t \in Tree, LinksAgree(t), Grounded(t), NEW W, Preorder(t, W),
         NEW k \in Nat, k + 1 <= Len(W)
  PROVE  \E q : NextOf(t, Met(W, k), W[k + 1], q)
<1>1. PICK D, x, n : D = Met(W, k) /\ x = W[k + 1] /\ n = Len(W)
  OBVIOUS
<1>2. /\ W \in Seq(Node) /\ n \in Nat /\ k + 1 \in 1..n /\ 1..k \subseteq 1..n
      /\ \A i, j \in 1..n : W[i] = W[j] => i = j
      /\ \A y : y \in InTree(t) \ {Root} <=> \E j \in 1..n : W[j] = y
      /\ \A j \in 1..n :
           Leads(t, Root, W[j]) \/ \E i \in 1..n : i < j /\ Leads(t, W[i], W[j])
  BY <1>1 DEF Preorder
<1>3. D = {Root} \cup {W[j] : j \in 1..k} /\ D \in SUBSET Node
  <2>1. W \in Seq(Node) /\ k <= Len(W)
    BY <1>1, <1>2
  <2>2. Met(W, k) \in SUBSET Node
    BY <2>1, MetGrows
  <2>3. QED BY <1>1, <2>2 DEF Met
<1>4. x \in Node /\ x # Root
  <2>1. \E j \in 1..n : W[j] = x
    BY <1>1, <1>2
  <2>2. x \in InTree(t) \ {Root}
    BY <1>2, <2>1
  <2>3. QED BY <2>2, InTreeLeast
<1>5. \A j \in 1..k : W[j] # x
  BY <1>1, <1>2
<1>6. x \notin D
  BY <1>3, <1>4, <1>5
<1>7. \A j \in 1..k + 1 : \E q \in D : Leads(t, q, W[j])
  <2>1. SUFFICES ASSUME NEW j \in 1..k + 1 PROVE \E q \in D : Leads(t, q, W[j])
    OBVIOUS
  <2>2. j \in 1..n
    BY <1>2
  <2>3. CASE Leads(t, Root, W[j])
    BY <1>3, <2>3
  <2>4. CASE \E i \in 1..n : i < j /\ Leads(t, W[i], W[j])
    <3>1. PICK i \in 1..n : i < j /\ Leads(t, W[i], W[j])
      BY <2>4
    <3>2. i \in 1..k
      BY <1>2, <3>1
    <3>3. QED BY <1>3, <3>1, <3>2
  <2>5. QED BY <1>2, <2>2, <2>3, <2>4
<1>8. PICK q \in D : Leads(t, q, x)
  BY <1>1, <1>7
<1>9. \A y, z, v \in Node : Leads(t, y, v) /\ Leads(t, z, v) => y = z
  BY OnePointer DEF Leads
<1>10. \A y \in D : Leads(t, y, x) => y = q
  BY <1>3, <1>4, <1>8, <1>9
<1>11. ASSUME NEW z \in D, z # Root PROVE ~Leads(t, x, z)
  <2>1. PICK j \in 1..k : z = W[j]
    BY <1>3, <1>11
  <2>2. PICK y \in D : Leads(t, y, z)
    BY <1>7, <2>1, j \in 1..k + 1
  <2>3. QED BY <1>3, <1>4, <1>6, <1>9, <2>2
<1>12. t.firstChild[x] # Root /\ t.next[x] # Root
  BY <1>4, NodeAssumption DEF Tree, ItemOrNil, Item
<1>13. t.firstChild[x] # x /\ t.next[x] # x
  <2>1. {x} \in (SUBSET Node) \ {{}}
    BY <1>4
  <2>2. PICK y \in {x} : t.firstChild[y] \notin {x} /\ t.next[y] \notin {x}
    BY <2>1 DEF Grounded
  <2>3. QED BY <2>2
<1>14. t.firstChild[x] \notin D /\ t.next[x] \notin D
  BY <1>11, <1>12 DEF Leads
<1>15. NextOf(t, D, x, q)
  BY <1>4, <1>6, <1>8, <1>10, <1>13, <1>14 DEF NextOf
<1>16. QED BY <1>1, <1>15

\* The document d has the ids of the nodes of D of the document s, in their
\* places.
Shaped(s, D, d, at) == /\ at[Root] = Root /\ Copied(s.tree, D, d.tree, at)
                       /\ \A x \in D : at[x] \in Node /\ d.id[at[x]] = s.id[x]

\* It is a copy of them, and nothing else.
Matches(s, D, d, at) ==
  /\ at[Root] = Root /\ \A x \in D : at[x] \in Node /\ (x # Root => at[x] \in Item)
  /\ \A x, y \in D : at[x] = at[y] => x = y
  /\ d.heap = {at[x] : x \in D} /\ Copied(s.tree, D, d.tree, at)
  /\ DOMAIN d.text = Item /\ DOMAIN d.done = Item
  /\ \A x \in D : /\ d.id[at[x]] = s.id[x]
                  /\ x # Root => d.text[at[x]] = s.text[x] /\ d.done[at[x]] = s.done[x]

\* The ids of the items in the map.
MapDiffers(l) == \A x, y \in l.items : l.doc.id[x] = l.doc.id[y] => x = y

\* The item x is read: m is what l becomes, and bt has its copy in addition.
OneMore(s, D, x, l, at, whole, m, bt) ==
  /\ Shaped(s, D \cup {x}, m.doc, bt) /\ \A y \in D : bt[y] = at[y]
  /\ whole = "item" => Matches(s, D \cup {x}, m.doc, bt)
  /\ m.current = bt[x] /\ m.items = l.items /\ m.threw = l.threw
  /\ \A y \in D : m.doc.id[at[y]] = l.doc.id[at[y]]

\* An item that is read has the place of the one that was written, if its
\* parent was; it is a copy if all of it was.
LEMMA ReadItemMatches ==
  ASSUME NEW s, Sound(s), s.done \in [Item -> BOOLEAN], NEW D \in SUBSET Node, Root \in D,
         IsFiniteSet(D), NEW l, SoundLoad(l), NEW at, Matches(s, D, l.doc, at),
         l.items = {at[y] : y \in D}, MapDiffers(l), NEW x, NEW q, NextOf(s.tree, D, x, q),
         NEW whole, whole # "parent"
  PROVE  \E bt : OneMore(s, D, x, l, at, whole, ReadItem(l, EntryAt(s, x), whole), bt)
<1>1. PICK t, d, u, h : t = s.tree /\ d = l.doc /\ u = d.tree /\ h = d.heap
  OBVIOUS
<1>2. /\ t \in Tree /\ LinksAgree(t) /\ SoundIn(u, h) /\ u \in Tree /\ Root \in h
      /\ DOMAIN d.id = Node
      /\ d = [tree |-> d.tree, text |-> d.text, done |-> d.done, heap |-> d.heap, id |-> d.id]
      /\ l = [doc |-> l.doc, items |-> l.items, current |-> l.current, threw |-> l.threw]
  BY <1>1 DEF Sound, SoundIn, SoundLoad
<1>3. /\ at[Root] = Root /\ \A y \in D : at[y] \in Node /\ (y # Root => at[y] \in Item)
      /\ \A y, z \in D : at[y] = at[z] => y = z
      /\ h = {at[y] : y \in D} /\ Copied(t, D, u, at)
      /\ DOMAIN d.text = Item /\ DOMAIN d.done = Item
      /\ \A y \in D : /\ d.id[at[y]] = s.id[y]
                      /\ y # Root => d.text[at[y]] = s.text[y] /\ d.done[at[y]] = s.done[y]
  BY <1>1 DEF Matches
<1>4. x \in Node \ D /\ x # Root /\ x \in Item
  BY <1>1 DEF NextOf, Item
<1>5. ~(Node \subseteq h)
  BY <1>3, <1>4, RoomLeft
<1>6. PICK n : n = NextFree(h)
  OBVIOUS
<1>7. n \in Item \ h /\ n \in Node /\ n # Root
  BY <1>2, <1>5, <1>6, NextFreeFacts DEF Item
<1>8. PICK r, p : r = t.parent[x] /\ p = at[r]
  OBVIOUS
<1>9. NextOf(t, D, x, q)
  BY <1>1
<1>10. r \in D /\ p \in Node /\ p \in h
  <2>1. r \in D
    BY <1>2, <1>3, <1>8, <1>9, PlaceOfNext
  <2>2. QED BY <1>3, <1>8, <2>1
<1>11. PICK e : e = EntryAt(s, x)
  OBVIOUS
<1>12. /\ e.id = s.id[x] /\ e.parent = s.id[r] /\ e.text = s.text[x] /\ e.done = s.done[x]
       /\ e.done \in BOOLEAN
  BY <1>1, <1>4, <1>8, <1>11 DEF EntryAt
<1>13. PICK parents : parents = {z \in l.items : d.id[z] = e.parent}
  OBVIOUS
<1>14. parents = {p}
  <2>1. p \in parents
    BY <1>3, <1>8, <1>10, <1>12, <1>13
  <2>2. \A z \in parents : z = p
    BY <1>1, <1>13, <2>1 DEF MapDiffers
  <2>3. QED BY <2>1, <2>2
<1>15. PICK w, f, g, a, b, j, c :
         /\ w = AddAsLastChild(u, p, n)
         /\ f = IF whole \in {"item", "done"} THEN e.text ELSE EmptyText
         /\ g = (whole = "item" /\ e.done)
         /\ a = [d.text EXCEPT ![n] = f] /\ b = [d.done EXCEPT ![n] = g]
         /\ j = [d.id EXCEPT ![n] = e.id]
         /\ c = [tree |-> w, text |-> a, done |-> b, heap |-> h \cup {n}, id |-> j]
  OBVIOUS
<1>16. ReadItem(l, e, whole) = [l EXCEPT !.current = n, !.doc = c]
  <2>1. parents # {} /\ (CHOOSE z \in parents : TRUE) = p
    BY <1>14
  <2>2. QED BY <1>1, <1>6, <1>13, <1>15, <2>1 DEF ReadItem
<1>17. whole = "item" => f = e.text /\ g = e.done
  BY <1>12, <1>15
<1>18. PICK bt : bt = [y \in Node |-> IF y = x THEN n ELSE at[y]]
  OBVIOUS
<1>19. bt[x] = n /\ \A y \in D : bt[y] = at[y]
  BY <1>4, <1>18
<1>20. Copied(t, D \cup {x}, w, bt)
  <2>1. \A y \in D : at[y] \in Node \cap h
    BY <1>3
  <2>2. QED BY <1>2, <1>3, <1>6, <1>7, <1>8, <1>9, <1>15, <1>19, <2>1, CopyGrows
<1>21. /\ DOMAIN a = Item /\ DOMAIN b = Item
       /\ \A z \in Item : /\ a[z] = IF z = n THEN f ELSE d.text[z]
                          /\ b[z] = IF z = n THEN g ELSE d.done[z]
       /\ \A z \in Node : j[z] = IF z = n THEN e.id ELSE d.id[z]
  BY <1>2, <1>3, <1>15
<1>22. \A y \in D : at[y] # n
  BY <1>3, <1>7
<1>23. ASSUME NEW y \in D \cup {x}
       PROVE  /\ bt[y] \in Node /\ (y # Root => bt[y] \in Item) /\ j[bt[y]] = s.id[y]
              /\ y # Root /\ whole = "item" => a[bt[y]] = s.text[y] /\ b[bt[y]] = s.done[y]
  <2>1. CASE y = x
    BY <1>7, <1>12, <1>19, <1>21, <1>17, <2>1
  <2>2. CASE y \in D
    BY <1>3, <1>19, <1>21, <1>22, <2>2
  <2>3. QED BY <2>1, <2>2
<1>24. \A y, z \in D \cup {x} : bt[y] = bt[z] => y = z
  BY <1>3, <1>19, <1>22
<1>25. h \cup {n} = {bt[y] : y \in D \cup {x}}
  BY <1>3, <1>19
<1>26. /\ c.tree = w /\ c.text = a /\ c.done = b /\ c.heap = h \cup {n} /\ c.id = j
  BY <1>15
<1>27. bt[Root] = Root
  BY <1>3, <1>19
<1>28. whole = "item" => Matches(s, D \cup {x}, c, bt)
  BY <1>1, <1>20, <1>21, <1>23, <1>24, <1>25, <1>26, <1>27 DEF Matches
<1>29. Shaped(s, D \cup {x}, c, bt)
  BY <1>1, <1>20, <1>23, <1>26, <1>27 DEF Shaped
<1>30. \A y \in D : c.id[at[y]] = d.id[at[y]]
  BY <1>3, <1>21, <1>22, <1>26
<1>31. PICK m : m = ReadItem(l, EntryAt(s, x), whole)
  OBVIOUS
<1>32. m.doc = c /\ m.current = n /\ m.items = l.items /\ m.threw = l.threw
  BY <1>2, <1>11, <1>16, <1>31
<1>33. OneMore(s, D, x, l, at, whole, m, bt)
  BY <1>1, <1>19, <1>28, <1>30, <1>32, <1>29 DEF OneMore
<1>34. QED BY <1>31, <1>33

\* After k items: a copy of the first k nodes of the walk, all but the last of
\* them in the map.
Reading(s, W, k, l, at) ==
  /\ l.threw = FALSE /\ Matches(s, Met(W, k), l.doc, at) /\ MapDiffers(l)
  /\ IF k = 0 THEN l.items = {Root} /\ l.current = Nil
     ELSE l.items = {at[y] : y \in Met(W, k - 1)} /\ l.current = at[W[k]]

\* All the copies are in the map: m is what l becomes.
AllEntered(D, l, at, m) == /\ m.threw = FALSE /\ m.doc = l.doc /\ MapDiffers(m)
                           /\ m.items = {at[y] : y \in D}

\* So they are when the next item starts, if that does not throw.
LEMMA RegisterCopies ==
  ASSUME NEW s, NEW W \in Seq(Node), NEW k \in Nat, k <= Len(W), NEW l, SoundLoad(l), NEW at,
         Reading(s, W, k, l, at), ~Register(l).threw
  PROVE  AllEntered(Met(W, k), l, at, Register(l))
<1>1. PICK D : D = Met(W, k)
  OBVIOUS
<1>2. /\ l.threw = FALSE /\ MapDiffers(l) /\ at[Root] = Root /\ \A y \in D : at[y] # Nil
      /\ l = [doc |-> l.doc, items |-> l.items, current |-> l.current, threw |-> l.threw]
  BY <1>1, NodeAssumption DEF Reading, Matches, SoundLoad
<1>3. CASE k = 0
  <2>1. l.items = {Root} /\ l.current = Nil
    BY <1>3 DEF Reading
  <2>2. Register(l) = l
    BY <2>1 DEF Register
  <2>3. D = {Root}
    BY <1>1, <1>3, MetGrows
  <2>4. l.items = {at[y] : y \in D}
    BY <1>2, <2>1, <2>3
  <2>5. QED BY <1>1, <1>2, <2>2, <2>4 DEF AllEntered
<1>4. CASE k # 0
  <2>1. PICK c : c = l.current
    OBVIOUS
  <2>2. D = Met(W, k - 1) \cup {W[k]}
    BY <1>1, <1>4, MetGrows
  <2>3. l.items = {at[y] : y \in Met(W, k - 1)} /\ c = at[W[k]]
    BY <1>4, <2>1 DEF Reading
  <2>4. c # Nil
    BY <1>2, <2>2, <2>3
  <2>5. l.items \cup {c} = {at[y] : y \in D}
    BY <2>2, <2>3
  <2>6. ~\E x \in l.items : l.doc.id[x] = l.doc.id[c]
    <3>1. ASSUME \E x \in l.items : l.doc.id[x] = l.doc.id[c] PROVE FALSE
      <4>1. Register(l) = [l EXCEPT !.threw = TRUE]
        BY <2>1, <2>4, <3>1 DEF Register
      <4>2. Register(l).threw
        BY <1>2, <4>1
      <4>3. QED BY <4>2
    <3>2. QED BY <3>1
  <2>7. Register(l) = [l EXCEPT !.items = @ \cup {c}]
    BY <2>1, <2>4, <2>6 DEF Register
  <2>8. PICK m : m = Register(l)
    OBVIOUS
  <2>9. m.threw = FALSE /\ m.doc = l.doc /\ m.items = l.items \cup {c}
    BY <1>2, <2>7, <2>8
  <2>10. MapDiffers(m)
    BY <1>2, <2>6, <2>9 DEF MapDiffers
  <2>11. QED BY <1>1, <2>5, <2>8, <2>9, <2>10 DEF AllEntered
<1>5. QED BY <1>3, <1>4

\* What threw does not read on.
LEMMA RegisterThrew ==
  ASSUME NEW l, SoundLoad(l)
  PROVE  (l.threw => Register(l).threw) /\ Register(l).doc = l.doc
<1>1. l = [doc |-> l.doc, items |-> l.items, current |-> l.current, threw |-> l.threw]
  BY DEF SoundLoad
<1>2. \/ Register(l) = l \/ Register(l) = [l EXCEPT !.threw = TRUE]
      \/ Register(l) = [l EXCEPT !.items = @ \cup {l.current}]
  BY DEF Register
<1>3. PICK r : r = Register(l)
  OBVIOUS
<1>4. (l.threw => r.threw) /\ r.doc = l.doc
  BY <1>1, <1>2, <1>3
<1>5. QED BY <1>3, <1>4

\* And the next one is read.
LEMMA ReadNext ==
  ASSUME NEW s, Sound(s), s.done \in [Item -> BOOLEAN], NEW W, Preorder(s.tree, W),
         NEW k \in Nat, k + 1 <= Len(W), NEW l, SoundLoad(l), NEW at,
         Reading(s, W, k, l, at), ~Register(l).threw, NEW whole, whole # "parent",
         NEW m, m = ReadItem(Register(l), EntryAt(s, W[k + 1]), whole)
  PROVE  \E bt : /\ Shaped(s, Met(W, k + 1), m.doc, bt)
                 /\ whole = "item" => Reading(s, W, k + 1, m, bt)
<1>1. PICK D, x, g : D = Met(W, k) /\ x = W[k + 1] /\ g = Register(l)
  OBVIOUS
<1>2. W \in Seq(Node) /\ Len(W) \in Nat /\ k <= Len(W)
  BY DEF Preorder
<1>3. D \in SUBSET Node /\ Root \in D /\ IsFiniteSet(D)
  BY <1>1, <1>2, MetGrows
<1>4. SoundLoad(g)
  BY <1>1, RegisterSound
<1>5. g.threw = FALSE /\ g.doc = l.doc /\ MapDiffers(g) /\ g.items = {at[y] : y \in D}
  <2>1. AllEntered(Met(W, k), l, at, Register(l))
    BY <1>2, RegisterCopies
  <2>2. QED BY <1>1, <2>1 DEF AllEntered
<1>6. Matches(s, D, g.doc, at)
  BY <1>1, <1>5 DEF Reading
<1>7. PICK q : NextOf(s.tree, D, x, q)
  <2>1. s.tree \in Tree /\ LinksAgree(s.tree) /\ Grounded(s.tree)
    BY DEF Sound, SoundIn
  <2>2. QED BY <1>1, <2>1, NextOfWalk
<1>8. m = ReadItem(g, EntryAt(s, x), whole)
  BY <1>1
<1>9. PICK bt : /\ Shaped(s, D \cup {x}, m.doc, bt)
                /\ whole = "item" => Matches(s, D \cup {x}, m.doc, bt)
                /\ \A y \in D : bt[y] = at[y]
                /\ m.current = bt[x] /\ m.items = g.items /\ m.threw = g.threw
                /\ \A y \in D : m.doc.id[at[y]] = g.doc.id[at[y]]
  <2>1. \E bt : OneMore(s, D, x, g, at, whole, ReadItem(g, EntryAt(s, x), whole), bt)
    BY <1>3, <1>4, <1>5, <1>6, <1>7, ReadItemMatches
  <2>2. QED BY <1>8, <2>1 DEF OneMore
<1>10. Met(W, k + 1) = D \cup {x}
  <2>1. k + 1 \in Nat /\ k + 1 # 0 /\ (k + 1) - 1 = k
    OBVIOUS
  <2>2. QED BY <1>1, <1>2, <2>1, MetGrows
<1>11. MapDiffers(m)
  BY <1>5, <1>9 DEF MapDiffers
<1>12. m.items = {bt[y] : y \in D}
  BY <1>5, <1>9
<1>13. whole = "item" => Reading(s, W, k + 1, m, bt)
  <2>1. k + 1 # 0 /\ (k + 1) - 1 = k
    OBVIOUS
  <2>2. m.threw = FALSE /\ m.current = bt[W[k + 1]]
    BY <1>1, <1>5, <1>9
  <2>3. whole = "item" => Matches(s, Met(W, k + 1), m.doc, bt)
    BY <1>9, <1>10
  <2>4. QED BY <1>1, <1>11, <1>12, <2>1, <2>2, <2>3 DEF Reading
<1>14. Shaped(s, Met(W, k + 1), m.doc, bt)
  BY <1>9, <1>10
<1>15. QED BY <1>13, <1>14

\* Before the first item there is a copy of the root.
LEMMA ReadingBegins ==
  ASSUME NEW s, Sound(s), NEW W \in Seq(Node), NEW l,
         l = [doc |-> NewCopy, items |-> {Root}, current |-> Nil, threw |-> FALSE]
  PROVE  SoundLoad(l) /\ \E at : Reading(s, W, 0, l, at)
<1>1. PICK x, d, i : /\ x = [y \in Item |-> EmptyText] /\ d = [y \in Item |-> FALSE]
                     /\ i = [y \in Node |-> NoId]
  OBVIOUS
<1>2. PICK c : c = [tree |-> EmptyTree, text |-> x, heap |-> {Root}, done |-> d, id |-> i]
  OBVIOUS
<1>3. c = NewCopy
  BY <1>1, <1>2 DEF NewCopy
<1>4. l.doc = c /\ l.items = {Root} /\ l.current = Nil /\ l.threw = FALSE
  BY <1>3
<1>5. /\ c.tree = EmptyTree /\ c.heap = {Root} /\ DOMAIN c.text = Item /\ DOMAIN c.done = Item
      /\ c.id[Root] = NoId
  BY <1>1, <1>2, NodeAssumption
<1>6. SoundLoad(l)
  <2>1. {Root} \subseteq Node \cap NewCopy.heap
    BY <1>3, <1>5, NodeAssumption
  <2>2. QED BY <2>1, NewSound DEF SoundLoad
<1>7. PICK at : at = [y \in Node |-> y]
  OBVIOUS
<1>8. at[Root] = Root /\ Root \in Node
  BY <1>7, NodeAssumption
<1>9. Copied(s.tree, {Root}, c.tree, at)
  <2>1. s.tree.firstChild[Root] # Root /\ s.tree.next[Root] # Root
    <3>1. PICK t : t = s.tree /\ t \in Tree
      BY DEF Sound, SoundIn
    <3>2. t.firstChild[Root] \in ItemOrNil /\ t.next[Root] \in ItemOrNil
      BY <1>8, <3>1 DEF Tree
    <3>3. Root \notin ItemOrNil
      BY NodeAssumption DEF ItemOrNil, Item
    <3>4. QED BY <3>1, <3>2, <3>3
  <2>2. c.tree.firstChild[Root] = Nil /\ c.tree.next[Root] = Nil
    BY <1>5, <1>8 DEF EmptyTree, NoLinks
  <2>3. QED BY <1>8, <2>1, <2>2 DEF Copied
<1>10. c.id[Root] = s.id[Root]
  BY <1>5 DEF Sound
<1>11. Matches(s, {Root}, c, at)
  BY <1>5, <1>8, <1>9, <1>10 DEF Matches
<1>12. Met(W, 0) = {Root}
  <2>1. 0 \in Nat /\ 0 <= Len(W)
    OBVIOUS
  <2>2. QED BY <2>1, MetGrows
<1>13. MapDiffers(l)
  BY <1>4 DEF MapDiffers
<1>14. Reading(s, W, 0, l, at)
  BY <1>4, <1>11, <1>12, <1>13 DEF Reading
<1>15. QED BY <1>6, <1>14

\* As long as items are read that were written whole, the document is a copy
\* of the nodes they were written from.
LEMMA LoadReading ==
  ASSUME NEW s, Sound(s), s.done \in [Item -> BOOLEAN], NEW W, Preorder(s.tree, W),
         NEW f, NEW n \in Nat, n = Len(f.items), NEW a, \A k \in 0..n : a[k] = LoadStep(f, a, k),
         NEW m \in 0..n, m = n /\ m # 0 => f.stop = "end",
         m <= Len(W), \A k \in 1..m : f.items[k] = EntryAt(s, W[k])
  PROVE  SoundLoad(a[m]) /\ (a[m].threw \/ \E at : Reading(s, W, m, a[m], at))
<1>1. W \in Seq(Node) /\ Len(W) \in Nat
  BY DEF Preorder
<1> DEFINE Held(k) == SoundLoad(a[k]) /\ (a[k].threw \/ \E at : Reading(s, W, k, a[k], at))
           T == {k \in Nat : k <= m => Held(k)}
<1>2. 0 \in T
  <2>1. PICK l : l = [doc |-> NewCopy, items |-> {Root}, current |-> Nil, threw |-> FALSE]
    OBVIOUS
  <2>2. a[0] = l
    <3>1. 0 \in 0..n
      OBVIOUS
    <3>2. LoadStep(f, a, 0) = l
      BY <2>1 DEF LoadStep
    <3>3. QED BY <3>1, <3>2
  <2>3. SoundLoad(l) /\ \E at : Reading(s, W, 0, l, at)
    BY <1>1, <2>1, ReadingBegins
  <2>4. QED BY <2>2, <2>3
<1>3. ASSUME NEW k \in Nat, k \in T PROVE k + 1 \in T
  <2> SUFFICES ASSUME k + 1 <= m PROVE Held(k + 1)
    OBVIOUS
  <2>1. /\ k + 1 \in 0..n /\ k + 1 \in 1..m /\ k + 1 # 0 /\ (k + 1) - 1 = k /\ k <= m
        /\ k + 1 <= Len(W) /\ ~(k + 1 = n /\ f.stop # "end")
    BY <1>1
  <2>2. SoundLoad(a[k]) /\ (a[k].threw \/ \E at : Reading(s, W, k, a[k], at))
    BY <1>3, <2>1
  <2>3. PICK l : l = Register(a[k]) /\ SoundLoad(l)
    BY <2>2, RegisterSound
  <2>4. PICK e : e = f.items[k + 1] /\ e = EntryAt(s, W[k + 1])
    BY <2>1
  <2>5. a[k + 1] = IF l.threw THEN l ELSE ReadItem(l, e, "item")
    BY <2>1, <2>3, <2>4 DEF LoadStep
  <2>6. CASE l.threw
    BY <2>3, <2>5, <2>6
  <2>7. CASE ~l.threw
    <3>1. ~a[k].threw
      BY <2>2, <2>3, <2>7, RegisterThrew
    <3>2. PICK at : Reading(s, W, k, a[k], at)
      BY <2>2, <3>1
    <3>3. PICK r : r = ReadItem(l, e, "item") /\ SoundLoad(r)
      BY <2>3, ReadItemSound
    <3>4. \E bt : Reading(s, W, k + 1, r, bt)
      BY <2>1, <2>2, <2>3, <2>4, <2>7, <3>2, <3>3, ReadNext
    <3>5. QED BY <2>5, <2>7, <3>3, <3>4
  <2>8. QED BY <2>6, <2>7
<1>4. Nat \subseteq T
  <2> HIDE DEF T
  <2>1. QED BY <1>2, <1>3, SetInduction
<1>5. QED BY <1>4

\* At the end of the file there is a copy of all that was written.
LEMMA LoadCopies ==
  ASSUME NEW s, Sound(s), s.done \in [Item -> BOOLEAN],
         NEW f, f.items = EntriesOf(s), f.stop = "end", ~LoadTree(f).threw
  PROVE  \E at : Matches(s, InTree(s.tree), LoadTree(f).doc, at)
<1>1. FileRead(f)
  BY EntriesWritten DEF FileRead
<1>2. PICK n \in Nat : \E a : /\ n = Len(f.items) /\ DOMAIN f.items = 1..n /\ LoadTree(f) = a[n]
                              /\ \A k \in 0..n : a[k] = LoadStep(f, a, k)
  BY <1>1, LoadUnfolded
<1>3. PICK a : /\ n = Len(f.items) /\ LoadTree(f) = a[n]
               /\ \A k \in 0..n : a[k] = LoadStep(f, a, k)
  BY <1>2
<1>4. PICK W : /\ Preorder(s.tree, W) /\ Len(EntriesOf(s)) = Len(W)
               /\ \A k \in 1..Len(W) : EntriesOf(s)[k] = EntryAt(s, W[k])
  BY SavedInOrder DEF WrittenAlong
<1>5. /\ W \in Seq(Node) /\ Len(W) = n /\ \A k \in 1..n : f.items[k] = EntryAt(s, W[k])
  BY <1>3, <1>4 DEF Preorder
<1>6. n \in 0..n /\ n <= Len(W)
  BY <1>5
<1>7. PICK at : Reading(s, W, n, LoadTree(f), at)
  <2>1. /\ n = Len(f.items) /\ \A k \in 0..n : a[k] = LoadStep(f, a, k)
        /\ Preorder(s.tree, W) /\ \A k \in 1..n : f.items[k] = EntryAt(s, W[k])
    BY <1>3, <1>4, <1>5
  <2>2. a[n].threw \/ \E at : Reading(s, W, n, a[n], at)
    BY <1>6, <2>1, LoadReading
  <2>3. QED BY <1>3, <2>2
<1>8. Met(W, n) = InTree(s.tree)
  <2>1. s.tree \in Tree
    BY DEF Sound, SoundIn
  <2>2. Root \in InTree(s.tree)
    BY <2>1, InTreeLeast
  <2>3. \A y : y \in InTree(s.tree) \ {Root} <=> \E k \in 1..n : W[k] = y
    BY <1>4, <1>5 DEF Preorder
  <2>4. \A y : y \in Met(W, n) <=> y = Root \/ \E k \in 1..n : W[k] = y
    BY DEF Met
  <2>5. QED BY <2>2, <2>3, <2>4
<1>9. QED BY <1>7, <1>8 DEF Reading

\* A document that is not empty has an item below the root.
LEMMA OutlineBegins ==
  ASSUME NEW s, Sound(s), OutlineOf(s) # <<>>
  PROVE  s.tree.firstChild[Root] # Nil
<1>1. PICK x : x = [y \in Item |-> <<s.text[y], s.done[y]>>]
  OBVIOUS
<1>2. s.tree \in Tree /\ Grounded(s.tree)
  BY DEF Sound, SoundIn
<1>3. PICK f : /\ Reads(s.tree, s.id, x, f)
               /\ Outline(s.tree, s.id, x) = f[s.tree.firstChild[Root]]
  BY <1>2, OutlineUnfolds
<1>4. QED BY <1>1, <1>3 DEF Reads, OutlineOf

\* What was written to its end is read as it was, unless the server throws.
LEMMA LoadedIsSaved ==
  ASSUME NEW s, Sound(s), s.done \in [Item -> BOOLEAN], OutlineOf(s) # <<>>,
         NEW f, f.items = EntriesOf(s), f.stop = "end", ~LoadData(f).threw
  PROVE  OutlineOf(LoadData(f).doc) = OutlineOf(s)
<1>1. PICK l : l = LoadTree(f)
  OBVIOUS
<1>2. FileRead(f)
  BY EntriesWritten DEF FileRead
<1>3. SoundLoad(l)
  BY <1>1, <1>2, LoadTreeSound
<1>4. ~l.threw
  <2>1. ASSUME l.threw PROVE FALSE
    BY <1>1, <2>1 DEF LoadData
  <2>2. QED BY <2>1
<1>5. PICK at : Matches(s, InTree(s.tree), l.doc, at)
  BY <1>1, <1>4, LoadCopies
<1>6. PICK t, u, d, M : t = s.tree /\ d = l.doc /\ u = d.tree /\ M = InTree(t)
  OBVIOUS
<1>7. /\ t \in Tree /\ LinksAgree(t) /\ Grounded(t) /\ u \in Tree /\ Grounded(u)
  BY <1>3, <1>6 DEF Sound, SoundIn, SoundLoad
<1>8. /\ M \in SUBSET Node /\ Root \in M
      /\ \A x \in M : /\ t.firstChild[x] # Nil => t.firstChild[x] \in M
                      /\ t.next[x] # Nil => t.next[x] \in M
  BY <1>6, <1>7, InTreeLeast, InTreeOnward DEF Onward
<1>9. PICK v, w : /\ v = [y \in Item |-> <<s.text[y], s.done[y]>>]
                  /\ w = [y \in Item |-> <<d.text[y], d.done[y]>>]
  OBVIOUS
<1>10. /\ at[Root] = Root
       /\ \A x \in M : /\ at[x] \in Node /\ d.id[at[x]] = s.id[x]
                       /\ u.firstChild[at[x]] = IF t.firstChild[x] \in M THEN at[t.firstChild[x]]
                                                ELSE Nil
                       /\ u.next[at[x]] = IF t.next[x] \in M THEN at[t.next[x]] ELSE Nil
  BY <1>5, <1>6 DEF Matches, Copied
<1>11. ASSUME NEW x \in M, x # Root PROVE w[at[x]] = v[x]
  <2>1. at[x] \in Item /\ d.text[at[x]] = s.text[x] /\ d.done[at[x]] = s.done[x]
    BY <1>5, <1>6, <1>11 DEF Matches
  <2>2. x \in Item
    BY <1>8, <1>11 DEF Item
  <2>3. QED BY <1>9, <2>1, <2>2
<1>12. Nil \notin M
  BY <1>8, NodeAssumption
<1>13. Outline(u, d.id, w) = Outline(t, s.id, v)
  <2>1. \A x \in M :
          /\ at[x] \in Node
          /\ t.firstChild[x] = Nil => u.firstChild[at[x]] = Nil
          /\ t.firstChild[x] # Nil => /\ t.firstChild[x] \in M
                                      /\ u.firstChild[at[x]] = at[t.firstChild[x]]
          /\ t.next[x] = Nil => u.next[at[x]] = Nil
          /\ t.next[x] # Nil => /\ t.next[x] \in M
                                /\ u.next[at[x]] = at[t.next[x]]
          /\ x # Root => d.id[at[x]] = s.id[x] /\ w[at[x]] = v[x]
    BY <1>8, <1>10, <1>11, <1>12
  <2>2. QED BY <1>7, <1>8, <1>10, <2>1, SameOutline
<1>14. OutlineOf(d) = OutlineOf(s)
  BY <1>6, <1>9, <1>13 DEF OutlineOf
<1>15. u.firstChild[Root] # Nil
  <2>1. t.firstChild[Root] # Nil
    BY <1>6, OutlineBegins
  <2>2. t.firstChild[Root] \in M
    BY <1>8, <2>1
  <2>3. u.firstChild[Root] = at[t.firstChild[Root]] /\ at[t.firstChild[Root]] \in Node
    BY <1>8, <1>10, <2>2
  <2>4. QED BY <2>3, NodeAssumption
<1>16. LoadData(f) = l
  BY <1>1, <1>6, <1>15 DEF LoadData
<1>17. QED BY <1>6, <1>14, <1>16

---------------------------------------------------------------------------
(* The last save that ended is in the file.                                *)

Marked(s) == s.done \in [Item -> BOOLEAN]

\* What is read has done flags that are set or not.
LEMMA ReadItemMarked ==
  ASSUME NEW l, SoundLoad(l), Marked(l.doc), NEW entry, NEW whole
  PROVE  Marked(ReadItem(l, entry, whole).doc)
<1>1. PICK b : b = (whole = "item" /\ entry.done) /\ b \in BOOLEAN
  OBVIOUS
<1>2. PICK n : n = NextFree(l.doc.heap)
  OBVIOUS
<1>3. PICK m, v : m = ReadItem(l, entry, whole) /\ v = [l.doc.done EXCEPT ![n] = b]
  OBVIOUS
<1>4. l = [doc |-> l.doc, items |-> l.items, current |-> l.current, threw |-> l.threw]
  BY DEF SoundLoad
<1>5. m.doc.done = v
  BY <1>1, <1>2, <1>3, <1>4 DEF ReadItem
<1>6. v \in [Item -> BOOLEAN]
  BY <1>1, <1>3 DEF Marked
<1>7. QED BY <1>3, <1>5, <1>6 DEF Marked

\* So it has when the whole file is read.
LEMMA LoadMarked ==
  ASSUME NEW f, FileRead(f)
  PROVE  Marked(LoadData(f).doc)
<1>1. PICK n \in Nat : \E a : /\ n = Len(f.items) /\ DOMAIN f.items = 1..n /\ LoadTree(f) = a[n]
                              /\ \A k \in 0..n : a[k] = LoadStep(f, a, k)
  BY LoadUnfolded
<1>2. PICK a : LoadTree(f) = a[n] /\ \A k \in 0..n : a[k] = LoadStep(f, a, k)
  BY <1>1
<1> DEFINE Held(k) == SoundLoad(a[k]) /\ Marked(a[k].doc)
           T == {k \in Nat : k <= n => Held(k)}
<1>3. 0 \in T
  <2>1. PICK l : l = [doc |-> NewCopy, items |-> {Root}, current |-> Nil, threw |-> FALSE]
    OBVIOUS
  <2>2. 0 \in 0..n
    OBVIOUS
  <2>3. LoadStep(f, a, 0) = l
    BY <2>1 DEF LoadStep
  <2>4. a[0] = l
    BY <1>2, <2>2, <2>3
  <2>5. Marked(NewCopy)
    BY DEF NewCopy, Marked
  <2>6. {Root} \subseteq Node \cap NewCopy.heap
    BY NodeAssumption DEF NewCopy
  <2>7. SoundLoad(l) /\ l.doc = NewCopy
    BY <2>1, <2>6, NewSound DEF SoundLoad
  <2>8. QED BY <2>4, <2>5, <2>7
<1>4. ASSUME NEW k \in Nat, k \in T PROVE k + 1 \in T
  <2> SUFFICES ASSUME k + 1 <= n PROVE Held(k + 1)
    OBVIOUS
  <2>1. k + 1 \in 0..n /\ k + 1 # 0 /\ (k + 1) - 1 = k /\ k <= n
    BY <1>1
  <2>2. SoundLoad(a[k]) /\ Marked(a[k].doc)
    BY <1>4, <2>1
  <2>3. PICK l : l = Register(a[k]) /\ SoundLoad(l)
    BY <2>2, RegisterSound
  <2>4. l.doc = a[k].doc
    BY <2>2, <2>3, RegisterThrew
  <2>5. PICK e, w : /\ e = f.items[k + 1]
                    /\ w = IF k + 1 = Len(f.items) /\ f.stop # "end" THEN f.stop ELSE "item"
    OBVIOUS
  <2>6. a[k + 1] = IF l.threw THEN l ELSE ReadItem(l, e, w)
    BY <1>2, <2>1, <2>3, <2>5 DEF LoadStep
  <2>7. SoundLoad(ReadItem(l, e, w)) /\ Marked(ReadItem(l, e, w).doc)
    BY <2>2, <2>3, <2>4, ReadItemSound, ReadItemMarked
  <2>8. QED BY <2>2, <2>3, <2>4, <2>6, <2>7
<1>5. Nat \subseteq T
  <2> HIDE DEF T
  <2>1. QED BY <1>3, <1>4, SetInduction
<1>6. PICK l : l = LoadTree(f) /\ SoundLoad(l) /\ Marked(l.doc)
  BY <1>2, <1>5
<1>7. CASE l.threw \/ l.doc.tree.firstChild[Root] # Nil
  BY <1>6, <1>7 DEF LoadData
<1>8. CASE ~(l.threw \/ l.doc.tree.firstChild[Root] # Nil)
  <2>1. LoadData(f) = [l EXCEPT !.doc = CreateNewChild(l.doc)]
    BY <1>6, <1>8 DEF LoadData
  <2>2. LoadData(f).doc = CreateNewChild(l.doc)
    BY <1>6, <2>1 DEF SoundLoad
  <2>3. PICK s : s = l.doc /\ Sound(s) /\ Marked(s)
    BY <1>6 DEF SoundLoad
  <2>4. PICK n1, u, h, j : /\ n1 = NextFree(s.heap) /\ u = ServerAddAsChild(s.tree, Root, n1, Nil)
                           /\ h = s.heap \cup {n1}
                           /\ j = [s.id EXCEPT ![n1] = Max({s.id[x] : x \in s.heap}) + 1]
    OBVIOUS
  <2>5. CreateNewChild(s) = [s EXCEPT !.tree = u, !.heap = h, !.id = j]
    BY <2>4 DEF CreateNewChild
  <2>6. CreateNewChild(s).done = s.done
    BY <2>3, <2>5 DEF Sound
  <2>7. QED BY <2>2, <2>3, <2>6 DEF Marked
<1>9. QED BY <1>7, <1>8

\* So do the flags after any packet.
LEMMA HandleMarked ==
  ASSUME NEW s, Sound(s), Marked(s), NEW packet,
         packet.type = "PT_ITEM_DONE_CHANGED" => packet.done \in BOOLEAN
  PROVE  Marked(Handle(s, packet))
<1>1. s = [tree |-> s.tree, text |-> s.text, done |-> s.done, heap |-> s.heap, id |-> s.id]
  BY DEF Sound
<1>2. Marked(CreateItem(s, packet))
  <2>1. PICK parent, n, u, x, v, h, j :
          /\ parent = Found(s, packet.parent) /\ n = NextFree(s.heap)
          /\ u = ServerAddAsChild([s.tree EXCEPT !.parent = [@ EXCEPT ![n] = parent]], parent, n,
                                  PrevFound(s, packet))
          /\ x = [s.text EXCEPT ![n] = EmptyText] /\ v = [s.done EXCEPT ![n] = FALSE]
          /\ h = s.heap \cup {n} /\ j = [s.id EXCEPT ![n] = packet.item]
    OBVIOUS
  <2>2. CreateItem(s, packet) = IF parent = Nil THEN s
                                ELSE [tree |-> u, text |-> x, done |-> v, heap |-> h, id |-> j]
    BY <2>1 DEF CreateItem
  <2>3. v \in [Item -> BOOLEAN]
    BY <2>1 DEF Marked
  <2>4. QED BY <2>2, <2>3 DEF Marked
<1>3. Marked(RemoveItemById(s, packet))
  <2>1. PICK i, u : i = Found(s, packet.item) /\ u = DetachFromTree(s.tree, i)
    OBVIOUS
  <2>2. RemoveItemById(s, packet) = IF i = Nil THEN s ELSE [s EXCEPT !.tree = u]
    BY <2>1 DEF RemoveItemById
  <2>3. QED BY <1>1, <2>2 DEF Marked
<1>4. Marked(SetText(s, packet))
  <2>1. PICK i, x : i = Found(s, packet.item) /\ x = [s.text EXCEPT ![i] = packet.text]
    OBVIOUS
  <2>2. SetText(s, packet) = IF i = Nil THEN s ELSE [s EXCEPT !.text = x]
    BY <2>1 DEF SetText
  <2>3. QED BY <1>1, <2>2 DEF Marked
<1>5. packet.done \in BOOLEAN => Marked(SetDone(s, packet))
  <2>1. SUFFICES ASSUME packet.done \in BOOLEAN PROVE Marked(SetDone(s, packet))
    OBVIOUS
  <2>2. PICK i, v : i = Found(s, packet.item) /\ v = [s.done EXCEPT ![i] = packet.done]
    OBVIOUS
  <2>3. SetDone(s, packet) = IF i = Nil THEN s ELSE [s EXCEPT !.done = v]
    BY <2>2 DEF SetDone
  <2>4. v \in [Item -> BOOLEAN]
    BY <2>1, <2>2 DEF Marked
  <2>5. QED BY <1>1, <2>3, <2>4 DEF Marked
<1>6. CASE packet.type = "PT_ITEM_CREATED"
  BY <1>2, <1>6 DEF Handle
<1>7. CASE packet.type = "PT_ITEM_DELETED"
  BY <1>3, <1>7 DEF Handle
<1>8. CASE packet.type = "PT_ITEM_CHANGED"
  BY <1>4, <1>8 DEF Handle
<1>9. CASE packet.type = "PT_ITEM_DONE_CHANGED"
  BY <1>5, <1>9 DEF Handle
<1>10. CASE packet.type = "PT_ITEM_MOVED"
  <2>1. PICK u : MoveItem(s, packet) = s \/ MoveItem(s, packet) = [s EXCEPT !.tree = u]
    BY DEF MoveItem
  <2>2. QED BY <1>1, <1>10, <2>1 DEF Handle, Marked
<1>11. CASE packet.type \notin {"PT_ITEM_CREATED", "PT_ITEM_DELETED", "PT_ITEM_CHANGED",
                                "PT_ITEM_MOVED", "PT_ITEM_DONE_CHANGED"}
  BY <1>11 DEF Handle
<1>12. QED BY <1>6, <1>7, <1>8, <1>9, <1>10, <1>11

\* The file f was written to its end from a sound document that read as o.
WrittenFrom(f, o) == \E s : Sound(s) /\ Marked(s) /\ f.items = EntriesOf(s) /\ o = OutlineOf(s)

SavedInv == /\ copy # Nil => Marked(copy)
            /\ file.stop = "end" /\ saved # <<>> => WrittenFrom(file, saved)

\* The first document is in its file, if it has one.
LEMMA SavedInit ==
  ASSUME Init
  PROVE  SavedInv
<1>1. PICK empty : empty = [items |-> <<>>, stop |-> "item"]
  OBVIOUS
<1>2. FileRead(empty)
  <2>1. <<>> \in Seq({})
    OBVIOUS
  <2>2. QED BY <1>1, <2>1 DEF FileRead
<1>3. PICK new : new = LoadData(empty).doc /\ Sound(new) /\ Marked(new)
  BY <1>2, LoadDataSound, LoadMarked
<1>4. /\ \/ copy = new /\ file = Written(empty, new)
         \/ copy = Nil /\ file = empty
      /\ saved = OutlineOf(new)
  BY <1>1, <1>3 DEF Init
<1>5. Written(empty, new).items = EntriesOf(new)
  BY DEF Written
<1>6. CASE copy = new /\ file = Written(empty, new)
  BY <1>3, <1>4, <1>5, <1>6 DEF SavedInv, WrittenFrom
<1>7. CASE copy = Nil /\ file = empty
  BY <1>1, <1>7 DEF SavedInv
<1>8. QED BY <1>4, <1>6, <1>7

\* A save that ends writes the document; one that does not is not remembered.
LEMMA SavedKeeps ==
  ASSUME CopyInv, SavedInv, [Next]_vars
  PROVE  SavedInv'
<1>1. CASE Receive
  <2>1. PICK packet \in Packets : copy' = Handle(copy, packet)
    BY <1>1 DEF Receive
  <2>2. copy # Nil /\ file' = file /\ saved' = saved /\ Sound(copy) /\ Marked(copy)
    BY <1>1 DEF Receive, CopyInv, SavedInv
  <2>3. PICK s : s = copy
    OBVIOUS
  <2>4. Marked(Handle(s, packet))
    BY <2>2, <2>3, PacketKinds, HandleMarked
  <2>5. QED BY <2>1, <2>2, <2>3, <2>4 DEF SavedInv
<1>2. CASE Save
  <2>1. PICK s, old : s = copy /\ old = file /\ Sound(s) /\ Marked(s)
    BY <1>2 DEF Save, CopyInv, SavedInv
  <2>2. copy' = s /\ file' = Written(old, s) /\ saved' = OutlineOf(s)
    BY <1>2, <2>1 DEF Save
  <2>3. Written(old, s).items = EntriesOf(s)
    BY DEF Written
  <2>4. QED BY <2>1, <2>2, <2>3 DEF SavedInv, WrittenFrom
<1>3. CASE StopWhileSaving
  BY <1>3 DEF StopWhileSaving, SavedInv
<1>4. CASE Stop
  BY <1>4 DEF Stop, SavedInv
<1>5. CASE Start
  <2>1. PICK f : f = file /\ Marked(LoadData(f).doc)
    BY LoadMarked DEF CopyInv
  <2>2. file' = file /\ saved' = saved /\ (copy' = Nil \/ copy' = LoadData(f).doc)
    BY <1>5, <2>1 DEF Start
  <2>3. QED BY <2>1, <2>2 DEF SavedInv
<1>6. CASE UNCHANGED vars
  BY <1>6 DEF vars, SavedInv
<1>7. QED BY <1>1, <1>2, <1>3, <1>4, <1>5, <1>6 DEF Next

\* What the server reads when it starts is what it wrote, if the save ended.
LEMMA StartComesBack ==
  ASSUME CopyInv, SavedInv, [Next]_vars, copy = Nil, copy' # Nil, file.stop = "end", saved # <<>>
  PROVE  OutlineOf(copy') = saved
<1>1. Start
  BY DEF Next, vars, Receive, Save, StopWhileSaving, Stop
<1>2. PICK f, o : f = file /\ o = saved /\ WrittenFrom(f, o)
  BY DEF SavedInv
<1>3. ~LoadData(f).threw /\ copy' = LoadData(f).doc
  BY <1>1, <1>2 DEF Start
<1>4. PICK s : Sound(s) /\ Marked(s) /\ f.items = EntriesOf(s) /\ o = OutlineOf(s)
  BY <1>2 DEF WrittenFrom
<1>5. OutlineOf(LoadData(f).doc) = OutlineOf(s)
  BY <1>2, <1>3, <1>4, LoadedIsSaved DEF Marked
<1>6. QED BY <1>2, <1>3, <1>4, <1>5

\* Reading gives back what writing put down (loadTree after saveDocument): a
\* document that was saved to the end comes back with its items, order, nesting,
\* texts and done flags, whatever happened to it before.
THEOREM SavedAlwaysComesBack == Spec => SavedComesBack
<1>1. Init => SavedInv
  BY SavedInit
<1>2. CopyInv /\ SavedInv /\ [Next]_vars => SavedInv'
  BY SavedKeeps
<1>3. CopyInv /\ SavedInv /\ [Next]_vars
      => [copy = Nil /\ copy' # Nil /\ file.stop = "end" /\ saved # <<>>
          => OutlineOf(copy') = saved]_vars
  BY StartComesBack
<1>4. QED BY <1>1, <1>2, <1>3, CopyStaysSound, PTL DEF Spec, SavedComesBack

---------------------------------------------------------------------------
(* The part that comes back when the writing did not end.                  *)

\* The nodes of a chain are children of its parent.
LEMMA ChainParent ==
  ASSUME NEW t \in Tree, LinksAgree(t), NEW p \in Node, NEW x \in Chain(t, p)
  PROVE  t.parent[x] = p
<1>1. PICK S \in SUBSET Node : S = {y \in Node : t.parent[y] = p}
  OBVIOUS
<1>2. t.firstChild[p] # Nil => t.firstChild[p] \in S
  BY <1>1 DEF LinksAgree, Tree, ItemOrNil, Item
<1>3. \A y \in S : t.next[y] # Nil => t.next[y] \in S
  BY <1>1 DEF LinksAgree, Tree, ItemOrNil, Item
<1>4. Chain(t, p) \subseteq S
  BY <1>2, <1>3, ChainLeast
<1>5. QED BY <1>1, <1>4

\* z are the copies of the first nodes of V, those that have a copy.
Begins(D, at, V, z) ==
  \A m \in 0..Len(V) : (\A j \in 1..Len(V) : V[j] \in D <=> j <= m)
                       => Len(z) = m /\ \A j \in 1..m : z[j] = at[V[j]]

\* A copy is met before the copies of what is below it, these before the later
\* siblings.
LEMMA BeginsJoined ==
  ASSUME NEW D, NEW at, NEW x \in Node, NEW A \in Seq(Node), NEW B \in Seq(Node),
         NEW V, V = <<x>> \o A \o B, NEW za \in Seq(Node), NEW zb \in Seq(Node),
         Begins(D, at, A, za), Begins(D, at, B, zb),
         NEW z, x \in D => at[x] \in Node /\ z = <<at[x]>> \o za \o zb, x \notin D => z = <<>>
  PROVE  Begins(D, at, V, z)
<1>1. PICK a, b : a = Len(A) /\ b = Len(B) /\ a \in Nat /\ b \in Nat
  <2>1. Len(A) \in Nat /\ Len(B) \in Nat
    OBVIOUS
  <2>2. QED BY <2>1
<1>2. /\ Len(V) = 1 + a + b /\ V[1] = x
      /\ \A k \in 1..a : V[1 + k] = A[k]
      /\ \A k \in 1..b : V[1 + a + k] = B[k]
  BY <1>1, ThreeJoined
<1>3. SUFFICES ASSUME NEW m \in 0..Len(V), \A j \in 1..Len(V) : V[j] \in D <=> j <= m
               PROVE  Len(z) = m /\ \A j \in 1..m : z[j] = at[V[j]]
  BY DEF Begins
<1>4. m \in Nat /\ m <= 1 + a + b
  BY <1>1, <1>2
<1>5. \A j \in 1..1 + a + b : V[j] \in D <=> j <= m
  BY <1>2, <1>3
<1>6. x \in D <=> 1 <= m
  <2>1. 1 \in 1..1 + a + b
    BY <1>1
  <2>2. QED BY <1>2, <1>5, <2>1
<1>7. CASE m = 0
  <2>1. z = <<>>
    BY <1>6, <1>7
  <2>2. Len(z) = 0
    BY <2>1
  <2>3. QED BY <1>7, <2>2
<1>8. CASE m # 0
  <2>1. x \in D /\ at[x] \in Node /\ z = <<at[x]>> \o za \o zb
    BY <1>4, <1>6, <1>8
  <2>2. PICK i, k : i = (IF m <= 1 + a THEN m - 1 ELSE a) /\ k = (m - 1) - i
    OBVIOUS
  <2>3. /\ i \in Nat /\ k \in Nat /\ i <= a /\ k <= b /\ m = 1 + i + k
        /\ k # 0 => i = a
    BY <1>1, <1>4, <1>8, <2>2
  <2>4. \A j \in 1..a : A[j] \in D <=> j <= i
    <3>1. SUFFICES ASSUME NEW j \in 1..a PROVE A[j] \in D <=> j <= i
      OBVIOUS
    <3>2. 1 + j \in 1..1 + a + b /\ V[1 + j] = A[j]
      BY <1>1, <1>2
    <3>3. A[j] \in D <=> 1 + j <= m
      BY <1>5, <3>2
    <3>4. 1 + j <= m <=> j <= i
      BY <1>1, <1>4, <2>3
    <3>5. QED BY <3>3, <3>4
  <2>5. \A j \in 1..b : B[j] \in D <=> j <= k
    <3>1. SUFFICES ASSUME NEW j \in 1..b PROVE B[j] \in D <=> j <= k
      OBVIOUS
    <3>2. 1 + a + j \in 1..1 + a + b /\ V[1 + a + j] = B[j]
      BY <1>1, <1>2
    <3>3. B[j] \in D <=> 1 + a + j <= m
      BY <1>5, <3>2
    <3>4. 1 + a + j <= m <=> j <= k
      BY <1>1, <1>4, <2>3
    <3>5. QED BY <3>3, <3>4
  <2>6. Len(za) = i /\ \A j \in 1..i : za[j] = at[A[j]]
    <3>1. i \in 0..Len(A) /\ \A j \in 1..Len(A) : A[j] \in D <=> j <= i
      BY <1>1, <2>3, <2>4
    <3>2. QED BY <3>1 DEF Begins
  <2>7. Len(zb) = k /\ \A j \in 1..k : zb[j] = at[B[j]]
    <3>1. k \in 0..Len(B) /\ \A j \in 1..Len(B) : B[j] \in D <=> j <= k
      BY <1>1, <2>3, <2>5
    <3>2. QED BY <3>1 DEF Begins
  <2>8. /\ Len(z) = 1 + i + k /\ z[1] = at[x]
        /\ \A j \in 1..i : z[1 + j] = za[j]
        /\ \A j \in 1..k : z[1 + i + j] = zb[j]
    <3>1. /\ Len(z) = 1 + Len(za) + Len(zb) /\ z[1] = at[x]
          /\ \A j \in 1..Len(za) : z[1 + j] = za[j]
          /\ \A j \in 1..Len(zb) : z[1 + Len(za) + j] = zb[j]
      BY <2>1, ThreeJoined
    <3>2. QED BY <2>6, <2>7, <3>1
  <2>9. ASSUME NEW j \in 1..m PROVE z[j] = at[V[j]]
    <3>1. CASE j = 1
      BY <1>2, <2>8, <3>1
    <3>2. CASE j # 1 /\ j <= 1 + i
      <4>1. PICK o : o = j - 1
        OBVIOUS
      <4>2. o \in 1..i /\ o \in 1..a /\ j = 1 + o
        BY <1>1, <2>3, <2>9, <3>2, <4>1
      <4>3. z[j] = za[o] /\ V[j] = A[o] /\ za[o] = at[A[o]]
        BY <1>2, <2>6, <2>8, <4>2
      <4>4. QED BY <4>3
    <3>3. CASE ~(j <= 1 + i)
      <4>1. PICK o : o = j - (1 + i)
        OBVIOUS
      <4>2. o \in 1..k /\ o \in 1..b /\ j = 1 + i + o /\ i = a
        BY <1>1, <2>3, <2>9, <3>3, <4>1
      <4>3. z[j] = zb[o] /\ zb[o] = at[B[o]]
        BY <2>7, <2>8, <4>2
      <4>4. V[j] = B[o]
        BY <1>2, <4>2
      <4>5. QED BY <4>3, <4>4
    <3>4. QED BY <3>1, <3>2, <3>3
  <2>10. QED BY <2>3, <2>8, <2>9
<1>9. QED BY <1>4, <1>7, <1>8

\* What saveNode meets of a copy of some nodes.
LEMMA WalkBegins ==
  ASSUME NEW t \in Tree, Grounded(t), NEW u \in Tree, NEW w, Walking(t, w), NEW v, Walking(u, v),
         NEW D \in SUBSET Node, NEW at, \A x \in D : at[x] \in Node, Copied(t, D, u, at)
  PROVE  \A x \in NodeOrNil : Begins(D, at, w[x], v[IF x \in D THEN at[x] ELSE Nil])
<1> DEFINE c(x) == IF x \in D THEN at[x] ELSE Nil
           Good(x) == Begins(D, at, w[x], v[c(x)])
<1>1. /\ Nil \notin D /\ Nil \in NodeOrNil /\ Node \subseteq NodeOrNil
      /\ \A x \in NodeOrNil : w[x] \in Seq(Node) /\ v[x] \in Seq(Node) /\ c(x) \in NodeOrNil
      /\ w[Nil] = <<>> /\ v[Nil] = <<>>
  BY NodeAssumption DEF Walking, NodeOrNil
<1>2. Good(Nil)
  <2>1. c(Nil) = Nil
    BY <1>1
  <2>2. Len(w[Nil]) = 0 /\ Len(v[Nil]) = 0
    BY <1>1
  <2>3. QED BY <2>1, <2>2 DEF Begins
<1>3. ASSUME NEW x \in Node, Good(t.firstChild[x]), Good(t.next[x]) PROVE Good(x)
  <2>1. PICK a, b : a = t.firstChild[x] /\ b = t.next[x] /\ a \in NodeOrNil /\ b \in NodeOrNil
    BY DEF Tree, ItemOrNil, Item, NodeOrNil
  <2>2. PICK A, B, za, zb, V, z : /\ A = w[a] /\ B = w[b] /\ za = v[c(a)] /\ zb = v[c(b)]
                                  /\ V = w[x] /\ z = v[c(x)]
    OBVIOUS
  <2>3. A \in Seq(Node) /\ B \in Seq(Node) /\ za \in Seq(Node) /\ zb \in Seq(Node)
    <3> HIDE DEF c
    <3>1. QED BY <1>1, <2>1, <2>2
  <2>4. Begins(D, at, A, za) /\ Begins(D, at, B, zb)
    BY <1>3, <2>1, <2>2
  <2>5. V = <<x>> \o A \o B
    BY <2>1, <2>2 DEF Walking
  <2>6. /\ x \in D => at[x] \in Node /\ z = <<at[x]>> \o za \o zb
        /\ x \notin D => z = <<>>
    <3>1. CASE x \in D
      <4>1. at[x] \in Node /\ c(x) = at[x]
        BY <3>1
      <4>2. u.firstChild[at[x]] = c(a) /\ u.next[at[x]] = c(b)
        BY <2>1, <3>1 DEF Copied
      <4>3. v[at[x]] = <<at[x]>> \o v[u.firstChild[at[x]]] \o v[u.next[at[x]]]
        BY <4>1 DEF Walking
      <4> HIDE DEF c
      <4>4. QED BY <2>2, <3>1, <4>1, <4>2, <4>3
    <3>2. CASE x \notin D
      BY <1>1, <2>2, <3>2
    <3>3. QED BY <3>1, <3>2
  <2>7. Begins(D, at, V, z)
    BY <2>3, <2>4, <2>5, <2>6, BeginsJoined
  <2>8. QED BY <2>2, <2>7
<1>4. PICK T \in SUBSET Node : T = {x \in Node : ~Good(x)}
  OBVIOUS
<1>5. T = {}
  <2> HIDE DEF Good
  <2>1. SUFFICES ASSUME T # {} PROVE FALSE
    OBVIOUS
  <2>2. PICK x \in T : t.firstChild[x] \notin T /\ t.next[x] \notin T
    BY <2>1 DEF Grounded
  <2>3. (t.firstChild[x] = Nil \/ t.firstChild[x] \in Node) /\ (t.next[x] = Nil \/ t.next[x] \in Node)
    BY DEF Tree, ItemOrNil, Item
  <2>4. Good(t.firstChild[x])
    BY <1>2, <1>4, <2>2, <2>3
  <2>5. Good(t.next[x])
    BY <1>2, <1>4, <2>2, <2>3
  <2>6. QED BY <1>3, <1>4, <2>2, <2>4, <2>5
<1>6. \A x \in NodeOrNil : Good(x)
  <2> HIDE DEF Good
  <2>1. QED BY <1>2, <1>4, <1>5 DEF NodeOrNil
<1>7. QED BY <1>6

\* The items of q are the first ones of r, each with its parent.
SameItem(x, y) == x.id = y.id /\ x.parent = y.parent
SameStart(q, r) == Len(q) <= Len(r) /\ \A k \in 1..Len(q) : SameItem(q[k], r[k])

\* z is the copies of the first k nodes of W, each below the copy of its parent.
Copies(s, d, W, k, at, z) ==
  /\ z \in Seq(Node) /\ Len(z) = k /\ k \in 0..Len(W) /\ Len(W) \in Nat
  /\ \A j \in 1..k : /\ W[j] \in Met(W, k) /\ W[j] # Root /\ z[j] = at[W[j]]
                     /\ s.tree.parent[W[j]] \in Met(W, k)
                     /\ d.tree.parent[z[j]] = at[s.tree.parent[W[j]]]

\* What saveNode meets in a copy of the first k nodes is the copies of them, and
\* each hangs below the copy of the node's parent.
LEMMA CopyMet ==
  ASSUME NEW s, Sound(s), NEW d, Sound(d), NEW w, Walking(s.tree, w),
         NEW W, W = w[s.tree.firstChild[Root]], NEW k \in Nat, k <= Len(W),
         NEW at, Shaped(s, Met(W, k), d, at), NEW v, Walking(d.tree, v),
         NEW z, z = v[d.tree.firstChild[Root]]
  PROVE  Copies(s, d, W, k, at, z)
<1>1. PICK t, u, D, n : t = s.tree /\ u = d.tree /\ D = Met(W, k) /\ n = Len(W)
  OBVIOUS
<1>2. /\ t \in Tree /\ LinksAgree(t) /\ Grounded(t) /\ u \in Tree /\ LinksAgree(u) /\ Grounded(u)
  BY <1>1 DEF Sound, SoundIn
<1>3. Walking(u, v) /\ z = v[u.firstChild[Root]]
  BY <1>1
<1>4. Preorder(t, W)
  BY <1>1, <1>2, WalkAll
<1>5. /\ W \in Seq(Node) /\ n \in Nat /\ \A i, j \in 1..n : W[i] = W[j] => i = j
      /\ \A j \in 1..n : W[j] \in InTree(t) \ {Root}
  <2>1. /\ W \in Seq(Node) /\ \A i, j \in 1..n : W[i] = W[j] => i = j
        /\ \A y : y \in InTree(t) \ {Root} <=> \E j \in 1..n : W[j] = y
    BY <1>1, <1>4 DEF Preorder
  <2>2. n \in Nat
    BY <1>1, <2>1
  <2>3. ASSUME NEW j \in 1..n PROVE W[j] \in InTree(t) \ {Root}
    BY <2>1
  <2>4. QED BY <2>1, <2>2, <2>3
<1>6. /\ D \in SUBSET Node /\ Root \in D
      /\ \A x : x \in D <=> x = Root \/ \E j \in 1..k : x = W[j]
  <2>1. D \in SUBSET Node /\ Root \in D
    BY <1>1, <1>5, MetGrows
  <2>2. QED BY <1>1, <2>1 DEF Met
<1>7. at[Root] = Root /\ \A x \in D : at[x] \in Node
      /\ Copied(t, D, u, at)
  BY <1>1 DEF Shaped
<1>8. PICK c, C : c = t.firstChild[Root] /\ C = u.firstChild[Root] /\ z = v[C]
  BY <1>3
<1>9. C = IF c \in D THEN at[c] ELSE Nil
  BY <1>6, <1>7, <1>8 DEF Copied
<1>10. c \in NodeOrNil /\ C \in NodeOrNil
  BY <1>2, <1>8, NodeAssumption DEF Tree, ItemOrNil, Item, NodeOrNil
<1>11. Begins(D, at, W, z)
  <2>1. Walking(t, w) /\ W = w[c]
    BY <1>1, <1>8
  <2>2. Begins(D, at, w[c], v[IF c \in D THEN at[c] ELSE Nil])
    BY <1>2, <1>3, <1>6, <1>7, <1>10, <2>1, WalkBegins
  <2>3. QED BY <1>8, <1>9, <2>1, <2>2
<1>12. \A j \in 1..n : W[j] \in D <=> j <= k
  <2>1. SUFFICES ASSUME NEW j \in 1..n PROVE W[j] \in D <=> j <= k
    OBVIOUS
  <2>2. W[j] # Root
    BY <1>5
  <2>3. j <= k => W[j] \in D
    BY <1>6, j <= k => j \in 1..k
  <2>4. W[j] \in D => j <= k
    <3>1. SUFFICES ASSUME W[j] \in D PROVE j <= k
      OBVIOUS
    <3>2. PICK i \in 1..k : W[j] = W[i]
      BY <1>6, <2>2, <3>1
    <3>3. i \in 1..n
      BY <1>1, <1>5
    <3>4. QED BY <1>5, <3>2, <3>3
  <2>5. QED BY <2>3, <2>4
<1>13. k \in 0..n
  BY <1>1, <1>5
<1>14. z \in Seq(Node)
  BY <1>3, <1>8, <1>10 DEF Walking
<1>15. Len(z) = k /\ \A j \in 1..k : z[j] = at[W[j]]
  BY <1>1, <1>11, <1>12, <1>13 DEF Begins
<1>16. ASSUME NEW j \in 1..k
       PROVE  /\ W[j] \in D /\ W[j] # Root /\ z[j] = at[W[j]] /\ t.parent[W[j]] \in D
              /\ u.parent[z[j]] = at[t.parent[W[j]]]
  <2>1. PICK x : x = W[j] /\ x \in D /\ x # Root
    BY <1>5, <1>6, <1>13
  <2>2. t.parent[x] \in D /\ at[x] \in Chain(u, at[t.parent[x]])
    BY <1>7, <2>1 DEF Copied
  <2>3. at[t.parent[x]] \in Node
    BY <1>7, <2>2
  <2>4. u.parent[at[x]] = at[t.parent[x]]
    BY <1>2, <2>2, <2>3, ChainParent
  <2>5. QED BY <1>15, <2>1, <2>2, <2>4
<1>17. /\ z \in Seq(Node) /\ Len(z) = k /\ k \in 0..Len(W) /\ Len(W) \in Nat
       /\ \A j \in 1..k : /\ W[j] \in Met(W, k) /\ W[j] # Root /\ z[j] = at[W[j]]
                          /\ s.tree.parent[W[j]] \in Met(W, k)
                          /\ d.tree.parent[z[j]] = at[s.tree.parent[W[j]]]
  BY <1>1, <1>5, <1>13, <1>14, <1>15, <1>16
<1>18. QED BY <1>17 DEF Copies

\* What is written of a copy of the first k nodes is the first k items.
LEMMA CopyWritten ==
  ASSUME NEW s, Sound(s), NEW d, Sound(d), NEW w, Walking(s.tree, w),
         NEW W, W = w[s.tree.firstChild[Root]], NEW k \in Nat, k <= Len(W),
         NEW at, Shaped(s, Met(W, k), d, at)
  PROVE  Len(EntriesOf(d)) = k /\ SameStart(EntriesOf(d), EntriesOf(s))
<1>1. PICK v, z : Walking(d.tree, v) /\ z = v[d.tree.firstChild[Root]] /\ WrittenAlong(d, z)
  BY SavedInOrder
<1>2. PICK D, t : D = Met(W, k) /\ t = s.tree
  OBVIOUS
<1>3. Copies(s, d, W, k, at, z)
  BY <1>1, CopyMet
<1>4. \A x \in D : d.id[at[x]] = s.id[x]
  BY <1>2 DEF Shaped
<1>5. PICK q, r : q = EntriesOf(d) /\ r = EntriesOf(s)
  OBVIOUS
<1>6. Len(z) = k /\ k \in 0..Len(W) /\ Len(W) \in Nat
  BY <1>3 DEF Copies
<1>7. Len(q) = k /\ \A j \in 1..k : q[j] = EntryAt(d, z[j])
  BY <1>1, <1>6, <1>5 DEF WrittenAlong
<1>8. Len(r) = Len(W) /\ \A j \in 1..Len(W) : r[j] = EntryAt(s, W[j])
  <2>1. WrittenAlong(s, W)
    BY SavedAlong
  <2>2. QED BY <1>5, <2>1 DEF WrittenAlong
<1>9. ASSUME NEW j \in 1..k PROVE SameItem(q[j], r[j])
  <2>1. PICK x, y : /\ x = W[j] /\ y = at[x] /\ x \in D /\ z[j] = y
                    /\ t.parent[x] \in D /\ d.tree.parent[y] = at[t.parent[x]]
    <3>1. /\ W[j] \in D /\ z[j] = at[W[j]] /\ t.parent[W[j]] \in D
          /\ d.tree.parent[z[j]] = at[t.parent[W[j]]]
      BY <1>2, <1>3 DEF Copies
    <3>2. QED BY <3>1
  <2>2. j \in 1..Len(W)
    BY <1>6
  <2>3. q[j].id = d.id[y] /\ q[j].parent = d.id[d.tree.parent[y]]
    <3>1. q[j] = EntryAt(d, y)
      BY <1>7, <2>1
    <3>2. QED BY <3>1 DEF EntryAt
  <2>4. r[j].id = s.id[x] /\ r[j].parent = s.id[t.parent[x]]
    <3>1. r[j] = EntryAt(s, x)
      BY <1>8, <2>1, <2>2
    <3>2. QED BY <1>2, <3>1 DEF EntryAt
  <2>5. QED BY <1>4, <2>1, <2>3, <2>4 DEF SameItem
<1>10. QED BY <1>6, <1>5, <1>7, <1>8, <1>9 DEF SameStart

---------------------------------------------------------------------------
(* An item that was cut in the number of its parent.                       *)

\* z is z0 with e put in at m.
PutAt(z, z0, e, m) ==
  /\ m \in 1..Len(z) /\ Len(z) = Len(z0) + 1
  /\ \A k \in 1..Len(z) : z[k] = IF k < m THEN z0[k] ELSE IF k = m THEN e ELSE z0[k - 1]

\* z is z0, or z0 with e put in somewhere.
PutIn(z, z0, e) == z = z0 \/ \E m : PutAt(z, z0, e, m)

NoneTwice(z) == \A j, k \in 1..Len(z) : z[j] = z[k] => j = k

\* Put in below a node or after it.
LEMMA PutInJoined ==
  ASSUME NEW x \in Node, NEW e \in Node, NEW A \in Seq(Node), NEW B \in Seq(Node),
         NEW A0 \in Seq(Node), NEW B0 \in Seq(Node), PutIn(A, A0, e), PutIn(B, B0, e),
         NEW z, z = <<x>> \o A \o B, NEW z0, z0 = <<x>> \o A0 \o B0,
         NoneTwice(z)
  PROVE  PutIn(z, z0, e)
<1>1. PICK a, b, a0, b0 : /\ a = Len(A) /\ b = Len(B) /\ a0 = Len(A0) /\ b0 = Len(B0)
                          /\ a \in Nat /\ b \in Nat /\ a0 \in Nat /\ b0 \in Nat
  <2>1. Len(A) \in Nat /\ Len(B) \in Nat /\ Len(A0) \in Nat /\ Len(B0) \in Nat
    OBVIOUS
  <2>2. QED BY <2>1
<1>2. /\ Len(z) = 1 + a + b /\ z[1] = x
      /\ \A k \in 1..a : z[1 + k] = A[k]
      /\ \A k \in 1..b : z[1 + a + k] = B[k]
  BY <1>1, ThreeJoined
<1>3. /\ Len(z0) = 1 + a0 + b0 /\ z0[1] = x
      /\ \A k \in 1..a0 : z0[1 + k] = A0[k]
      /\ \A k \in 1..b0 : z0[1 + a0 + k] = B0[k]
  BY <1>1, ThreeJoined
<1>4. CASE A = A0 /\ B = B0
  BY <1>4 DEF PutIn
<1>5. CASE A # A0 /\ B = B0
  <2>1. PICK m \in 1..a : /\ a = a0 + 1
                          /\ \A k \in 1..a : A[k] = IF k < m THEN A0[k] ELSE IF k = m THEN e ELSE A0[k - 1]
    BY <1>1, <1>5 DEF PutIn, PutAt
  <2>2. b = b0 /\ Len(z) = Len(z0) + 1 /\ 1 + m \in 1..Len(z)
    BY <1>1, <1>2, <1>3, <1>5, <2>1
  <2>3. ASSUME NEW k \in 1..1 + a + b
        PROVE  z[k] = IF k < 1 + m THEN z0[k] ELSE IF k = 1 + m THEN e ELSE z0[k - 1]
    <3>1. CASE k = 1
      BY <1>2, <1>3, <3>1
    <3>2. CASE k # 1 /\ k <= 1 + a
      <4>1. PICK i \in 1..a : k = 1 + i
        BY <1>1, <2>3, <3>2, k - 1 \in 1..a
      <4>2. z[k] = A[i]
        BY <1>2, <4>1
      <4>3. CASE i < m
        <5>1. i \in 1..a0 /\ k < 1 + m
          BY <1>1, <2>1, <4>1, <4>3
        <5>2. z0[k] = A0[i]
          BY <1>3, <4>1, <5>1
        <5>3. QED BY <2>1, <4>1, <4>2, <4>3, <5>1, <5>2
      <4>4. CASE i = m
        <5>1. ~(k < 1 + m) /\ k = 1 + m /\ ~(i < m)
          BY <4>1, <4>4
        <5>2. QED BY <2>1, <4>1, <4>2, <4>4, <5>1
      <4>5. CASE i > m
        <5>1. i - 1 \in 1..a0 /\ k - 1 = 1 + (i - 1) /\ ~(k < 1 + m) /\ k # 1 + m /\ ~(i < m) /\ i # m
          BY <1>1, <2>1, <4>1, <4>5
        <5>2. z0[k - 1] = A0[i - 1]
          BY <1>3, <5>1
        <5>3. A[i] = A0[i - 1]
          BY <2>1, <5>1
        <5>4. QED BY <4>2, <5>1, <5>2, <5>3
      <4>6. i < m \/ i = m \/ i > m
        BY <1>1
      <4>7. QED BY <4>3, <4>4, <4>5, <4>6
    <3>3. CASE ~(k <= 1 + a)
      <4>1. PICK i \in 1..b : k = 1 + a + i
        <5>1. k - (1 + a) \in 1..b /\ k = 1 + a + (k - (1 + a))
          BY <1>1, <2>3, <3>3
        <5>2. QED BY <5>1
      <4>2. i \in 1..b0 /\ k - 1 = 1 + a0 + i /\ ~(k < 1 + m) /\ k # 1 + m
        BY <1>1, <2>1, <2>2, <4>1
      <4>3. z[k] = B[i]
        BY <1>2, <4>1
      <4>4. z0[k - 1] = B0[i]
        BY <1>3, <4>2
      <4>5. QED BY <1>5, <4>2, <4>3, <4>4
    <3>4. QED BY <3>1, <3>2, <3>3
  <2>4. PutAt(z, z0, e, 1 + m)
    BY <1>2, <2>2, <2>3 DEF PutAt
  <2>5. QED BY <2>4 DEF PutIn
<1>6. CASE A = A0 /\ B # B0
  <2>1. PICK m \in 1..b : /\ b = b0 + 1
                          /\ \A k \in 1..b : B[k] = IF k < m THEN B0[k] ELSE IF k = m THEN e ELSE B0[k - 1]
    BY <1>1, <1>6 DEF PutIn, PutAt
  <2>2. a = a0 /\ Len(z) = Len(z0) + 1 /\ 1 + a + m \in 1..Len(z)
    BY <1>1, <1>2, <1>3, <1>6, <2>1
  <2>3. ASSUME NEW k \in 1..1 + a + b
        PROVE  z[k] = IF k < 1 + a + m THEN z0[k] ELSE IF k = 1 + a + m THEN e ELSE z0[k - 1]
    <3>1. CASE k = 1
      BY <1>1, <1>2, <1>3, <3>1
    <3>2. CASE k # 1 /\ k <= 1 + a
      <4>1. PICK i \in 1..a : k = 1 + i
        BY <1>1, <2>3, <3>2, k - 1 \in 1..a
      <4>2. z[k] = A[i] /\ z0[k] = A0[i] /\ k < 1 + a + m
        BY <1>1, <1>2, <1>3, <2>2, <4>1
      <4>3. QED BY <1>6, <4>2
    <3>3. CASE ~(k <= 1 + a)
      <4>1. PICK i \in 1..b : k = 1 + a + i
        <5>1. k - (1 + a) \in 1..b /\ k = 1 + a + (k - (1 + a))
          BY <1>1, <2>3, <3>3
        <5>2. QED BY <5>1
      <4>2. z[k] = B[i]
        BY <1>2, <4>1
      <4>3. CASE i < m
        <5>1. i \in 1..b0 /\ k < 1 + a + m
          BY <1>1, <2>1, <4>1, <4>3
        <5>2. z0[k] = B0[i]
          BY <1>3, <2>2, <4>1, <5>1
        <5>3. QED BY <2>1, <4>1, <4>2, <4>3, <5>1, <5>2
      <4>4. CASE i = m
        <5>1. ~(k < 1 + a + m) /\ k = 1 + a + m /\ ~(i < m)
          BY <1>1, <4>1, <4>4
        <5>2. QED BY <2>1, <4>1, <4>2, <4>4, <5>1
      <4>5. CASE i > m
        <5>1. /\ i - 1 \in 1..b0 /\ k - 1 = 1 + a0 + (i - 1) /\ ~(k < 1 + a + m) /\ k # 1 + a + m
              /\ ~(i < m) /\ i # m
          BY <1>1, <2>1, <2>2, <4>1, <4>5
        <5>2. z0[k - 1] = B0[i - 1]
          BY <1>3, <5>1
        <5>3. B[i] = B0[i - 1]
          BY <2>1, <5>1
        <5>4. QED BY <4>2, <5>1, <5>2, <5>3
      <4>6. i < m \/ i = m \/ i > m
        BY <1>1
      <4>7. QED BY <4>3, <4>4, <4>5, <4>6
    <3>4. QED BY <3>1, <3>2, <3>3
  <2>4. PutAt(z, z0, e, 1 + a + m)
    BY <1>2, <2>2, <2>3 DEF PutAt
  <2>5. QED BY <2>4 DEF PutIn
<1>7. CASE A # A0 /\ B # B0
  <2>1. PICK i \in 1..a : A[i] = e
    BY <1>1, <1>7 DEF PutIn, PutAt
  <2>2. PICK j \in 1..b : B[j] = e
    BY <1>1, <1>7 DEF PutIn, PutAt
  <2>3. 1 + i \in 1..Len(z) /\ 1 + a + j \in 1..Len(z) /\ 1 + i # 1 + a + j
    BY <1>1, <1>2
  <2>4. z[1 + i] = z[1 + a + j]
    BY <1>2, <2>1, <2>2
  <2>5. QED BY <2>3, <2>4 DEF NoneTwice
<1>8. QED BY <1>4, <1>5, <1>6, <1>7

\* An item that addAsLastChild links is met between the others, if its parent is.
LEMMA AddLastWalk ==
  ASSUME NEW u, NEW heap, SoundIn(u, heap), Root \in heap, NEW p \in Node \cap heap,
         NEW n \in Item \ heap, n = NextFree(heap), NEW u2, u2 = AddAsLastChild(u, p, n),
         NEW v, Walking(u, v), NEW v2, Walking(u2, v2)
  PROVE  PutIn(v2[u2.firstChild[Root]], v[u.firstChild[Root]], n)
<1>1. /\ u \in Tree /\ LinksAgree(u) /\ Grounded(u) /\ ChainsEnd(u)
      /\ u2 \in Tree /\ LinksAgree(u2) /\ Grounded(u2)
  BY AddLastSound, GroundedChains DEF SoundIn
<1>2. PICK a : a = LastChild(u, p)
  OBVIOUS
<1>3. /\ u.firstChild[p] = Nil =>
           \A x \in Node : /\ u2.firstChild[x] = IF x = p THEN n ELSE u.firstChild[x]
                           /\ u2.next[x] = u.next[x]
      /\ u.firstChild[p] # Nil =>
           \A x \in Node : /\ u2.firstChild[x] = u.firstChild[x]
                           /\ u2.next[x] = IF x = a THEN n ELSE u.next[x]
  BY <1>2, AddLastFields
<1>4. /\ Nil \notin Node /\ n \in Node /\ n # p /\ n # Nil /\ Root \in Node /\ Root # n
      /\ u.firstChild[n] = Nil /\ u.next[n] = Nil
  BY NodeAssumption DEF SoundIn, Unlinked, Item
<1>5. ASSUME u.firstChild[p] # Nil, a \in Node PROVE u.next[a] = Nil /\ a # n
  <2>1. a # Nil
    BY <1>4, <1>5
  <2>2. a \in Item /\ u.next[a] = Nil /\ u.parent[a] = p
    BY <1>1, <1>2, <2>1, LastChildFacts
  <2>3. u.parent[n] = Nil /\ p # Nil
    BY <1>4 DEF SoundIn, Unlinked
  <2>4. QED BY <2>2, <2>3
<1>6. u2.firstChild[n] = Nil /\ u2.next[n] = Nil
  BY <1>3, <1>4, <1>5
<1>7. \A x \in Node : /\ u.firstChild[x] \in Node \cup {Nil} /\ u.firstChild[x] # n
                      /\ u.next[x] \in Node \cup {Nil} /\ u.next[x] # n
  BY <1>4, LinkedAllocated DEF Item
<1>8. \A x \in Node : /\ \/ u2.firstChild[x] = u.firstChild[x]
                         \/ u.firstChild[x] = Nil /\ u2.firstChild[x] = n
                      /\ \/ u2.next[x] = u.next[x]
                         \/ u.next[x] = Nil /\ u2.next[x] = n
  <2>1. CASE u.firstChild[p] = Nil
    BY <1>3, <2>1
  <2>2. CASE u.firstChild[p] # Nil
    BY <1>3, <1>5, <2>2
  <2>3. QED BY <2>1, <2>2
<1>9. /\ \A x \in NodeOrNil : v[x] \in Seq(Node) /\ v2[x] \in Seq(Node)
      /\ v[Nil] = <<>> /\ v2[Nil] = <<>>
      /\ \A x \in Node : v[x] = <<x>> \o v[u.firstChild[x]] \o v[u.next[x]]
      /\ \A x \in Node : v2[x] = <<x>> \o v2[u2.firstChild[x]] \o v2[u2.next[x]]
  BY DEF Walking
<1>10. PutIn(v2[n], v[Nil], n) /\ PutIn(v2[Nil], v[Nil], n)
  <2>1. v2[n] = <<n>> \o <<>> \o <<>>
    BY <1>4, <1>6, <1>9
  <2>2. <<n>> \o <<>> \o <<>> = <<n>>
    BY <1>4
  <2>3. PICK z : z = v2[n] /\ z = <<n>>
    BY <2>1, <2>2
  <2>4. Len(z) = 1 /\ z[1] = n
    BY <2>3
  <2>5. Len(<<>>) = 0
    OBVIOUS
  <2>6. \A k \in 1..Len(z) : z[k] = IF k < 1 THEN <<>>[k] ELSE IF k = 1 THEN n ELSE <<>>[k - 1]
    BY <2>4
  <2>7. PutIn(z, <<>>, n)
    <3>1. 1 \in 1..Len(z) /\ Len(z) = Len(<<>>) + 1
      BY <2>4, <2>5
    <3>2. PutAt(z, <<>>, n, 1)
      BY <2>6, <3>1 DEF PutAt
    <3>3. QED BY <3>2 DEF PutIn
  <2>8. QED BY <1>9, <2>3, <2>7 DEF PutIn
<1> DEFINE Good(x) == PutIn(v2[x], v[x], n)
<1>11. ASSUME NEW x \in Node, NEW y, NEW y2, y \in Node \cup {Nil}, y2 = y \/ (y = Nil /\ y2 = n),
              y # Nil => Good(y)
       PROVE  PutIn(v2[y2], v[y], n)
  BY <1>10, <1>11
<1>12. ASSUME NEW x \in Node,
              u.firstChild[x] # Nil => Good(u.firstChild[x]), u.next[x] # Nil => Good(u.next[x])
       PROVE  Good(x)
  <2>1. PICK A, B, A0, B0 : /\ A = v2[u2.firstChild[x]] /\ B = v2[u2.next[x]]
                            /\ A0 = v[u.firstChild[x]] /\ B0 = v[u.next[x]]
    OBVIOUS
  <2>2. PutIn(A, A0, n) /\ PutIn(B, B0, n)
    <3> HIDE DEF Good
    <3>1. PutIn(A, A0, n)
      BY <1>7, <1>8, <1>11, <1>12, <2>1
    <3>2. PutIn(B, B0, n)
      BY <1>7, <1>8, <1>11, <1>12, <2>1
    <3>3. QED BY <3>1, <3>2
  <2>3. A \in Seq(Node) /\ B \in Seq(Node) /\ A0 \in Seq(Node) /\ B0 \in Seq(Node)
    <3>1. /\ u.firstChild[x] \in NodeOrNil /\ u.next[x] \in NodeOrNil
          /\ u2.firstChild[x] \in NodeOrNil /\ u2.next[x] \in NodeOrNil
      BY <1>4, <1>7, <1>8 DEF NodeOrNil
    <3>2. QED BY <1>9, <2>1, <3>1
  <2>4. PICK z, z0 : z = v2[x] /\ z0 = v[x] /\ z = <<x>> \o A \o B /\ z0 = <<x>> \o A0 \o B0
    BY <1>9, <2>1
  <2>5. NoneTwice(z)
    <3>1. WalkFrom(u2, x, v2[x])
      BY <1>1, WalkMeets
    <3>2. QED BY <2>4, <3>1 DEF WalkFrom, NoneTwice
  <2>6. PutIn(z, z0, n)
    BY <1>4, <2>2, <2>3, <2>4, <2>5, PutInJoined
  <2>7. QED BY <2>4, <2>6
<1>13. PICK T \in SUBSET Node : T = {x \in Node : ~Good(x)}
  OBVIOUS
<1> HIDE DEF Good
<1>14. T = {}
  <2>1. SUFFICES ASSUME T # {} PROVE FALSE
    OBVIOUS
  <2>2. PICK x \in T : u.firstChild[x] \notin T /\ u.next[x] \notin T
    BY <1>1, <2>1 DEF Grounded
  <2>3. u.firstChild[x] # Nil => Good(u.firstChild[x])
    BY <1>7, <1>13, <2>2
  <2>4. u.next[x] # Nil => Good(u.next[x])
    BY <1>7, <1>13, <2>2
  <2>5. QED BY <1>12, <1>13, <2>2, <2>3, <2>4
<1>15. \A y \in Node : Good(y)
  BY <1>13, <1>14
<1>16. QED BY <1>4, <1>7, <1>8, <1>11, <1>15

\* Nothing hangs elsewhere but that item.
LEMMA AddLastParent ==
  ASSUME NEW u \in Tree, NEW p \in Node, NEW n \in Item, NEW x \in Node
  PROVE  AddAsLastChild(u, p, n).parent[x] = IF x = n THEN p ELSE u.parent[x]
<1>1. /\ n \in Node /\ u.parent = [y \in Node |-> u.parent[y]]
      /\ u = [parent |-> u.parent, next |-> u.next, prev |-> u.prev, firstChild |-> u.firstChild]
  BY DEF Item, Tree
<1>2. CASE u.firstChild[p] = Nil
  <2>1. AddAsLastChild(u, p, n) = InsertAfter(u, p, n, Nil)
    BY <1>2 DEF AddAsLastChild, ServerAddAsChild, WrongAfter
  <2>2. QED BY <2>1, InsertFields DEF ItemOrNil
<1>3. CASE u.firstChild[p] # Nil
  <2>1. PICK a, f, v, r : /\ a = LastChild(u, p) /\ f = [u.next EXCEPT ![a] = n]
                          /\ v = [u.prev EXCEPT ![n] = a] /\ r = [u.parent EXCEPT ![n] = p]
    OBVIOUS
  <2>2. AddAsLastChild(u, p, n) = [u EXCEPT !.next = f, !.prev = v, !.parent = r]
    BY <1>3, <2>1 DEF AddAsLastChild
  <2>3. PICK w : w = AddAsLastChild(u, p, n)
    OBVIOUS
  <2>4. w.parent = r
    BY <1>1, <2>2, <2>3
  <2>5. QED BY <1>1, <2>1, <2>3, <2>4
<1>4. QED BY <1>2, <1>3

\* An item that is linked nowhere: the rest stays in place.
LEMMA ReadItemOut ==
  ASSUME NEW s, NEW D, NEW l, SoundLoad(l), NEW at, Matches(s, D, l.doc, at), NEW entry,
         NEW whole, whole = "parent" \/ {x \in l.items : l.doc.id[x] = entry.parent} = {}
  PROVE  Shaped(s, D, ReadItem(l, entry, whole).doc, at)
<1>1. PICK d, n, j : /\ d = l.doc /\ n = NextFree(d.heap) /\ j = [d.id EXCEPT ![n] = entry.id]
  OBVIOUS
<1>2. /\ l = [doc |-> l.doc, items |-> l.items, current |-> l.current, threw |-> l.threw]
      /\ Root \in d.heap /\ DOMAIN d.id = Node
  BY <1>1 DEF SoundLoad, Sound
<1>3. PICK m : m = ReadItem(l, entry, whole)
  OBVIOUS
<1>4. m.doc.tree = d.tree /\ m.doc.id = j
  <2>1. PICK x, v, c : /\ x = [d.text EXCEPT ![n] = IF whole \in {"item", "done"}
                                                   THEN entry.text ELSE EmptyText]
                       /\ v = [d.done EXCEPT ![n] = whole = "item" /\ entry.done]
                       /\ c = [tree |-> d.tree, text |-> x, done |-> v, heap |-> d.heap \cup {n},
                               id |-> j]
    OBVIOUS
  <2>2. m = [l EXCEPT !.current = n, !.doc = c]
    BY <1>1, <1>3, <2>1 DEF ReadItem
  <2>3. m.doc = c
    BY <1>2, <2>2
  <2>4. QED BY <2>1, <2>3
<1>5. n \notin d.heap \/ n = Nil
  BY <1>1, <1>2, NextFreeFacts
<1>6. /\ at[Root] = Root /\ Copied(s.tree, D, d.tree, at)
      /\ \A x \in D : at[x] \in Node /\ at[x] \in d.heap /\ d.id[at[x]] = s.id[x]
  BY <1>1 DEF Matches
<1>7. \A x \in D : j[at[x]] = s.id[x]
  <2>1. \A y \in Node : y # n => j[y] = d.id[y]
    BY <1>1, <1>2
  <2>2. \A x \in D : at[x] # n
    BY <1>5, <1>6, NodeAssumption
  <2>3. QED BY <1>6, <2>1, <2>2
<1>8. Shaped(s, D, m.doc, at)
  BY <1>4, <1>6, <1>7 DEF Shaped
<1>9. QED BY <1>3, <1>8

\* An item that is linked below p: nothing else changes.
LEMMA ReadItemIn ==
  ASSUME NEW l, SoundLoad(l), NEW entry, NEW whole, whole # "parent",
         {x \in l.items : l.doc.id[x] = entry.parent} # {}
  PROVE  \E p \in l.items : LET n == NextFree(l.doc.heap)
                                d == ReadItem(l, entry, whole).doc IN
           /\ l.doc.id[p] = entry.parent /\ d.tree = AddAsLastChild(l.doc.tree, p, n)
           /\ n # Nil => \A x \in Node : d.id[x] = IF x = n THEN entry.id ELSE l.doc.id[x]
<1>1. PICK d, n, j : /\ d = l.doc /\ n = NextFree(d.heap) /\ j = [d.id EXCEPT ![n] = entry.id]
  OBVIOUS
<1>2. /\ l = [doc |-> l.doc, items |-> l.items, current |-> l.current, threw |-> l.threw]
      /\ Root \in d.heap /\ DOMAIN d.id = Node
  BY <1>1 DEF SoundLoad, Sound
<1>3. PICK parents, p : parents = {x \in l.items : d.id[x] = entry.parent}
                        /\ p = CHOOSE x \in parents : TRUE
  OBVIOUS
<1>4. p \in parents
  BY <1>1, <1>3
<1>5. PICK m : m = ReadItem(l, entry, whole)
  OBVIOUS
<1>6. m.doc.tree = AddAsLastChild(d.tree, p, n) /\ m.doc.id = j
  <2>1. PICK w, x, v, c : /\ w = AddAsLastChild(d.tree, p, n)
                          /\ x = [d.text EXCEPT ![n] = IF whole \in {"item", "done"}
                                                      THEN entry.text ELSE EmptyText]
                          /\ v = [d.done EXCEPT ![n] = whole = "item" /\ entry.done]
                          /\ c = [tree |-> w, text |-> x, done |-> v, heap |-> d.heap \cup {n},
                                  id |-> j]
    OBVIOUS
  <2>2. whole # "parent" /\ parents # {}
    BY <1>1, <1>3
  <2>3. m = [l EXCEPT !.current = n, !.doc = c]
    BY <1>1, <1>3, <1>5, <2>1, <2>2 DEF ReadItem
  <2>4. m.doc = c
    BY <1>2, <2>3
  <2>5. QED BY <2>1, <2>4
<1>7. \A x \in Node : j[x] = IF x = n THEN entry.id ELSE d.id[x]
  BY <1>1, <1>2
<1>8. p \in l.items /\ d.id[p] = entry.parent
  BY <1>3, <1>4
<1>9. QED BY <1>1, <1>5, <1>6, <1>7, <1>8

\* q are the first items of r, with one that was put in.
OneMoved(q, r, entry) ==
  \E m \in 1..Len(q) : \A k \in 1..Len(q) :
    SameItem(q[k], IF k < m THEN r[k] ELSE IF k = m THEN entry ELSE r[k - 1])

\* q are the first i items of r, or these with one more.
CutCame(q, r, i, entry) == \/ Len(q) = i /\ SameStart(q, r)
                           \/ Len(q) = i + 1 /\ OneMoved(q, r, entry)

\* An item whose parent's number was cut comes after the others, is left out, or
\* comes somewhere between them; they keep their places.
LEMMA LastCutRead ==
  ASSUME NEW s, Sound(s), NEW w, Walking(s.tree, w), NEW W, W = w[s.tree.firstChild[Root]],
         NEW i \in Nat, i + 1 <= Len(W), NEW l, SoundLoad(l),
         NEW at, Matches(s, Met(W, i), l.doc, at), NEW entry,
         NEW q, q = EntriesOf(ReadItem(l, entry, "number").doc), NEW r, r = EntriesOf(s)
  PROVE  CutCame(q, r, i, entry)
<1>1. PICK D, d, d2, u, h, n : /\ D = Met(W, i) /\ d = l.doc /\ u = d.tree /\ h = d.heap
                               /\ d2 = ReadItem(l, entry, "number").doc /\ n = NextFree(h)
  OBVIOUS
<1>2. SoundLoad(ReadItem(l, entry, "number"))
  BY ReadItemSound
<1>3. /\ Sound(d) /\ Sound(d2) /\ SoundIn(u, h) /\ Root \in h /\ u \in Tree
      /\ l.items \subseteq Node \cap h
  BY <1>1, <1>2 DEF SoundLoad, Sound, SoundIn
<1>4. Len(W) \in Nat /\ i <= Len(W) /\ W \in Seq(Node)
  <2>1. s.tree \in Tree /\ LinksAgree(s.tree) /\ Grounded(s.tree)
    BY DEF Sound, SoundIn
  <2>2. W \in Seq(Node)
    BY <2>1, WalkAll DEF Preorder
  <2>3. QED BY <2>2
<1>5. CASE {x \in l.items : l.doc.id[x] = entry.parent} = {}
  <2>1. Shaped(s, D, d2, at)
    BY <1>1, <1>5, ReadItemOut
  <2>2. Len(EntriesOf(d2)) = i /\ SameStart(EntriesOf(d2), EntriesOf(s))
    BY <1>1, <1>3, <1>4, <2>1, CopyWritten
  <2>3. QED BY <1>1, <2>2 DEF CutCame
<1>6. CASE {x \in l.items : l.doc.id[x] = entry.parent} # {}
  <2>1. /\ \A y \in D : at[y] \in Node /\ at[y] \in h /\ d.id[at[y]] = s.id[y]
        /\ h = {at[y] : y \in D} /\ Shaped(s, D, d, at)
    BY <1>1 DEF Matches, Shaped
  <2>2. n \in Item \ h
    <3>1. D \in SUBSET Node /\ IsFiniteSet(D)
      BY <1>1, <1>4, MetGrows
    <3>2. PICK x : x \in Node \ D
      <4>1. Preorder(s.tree, W)
        BY WalkAll DEF Sound, SoundIn
      <4>2. s.tree \in Tree /\ LinksAgree(s.tree) /\ Grounded(s.tree)
        BY DEF Sound, SoundIn
      <4>3. PICK z : NextOf(s.tree, D, W[i + 1], z)
        BY <1>1, <4>1, <4>2, NextOfWalk
      <4>4. QED BY <4>3 DEF NextOf
    <3>3. ~(Node \subseteq h)
      BY <2>1, <3>1, <3>2, RoomLeft
    <3>4. QED BY <1>1, <1>3, <3>3, NextFreeFacts
  <2>3. n \in Node /\ n # Nil /\ Nil \notin Node
    BY <2>2, NodeAssumption DEF Item
  <2>4. PICK p \in l.items :
          /\ d.id[p] = entry.parent /\ d2.tree = AddAsLastChild(u, p, n)
          /\ \A x \in Node : d2.id[x] = IF x = n THEN entry.id ELSE d.id[x]
    BY <1>1, <1>6, <2>3, ReadItemIn
  <2>5. p \in Node \cap h /\ p # n
    BY <1>3, <2>2
  <2>6. PICK v, z0 : Walking(u, v) /\ z0 = v[u.firstChild[Root]]
    BY <1>1, <1>3, SavedInOrder
  <2>7. PICK v2, z : /\ Walking(d2.tree, v2) /\ z = v2[d2.tree.firstChild[Root]]
                     /\ WrittenAlong(d2, z)
    BY <1>3, SavedInOrder
  <2>8. PutIn(z, z0, n)
    BY <1>1, <1>3, <2>2, <2>4, <2>5, <2>6, <2>7, AddLastWalk
  <2>9. PICK t : t = s.tree
    OBVIOUS
  <2>10. /\ Len(z0) = i /\ i \in 0..Len(W)
         /\ \A j \in 1..i : /\ W[j] \in D /\ z0[j] = at[W[j]] /\ t.parent[W[j]] \in D
                            /\ u.parent[z0[j]] = at[t.parent[W[j]]]
    <3>1. /\ Walking(d.tree, v) /\ z0 = v[d.tree.firstChild[Root]] /\ Shaped(s, Met(W, i), d, at)
          /\ Sound(d) /\ i <= Len(W)
      BY <1>1, <1>3, <1>4, <2>1, <2>6
    <3>2. Copies(s, d, W, i, at, z0)
      BY <3>1, CopyMet
    <3>3. ASSUME NEW j \in 1..i
          PROVE  /\ W[j] \in D /\ z0[j] = at[W[j]] /\ t.parent[W[j]] \in D
                 /\ u.parent[z0[j]] = at[t.parent[W[j]]]
      BY <1>1, <2>9, <3>2 DEF Copies
    <3>4. Len(z0) = i /\ i \in 0..Len(W)
      BY <3>2 DEF Copies
    <3>5. QED BY <3>3, <3>4
  <2>11. Len(q) = Len(z) /\ \A k \in 1..Len(z) : q[k] = EntryAt(d2, z[k])
    BY <1>1, <2>7 DEF WrittenAlong
  <2>12. Len(r) = Len(W) /\ \A j \in 1..Len(W) : r[j] = EntryAt(s, W[j])
    <3>1. WrittenAlong(s, W)
      BY SavedAlong
    <3>2. QED BY <3>1 DEF WrittenAlong
  <2>13. \A x \in Node : d2.tree.parent[x] = IF x = n THEN p ELSE u.parent[x]
    BY <1>3, <2>2, <2>4, <2>5, AddLastParent
  <2>14. ASSUME NEW j \in 1..i PROVE SameItem(EntryAt(d2, z0[j]), r[j])
    <3>1. PICK x, y : /\ x = W[j] /\ y = t.parent[x] /\ x \in D /\ y \in D /\ z0[j] = at[x]
                      /\ u.parent[at[x]] = at[y]
      <4>1. /\ W[j] \in D /\ z0[j] = at[W[j]] /\ t.parent[W[j]] \in D
            /\ u.parent[z0[j]] = at[t.parent[W[j]]]
        BY <2>10
      <4>2. QED BY <4>1
    <3>2. PICK c, b : /\ c = at[x] /\ b = at[y] /\ c \in Node /\ c # n /\ b \in Node /\ b # n
                      /\ d.id[c] = s.id[x] /\ d.id[b] = s.id[y] /\ u.parent[c] = b /\ z0[j] = c
      BY <2>1, <2>2, <3>1
    <3>3. d2.id[c] = s.id[x] /\ d2.id[d2.tree.parent[c]] = s.id[y]
      BY <2>4, <2>13, <3>2
    <3>4. j \in 1..Len(W)
      BY <1>4, <2>14
    <3>5. r[j].id = s.id[x] /\ r[j].parent = s.id[y]
      <4>1. r[j] = EntryAt(s, x)
        BY <2>12, <3>1, <3>4
      <4>2. EntryAt(s, x).id = s.id[x] /\ EntryAt(s, x).parent = s.id[s.tree.parent[x]]
        BY DEF EntryAt
      <4>3. QED BY <2>9, <3>1, <4>1, <4>2
    <3>6. EntryAt(d2, c).id = s.id[x] /\ EntryAt(d2, c).parent = s.id[y]
      BY <3>3 DEF EntryAt
    <3>7. QED BY <3>2, <3>5, <3>6 DEF SameItem
  <2>15. SameItem(EntryAt(d2, n), entry)
    BY <2>3, <2>4, <2>5, <2>13 DEF EntryAt, SameItem
  <2>16. CASE z = z0
    <3>1. Len(q) = i /\ \A k \in 1..i : SameItem(q[k], r[k])
      BY <2>10, <2>11, <2>14, <2>16
    <3>2. QED BY <1>4, <2>12, <3>1 DEF SameStart, CutCame
  <2>17. CASE z # z0
    <3>1. PICK m \in 1..Len(z) :
            /\ Len(z) = i + 1
            /\ \A k \in 1..Len(z) : z[k] = IF k < m THEN z0[k] ELSE IF k = m THEN n ELSE z0[k - 1]
      BY <2>8, <2>10, <2>17 DEF PutIn, PutAt
    <3>2. ASSUME NEW k \in 1..i + 1
          PROVE  SameItem(q[k], IF k < m THEN r[k] ELSE IF k = m THEN entry ELSE r[k - 1])
      <4>1. q[k] = EntryAt(d2, z[k])
        BY <2>11, <3>1
      <4>2. CASE k < m
        <5>1. k \in 1..i
          BY <3>1, <4>2
        <5>2. z[k] = z0[k]
          BY <3>1, <4>2
        <5>3. QED BY <2>14, <4>1, <4>2, <5>1, <5>2
      <4>3. CASE k = m
        <5>1. z[k] = n /\ ~(k < m)
          BY <3>1, <4>3
        <5>2. QED BY <2>15, <4>1, <4>3, <5>1
      <4>4. CASE k > m
        <5>1. k - 1 \in 1..i /\ ~(k < m) /\ k # m
          BY <3>1, <4>4
        <5>2. z[k] = z0[k - 1]
          BY <3>1, <5>1
        <5>3. QED BY <2>14, <4>1, <5>1, <5>2
      <4>5. QED BY <3>1, <4>2, <4>3, <4>4
    <3>3. QED BY <2>11, <3>1, <3>2 DEF OneMoved, CutCame
  <2>18. QED BY <2>16, <2>17
<1>7. QED BY <1>5, <1>6

---------------------------------------------------------------------------
(* What comes back of the first part of a document.                        *)

\* Of the items of f, q has all in their places, all but the last, or all with
\* the last one elsewhere.
CameBack(q, f) ==
  LET n == Len(f.items) IN
  \/ /\ n = Len(q) \/ (n = Len(q) + 1 /\ f.stop \in {"parent", "number"})
     /\ \A k \in 1..Len(q) : SameItem(q[k], f.items[k])
  \/ /\ f.stop = "number" /\ Len(q) = n
     /\ \E m \in 1..n : \A k \in 1..n :
          SameItem(q[k], f.items[IF k < m THEN k ELSE IF k = m THEN n ELSE k - 1])

\* The last item may be missing or hang elsewhere; all others are there.
LEMMA LoadPart ==
  ASSUME NEW s, Sound(s), s.done \in [Item -> BOOLEAN], NEW f, NEW n, PartOf(f, s, n),
         f.stop # "end", ~LoadTree(f).threw
  PROVE  CameBack(EntriesOf(LoadTree(f).doc), f)
<1>1. PICK w, W : /\ W = w[s.tree.firstChild[Root]] /\ Walking(s.tree, w)
                  /\ Preorder(s.tree, W) /\ WrittenAlong(s, W)
  BY SavedInOrder
<1>2. PICK e : e = EntriesOf(s) /\ Len(e) = Len(W) /\ \A k \in 1..Len(W) : e[k] = EntryAt(s, W[k])
  BY <1>1 DEF WrittenAlong
<1>3. W \in Seq(Node) /\ Len(W) \in Nat
  BY <1>1 DEF Preorder
<1>4. /\ n \in Nat /\ Len(f.items) = n /\ n <= Len(W) /\ FileRead(f) /\ (f.stop = "number" => n # 0)
      /\ \A k \in 1..n : /\ f.items[k].id = e[k].id
                         /\ ~(k = n /\ f.stop = "number") => f.items[k] = EntryAt(s, W[k])
  <2>1. /\ n \in Nat /\ Len(f.items) = n /\ n <= Len(e) /\ FileRead(f) /\ (f.stop = "number" => n # 0)
        /\ \A k \in 1..n : /\ f.items[k].id = e[k].id
                           /\ ~(k = n /\ f.stop = "number") => f.items[k] = e[k]
    BY <1>2, PartItems
  <2>2. \A k \in 1..n : k \in 1..Len(W)
    BY <1>2, <1>3, <2>1
  <2>3. QED BY <1>2, <2>1, <2>2
<1>5. PICK m \in Nat : \E a : /\ m = Len(f.items) /\ DOMAIN f.items = 1..m /\ LoadTree(f) = a[m]
                              /\ \A k \in 0..m : a[k] = LoadStep(f, a, k)
  BY <1>4, LoadUnfolded
<1>6. PICK a : LoadTree(f) = a[n] /\ \A k \in 0..n : a[k] = LoadStep(f, a, k)
  BY <1>4, <1>5
<1>7. PICK i : i = (IF n = 0 THEN 0 ELSE n - 1)
  OBVIOUS
<1>8. i \in 0..n /\ i <= Len(W) /\ (i = n => n = 0) /\ (n # 0 => n = i + 1) /\ i \in Nat
  BY <1>3, <1>4, <1>7
<1>9. SoundLoad(a[i]) /\ (a[i].threw \/ \E at : Reading(s, W, i, a[i], at))
  <2>1. ASSUME NEW k \in 1..i PROVE f.items[k] = EntryAt(s, W[k])
    <3>1. k \in 1..n /\ k # n
      BY <1>4, <1>8
    <3>2. QED BY <1>4, <3>1
  <2>2. /\ n \in Nat /\ n = Len(f.items) /\ i \in 0..n /\ i <= Len(W)
        /\ (i = n /\ i # 0 => f.stop = "end")
    BY <1>4, <1>8
  <2>3. /\ n \in Nat /\ n = Len(f.items) /\ \A k \in 0..n : a[k] = LoadStep(f, a, k)
        /\ i \in 0..n /\ (i = n /\ i # 0 => f.stop = "end") /\ i <= Len(W)
        /\ Preorder(s.tree, W) /\ \A k \in 1..i : f.items[k] = EntryAt(s, W[k])
    BY <1>1, <1>6, <2>1, <2>2
  <2>4. QED BY <2>3, LoadReading
<1>10. ASSUME NEW k \in 0..n, n = k \/ (n = k + 1 /\ f.stop \in {"parent", "number"}),
              k = n => f.stop # "number",
              NEW d, Sound(d), NEW at, Shaped(s, Met(W, k), d, at)
       PROVE  CameBack(EntriesOf(d), f)
  <2>1. k \in Nat /\ k <= Len(W)
    BY <1>3, <1>4, <1>10
  <2>2. PICK q : q = EntriesOf(d) /\ Len(q) = k /\ SameStart(q, e)
    BY <1>1, <1>2, <1>10, <2>1, CopyWritten
  <2>3. ASSUME NEW j \in 1..k PROVE SameItem(q[j], f.items[j])
    <3>1. j \in 1..n /\ ~(j = n /\ f.stop = "number") /\ j \in 1..Len(W)
      BY <1>3, <1>4, <1>10, <2>1
    <3>2. f.items[j] = e[j]
      BY <1>2, <1>4, <3>1
    <3>3. QED BY <2>2, <3>2 DEF SameStart
  <2>4. QED BY <1>4, <1>10, <2>2, <2>3 DEF CameBack
<1>11. CASE n = 0
  <2>1. PICK at : Reading(s, W, 0, LoadTree(f), at)
    BY <1>6, <1>7, <1>9, <1>11
  <2>2. Shaped(s, Met(W, 0), LoadTree(f).doc, at) /\ Sound(LoadTree(f).doc)
    BY <1>6, <1>7, <1>9, <1>11, <2>1 DEF Reading, Matches, Shaped, SoundLoad
  <2>3. f.stop # "number" /\ 0 \in 0..n
    BY <1>4, <1>11
  <2>4. QED BY <1>10, <1>11, <2>2, <2>3
<1>12. CASE n # 0
  <2>1. PICK l : l = Register(a[i]) /\ SoundLoad(l)
    BY <1>9, RegisterSound
  <2>2. PICK x, r : x = f.items[n] /\ r = ReadItem(l, x, f.stop)
    OBVIOUS
  <2>3. a[n] = IF l.threw THEN l ELSE r
    <3>1. n \in 0..n /\ n # 0 /\ n - 1 = i /\ n \in 1..n /\ n = i + 1
      BY <1>4, <1>8, <1>12
    <3>2. a[n] = LoadStep(f, a, n)
      BY <1>6, <3>1
    <3>3. QED BY <1>4, <2>1, <2>2, <3>1, <3>2 DEF LoadStep
  <2>4. ~l.threw /\ LoadTree(f) = r
    BY <1>6, <2>3
  <2>5. SoundLoad(r) /\ Sound(r.doc)
    BY <2>1, <2>2, ReadItemSound DEF SoundLoad
  <2>6. PICK at : Reading(s, W, i, a[i], at)
    <3>1. ~a[i].threw
      BY <1>9, <2>1, <2>4, RegisterThrew
    <3>2. QED BY <1>9, <3>1
  <2>7. Matches(s, Met(W, i), l.doc, at)
    <3>1. l.doc = a[i].doc
      BY <1>9, <2>1, RegisterThrew
    <3>2. QED BY <2>6, <3>1 DEF Reading
  <2>8. CASE f.stop = "parent"
    <3>1. Shaped(s, Met(W, i), r.doc, at)
      BY <2>1, <2>2, <2>7, <2>8, ReadItemOut
    <3>2. n = i + 1 /\ i # n
      BY <1>4, <1>8, <1>12
    <3>3. QED BY <1>8, <1>10, <2>4, <2>5, <2>8, <3>1, <3>2
  <2>9. CASE f.stop \notin {"parent", "number"}
    <3>1. i + 1 <= Len(W) /\ i + 1 = n /\ n \in 0..n /\ n \in 1..n
      BY <1>4, <1>8, <1>12
    <3>2. x = EntryAt(s, W[i + 1])
      BY <1>4, <2>2, <2>9, <3>1
    <3>3. ~Register(a[i]).threw /\ r = ReadItem(Register(a[i]), EntryAt(s, W[i + 1]), f.stop)
      BY <2>1, <2>2, <2>4, <3>2
    <3>4. PICK bt : Shaped(s, Met(W, i + 1), r.doc, bt)
      BY <1>1, <1>8, <1>9, <2>6, <2>9, <3>1, <3>3, ReadNext
    <3>5. QED BY <1>10, <2>4, <2>5, <2>9, <3>1, <3>4
  <2>10. CASE f.stop = "number"
    <3>1. PICK q : q = EntriesOf(r.doc)
      OBVIOUS
    <3>3. i + 1 <= Len(W) /\ i + 1 = n
      BY <1>4, <1>8, <1>12
    <3>4. r = ReadItem(l, x, "number")
      BY <2>2, <2>10
    <3>5. \/ Len(q) = i /\ SameStart(q, e)
          \/ Len(q) = i + 1 /\ OneMoved(q, e, x)
      <4>1. /\ Walking(s.tree, w) /\ W = w[s.tree.firstChild[Root]] /\ i \in Nat /\ i + 1 <= Len(W)
            /\ SoundLoad(l) /\ Matches(s, Met(W, i), l.doc, at)
            /\ q = EntriesOf(ReadItem(l, x, "number").doc) /\ e = EntriesOf(s)
        BY <1>1, <1>2, <1>8, <2>1, <2>7, <3>1, <3>3, <3>4
      <4>2. CutCame(q, e, i, x)
        BY <4>1, LastCutRead
      <4>3. QED BY <4>2 DEF CutCame
    <3>6. \A j \in 1..i : f.items[j] = e[j]
      <4>1. SUFFICES ASSUME NEW j \in 1..i PROVE f.items[j] = e[j]
        OBVIOUS
      <4>2. j \in 1..n /\ j # n /\ j \in 1..Len(W)
        BY <1>3, <1>8, <3>3
      <4>3. QED BY <1>2, <1>4, <4>2
    <3>7. CASE Len(q) = i /\ SameStart(q, e)
      <4>1. \A k \in 1..Len(q) : SameItem(q[k], f.items[k])
        BY <3>6, <3>7 DEF SameStart
      <4>2. QED BY <1>4, <2>4, <2>10, <3>1, <3>3, <3>7, <4>1 DEF CameBack
    <3>8. CASE Len(q) = i + 1 /\ OneMoved(q, e, x)
      <4>1. PICK j \in 1..n : \A k \in 1..n :
              SameItem(q[k], IF k < j THEN e[k] ELSE IF k = j THEN x ELSE e[k - 1])
        BY <3>3, <3>8 DEF OneMoved
      <4>2. ASSUME NEW k \in 1..n
            PROVE  SameItem(q[k], f.items[IF k < j THEN k ELSE IF k = j THEN n ELSE k - 1])
        <5>1. CASE k < j
          <6>1. k \in 1..i
            BY <1>8, <3>3, <5>1
          <6>2. QED BY <3>6, <4>1, <5>1, <6>1
        <5>2. CASE k = j
          <6>1. ~(k < j)
            BY <5>2
          <6>2. QED BY <2>2, <4>1, <5>2, <6>1
        <5>3. CASE k > j
          <6>1. k - 1 \in 1..i /\ ~(k < j) /\ k # j
            BY <1>8, <3>3, <5>3
          <6>2. QED BY <3>6, <4>1, <6>1
        <5>4. QED BY <1>4, <5>1, <5>2, <5>3
      <4>3. QED BY <1>4, <2>4, <2>10, <3>1, <3>3, <3>8, <4>2 DEF CameBack
    <3>9. QED BY <3>5, <3>7, <3>8
  <2>11. QED BY <2>8, <2>9, <2>10
<1>13. QED BY <1>11, <1>12

\* Nothing is written of an empty document.
LEMMA NothingWritten ==
  ASSUME NEW s, Sound(s), s.tree.firstChild[Root] = Nil
  PROVE  Len(EntriesOf(s)) = 0
<1>1. PICK w : /\ Walking(s.tree, w) /\ WrittenAlong(s, w[s.tree.firstChild[Root]])
  BY SavedInOrder
<1>2. w[s.tree.firstChild[Root]] = <<>>
  BY <1>1 DEF Walking
<1>3. Len(<<>>) = 0
  OBVIOUS
<1>4. QED BY <1>1, <1>2, <1>3 DEF WrittenAlong

\* loadData leaves at most one item where loadTree left none.
LEMMA NewChildWritten ==
  ASSUME NEW s, Sound(s), s.tree.firstChild[Root] = Nil
  PROVE  Len(EntriesOf(CreateNewChild(s))) \in {0, 1}
<1>1. PICK t, h, n, c : t = s.tree /\ h = s.heap /\ n = NextFree(h) /\ c = CreateNewChild(s)
  OBVIOUS
<1>2. Sound(c)
  BY <1>1, NewChildSound
<1>3. PICK u, j : /\ u = ServerAddAsChild(t, Root, n, Nil)
                  /\ j = [s.id EXCEPT ![n] = Max({s.id[x] : x \in s.heap}) + 1]
  OBVIOUS
<1>4. c = [s EXCEPT !.tree = u, !.heap = h \cup {n}, !.id = j]
  BY <1>1, <1>3 DEF CreateNewChild
<1>5. c.tree = u
  BY <1>4 DEF Sound
<1>6. SoundIn(t, h) /\ Root \in h /\ t.firstChild[Root] = Nil /\ Root \in Node
  BY <1>1, NodeAssumption DEF Sound
<1>7. u = AddAsLastChild(t, Root, n)
  BY <1>3, <1>6 DEF AddAsLastChild
<1>8. n \in Item \ h \/ n = Nil
  BY <1>1, <1>6, NextFreeFacts
<1>9. CASE n = Nil
  <2>1. u = InsertAfter(t, Root, Nil, Nil)
    BY <1>3, <1>9 DEF ServerAddAsChild, WrongAfter
  <2>2. u.firstChild = [t.firstChild EXCEPT ![Root] = Nil]
    BY <2>1 DEF InsertAfter
  <2>3. u.firstChild[Root] = Nil
    BY <1>6, <2>2
  <2>4. QED BY <1>1, <1>2, <1>5, <2>3, NothingWritten
<1>10. CASE n \in Item \ h
  <2>1. n \in Node /\ n # Root /\ t.firstChild[n] = Nil /\ t.next[n] = Nil
    BY <1>6, <1>10 DEF SoundIn, Unlinked, Item
  <2>2. u.firstChild[Root] = n /\ u.firstChild[n] = Nil /\ u.next[n] = Nil
    BY <1>6, <1>7, <1>10, <2>1, AddLastFields
  <2>3. PICK w : Walking(u, w) /\ WrittenAlong(c, w[u.firstChild[Root]])
    BY <1>2, <1>5, SavedInOrder
  <2>4. w[n] = <<n>> \o <<>> \o <<>>
    BY <2>1, <2>2, <2>3 DEF Walking
  <2>5. Len(<<n>> \o <<>> \o <<>>) = 1
    BY <2>1
  <2>6. QED BY <1>1, <2>2, <2>3, <2>4, <2>5 DEF WrittenAlong
<1>11. QED BY <1>8, <1>9, <1>10

\* What is read of a part of a document is a part of it, or one new item.
LEMMA PartIsRead ==
  ASSUME NEW s, Sound(s), s.done \in [Item -> BOOLEAN], NEW f, NEW n, PartOf(f, s, n),
         f.stop # "end", ~LoadData(f).threw
  PROVE  \/ n <= 1 /\ Len(EntriesOf(LoadData(f).doc)) = 1
         \/ CameBack(EntriesOf(LoadData(f).doc), f)
<1>1. PICK l : l = LoadTree(f)
  OBVIOUS
<1>2. n \in Nat /\ Len(f.items) = n /\ FileRead(f)
  BY PartItems
<1>3. SoundLoad(l) /\ Sound(l.doc)
  BY <1>1, <1>2, LoadTreeSound DEF SoundLoad
<1>4. ~l.threw
  <2>1. CASE l.threw
    BY <1>1, <2>1 DEF LoadData
  <2>2. CASE ~l.threw
    BY <2>2
  <2>3. QED BY <2>1, <2>2
<1>5. PICK q : q = EntriesOf(l.doc) /\ CameBack(q, f)
  BY <1>1, <1>4, LoadPart
<1>6. CASE l.doc.tree.firstChild[Root] = Nil
  <2>1. LoadData(f) = [l EXCEPT !.doc = CreateNewChild(l.doc)]
    BY <1>1, <1>4, <1>6 DEF LoadData
  <2>2. LoadData(f).doc = CreateNewChild(l.doc)
    BY <1>3, <2>1 DEF SoundLoad
  <2>3. PICK b : b = EntriesOf(LoadData(f).doc) /\ Len(b) \in {0, 1}
    BY <1>3, <1>6, <2>2, NewChildWritten
  <2>4. Len(q) = 0
    BY <1>3, <1>5, <1>6, NothingWritten
  <2>5. n = 0 \/ (n = 1 /\ f.stop \in {"parent", "number"})
    BY <1>2, <1>5, <2>4 DEF CameBack
  <2>6. CASE Len(b) = 1
    BY <2>3, <2>5, <2>6
  <2>7. CASE Len(b) = 0
    BY <1>2, <2>3, <2>5, <2>7 DEF CameBack
  <2>8. QED BY <2>3, <2>6, <2>7
<1>7. CASE l.doc.tree.firstChild[Root] # Nil
  <2>1. LoadData(f) = l
    BY <1>1, <1>7 DEF LoadData
  <2>2. QED BY <1>5, <2>1
<1>8. QED BY <1>6, <1>7

\* What the file has is a part of a document when the writing did not end.
PartInv == file.stop # "end" => \E s : Sound(s) /\ Marked(s) /\ \E n : PartOf(file, s, n)

\* The first file has no items.
LEMMA PartInit ==
  ASSUME Init
  PROVE  PartInv
<1>1. PICK empty : empty = [items |-> <<>>, stop |-> "item"]
  OBVIOUS
<1>2. FileRead(empty)
  <2>1. <<>> \in Seq({})
    OBVIOUS
  <2>2. QED BY <1>1, <2>1 DEF FileRead
<1>3. PICK new : new = LoadData(empty).doc /\ Sound(new) /\ Marked(new)
  BY <1>2, LoadDataSound, LoadMarked
<1>4. \/ file = Written(empty, new)
      \/ file = empty
  BY <1>1, <1>3 DEF Init
<1>5. CASE file = Written(empty, new)
  BY <1>5 DEF Written, PartInv
<1>6. CASE file = empty
  <2>1. PICK e, S : e = EntriesOf(new) /\ e \in Seq(S)
    BY <1>3, EntriesWritten
  <2>2. SubSeq(e, 1, 0) = <<>> /\ 0 \in 0..Len(e)
    BY <2>1
  <2>3. empty.stop # "number" /\ empty.items = <<>>
    BY <1>1
  <2>4. PartOf(empty, new, 0)
    BY <2>1, <2>2, <2>3 DEF PartOf
  <2>5. QED BY <1>3, <1>6, <2>4 DEF PartInv
<1>7. QED BY <1>4, <1>5, <1>6

\* Only stopping in a save leaves less than a document.
LEMMA PartKeeps ==
  ASSUME CopyInv, SavedInv, PartInv, [Next]_vars
  PROVE  PartInv'
<1>1. CASE Save
  BY <1>1 DEF Save, Written, PartInv
<1>2. CASE StopWhileSaving
  <2>1. PICK s, old : s = copy /\ old = file /\ Sound(s) /\ Marked(s)
    BY <1>2 DEF StopWhileSaving, CopyInv, SavedInv
  <2>2. PICK f : f = file' /\ f \in Interrupted(old, s)
    BY <1>2, <2>1 DEF StopWhileSaving
  <2>3. PICK n : PartOf(f, s, n)
    BY <2>2, CutParts
  <2>4. QED BY <2>1, <2>2, <2>3 DEF PartInv
<1>3. CASE UNCHANGED file
  BY <1>3 DEF PartInv
<1>4. QED BY <1>1, <1>2, <1>3 DEF Next, vars, Receive, Stop, Start

\* The same in the words of the property, or one new item.
Back(back, f) ==
  LET n == Len(f.items)
      Same(k, j) == /\ back[k].id = f.items[j].id
                    /\ back[k].parent = f.items[j].parent
  IN \/ n <= 1 /\ Len(back) = 1
     \/ /\ n = Len(back) \/ (n = Len(back) + 1 /\ f.stop \in {"parent", "number"})
        /\ \A k \in DOMAIN back : Same(k, k)
     \/ /\ f.stop = "number" /\ Len(back) = n
        /\ \E m \in DOMAIN back : \A k \in DOMAIN back :
             Same(k, IF k < m THEN k ELSE IF k = m THEN n ELSE k - 1)

\* What comes back after the server stopped in a save.
LEMMA StartPartly ==
  ASSUME CopyInv, PartInv, [Next]_vars, copy = Nil, copy' # Nil, file.stop # "end"
  PROVE  Back(EntriesOf(copy'), file)
<1>1. Start
  BY DEF Next, vars, Receive, Save, StopWhileSaving, Stop
<1>2. PICK f, d : f = file /\ d = LoadData(f).doc
  OBVIOUS
<1>3. ~LoadData(f).threw /\ copy' = d
  BY <1>1, <1>2 DEF Start
<1>4. PICK s : Sound(s) /\ Marked(s) /\ \E n : PartOf(f, s, n)
  BY <1>2 DEF PartInv
<1>5. PICK n : PartOf(f, s, n)
  BY <1>4
<1>6. n \in Nat /\ Len(f.items) = n /\ FileRead(f)
  BY <1>4, <1>5, PartItems
<1>7. PICK q : q = EntriesOf(d)
  OBVIOUS
<1>8. PICK S : q \in Seq(S)
  BY <1>2, <1>6, <1>7, LoadDataSound, EntriesWritten
<1>9. DOMAIN q = 1..Len(q)
  BY <1>8
<1>10. (n <= 1 /\ Len(q) = 1) \/ CameBack(q, f)
  BY <1>2, <1>3, <1>4, <1>5, <1>7, PartIsRead DEF Marked
<1>11. Back(q, f)
  <2>1. CASE n <= 1 /\ Len(q) = 1
    BY <1>6, <2>1 DEF Back
  <2>2. CASE CameBack(q, f)
    BY <1>6, <1>9, <2>2 DEF CameBack, SameItem, Back
  <2>3. QED BY <1>10, <2>1, <2>2
<1>12. QED BY <1>2, <1>3, <1>7, <1>11

\* When the server stopped in a save, what had been written by then comes back,
\* in its order and every item below its own parent; the last item may be
\* missing, and hangs elsewhere if it was cut in its parent's number; or one new
\* item comes back (XmlDB::loadTree reads what saveNode left).
THEOREM PartAlwaysComesBack == Spec => PartComesBack
<1>1. Init => SavedInv /\ PartInv
  BY SavedInit, PartInit
<1>2. CopyInv /\ SavedInv /\ [Next]_vars => SavedInv'
  BY SavedKeeps
<1>3. CopyInv /\ SavedInv /\ PartInv /\ [Next]_vars => PartInv'
  BY PartKeeps
<1>4. CopyInv /\ PartInv /\ [Next]_vars
      => [copy = Nil /\ copy' # Nil /\ file.stop # "end" => Back(EntriesOf(copy'), file)]_vars
  BY StartPartly
<1>5. QED BY <1>1, <1>2, <1>3, <1>4, CopyStaysSound, PTL DEF Spec, PartComesBack, Back
=============================================================================
