--------------------------- MODULE ItemTreeProofs ---------------------------
(***************************************************************************)
(* What detachFromTree and addAsChild preserve, for any heap of items and  *)
(* any shape of the links.                                                 *)
(***************************************************************************)
EXTENDS ItemTree, FunctionTheorems, FiniteSetTheorems, SequenceTheorems,
        WellFoundedInduction, TLAPS

\* The order of the numbers, as the library states it, is a set of pairs.
LEMMA LessRelation == OpToRel(<, Nat) = {ss \in Nat \X Nat : ss[1] < ss[2]}
BY Zenon DEF OpToRel

\* What holds of 0, and of each number after one it holds of, holds of all.
LEMMA SetInduction ==
  ASSUME NEW T, 0 \in T, \A n \in Nat : n \in T => n + 1 \in T
  PROVE  Nat \subseteq T
<1>1. SUFFICES ASSUME Nat \ T # {} PROVE FALSE
  OBVIOUS
<1>2. PICK n \in Nat \ T : \A m \in Nat \ T : ~(<<m, n>> \in OpToRel(<, Nat))
  BY <1>1, NatLessThanWellFounded, WFMin
<1>3. n # 0 /\ n \in Nat
  OBVIOUS
<1>4. PICK m \in Nat : m + 1 = n /\ m < n
  BY <1>3, n - 1 \in Nat
<1>5. m \notin T
  BY <1>4
<1>6. <<m, n>> \in OpToRel(<, Nat)
  BY <1>3, <1>4, LessRelation
<1>7. QED BY <1>2, <1>5, <1>6

---------------------------------------------------------------------------
\* Detaching gives a tree again.
LEMMA DetachTyped ==
  ASSUME NEW t \in Tree, NEW i \in Item
  PROVE  DetachFromTree(t, i) \in Tree
BY DEF Tree, DetachFromTree, Item, ItemOrNil, NodeOrNil

\* What a detach writes, node by node.
LEMMA DetachFields ==
  ASSUME NEW t \in Tree, NEW i \in Item, NEW x \in Node
  PROVE  LET u == DetachFromTree(t, i) IN
         /\ u.parent[x] = t.parent[x]
         /\ u.firstChild[x] = IF x = t.parent[i] /\ t.firstChild[x] = i
                              THEN t.next[i] ELSE t.firstChild[x]
         /\ u.next[x] = IF x = i THEN Nil
                        ELSE IF x = t.prev[i] THEN t.next[i] ELSE t.next[x]
         /\ u.prev[x] = IF x = i THEN Nil
                        ELSE IF x = t.next[i] THEN t.prev[i] ELSE t.prev[x]
BY DEF Tree, DetachFromTree

\* Inserting an item gives a tree again.
LEMMA InsertTyped ==
  ASSUME NEW t \in Tree, NEW p \in Node, NEW i \in Item, NEW a \in ItemOrNil
  PROVE  InsertAfter(t, p, i, a) \in Tree
BY NodeAssumption DEF Tree, InsertAfter, Item, ItemOrNil, NodeOrNil

\* What an insertion writes, node by node.
LEMMA InsertFields ==
  ASSUME NEW t \in Tree, NEW p \in Node, NEW i \in Item, NEW a \in ItemOrNil,
         NEW x \in Node
  PROVE  LET u == InsertAfter(t, p, i, a)
             follower == IF a = Nil THEN t.firstChild[p] ELSE t.next[a] IN
         /\ u.parent[x] = IF x = i THEN p ELSE t.parent[x]
         /\ u.firstChild[x] = IF a = Nil /\ x = p THEN i ELSE t.firstChild[x]
         /\ u.next[x] = IF x = i THEN follower
                        ELSE IF x = a THEN i ELSE t.next[x]
         /\ u.prev[x] = IF x = i /\ a # Nil THEN a
                        ELSE IF x = follower THEN i ELSE t.prev[x]
BY DEF Tree, InsertAfter, Item

---------------------------------------------------------------------------
\* A chain that ends does not lead from an item to itself.
LEMMA NotOwnSibling ==
  ASSUME NEW t \in Tree, LinksAgree(t), ChainsEnd(t), NEW i \in Item
  PROVE  t.next[i] # i /\ t.prev[i] # i
<1>1. t.next[i] # i
  BY {i} \in (SUBSET Node) \ {{}} DEF ChainsEnd, Item
<1>2. QED
  BY <1>1, NodeAssumption DEF LinksAgree, Item

\* The item is linked to nothing any more.
LEMMA DetachDetaches ==
  ASSUME NEW t \in Tree, LinksAgree(t), ChainsEnd(t), NEW i \in Item
  PROVE  Detached(DetachFromTree(t, i), i)
<1> DEFINE u == DetachFromTree(t, i)
<1>1. u.next[i] = Nil /\ u.prev[i] = Nil
  BY DetachFields DEF Item
<1>2. ASSUME NEW p \in Node PROVE u.firstChild[p] # i
  <2>1. t.firstChild[p] = i => t.parent[i] = p
    BY NodeAssumption DEF LinksAgree, Item
  <2>2. QED BY <2>1, DetachFields, NotOwnSibling
<1>3. QED BY <1>1, <1>2 DEF Detached

\* The links that are left agree with each other.
LEMMA DetachLinks ==
  ASSUME NEW t \in Tree, LinksAgree(t), ChainsEnd(t), NEW i \in Item
  PROVE  LinksAgree(DetachFromTree(t, i))
<1> DEFINE u == DetachFromTree(t, i)
<1>a. t.next[i] # i /\ t.prev[i] # i
  BY NotOwnSibling
<1>b. i \in Node /\ i # Nil /\ t.next[i] \in NodeOrNil /\ t.prev[i] \in NodeOrNil
  BY NodeAssumption DEF Tree, Item, ItemOrNil, NodeOrNil
<1>c. u \in Tree
  BY DetachTyped
<1>1. ASSUME NEW x \in Node, u.next[x] # Nil PROVE u.prev[u.next[x]] = x
  <2>1. x # i
    BY <1>1, DetachFields
  <2>2. u.next[x] \in Node
    BY <1>1, <1>c DEF Tree, Item, ItemOrNil
  <2>3. CASE x = t.prev[i]
    BY <2>1, <2>2, <2>3, <1>a, <1>b, <1>1, DetachFields DEF LinksAgree, NodeOrNil
  <2>4. CASE x # t.prev[i]
    BY <2>1, <2>2, <2>4, <1>a, <1>b, <1>1, DetachFields DEF LinksAgree, NodeOrNil
  <2>5. QED BY <2>3, <2>4
<1>2. ASSUME NEW x \in Node, u.prev[x] # Nil PROVE u.next[u.prev[x]] = x
  <2>1. x # i
    BY <1>2, DetachFields
  <2>2. u.prev[x] \in Node
    BY <1>2, <1>c DEF Tree, Item, ItemOrNil
  <2>3. CASE x = t.next[i]
    BY <2>1, <2>2, <2>3, <1>a, <1>b, <1>2, DetachFields DEF LinksAgree, NodeOrNil
  <2>4. CASE x # t.next[i]
    BY <2>1, <2>2, <2>4, <1>a, <1>b, <1>2, DetachFields DEF LinksAgree, NodeOrNil
  <2>5. QED BY <2>3, <2>4
<1>3. ASSUME NEW x \in Node, u.firstChild[x] # Nil
      PROVE u.parent[u.firstChild[x]] = x /\ u.prev[u.firstChild[x]] = Nil
  <2>1. u.firstChild[x] \in Node
    BY <1>3, <1>c DEF Tree, Item, ItemOrNil
  <2>2. CASE x = t.parent[i] /\ t.firstChild[x] = i
    <3>1. t.prev[i] = Nil /\ t.next[i] # Nil /\ u.firstChild[x] = t.next[i]
      BY <2>2, <1>3, <1>b, DetachFields DEF LinksAgree
    <3>2. t.parent[t.next[i]] = x
      BY <3>1, <2>2, <1>b DEF LinksAgree
    <3>3. QED BY <3>1, <3>2, <2>1, <1>a, DetachFields
  <2>3. CASE ~(x = t.parent[i] /\ t.firstChild[x] = i)
    <3>1. u.firstChild[x] = t.firstChild[x]
      BY <2>3, DetachFields
    <3>2. t.parent[t.firstChild[x]] = x /\ t.prev[t.firstChild[x]] = Nil
      BY <3>1, <1>3 DEF LinksAgree
    <3>3. t.firstChild[x] # i
      BY <3>2, <2>3
    <3>4. t.firstChild[x] # t.next[i]
      BY <3>2, <1>b, <1>3, <3>1 DEF LinksAgree
    <3>5. QED BY <3>1, <3>2, <3>3, <3>4, <2>1, DetachFields
  <2>4. QED BY <2>2, <2>3
<1>4. ASSUME NEW x \in Node, u.next[x] # Nil PROVE u.parent[u.next[x]] = u.parent[x]
  <2>1. x # i
    BY <1>4, DetachFields
  <2>2. u.next[x] \in Node
    BY <1>4, <1>c DEF Tree, Item, ItemOrNil
  <2>3. CASE x = t.prev[i]
    <3>1. u.next[x] = t.next[i] /\ t.next[x] = i
      BY <2>1, <2>3, <1>b, NodeAssumption, DetachFields DEF LinksAgree
    <3>2. t.parent[i] = t.parent[x] /\ t.parent[t.next[i]] = t.parent[i]
      BY <3>1, <1>4, <1>b DEF LinksAgree
    <3>3. QED BY <3>1, <3>2, <2>2, DetachFields
  <2>4. CASE x # t.prev[i]
    BY <2>1, <2>2, <2>4, <1>4, DetachFields DEF LinksAgree
  <2>5. QED BY <2>3, <2>4
<1>5. QED BY <1>1, <1>2, <1>3, <1>4 DEF LinksAgree

\* Taking an item out makes no circle of the others.
LEMMA DetachChains ==
  ASSUME NEW t \in Tree, LinksAgree(t), ChainsEnd(t), NEW i \in Item
  PROVE  ChainsEnd(DetachFromTree(t, i))
<1> DEFINE u == DetachFromTree(t, i)
<1>1. SUFFICES ASSUME NEW S \in SUBSET Node, S # {}
               PROVE  \E x \in S : u.next[x] \notin S
  BY DEF ChainsEnd
<1>2. i \in Node /\ Nil \notin S
  BY NodeAssumption DEF Item
<1>3. CASE i \in S
  BY <1>3, <1>2, DetachFields
<1>4. CASE i \notin S
  <2>1. PICK y \in S \cup {i} : t.next[y] \notin S \cup {i}
    BY <1>2, S \cup {i} \in (SUBSET Node) \ {{}} DEF ChainsEnd
  <2>2. PICK z \in S : t.next[z] \notin S
    BY <1>1 DEF ChainsEnd
  <2>3. u.next[z] \in {t.next[z], t.next[i]}
    BY <2>2, <1>4, DetachFields
  <2>4. CASE y = i
    BY <2>1, <2>2, <2>3, <2>4
  <2>5. CASE y # i
    <3>1. y \in S /\ y \in Node /\ t.next[y] # i
      BY <2>1, <2>5
    <3>2. y # t.prev[i]
      BY <3>1, <1>2, NodeAssumption DEF LinksAgree
    <3>3. QED BY <3>1, <3>2, <2>1, <2>5, DetachFields
  <2>6. QED BY <2>4, <2>5
<1>5. QED BY <1>3, <1>4

\* Taking one item out links no other.
LEMMA DetachKeepsDetached ==
  ASSUME NEW t \in Tree, LinksAgree(t), NEW i \in Item,
         NEW d \in Item, d # i, Detached(t, d)
  PROVE  Detached(DetachFromTree(t, i), d)
<1> DEFINE u == DetachFromTree(t, i)
<1>1. t.prev[i] # d /\ t.next[i] # d
  BY NodeAssumption DEF LinksAgree, Detached, Item
<1>2. QED BY <1>1, DetachFields DEF Detached, Item

---------------------------------------------------------------------------
\* Inserting an item that is linked to nothing after one of the children, or
\* first, leaves links that agree with each other.
LEMMA InsertLinks ==
  ASSUME NEW t \in Tree, LinksAgree(t), ChainsEnd(t), NEW p \in Node, NEW i \in Item,
         Detached(t, i), NEW a \in ItemOrNil, a # i, ~WrongAfter(t, p, a)
  PROVE  LinksAgree(InsertAfter(t, p, i, a))
<1> DEFINE u == InsertAfter(t, p, i, a)
           f == IF a = Nil THEN t.firstChild[p] ELSE t.next[a]
<1>a. i \in Node /\ i # Nil /\ f \in ItemOrNil /\ (a # Nil => a \in Item)
  BY NodeAssumption DEF Tree, Item, ItemOrNil
<1>b. u \in Tree
  BY InsertTyped
<1>c. /\ \A x \in Node : t.next[x] # i /\ t.prev[x] # i /\ t.firstChild[x] # i
      /\ f # i /\ (a # Nil => f # a)
  BY <1>a, NodeAssumption, NotOwnSibling DEF LinksAgree, Detached, Item
<1>d. f # Nil => f \in Node /\ t.parent[f] = p /\ t.prev[f] = a
  BY <1>a, NodeAssumption DEF LinksAgree, WrongAfter, Item, ItemOrNil
<1>e. \A x \in Node :
        /\ u.parent[x] = IF x = i THEN p ELSE t.parent[x]
        /\ u.firstChild[x] = IF a = Nil /\ x = p THEN i ELSE t.firstChild[x]
        /\ u.next[x] = IF x = i THEN f ELSE IF x = a THEN i ELSE t.next[x]
        /\ u.prev[x] = IF x = i /\ a # Nil THEN a ELSE IF x = f THEN i ELSE t.prev[x]
  BY InsertFields
<1> HIDE DEF u, f
<1>1. ASSUME NEW x \in Node, u.next[x] # Nil PROVE u.prev[u.next[x]] = x
  <2>1. CASE x = i
    BY <2>1, <1>1, <1>a, <1>c, <1>d, <1>e
  <2>2. CASE x # i /\ x = a
    BY <2>2, <1>a, <1>c, <1>d, <1>e, NodeAssumption
  <2>3. CASE x # i /\ x # a
    <3>1. u.next[x] = t.next[x] /\ t.next[x] \in Node /\ t.prev[t.next[x]] = x
      BY <2>3, <1>1, <1>b, <1>e DEF LinksAgree, Tree, Item, ItemOrNil
    <3>2. t.next[x] # i /\ t.next[x] # f
      BY <3>1, <2>3, <1>1, <1>c, <1>d
    <3>3. QED BY <3>1, <3>2, <1>e
  <2>4. QED BY <2>1, <2>2, <2>3
<1>2. ASSUME NEW x \in Node, u.prev[x] # Nil PROVE u.next[u.prev[x]] = x
  <2>1. CASE x = i
    BY <2>1, <1>2, <1>a, <1>c, <1>d, <1>e, NodeAssumption DEF Detached, Item
  <2>2. CASE x # i /\ x = f
    BY <2>2, <1>a, <1>c, <1>d, <1>e, NodeAssumption
  <2>3. CASE x # i /\ x # f
    <3>1. u.prev[x] = t.prev[x] /\ t.prev[x] \in Node /\ t.next[t.prev[x]] = x
      BY <2>3, <1>2, <1>b, <1>e DEF LinksAgree, Tree, Item, ItemOrNil
    <3>2. t.prev[x] # i /\ t.prev[x] # a
      BY <3>1, <2>3, <1>2, <1>c DEF f
    <3>3. QED BY <3>1, <3>2, <1>e
  <2>4. QED BY <2>1, <2>2, <2>3
<1>3. ASSUME NEW x \in Node, u.firstChild[x] # Nil
      PROVE u.parent[u.firstChild[x]] = x /\ u.prev[u.firstChild[x]] = Nil
  <2>1. CASE a = Nil /\ x = p
    BY <2>1, <1>a, <1>c, <1>e DEF Detached
  <2>2. CASE ~(a = Nil /\ x = p)
    <3>1. u.firstChild[x] = t.firstChild[x] /\ t.firstChild[x] \in Node
      BY <2>2, <1>3, <1>b, <1>e DEF Tree, Item, ItemOrNil
    <3>2. t.parent[t.firstChild[x]] = x /\ t.prev[t.firstChild[x]] = Nil
      BY <3>1, <1>3 DEF LinksAgree
    <3>3. t.firstChild[x] # i /\ t.firstChild[x] # f
      BY <3>1, <3>2, <2>2, <1>3, <1>c, <1>d
    <3>4. QED BY <3>1, <3>2, <3>3, <1>e
  <2>3. QED BY <2>1, <2>2
<1>4. ASSUME NEW x \in Node, u.next[x] # Nil PROVE u.parent[u.next[x]] = u.parent[x]
  <2>1. CASE x = i
    BY <2>1, <1>4, <1>a, <1>c, <1>d, <1>e
  <2>2. CASE x # i /\ x = a
    BY <2>2, <1>a, <1>e, NodeAssumption DEF WrongAfter
  <2>3. CASE x # i /\ x # a
    <3>1. u.next[x] = t.next[x] /\ t.next[x] \in Node /\ t.next[x] # i
      BY <2>3, <1>4, <1>b, <1>c, <1>e DEF Tree, Item, ItemOrNil
    <3>2. t.parent[t.next[x]] = t.parent[x]
      BY <3>1, <1>4 DEF LinksAgree
    <3>3. QED BY <3>1, <3>2, <2>3, <1>e
  <2>4. QED BY <2>1, <2>2, <2>3
<1>5. QED BY <1>1, <1>2, <1>3, <1>4 DEF LinksAgree, u

\* Such an insertion makes no circle.
LEMMA InsertChains ==
  ASSUME NEW t \in Tree, LinksAgree(t), ChainsEnd(t), NEW p \in Node, NEW i \in Item,
         Detached(t, i), NEW a \in ItemOrNil, a # i, ~WrongAfter(t, p, a)
  PROVE  ChainsEnd(InsertAfter(t, p, i, a))
<1> DEFINE u == InsertAfter(t, p, i, a)
           f == IF a = Nil THEN t.firstChild[p] ELSE t.next[a]
<1>1. SUFFICES ASSUME NEW S \in SUBSET Node, S # {}
               PROVE  \E x \in S : u.next[x] \notin S
  BY DEF ChainsEnd
<1>2. /\ i \in Node /\ Nil \notin S /\ f # i
      /\ \A x \in Node : t.next[x] # i
  BY NodeAssumption DEF LinksAgree, Detached, Item, ItemOrNil
<1>3. \A x \in Node : u.next[x] = IF x = i THEN f ELSE IF x = a THEN i ELSE t.next[x]
  BY InsertFields
<1> HIDE DEF u, f
<1>4. CASE i \notin S
  <2>1. PICK x \in S : t.next[x] \notin S
    BY <1>1 DEF ChainsEnd
  <2>2. QED BY <2>1, <1>3, <1>4
<1>5. CASE i \in S /\ f \notin S
  BY <1>5, <1>3
<1>6. CASE i \in S /\ f \in S
  <2>1. PICK x \in S \ {i} : t.next[x] \notin S \ {i}
    BY <1>6, <1>2, S \ {i} \in (SUBSET Node) \ {{}} DEF ChainsEnd
  <2>2. x \in S /\ x \in Node /\ x # i /\ t.next[x] \notin S
    BY <2>1, <1>2
  <2>3. x # a
    BY <2>2, <1>6, <1>2 DEF f
  <2>4. QED BY <2>2, <2>3, <1>3
<1>7. QED BY <1>4, <1>5, <1>6

\* Nor does it link any other item that was linked to nothing.
LEMMA InsertKeepsDetached ==
  ASSUME NEW t \in Tree, LinksAgree(t), NEW p \in Node, NEW i \in Item,
         NEW a \in ItemOrNil, NEW d \in Item, d # i, d # a, Detached(t, d)
  PROVE  Detached(InsertAfter(t, p, i, a), d)
<1> DEFINE f == IF a = Nil THEN t.firstChild[p] ELSE t.next[a]
<1>1. f # d
  BY NodeAssumption DEF LinksAgree, Detached, Item, ItemOrNil
<1>2. QED BY <1>1, InsertFields DEF Detached, Item

---------------------------------------------------------------------------
\* addAsChild, which falls back to the first place when its after is no child
\* of the parent, keeps all of this.
LEMMA AddAsChildKeeps ==
  ASSUME NEW t \in Tree, LinksAgree(t), ChainsEnd(t), NEW p \in Node, NEW i \in Item,
         Detached(t, i), NEW a \in ItemOrNil, a # i
  PROVE  LET u == AddAsChild(t, p, i, a) IN
         /\ u \in Tree /\ LinksAgree(u) /\ ChainsEnd(u)
         /\ \A d \in Item \ {i, a} : Detached(t, d) => Detached(u, d)
<1> DEFINE b == IF WrongAfter(t, p, a) THEN Nil ELSE a
<1>1. b \in ItemOrNil /\ b # i /\ ~WrongAfter(t, p, b)
  BY NodeAssumption DEF WrongAfter, ItemOrNil, Item
<1>2. AddAsChild(t, p, i, a) = InsertAfter(t, p, i, b)
  BY DEF AddAsChild
<1>3. \A d \in Item \ {i, a} : d # b
  BY NodeAssumption DEF Item
<1> HIDE DEF b
<1>4. QED
  BY <1>1, <1>2, <1>3, InsertTyped, InsertLinks, InsertChains, InsertKeepsDetached

\* The last child, when there is one, ends the chain of p's children.
LEMMA LastChildFacts ==
  ASSUME NEW t \in Tree, LinksAgree(t), ChainsEnd(t), NEW p \in Node,
         LastChild(t, p) # Nil
  PROVE  LET x == LastChild(t, p) IN
         /\ x \in Item
         /\ t.next[x] = Nil
         /\ t.parent[x] = p
         /\ x = t.firstChild[p] \/ t.prev[x] # Nil
<1> DEFINE G == {x \in Item : t.parent[x] = p /\ (x = t.firstChild[p] \/ t.prev[x] # Nil)}
           C == Chain(t, p)
<1>1. C \subseteq G
  <2>1. G \in SUBSET Node /\ {t.firstChild[p]} \ {Nil} \subseteq G
    BY DEF Tree, Item, ItemOrNil, LinksAgree
  <2>2. \A x \in G : {t.next[x]} \ {Nil} \subseteq G
    BY NodeAssumption DEF Tree, Item, ItemOrNil, LinksAgree
  <2>3. QED BY <2>1, <2>2 DEF Chain
<1>2. t.firstChild[p] # Nil /\ t.firstChild[p] \in C
  BY DEF LastChild, Chain, Tree, Item, ItemOrNil
<1>3. PICK y \in C : t.next[y] \notin C
  BY <1>2, C \in (SUBSET Node) \ {{}} DEF ChainsEnd, Chain
<1>4. t.next[y] = Nil
  BY <1>3 DEF Chain, Tree, Item, ItemOrNil
<1>5. LastChild(t, p) \in C /\ t.next[LastChild(t, p)] = Nil
  BY <1>2, <1>3, <1>4 DEF LastChild
<1>6. QED BY <1>1, <1>5

---------------------------------------------------------------------------
(* What undoes what.                                                       *)

\* Some pointer leads to the item.
Linked(t, x) == t.prev[x] # Nil \/ \E p \in Node : t.firstChild[p] = x

\* No chain hangs from a node that nothing leads to.
Whole(t) == \A x \in Node : t.next[x] # Nil => Linked(t, x)

\* The same links, with another parent for one item.
Reparented(t, i, p) == [parent |-> [t.parent EXCEPT ![i] = p], firstChild |-> t.firstChild,
                        next |-> t.next, prev |-> t.prev]

\* Two trees with the same fields are the same.
LEMMA SameTree ==
  ASSUME NEW t \in Tree, NEW u \in Tree,
         \A x \in Node : /\ t.parent[x] = u.parent[x] /\ t.firstChild[x] = u.firstChild[x]
                         /\ t.next[x] = u.next[x] /\ t.prev[x] = u.prev[x]
  PROVE  t = u
<1>1. t.parent = u.parent
  BY DEF Tree
<1>2. t.firstChild = u.firstChild
  BY DEF Tree
<1>3. t.next = u.next
  BY DEF Tree
<1>4. t.prev = u.prev
  BY DEF Tree
<1>5. QED BY <1>1, <1>2, <1>3, <1>4 DEF Tree

\* What a new parent writes.
LEMMA ReparentedFields ==
  ASSUME NEW t \in Tree, NEW i \in Item, NEW p \in Node
  PROVE  /\ Reparented(t, i, p) \in Tree
         /\ \A x \in Node : Reparented(t, i, p).parent[x] = IF x = i THEN p ELSE t.parent[x]
         /\ Reparented(t, i, p).firstChild = t.firstChild
         /\ Reparented(t, i, p).next = t.next /\ Reparented(t, i, p).prev = t.prev
BY DEF Reparented, Tree, Item, NodeOrNil

\* Taking an item out again after it was linked leaves only its parent.
LEMMA DetachUndoesAdd ==
  ASSUME NEW t \in Tree, LinksAgree(t), ChainsEnd(t), NEW p \in Node, NEW i \in Item,
         Detached(t, i), NEW b \in ItemOrNil, b # i
  PROVE  DetachFromTree(AddAsChild(t, p, i, b), i) = Reparented(t, i, p)
<1>1. PICK a \in ItemOrNil : /\ AddAsChild(t, p, i, b) = InsertAfter(t, p, i, a)
                             /\ a # i /\ ~WrongAfter(t, p, a)
  BY NodeAssumption DEF AddAsChild, WrongAfter, ItemOrNil, Item
<1>2. PICK u \in Tree : u = InsertAfter(t, p, i, a)
  BY <1>1, InsertTyped
<1>3. PICK f : f = IF a = Nil THEN t.firstChild[p] ELSE t.next[a]
  OBVIOUS
<1>4. /\ i \in Node /\ i # Nil /\ f \in ItemOrNil /\ (a # Nil => a \in Node)
      /\ \A x \in Node : t.next[x] # i /\ t.firstChild[x] # i
      /\ f # i /\ t.next[i] = Nil /\ t.prev[i] = Nil
  BY <1>1, <1>3, NodeAssumption DEF LinksAgree, Detached, Tree, Item, ItemOrNil
<1>5. f # Nil => f \in Node /\ t.prev[f] = a
  BY <1>1, <1>3, <1>4, NodeAssumption DEF LinksAgree, ItemOrNil, Item
<1>6. \A x \in Node :
        /\ u.parent[x] = IF x = i THEN p ELSE t.parent[x]
        /\ u.firstChild[x] = IF a = Nil /\ x = p THEN i ELSE t.firstChild[x]
        /\ u.next[x] = IF x = i THEN f ELSE IF x = a THEN i ELSE t.next[x]
        /\ u.prev[x] = IF x = i /\ a # Nil THEN a ELSE IF x = f THEN i ELSE t.prev[x]
  BY <1>1, <1>2, <1>3, InsertFields
<1>7. u.parent[i] = p /\ u.next[i] = f /\ u.prev[i] = a
  BY <1>4, <1>6
<1>8. PICK d \in Tree : d = DetachFromTree(u, i)
  BY DetachTyped
<1>9. \A x \in Node :
        /\ d.parent[x] = u.parent[x]
        /\ d.firstChild[x] = IF x = p /\ u.firstChild[x] = i THEN f ELSE u.firstChild[x]
        /\ d.next[x] = IF x = i THEN Nil ELSE IF x = a THEN f ELSE u.next[x]
        /\ d.prev[x] = IF x = i THEN Nil ELSE IF x = f THEN a ELSE u.prev[x]
  BY <1>7, <1>8, DetachFields
<1>10. PICK r \in Tree : /\ r = Reparented(t, i, p)
                         /\ \A x \in Node : r.parent[x] = IF x = i THEN p ELSE t.parent[x]
                         /\ r.firstChild = t.firstChild /\ r.next = t.next /\ r.prev = t.prev
  BY ReparentedFields
<1>11. ASSUME NEW x \in Node
       PROVE  /\ d.parent[x] = r.parent[x] /\ d.firstChild[x] = r.firstChild[x]
              /\ d.next[x] = r.next[x] /\ d.prev[x] = r.prev[x]
  <2>1. d.parent[x] = r.parent[x]
    BY <1>6, <1>9, <1>10
  <2>2. d.firstChild[x] = t.firstChild[x]
    BY <1>3, <1>4, <1>6, <1>9
  <2>3. d.next[x] = t.next[x]
    BY <1>3, <1>4, <1>6, <1>9, NodeAssumption
  <2>4. d.prev[x] = t.prev[x]
    BY <1>4, <1>5, <1>6, <1>9, NodeAssumption
  <2>5. QED BY <1>10, <2>1, <2>2, <2>3, <2>4
<1>12. d = r
  BY <1>11, SameTree
<1>13. QED BY <1>1, <1>2, <1>8, <1>10, <1>12

\* Linking an item again where it was taken from gives the tree it was in.
LEMMA AddUndoesDetach ==
  ASSUME NEW t \in Tree, LinksAgree(t), ChainsEnd(t), NEW i \in Item, Linked(t, i),
         t.parent[i] \in Node
  PROVE  AddAsChild(DetachFromTree(t, i), t.parent[i], i, t.prev[i]) = t
<1>1. PICK p, b, f : p = t.parent[i] /\ b = t.prev[i] /\ f = t.next[i]
  OBVIOUS
<1>2. /\ i \in Node /\ i # Nil /\ p \in Node /\ b \in ItemOrNil /\ f \in ItemOrNil
      /\ b # i /\ f # i /\ (b # Nil => b \in Node) /\ (f # Nil => f \in Node)
  BY <1>1, NotOwnSibling, NodeAssumption DEF Tree, Item, ItemOrNil
<1>3. /\ b # Nil => t.next[b] = i /\ t.parent[b] = p /\ t.firstChild[p] # i
      /\ b = Nil => t.firstChild[p] = i
      /\ f # Nil => t.prev[f] = i
  BY <1>1, <1>2 DEF LinksAgree, Linked
<1>4. PICK d \in Tree : d = DetachFromTree(t, i)
  BY DetachTyped
<1>5. \A x \in Node :
        /\ d.parent[x] = t.parent[x]
        /\ d.firstChild[x] = IF x = p /\ t.firstChild[x] = i THEN f ELSE t.firstChild[x]
        /\ d.next[x] = IF x = i THEN Nil ELSE IF x = b THEN f ELSE t.next[x]
        /\ d.prev[x] = IF x = i THEN Nil ELSE IF x = f THEN b ELSE t.prev[x]
  BY <1>1, <1>4, DetachFields
<1>6. ~WrongAfter(d, p, b)
  BY <1>2, <1>3, <1>5 DEF WrongAfter
<1>7. PICK u \in Tree : u = AddAsChild(d, p, i, b) /\ u = InsertAfter(d, p, i, b)
  BY <1>2, <1>6, InsertTyped DEF AddAsChild
<1>8. (IF b = Nil THEN d.firstChild[p] ELSE d.next[b]) = f
  BY <1>2, <1>3, <1>5
<1>9. \A x \in Node :
        /\ u.parent[x] = IF x = i THEN p ELSE d.parent[x]
        /\ u.firstChild[x] = IF b = Nil /\ x = p THEN i ELSE d.firstChild[x]
        /\ u.next[x] = IF x = i THEN f ELSE IF x = b THEN i ELSE d.next[x]
        /\ u.prev[x] = IF x = i /\ b # Nil THEN b ELSE IF x = f THEN i ELSE d.prev[x]
  BY <1>2, <1>7, <1>8, InsertFields
<1>10. ASSUME NEW x \in Node
       PROVE  /\ u.parent[x] = t.parent[x] /\ u.firstChild[x] = t.firstChild[x]
              /\ u.next[x] = t.next[x] /\ u.prev[x] = t.prev[x]
  <2>1. u.parent[x] = t.parent[x]
    BY <1>1, <1>5, <1>9
  <2>2. u.firstChild[x] = t.firstChild[x]
    BY <1>3, <1>5, <1>9
  <2>3. u.next[x] = t.next[x]
    BY <1>1, <1>2, <1>3, <1>5, <1>9, NodeAssumption
  <2>4. u.prev[x] = t.prev[x]
    BY <1>1, <1>2, <1>3, <1>5, <1>9, NodeAssumption
  <2>5. QED BY <2>1, <2>2, <2>3, <2>4
<1>11. u = t
  BY <1>10, SameTree
<1>12. QED BY <1>1, <1>4, <1>7, <1>11

\* Where an item was before makes no difference to where it is linked.
LEMMA AddForgetsParent ==
  ASSUME NEW t \in Tree, NEW p \in Node, NEW q \in Node, NEW i \in Item,
         NEW b \in ItemOrNil, b # i
  PROVE  AddAsChild(Reparented(t, i, q), p, i, b) = AddAsChild(t, p, i, b)
<1>1. PICK r \in Tree : /\ r = Reparented(t, i, q)
                        /\ \A x \in Node : r.parent[x] = IF x = i THEN q ELSE t.parent[x]
                        /\ r.firstChild = t.firstChild /\ r.next = t.next /\ r.prev = t.prev
  BY ReparentedFields
<1>2. WrongAfter(r, p, b) <=> WrongAfter(t, p, b)
  BY <1>1 DEF WrongAfter, ItemOrNil, Item
<1>3. PICK a \in ItemOrNil : /\ AddAsChild(t, p, i, b) = InsertAfter(t, p, i, a)
                             /\ AddAsChild(r, p, i, b) = InsertAfter(r, p, i, a)
  BY <1>2 DEF AddAsChild, ItemOrNil
<1>4. [r.parent EXCEPT ![i] = p] = [t.parent EXCEPT ![i] = p]
  BY <1>1 DEF Tree
<1>5. InsertAfter(r, p, i, a) = InsertAfter(t, p, i, a)
  BY <1>1, <1>4 DEF InsertAfter
<1>6. QED BY <1>1, <1>3, <1>5

\* The parent of an item that has no part in it stays out of it.
LEMMA AddReparented ==
  ASSUME NEW t \in Tree, NEW p \in Node, NEW q \in Node, NEW i \in Item, NEW j \in Item, j # i,
         NEW b \in ItemOrNil, b # j
  PROVE  AddAsChild(Reparented(t, j, q), p, i, b) = Reparented(AddAsChild(t, p, i, b), j, q)
<1>1. PICK r \in Tree : /\ r = Reparented(t, j, q)
                        /\ \A x \in Node : r.parent[x] = IF x = j THEN q ELSE t.parent[x]
                        /\ r.firstChild = t.firstChild /\ r.next = t.next /\ r.prev = t.prev
  BY ReparentedFields
<1>2. WrongAfter(r, p, b) <=> WrongAfter(t, p, b)
  BY <1>1 DEF WrongAfter, ItemOrNil, Item
<1>3. PICK a \in ItemOrNil : /\ AddAsChild(t, p, i, b) = InsertAfter(t, p, i, a)
                             /\ AddAsChild(r, p, i, b) = InsertAfter(r, p, i, a)
  BY <1>2 DEF AddAsChild, ItemOrNil
<1>4. [r.parent EXCEPT ![i] = p] = [[t.parent EXCEPT ![i] = p] EXCEPT ![j] = q]
  BY <1>1 DEF Tree, Item, Reparented
<1>5. InsertAfter(r, p, i, a) = Reparented(InsertAfter(t, p, i, a), j, q)
  BY <1>1, <1>4 DEF InsertAfter, Reparented
<1>6. QED BY <1>1, <1>3, <1>5

\* Nor does it matter when another item is taken out.
LEMMA DetachReparented ==
  ASSUME NEW t \in Tree, NEW q \in Node, NEW i \in Item, NEW j \in Item, j # i
  PROVE  DetachFromTree(Reparented(t, j, q), i) = Reparented(DetachFromTree(t, i), j, q)
<1>1. Reparented(t, j, q).parent[i] = t.parent[i]
  BY ReparentedFields DEF Item
<1>2. QED BY <1>1 DEF DetachFromTree, Reparented

---------------------------------------------------------------------------
(* What is linked.                                                         *)

\* Taking an item out leaves the others linked or not, as they were.
LEMMA DetachLinked ==
  ASSUME NEW t \in Tree, LinksAgree(t), ChainsEnd(t), Whole(t), NEW i \in Item
  PROVE  LET u == DetachFromTree(t, i) IN
         /\ ~Linked(u, i) /\ Whole(u)
         /\ \A x \in Item \ {i} : Linked(u, x) <=> Linked(t, x)
<1>1. PICK u \in Tree : u = DetachFromTree(t, i)
  BY DetachTyped
<1>2. ~Linked(u, i)
  BY <1>1, DetachDetaches DEF Detached, Linked
<1>3. /\ i \in Node /\ i # Nil /\ t.prev[i] # i /\ t.next[i] # i
      /\ t.prev[i] \in ItemOrNil /\ t.next[i] \in ItemOrNil
  BY NotOwnSibling, NodeAssumption DEF Tree, Item
<1>4. ASSUME NEW x \in Item \ {i} PROVE Linked(u, x) <=> Linked(t, x)
  <2>1. x \in Node /\ x # Nil /\ x # i
    BY NodeAssumption DEF Item
  <2>2. u.prev[x] = IF x = t.next[i] THEN t.prev[i] ELSE t.prev[x]
    BY <1>1, <2>1, DetachFields
  <2>3. \A p \in Node : u.firstChild[p] = IF p = t.parent[i] /\ t.firstChild[p] = i
                                          THEN t.next[i] ELSE t.firstChild[p]
    BY <1>1, DetachFields
  <2>4. CASE x = t.next[i]
    <3>1. t.prev[x] = i /\ Linked(t, x)
      BY <1>3, <2>1, <2>4 DEF LinksAgree, Linked
    <3>2. Linked(t, i)
      BY <1>3, <2>1, <2>4 DEF Whole
    <3>3. CASE t.prev[i] # Nil
      BY <2>2, <2>4, <3>1, <3>3 DEF Linked
    <3>4. CASE t.prev[i] = Nil
      <4>1. PICK p \in Node : t.firstChild[p] = i
        BY <3>2, <3>4 DEF Linked
      <4>2. t.parent[i] = p
        BY <1>3, <4>1 DEF LinksAgree
      <4>3. u.firstChild[p] = x
        BY <2>3, <2>4, <4>1, <4>2
      <4>4. QED BY <3>1, <4>1, <4>3 DEF Linked
    <3>5. QED BY <3>3, <3>4
  <2>5. CASE x # t.next[i]
    <3>1. u.prev[x] = t.prev[x]
      BY <2>2, <2>5
    <3>2. \A p \in Node : u.firstChild[p] = x <=> t.firstChild[p] = x
      BY <2>1, <2>3, <2>5
    <3>3. QED BY <3>1, <3>2 DEF Linked
  <2>6. QED BY <2>4, <2>5
<1>5. ASSUME NEW x \in Node, u.next[x] # Nil PROVE Linked(u, x)
  <2>1. x # i
    BY <1>1, <1>5, DetachFields
  <2>2. t.next[x] # Nil
    BY <1>1, <1>3, <1>5, <2>1, DetachFields, NodeAssumption DEF LinksAgree, ItemOrNil, Item
  <2>3. Linked(t, x) /\ x \in Item
    BY <2>2, NodeAssumption DEF Whole, LinksAgree, Tree, ItemOrNil, Item
  <2>4. QED BY <1>4, <2>1, <2>3
<1>6. QED BY <1>1, <1>2, <1>4, <1>5 DEF Whole

\* So does linking one.
LEMMA AddLinked ==
  ASSUME NEW t \in Tree, LinksAgree(t), ChainsEnd(t), NEW p \in Node, NEW i \in Item,
         Detached(t, i), NEW b \in ItemOrNil, b # i
  PROVE  LET u == AddAsChild(t, p, i, b) IN
         /\ Linked(u, i)
         /\ \A x \in Item \ {i} : Linked(u, x) <=> Linked(t, x)
         /\ Whole(t) /\ (b # Nil => Linked(t, b)) => Whole(u)
<1>1. PICK a \in ItemOrNil : /\ AddAsChild(t, p, i, b) = InsertAfter(t, p, i, a)
                             /\ a # i /\ ~WrongAfter(t, p, a) /\ a \in {b, Nil}
  BY NodeAssumption DEF AddAsChild, WrongAfter, ItemOrNil, Item
<1>2. PICK u \in Tree : u = InsertAfter(t, p, i, a)
  BY <1>1, InsertTyped
<1>3. PICK f : f = IF a = Nil THEN t.firstChild[p] ELSE t.next[a]
  OBVIOUS
<1>4. /\ i \in Node /\ i # Nil /\ f \in ItemOrNil /\ (a # Nil => a \in Node)
      /\ \A x \in Node : t.next[x] # i /\ t.firstChild[x] # i
      /\ f # i /\ t.next[i] = Nil /\ t.prev[i] = Nil
  BY <1>1, <1>3, NodeAssumption DEF LinksAgree, Detached, Tree, Item, ItemOrNil
<1>5. \A x \in Node :
        /\ u.firstChild[x] = IF a = Nil /\ x = p THEN i ELSE t.firstChild[x]
        /\ u.next[x] = IF x = i THEN f ELSE IF x = a THEN i ELSE t.next[x]
        /\ u.prev[x] = IF x = i /\ a # Nil THEN a ELSE IF x = f THEN i ELSE t.prev[x]
  BY <1>1, <1>2, <1>3, InsertFields
<1>6. Linked(u, i)
  BY <1>4, <1>5 DEF Linked
<1>7. ASSUME NEW x \in Item \ {i} PROVE Linked(u, x) <=> Linked(t, x)
  <2>1. x \in Node /\ x # Nil /\ x # i
    BY NodeAssumption DEF Item
  <2>2. CASE x = f
    <3>1. Linked(u, x)
      BY <1>4, <1>5, <2>1, <2>2 DEF Linked
    <3>2. CASE a = Nil
      BY <1>3, <2>2, <3>1, <3>2 DEF Linked
    <3>3. CASE a # Nil
      <4>1. t.prev[x] = a
        BY <1>3, <1>4, <2>1, <2>2, <3>3 DEF LinksAgree
      <4>2. QED BY <3>1, <3>3, <4>1 DEF Linked
    <3>4. QED BY <3>2, <3>3
  <2>3. CASE x # f
    <3>1. u.prev[x] = t.prev[x]
      BY <1>5, <2>1, <2>3
    <3>2. \A q \in Node : u.firstChild[q] = x <=> t.firstChild[q] = x
      BY <1>3, <1>5, <2>1, <2>3
    <3>3. QED BY <3>1, <3>2 DEF Linked
  <2>4. QED BY <2>2, <2>3
<1>8. ASSUME Whole(t), b # Nil => Linked(t, b), NEW x \in Node, u.next[x] # Nil
      PROVE  Linked(u, x)
  <2>1. CASE x = i
    BY <1>6, <2>1
  <2>2. CASE x # i
    <3>1. Linked(t, x)
      <4>1. CASE x = a
        BY <1>1, <1>8, <4>1, NodeAssumption
      <4>2. CASE x # a
        BY <1>5, <1>8, <2>2, <4>2 DEF Whole
      <4>3. QED BY <4>1, <4>2
    <3>2. x # Root
      <4>1. \A q \in Node : t.firstChild[q] # Root
        BY NodeAssumption DEF Tree, ItemOrNil, Item
      <4>2. t.prev[x] # Nil => t.next[t.prev[x]] = x /\ t.prev[x] \in Node
        BY DEF LinksAgree, Tree, ItemOrNil, Item
      <4>3. \A q \in Node : t.next[q] # Root
        BY NodeAssumption DEF Tree, ItemOrNil, Item
      <4>4. QED BY <3>1, <4>1, <4>2, <4>3 DEF Linked
    <3>3. QED BY <1>7, <2>2, <3>1, <3>2 DEF Item
  <2>3. QED BY <2>1, <2>2
<1>9. QED BY <1>1, <1>2, <1>6, <1>7, <1>8 DEF Whole

\* The parent pointer of an item that is linked to nothing is nobody's business.
LEMMA ReparentedKeeps ==
  ASSUME NEW t \in Tree, LinksAgree(t), ChainsEnd(t), NEW i \in Item, Detached(t, i), NEW p \in Node
  PROVE  LET r == Reparented(t, i, p) IN
         /\ r \in Tree /\ LinksAgree(r) /\ ChainsEnd(r)
         /\ Whole(t) => Whole(r)
         /\ \A x : Detached(r, x) <=> Detached(t, x)
         /\ InTree(r) = InTree(t)
<1>1. PICK r \in Tree : /\ r = Reparented(t, i, p)
                        /\ \A x \in Node : r.parent[x] = IF x = i THEN p ELSE t.parent[x]
                        /\ r.firstChild = t.firstChild /\ r.next = t.next /\ r.prev = t.prev
  BY ReparentedFields
<1>2. LinksAgree(r)
  <2>1. \A x \in Node : t.next[x] # i /\ t.firstChild[x] # i /\ t.next[i] = Nil
    BY NodeAssumption DEF LinksAgree, Detached, Item
  <2>2. \A x \in Node : /\ t.next[x] # Nil => t.next[x] \in Node
                        /\ t.firstChild[x] # Nil => t.firstChild[x] \in Node
    BY DEF Tree, ItemOrNil, Item
  <2>3. QED BY <1>1, <2>1, <2>2 DEF LinksAgree
<1>3. ChainsEnd(r)
  BY <1>1 DEF ChainsEnd
<1>4. Whole(t) => Whole(r)
  BY <1>1 DEF Whole, Linked
<1>5. \A x : Detached(r, x) <=> Detached(t, x)
  BY <1>1 DEF Detached
<1>6. InTree(r) = InTree(t)
  BY <1>1 DEF InTree, ClosedBelow
<1>7. QED BY <1>1, <1>2, <1>3, <1>4, <1>5, <1>6

---------------------------------------------------------------------------
(* What is reached, on a heap that is finite.                              *)

\* Going back from sibling to sibling ends as well.
LEMMA ChainsBegin ==
  ASSUME IsFiniteSet(Node), NEW t \in Tree, LinksAgree(t), ChainsEnd(t),
         NEW S \in SUBSET Node, S # {}
  PROVE  \E x \in S : t.prev[x] \notin S
<1>1. SUFFICES ASSUME \A x \in S : t.prev[x] \in S PROVE FALSE
  OBVIOUS
<1>2. IsFiniteSet(S)
  BY FS_Subset
<1>3. PICK g : g = [x \in S |-> t.prev[x]]
  OBVIOUS
<1>4. g \in Injection(S, S)
  <2>1. g \in [S -> S]
    BY <1>1, <1>3
  <2>2. ASSUME NEW x \in S, NEW y \in S, g[x] = g[y] PROVE x = y
    <3>1. t.prev[x] = t.prev[y] /\ t.prev[x] # Nil
      BY <1>1, <1>3, <2>2, NodeAssumption
    <3>2. t.next[t.prev[x]] = x /\ t.next[t.prev[y]] = y
      BY <3>1 DEF LinksAgree
    <3>3. QED BY <3>1, <3>2
  <2>3. QED BY <2>1, <2>2 DEF Injection, IsInjective
<1>5. g \in Surjection(S, S)
  BY <1>2, <1>4, FS_Injection
<1>6. PICK x \in S : t.next[x] \notin S
  BY DEF ChainsEnd
<1>7. PICK y \in S : g[y] = x
  BY <1>5 DEF Surjection
<1>8. t.next[x] = y
  BY <1>3, <1>7, NodeAssumption DEF LinksAgree
<1>9. QED BY <1>6, <1>8

\* Nothing linked has a parent without a first child.
LEMMA NoChildren ==
  ASSUME IsFiniteSet(Node), NEW t \in Tree, LinksAgree(t), ChainsEnd(t), Whole(t),
         NEW p \in Node, t.firstChild[p] = Nil, NEW x \in Node, Linked(t, x)
  PROVE  t.parent[x] # p
<1>1. SUFFICES ASSUME t.parent[x] = p PROVE FALSE
  OBVIOUS
<1>2. PICK S : S = {y \in Node : Linked(t, y) /\ t.parent[y] = p}
  OBVIOUS
<1>3. PICK y \in S : t.prev[y] \notin S
  BY <1>1, <1>2, ChainsBegin
<1>4. y \in Node /\ y # Nil /\ Linked(t, y) /\ t.parent[y] = p
  BY <1>2, <1>3, NodeAssumption
<1>5. \A q \in Node : t.firstChild[q] # y
  BY <1>4 DEF LinksAgree
<1>6. t.prev[y] # Nil
  BY <1>4, <1>5 DEF Linked
<1>7. t.prev[y] \in Node /\ t.next[t.prev[y]] = y
  BY <1>4, <1>6 DEF LinksAgree, Tree, ItemOrNil, Item
<1>8. Linked(t, t.prev[y]) /\ t.parent[t.prev[y]] = p
  BY <1>4, <1>7 DEF Whole, LinksAgree
<1>9. QED BY <1>2, <1>3, <1>7, <1>8

\* The set of nodes that are reached is closed, and the smallest that is.
LEMMA InTreeLeast ==
  ASSUME NEW t \in Tree
  PROVE  /\ InTree(t) \subseteq Node /\ Root \in InTree(t) /\ ClosedBelow(t, InTree(t))
         /\ \A S \in SUBSET Node : ClosedBelow(t, S) => InTree(t) \subseteq S
<1>1. \A S \in SUBSET Node : ClosedBelow(t, S) => InTree(t) \subseteq S
  BY DEF InTree
<1>2. InTree(t) \subseteq Node
  BY DEF InTree
<1>3. \A x \in Node : /\ t.firstChild[x] # Nil => t.firstChild[x] \in Node
                      /\ t.next[x] # Nil => t.next[x] \in Node
  BY DEF Tree, ItemOrNil, Item
<1>4. Root \in InTree(t)
  BY NodeAssumption DEF InTree, ClosedBelow
<1>5. ClosedBelow(t, InTree(t))
  <2>1. {Root, t.firstChild[Root]} \ {Nil} \subseteq InTree(t)
    BY <1>3, <1>4, NodeAssumption DEF InTree, ClosedBelow
  <2>2. ASSUME NEW x \in InTree(t) \ {Root}, NEW y \in {t.firstChild[x], t.next[x]} \ {Nil}
        PROVE  y \in InTree(t)
    BY <1>2, <1>3, <2>2 DEF InTree, ClosedBelow
  <2>3. QED BY <2>1, <2>2 DEF ClosedBelow
<1>6. QED BY <1>1, <1>2, <1>4, <1>5

\* What is reached is linked.
LEMMA ReachedLinked ==
  ASSUME NEW t \in Tree, LinksAgree(t), NEW x \in InTree(t) \ {Root}
  PROVE  Linked(t, x)
<1>1. PICK S : S = {y \in Node : y = Root \/ Linked(t, y)}
  OBVIOUS
<1>2. \A y \in Node : /\ t.firstChild[y] # Nil => t.firstChild[y] \in S
                      /\ t.next[y] # Nil => t.next[y] \in S
  <2>1. SUFFICES ASSUME NEW y \in Node
                 PROVE  /\ t.firstChild[y] # Nil => t.firstChild[y] \in S
                        /\ t.next[y] # Nil => t.next[y] \in S
    OBVIOUS
  <2>2. /\ t.firstChild[y] # Nil => t.firstChild[y] \in Node
        /\ t.next[y] # Nil => t.next[y] \in Node /\ t.prev[t.next[y]] = y
    BY DEF Tree, ItemOrNil, Item, LinksAgree
  <2>3. QED BY <1>1, <2>2, NodeAssumption DEF Linked
<1>3. S \in SUBSET Node /\ ClosedBelow(t, S)
  BY <1>1, <1>2, NodeAssumption DEF ClosedBelow
<1>4. QED BY <1>1, <1>3, InTreeLeast

\* What is linked is reached through its parent.
LEMMA LinkedReached ==
  ASSUME IsFiniteSet(Node), NEW t \in Tree, LinksAgree(t), ChainsEnd(t), Whole(t),
         NEW x \in Node, Linked(t, x), t.parent[x] \in InTree(t)
  PROVE  x \in InTree(t)
<1>1. SUFFICES ASSUME x \notin InTree(t) PROVE FALSE
  OBVIOUS
<1>2. PICK p, S : p = t.parent[x] /\ S = {y \in Node \ InTree(t) : Linked(t, y) /\ t.parent[y] = p}
  OBVIOUS
<1>3. PICK y \in S : t.prev[y] \notin S
  BY <1>1, <1>2, ChainsBegin
<1>4. y \in Node /\ y # Nil /\ y \notin InTree(t) /\ Linked(t, y) /\ t.parent[y] = p
  BY <1>2, <1>3, NodeAssumption
<1>5. \A q \in Node : t.firstChild[q] # y
  <2>1. \A q \in Node : t.firstChild[q] = y => q = p
    BY <1>4 DEF LinksAgree
  <2>2. t.firstChild[p] # Nil => t.firstChild[p] \in InTree(t)
    BY <1>2, InTreeLeast DEF ClosedBelow
  <2>3. QED BY <1>4, <2>1, <2>2
<1>6. PICK z : z = t.prev[y]
  OBVIOUS
<1>7. z \in Item /\ z \in Node /\ t.next[z] = y
  BY <1>4, <1>5, <1>6 DEF LinksAgree, Linked, Tree, ItemOrNil, Item
<1>8. Linked(t, z) /\ t.parent[z] = p
  BY <1>4, <1>7 DEF Whole, LinksAgree
<1>9. z \notin InTree(t)
  <2>1. z \in InTree(t) => t.next[z] \in InTree(t)
    BY <1>4, <1>7, InTreeLeast DEF ClosedBelow, Item
  <2>2. QED BY <1>4, <1>7, <2>1
<1>10. QED BY <1>2, <1>3, <1>6, <1>7, <1>8, <1>9

\* Whatever the traversals meet is entered once if the links agree: the least
\* set has an entry for each node, and prev and parent tell which.
LEMMA AgreeingEnteredOnce ==
  ASSUME NEW t \in Tree, LinksAgree(t)
  PROVE  EnteredOnce(t)
<1> DEFINE met == InTree(t)
<1>1. met \subseteq Node /\ ClosedBelow(t, met)
  <2>1. met \subseteq Node
    BY DEF InTree
  <2>2. \A S \in SUBSET Node : ClosedBelow(t, S) => met \subseteq S
    BY DEF InTree
  <2>3. {Root, t.firstChild[Root]} \ {Nil} \subseteq met
    BY NodeAssumption DEF InTree, ClosedBelow, Tree, ItemOrNil, Item
  <2>4. ASSUME NEW x \in met \ {Root} PROVE {t.firstChild[x], t.next[x]} \ {Nil} \subseteq met
    <3>1. {t.firstChild[x], t.next[x]} \ {Nil} \subseteq Node
      BY <2>1 DEF Tree, ItemOrNil, Item
    <3>2. \A S \in SUBSET Node : ClosedBelow(t, S) => {t.firstChild[x], t.next[x]} \ {Nil} \subseteq S
      BY <2>2 DEF ClosedBelow
    <3>3. QED BY <3>1, <3>2 DEF InTree
  <2>5. QED BY <2>1, <2>3, <2>4 DEF ClosedBelow
<1>2. \A S \in SUBSET Node : ClosedBelow(t, S) => met \subseteq S
  BY DEF InTree
<1> HIDE DEF met
<1>3. \A x \in Node : t.firstChild[x] # Root /\ t.next[x] # Root
  BY NodeAssumption DEF Tree, ItemOrNil, Item
<1>4. Entries(t, met, Root) = {}
  BY <1>1, <1>3 DEF Entries
<1>5. ASSUME NEW x \in met \ {Root} PROVE Cardinality(Entries(t, met, x)) = 1
  <2>1. x \in Node /\ x # Nil
    BY <1>1, NodeAssumption
  <2>2. PICK e : e \in Entries(t, met, x)
    <3>1. SUFFICES ASSUME Entries(t, met, x) = {} PROVE FALSE
      OBVIOUS
    <3>2. \A q \in met : t.firstChild[q] # x /\ t.next[q] # x
      BY <3>1 DEF Entries
    <3>3. ClosedBelow(t, met \ {x})
      BY <1>1, <3>2, NodeAssumption DEF ClosedBelow
    <3>4. met \ {x} \in SUBSET Node
      BY <1>1
    <3>5. QED BY <1>2, <3>3, <3>4
  <2>3. \A p, q \in met : t.firstChild[p] = x /\ t.firstChild[q] = x => p = q
    BY <1>1, <2>1 DEF LinksAgree
  <2>4. \A p, q \in met : t.next[p] = x /\ t.next[q] = x => p = q
    BY <1>1, <2>1 DEF LinksAgree
  <2>5. \A p, q \in met : ~(t.firstChild[p] = x /\ t.next[q] = x)
    BY <1>1, <2>1, NodeAssumption DEF LinksAgree
  <2>6. \A d, f \in Entries(t, met, x) : d = f
    BY <2>3, <2>4, <2>5 DEF Entries
  <2>7. Entries(t, met, x) = {e}
    BY <2>2, <2>6
  <2>8. QED BY <2>7, FS_Singleton
<1>6. QED BY <1>4, <1>5 DEF EnteredOnce, met

---------------------------------------------------------------------------
(* Trees that end, and what is computed by going through them.             *)

\* No chain of such a tree is circular.
LEMMA GroundedChains ==
  ASSUME NEW t, Grounded(t)
  PROVE  ChainsEnd(t)
BY DEF Grounded, ChainsEnd

\* Linking a new item keeps it so.
LEMMA InsertGrounded ==
  ASSUME NEW t \in Tree, LinksAgree(t), Grounded(t), NEW p \in Node, NEW i \in Item, i # p,
         Detached(t, i), t.firstChild[i] = Nil, NEW a \in ItemOrNil, a # i
  PROVE  Grounded(InsertAfter(t, p, i, a))
<1>1. PICK u, f : u = InsertAfter(t, p, i, a)
                  /\ f = IF a = Nil THEN t.firstChild[p] ELSE t.next[a]
  OBVIOUS
<1>2. SUFFICES ASSUME NEW S \in SUBSET Node, S # {}
               PROVE  \E x \in S : u.firstChild[x] \notin S /\ u.next[x] \notin S
  BY <1>1 DEF Grounded
<1>3. /\ i \in Node /\ Nil \notin S /\ f # i
      /\ \A x \in Node : t.next[x] # i /\ t.firstChild[x] # i
  BY <1>1, NodeAssumption DEF LinksAgree, Detached, Item, ItemOrNil
<1>4. \A x \in Node :
        /\ u.firstChild[x] = IF a = Nil /\ x = p THEN i ELSE t.firstChild[x]
        /\ u.next[x] = IF x = i THEN f ELSE IF x = a THEN i ELSE t.next[x]
  BY <1>1, InsertFields
<1>5. CASE i \notin S
  <2>1. PICK x \in S : t.firstChild[x] \notin S /\ t.next[x] \notin S
    BY <1>2 DEF Grounded
  <2>2. QED BY <2>1, <1>4, <1>5
<1>6. CASE i \in S /\ f \notin S
  BY <1>3, <1>4, <1>6
<1>7. CASE i \in S /\ f \in S
  <2>1. PICK R \in SUBSET Node : R = S \ {i} /\ R # {}
    BY <1>3, <1>7
  <2>2. PICK x \in R : t.firstChild[x] \notin R /\ t.next[x] \notin R
    BY <2>1 DEF Grounded
  <2>3. x \in S /\ x \in Node /\ x # i /\ t.firstChild[x] \notin S /\ t.next[x] \notin S
    BY <1>3, <2>1, <2>2
  <2>4. x # a /\ ~(a = Nil /\ x = p)
    BY <1>1, <1>3, <1>7, <2>3
  <2>5. QED BY <1>4, <2>3, <2>4
<1>8. QED BY <1>5, <1>6, <1>7

\* So does taking one out, with what is below it.
LEMMA DetachGrounded ==
  ASSUME NEW t \in Tree, LinksAgree(t), Grounded(t), NEW i \in Item
  PROVE  Grounded(DetachFromTree(t, i))
<1>1. PICK u : u = DetachFromTree(t, i)
  OBVIOUS
<1>2. SUFFICES ASSUME NEW S \in SUBSET Node, S # {}
               PROVE  \E x \in S : u.firstChild[x] \notin S /\ u.next[x] \notin S
  BY <1>1 DEF Grounded
<1>3. i \in Node /\ Nil \notin S /\ i # Nil
  BY NodeAssumption DEF Item
<1>4. \A x \in Node :
        /\ u.firstChild[x] = IF x = t.parent[i] /\ t.firstChild[x] = i
                             THEN t.next[i] ELSE t.firstChild[x]
        /\ u.next[x] = IF x = i THEN Nil ELSE IF x = t.prev[i] THEN t.next[i] ELSE t.next[x]
  BY <1>1, DetachFields
<1>5. PICK R \in SUBSET Node : R = S \cup {i}
  BY <1>3
<1>6. PICK y \in R : t.firstChild[y] \notin R /\ t.next[y] \notin R
  BY <1>5 DEF Grounded
<1>7. CASE y # i
  <2>1. y \in S /\ y \in Node /\ t.firstChild[y] # i /\ t.next[y] # i
    BY <1>5, <1>6, <1>7
  <2>2. y # t.prev[i]
    BY <1>3, <2>1, NodeAssumption DEF LinksAgree
  <2>3. QED BY <1>4, <1>5, <1>6, <1>7, <2>1, <2>2
<1>8. CASE y = i
  <2>1. t.firstChild[i] \notin S /\ t.next[i] \notin S
    BY <1>5, <1>6, <1>8
  <2>2. PICK z \in S : t.firstChild[z] \notin S /\ t.next[z] \notin S
    BY <1>2 DEF Grounded
  <2>3. z \in Node
    OBVIOUS
  <2>4. /\ u.firstChild[z] \in {t.firstChild[z], t.next[i]}
        /\ u.next[z] \in {t.next[z], t.next[i], Nil}
    BY <1>4, <2>3
  <2>5. QED BY <1>3, <2>1, <2>2, <2>4
<1>9. QED BY <1>7, <1>8

\* The root is linked to no node beside it: taking it out does nothing.
LEMMA DetachRoot ==
  ASSUME NEW t \in Tree, LinksAgree(t)
  PROVE  DetachFromTree(t, Root) = t
<1>1. /\ \A x \in Node : t.firstChild[x] # Root /\ t.next[x] # Root /\ t.prev[x] # Root
      /\ Root \in Node /\ Nil \notin Node
  BY NodeAssumption DEF Tree, ItemOrNil, Item
<1>2. t.next[Root] = Nil /\ t.prev[Root] = Nil
  <2>1. t.prev[Root] = Nil
    BY <1>1 DEF LinksAgree, Tree, ItemOrNil, Item
  <2>2. t.next[Root] = Nil
    BY <1>1 DEF LinksAgree, Tree, ItemOrNil, Item
  <2>3. QED BY <2>1, <2>2
<1>3. /\ t.firstChild = [x \in Node |-> IF x = t.parent[Root] /\ t.firstChild[x] = Root
                                        THEN t.next[Root] ELSE t.firstChild[x]]
      /\ t.next = [x \in Node |-> IF x = Root THEN Nil
                                  ELSE IF x = t.prev[Root] THEN t.next[Root] ELSE t.next[x]]
      /\ t.prev = [x \in Node |-> IF x = Root THEN Nil
                                  ELSE IF x = t.next[Root] THEN t.prev[Root] ELSE t.prev[x]]
  BY <1>1, <1>2 DEF Tree
<1>4. t = [parent |-> t.parent, firstChild |-> t.firstChild, next |-> t.next, prev |-> t.prev]
  BY DEF Tree
<1>5. QED BY <1>3, <1>4 DEF DetachFromTree

\* A function computed from a node and what it is of the first child and of
\* the next sibling.
Folding(t, f, e, g) == /\ f[Nil] = e
                       /\ \A x \in Node : f[x] = g[<<x, f[t.firstChild[x]], f[t.next[x]]>>]

\* There is such a function for every tree that ends.
LEMMA FoldExists ==
  ASSUME NEW t \in Tree, Grounded(t), NEW R, NEW e \in R, NEW g \in [Node \X R \X R -> R]
  PROVE  \E f \in [NodeOrNil -> R] : Folding(t, f, e, g)
<1> DEFINE Pairs == NodeOrNil \X R
           Closed(P) == /\ <<Nil, e>> \in P
                        /\ \A x \in Node, a \in R, b \in R :
                             <<t.firstChild[x], a>> \in P /\ <<t.next[x], b>> \in P
                             => <<x, g[<<x, a, b>>]>> \in P
           Graph == {z \in Pairs : \A P \in SUBSET Pairs : Closed(P) => z \in P}
           Known(x) == \E r \in R : <<x, r>> \in Graph /\ \A q \in R : <<x, q>> \in Graph => q = r
           Wrong == {x \in Node : ~Known(x)}
<1>1. /\ \A x \in Node : t.firstChild[x] \in NodeOrNil /\ t.next[x] \in NodeOrNil
      /\ Nil \in NodeOrNil /\ Node \subseteq NodeOrNil /\ Nil \notin Node
  BY NodeAssumption DEF Tree, ItemOrNil, Item, NodeOrNil
<1>2. \A x \in Node, a \in R, b \in R : g[<<x, a, b>>] \in R
  OBVIOUS
<1>3. Graph \in SUBSET Pairs /\ \A P \in SUBSET Pairs : Closed(P) => Graph \subseteq P
  OBVIOUS
<1>4. Closed(Graph)
  <2>1. <<Nil, e>> \in Graph
    BY <1>1
  <2>2. ASSUME NEW x \in Node, NEW a \in R, NEW b \in R,
               <<t.firstChild[x], a>> \in Graph, <<t.next[x], b>> \in Graph
        PROVE  <<x, g[<<x, a, b>>]>> \in Graph
    <3>1. <<x, g[<<x, a, b>>]>> \in Pairs
      BY <1>1, <1>2
    <3>2. ASSUME NEW P \in SUBSET Pairs, Closed(P) PROVE <<x, g[<<x, a, b>>]>> \in P
      <4>1. <<t.firstChild[x], a>> \in P /\ <<t.next[x], b>> \in P
        BY <1>3, <2>2, <3>2
      <4>2. QED BY <3>2, <4>1
    <3>3. QED BY <3>1, <3>2
  <2>3. QED BY <2>1, <2>2
<1> HIDE DEF Graph
<1>5. Known(Nil)
  <2>1. PICK P \in SUBSET Pairs : P = {z \in Graph : z = <<Nil, e>> \/ z[1] # Nil}
    BY <1>3
  <2>2. <<Nil, e>> \in P
    BY <1>4, <2>1
  <2>3. ASSUME NEW x \in Node, NEW a \in R, NEW b \in R,
               <<t.firstChild[x], a>> \in P, <<t.next[x], b>> \in P
        PROVE  <<x, g[<<x, a, b>>]>> \in P
    <3>1. <<x, g[<<x, a, b>>]>> \in Graph
      BY <1>4, <2>1, <2>3
    <3>2. <<x, g[<<x, a, b>>]>>[1] = x /\ x # Nil
      BY <1>1
    <3>3. QED BY <2>1, <3>1, <3>2
  <2>4. Graph \subseteq P
    BY <1>3, <2>2, <2>3
  <2>5. \A q \in R : <<Nil, q>> \in Graph => q = e
    BY <2>1, <2>4
  <2>6. QED BY <1>4, <2>5
<1>6. Wrong = {}
  <2>1. SUFFICES ASSUME Wrong # {} PROVE FALSE
    OBVIOUS
  <2>2. PICK x \in Wrong : t.firstChild[x] \notin Wrong /\ t.next[x] \notin Wrong
    BY <2>1, Wrong \in (SUBSET Node) \ {{}} DEF Grounded
  <2>3. x \in Node /\ Known(t.firstChild[x]) /\ Known(t.next[x]) /\ ~Known(x)
    BY <1>1, <1>5, <2>2 DEF NodeOrNil
  <2>4. PICK a \in R : /\ <<t.firstChild[x], a>> \in Graph
                       /\ \A q \in R : <<t.firstChild[x], q>> \in Graph => q = a
    BY <2>3
  <2>5. PICK b \in R : /\ <<t.next[x], b>> \in Graph
                       /\ \A q \in R : <<t.next[x], q>> \in Graph => q = b
    BY <2>3
  <2>6. PICK r \in R : r = g[<<x, a, b>>]
    BY <1>2, <2>3
  <2>7. <<x, r>> \in Graph
    BY <1>4, <2>3, <2>4, <2>5, <2>6
  <2>8. PICK P \in SUBSET Pairs : P = {z \in Graph : z = <<x, r>> \/ z[1] # x}
    BY <1>3
  <2>9. <<Nil, e>> \in P
    <3>1. <<Nil, e>>[1] = Nil /\ Nil # x
      BY <1>1, <2>3
    <3>2. QED BY <1>4, <2>8, <3>1
  <2>10. ASSUME NEW y \in Node, NEW c \in R, NEW d \in R,
                <<t.firstChild[y], c>> \in P, <<t.next[y], d>> \in P
         PROVE  <<y, g[<<y, c, d>>]>> \in P
    <3>1. <<t.firstChild[y], c>> \in Graph /\ <<t.next[y], d>> \in Graph
      BY <2>8, <2>10
    <3>2. <<y, g[<<y, c, d>>]>> \in Graph
      BY <1>4, <3>1
    <3>3. CASE y = x
      <4>1. c = a /\ d = b
        BY <2>4, <2>5, <3>1, <3>3
      <4>2. QED BY <2>6, <2>8, <3>2, <3>3, <4>1
    <3>4. CASE y # x
      <4>1. <<y, g[<<y, c, d>>]>>[1] = y
        OBVIOUS
      <4>2. QED BY <2>8, <3>2, <3>4, <4>1
    <3>5. QED BY <3>3, <3>4
  <2>11. Graph \subseteq P
    BY <1>3, <2>9, <2>10
  <2>12. \A q \in R : <<x, q>> \in Graph => q = r
    <3>1. SUFFICES ASSUME NEW q \in R, <<x, q>> \in Graph PROVE q = r
      OBVIOUS
    <3>2. <<x, q>> \in P /\ <<x, q>>[1] = x
      BY <2>11, <3>1
    <3>3. <<x, q>> = <<x, r>>
      BY <2>8, <3>2
    <3>4. QED BY <3>3
  <2>13. QED BY <2>3, <2>7, <2>12
<1>7. PICK f : f = [x \in NodeOrNil |-> CHOOSE r \in R : <<x, r>> \in Graph]
  OBVIOUS
<1>8. \A x \in NodeOrNil : Known(x)
  BY <1>5, <1>6 DEF NodeOrNil
<1> HIDE DEF Wrong
<1>9. \A x \in NodeOrNil : f[x] \in R /\ <<x, f[x]>> \in Graph
  BY <1>7, <1>8
<1>10. \A x \in NodeOrNil, r \in R : <<x, r>> \in Graph => r = f[x]
  BY <1>8, <1>9
<1>11. f \in [NodeOrNil -> R]
  BY <1>7, <1>9
<1>12. f[Nil] = e
  BY <1>1, <1>4, <1>10
<1>13. ASSUME NEW x \in Node PROVE f[x] = g[<<x, f[t.firstChild[x]], f[t.next[x]]>>]
  <2>1. PICK a, b : a = f[t.firstChild[x]] /\ b = f[t.next[x]]
    OBVIOUS
  <2>2. /\ a \in R /\ b \in R
        /\ <<t.firstChild[x], a>> \in Graph /\ <<t.next[x], b>> \in Graph
    BY <1>1, <1>9, <2>1
  <2>3. <<x, g[<<x, a, b>>]>> \in Graph /\ g[<<x, a, b>>] \in R
    BY <1>2, <1>4, <2>2
  <2>4. QED BY <1>1, <1>10, <2>1, <2>3
<1>14. QED BY <1>11, <1>12, <1>13 DEF Folding

\* In any of these nodes going on comes to an end.
GroundedIn(t, N) == \A S \in (SUBSET N) \ {{}} :
                      \E x \in S : t.firstChild[x] \notin S /\ t.next[x] \notin S

\* What findItem does at a node, with what it does elsewhere.
Finding(t, ids, i, f) == \A x \in NodeOrNil :
  f[x] = IF x = Nil THEN Nil
         ELSE IF ids[x] = i THEN x
         ELSE IF f[t.firstChild[x]] # Nil THEN f[t.firstChild[x]] ELSE f[t.next[x]]

\* Whatever the links, there is a function that does it: where it would never
\* come to an end it can be any node.
LEMMA FindingExists ==
  ASSUME NEW t \in Tree, NEW ids, NEW i
  PROVE  \E f \in [NodeOrNil -> NodeOrNil] : Finding(t, ids, i, f)
<1> DEFINE Pairs == NodeOrNil \X NodeOrNil
           Closed(P) == /\ <<Nil, Nil>> \in P
                        /\ \A x \in Node : ids[x] = i => <<x, x>> \in P
                        /\ \A x \in Node, v \in NodeOrNil :
                             /\ ids[x] # i
                             /\ \/ v # Nil /\ <<t.firstChild[x], v>> \in P
                                \/ <<t.firstChild[x], Nil>> \in P /\ <<t.next[x], v>> \in P
                             => <<x, v>> \in P
           Graph == {z \in Pairs : \A P \in SUBSET Pairs : Closed(P) => z \in P}
           Rule(x, v) == \/ x = Nil /\ v = Nil
                         \/ x \in Node /\ ids[x] = i /\ v = x
                         \/ /\ x \in Node /\ ids[x] # i
                            /\ \/ v # Nil /\ <<t.firstChild[x], v>> \in Graph
                               \/ <<t.firstChild[x], Nil>> \in Graph /\ <<t.next[x], v>> \in Graph
<1>1. /\ \A x \in Node : t.firstChild[x] \in NodeOrNil /\ t.next[x] \in NodeOrNil
      /\ Nil \in NodeOrNil /\ Node \subseteq NodeOrNil /\ Nil \notin Node /\ Root \in Node
  BY NodeAssumption DEF Tree, ItemOrNil, Item, NodeOrNil
<1>2. Graph \in SUBSET Pairs /\ \A P \in SUBSET Pairs : Closed(P) => Graph \subseteq P
  OBVIOUS
<1>3. Closed(Graph)
  <2>1. <<Nil, Nil>> \in Graph
    BY <1>1
  <2>2. ASSUME NEW x \in Node, ids[x] = i PROVE <<x, x>> \in Graph
    BY <1>1, <2>2
  <2>3. ASSUME NEW x \in Node, NEW v \in NodeOrNil, ids[x] # i,
               \/ v # Nil /\ <<t.firstChild[x], v>> \in Graph
               \/ <<t.firstChild[x], Nil>> \in Graph /\ <<t.next[x], v>> \in Graph
        PROVE  <<x, v>> \in Graph
    <3>1. <<x, v>> \in Pairs
      BY <1>1
    <3>2. ASSUME NEW P \in SUBSET Pairs, Closed(P) PROVE <<x, v>> \in P
      <4>1. Graph \subseteq P
        BY <1>2, <3>2
      <4>2. QED BY <2>3, <3>2, <4>1
    <3>3. QED BY <3>1, <3>2
  <2>4. QED BY <2>1, <2>2, <2>3
<1> HIDE DEF Graph
<1>4. ASSUME NEW x, NEW v, <<x, v>> \in Graph PROVE Rule(x, v)
  <2>1. PICK P \in SUBSET Pairs : P = {z \in Graph : Rule(z[1], z[2])}
    BY <1>2
  <2>2. \A y, w : <<y, w>> \in P <=> <<y, w>> \in Graph /\ Rule(y, w)
    BY <2>1
  <2>3. <<Nil, Nil>> \in P
    BY <1>3, <2>2
  <2>4. \A y \in Node : ids[y] = i => <<y, y>> \in P
    BY <1>3, <2>2
  <2>5. ASSUME NEW y \in Node, NEW w \in NodeOrNil, ids[y] # i,
               \/ w # Nil /\ <<t.firstChild[y], w>> \in P
               \/ <<t.firstChild[y], Nil>> \in P /\ <<t.next[y], w>> \in P
        PROVE  <<y, w>> \in P
    <3>1. \/ w # Nil /\ <<t.firstChild[y], w>> \in Graph
          \/ <<t.firstChild[y], Nil>> \in Graph /\ <<t.next[y], w>> \in Graph
      BY <2>2, <2>5
    <3>2. <<y, w>> \in Graph
      BY <1>3, <2>5, <3>1
    <3>3. QED BY <2>2, <2>5, <3>1, <3>2
  <2>6. Graph \subseteq P
    BY <1>2, <2>3, <2>4, <2>5
  <2>7. QED BY <1>4, <2>2, <2>6
<1>5. ASSUME NEW x, NEW v, NEW w, <<x, v>> \in Graph, <<x, w>> \in Graph PROVE w = v
  <2>1. PICK P \in SUBSET Pairs : P = {z \in Graph : \A u : <<z[1], u>> \in Graph => u = z[2]}
    BY <1>2
  <2>2. \A y, u : <<y, u>> \in P <=> <<y, u>> \in Graph /\ \A q : <<y, q>> \in Graph => q = u
    BY <2>1
  <2>3. <<Nil, Nil>> \in P
    <3>1. \A q : Rule(Nil, q) => q = Nil
      BY <1>1
    <3>2. QED BY <1>3, <1>4, <2>2, <3>1
  <2>4. ASSUME NEW y \in Node, ids[y] = i PROVE <<y, y>> \in P
    <3>1. \A q : Rule(y, q) => q = y
      BY <1>1, <2>4
    <3>2. QED BY <1>3, <1>4, <2>2, <2>4, <3>1
  <2>5. ASSUME NEW y \in Node, NEW u \in NodeOrNil, ids[y] # i,
               \/ u # Nil /\ <<t.firstChild[y], u>> \in P
               \/ <<t.firstChild[y], Nil>> \in P /\ <<t.next[y], u>> \in P
        PROVE  <<y, u>> \in P
    <3>1. <<y, u>> \in Graph
      BY <1>3, <2>2, <2>5
    <3>2. ASSUME NEW q, <<y, q>> \in Graph PROVE q = u
      <4>1. Rule(y, q) /\ y # Nil
        BY <1>1, <1>4, <3>2
      <4>2. \/ q # Nil /\ <<t.firstChild[y], q>> \in Graph
            \/ <<t.firstChild[y], Nil>> \in Graph /\ <<t.next[y], q>> \in Graph
        BY <2>5, <4>1
      <4>3. QED BY <2>2, <2>5, <4>2
    <3>3. QED BY <2>2, <3>1, <3>2
  <2>6. Graph \subseteq P
    BY <1>2, <2>3, <2>4, <2>5
  <2>7. QED BY <1>5, <2>2, <2>6
<1>6. PICK f : f = [x \in NodeOrNil |-> IF \E v : <<x, v>> \in Graph
                                         THEN CHOOSE v : <<x, v>> \in Graph ELSE Root]
  OBVIOUS
<1>7. \A x \in NodeOrNil : /\ (\E v : <<x, v>> \in Graph) => <<x, f[x]>> \in Graph
                           /\ ~(\E v : <<x, v>> \in Graph) => f[x] = Root
  BY <1>6
<1>8. \A x, v : <<x, v>> \in Graph => x \in NodeOrNil /\ v \in NodeOrNil
  BY <1>2
<1>9. \A x \in NodeOrNil : f[x] \in NodeOrNil
  BY <1>1, <1>7, <1>8
<1>10. f \in [NodeOrNil -> NodeOrNil]
  BY <1>6, <1>9
<1>11. f[Nil] = Nil
  BY <1>1, <1>3, <1>5, <1>7
<1>12. ASSUME NEW x \in Node, ids[x] = i PROVE f[x] = x
  BY <1>1, <1>3, <1>5, <1>7, <1>12
<1>13. ASSUME NEW x \in Node, ids[x] # i
       PROVE  f[x] = IF f[t.firstChild[x]] # Nil THEN f[t.firstChild[x]] ELSE f[t.next[x]]
  <2>1. PICK a \in NodeOrNil, b \in NodeOrNil : a = t.firstChild[x] /\ b = t.next[x]
    BY <1>1
  <2>2. CASE \E v : <<x, v>> \in Graph
    <3>1. <<x, f[x]>> \in Graph /\ x # Nil
      BY <1>1, <1>7, <2>2
    <3>2. \/ f[x] # Nil /\ <<a, f[x]>> \in Graph
          \/ <<a, Nil>> \in Graph /\ <<b, f[x]>> \in Graph
      BY <1>4, <1>13, <2>1, <3>1
    <3>3. CASE f[x] # Nil /\ <<a, f[x]>> \in Graph
      <4>1. <<a, f[a]>> \in Graph
        BY <1>7, <3>3
      <4>2. f[a] = f[x]
        BY <1>5, <3>3, <4>1
      <4>3. QED BY <2>1, <3>3, <4>2
    <3>4. CASE <<a, Nil>> \in Graph /\ <<b, f[x]>> \in Graph
      <4>1. f[a] = Nil /\ f[b] = f[x]
        BY <1>5, <1>7, <3>4
      <4>2. QED BY <2>1, <4>1
    <3>5. QED BY <3>2, <3>3, <3>4
  <2>3. CASE ~\E v : <<x, v>> \in Graph
    <3>1. f[x] = Root
      BY <1>1, <1>7, <2>3
    <3>2. CASE \E v : <<a, v>> \in Graph
      <4>1. <<a, f[a]>> \in Graph
        BY <1>7, <3>2
      <4>2. f[a] = Nil
        BY <1>3, <1>8, <1>13, <2>1, <2>3, <4>1
      <4>3. ~\E v : <<b, v>> \in Graph
        BY <1>3, <1>8, <1>13, <2>1, <2>3, <4>1, <4>2
      <4>4. QED BY <1>7, <2>1, <3>1, <4>2, <4>3
    <3>3. CASE ~\E v : <<a, v>> \in Graph
      BY <1>1, <1>7, <2>1, <3>1, <3>3
    <3>4. QED BY <3>2, <3>3
  <2>4. QED BY <2>2, <2>3
<1>14. QED BY <1>1, <1>10, <1>11, <1>12, <1>13 DEF Finding, NodeOrNil

\* findItem returns a node with this id that first children and next siblings
\* lead to from the root, or none, and that only if no node of the tree has it.
LEMMA FindItemAmong ==
  ASSUME NEW t \in Tree, NEW S \in SUBSET Node, GroundedIn(t, S), NEW ids, NEW i, Root \in S,
         \A x \in S : {t.firstChild[x], t.next[x]} \ {Nil} \subseteq S
  PROVE  /\ FindItem(t, ids, i) \in S \cup {Nil}
         /\ FindItem(t, ids, i) # Nil => ids[FindItem(t, ids, i)] = i
         /\ FindItem(t, ids, i) = Nil => \A x \in InTree(t) : ids[x] # i
<1> DEFINE Step(f, x) == IF x = Nil THEN Nil
                         ELSE IF ids[x] = i THEN x
                         ELSE LET below == f[t.firstChild[x]] IN
                              IF below # Nil THEN below ELSE f[t.next[x]]
           From == CHOOSE f : f = [x \in NodeOrNil |-> Step(f, x)]
<1>1. /\ \A x \in Node : t.firstChild[x] \in NodeOrNil /\ t.next[x] \in NodeOrNil
      /\ Nil \in NodeOrNil /\ Node \subseteq NodeOrNil /\ Nil \notin Node
  BY NodeAssumption DEF Tree, ItemOrNil, Item, NodeOrNil
<1>2. \E f : f = [x \in NodeOrNil |-> Step(f, x)]
  <2>1. PICK f \in [NodeOrNil -> NodeOrNil] : Finding(t, ids, i, f)
    BY FindingExists
  <2>2. \A x \in NodeOrNil : f[x] = Step(f, x)
    BY <2>1 DEF Finding
  <2>3. f = [x \in NodeOrNil |-> Step(f, x)]
    BY <2>1, <2>2
  <2>4. QED BY <2>3
<1>3. From = [x \in NodeOrNil |-> Step(From, x)]
  BY <1>2
<1>4. FindItem(t, ids, i) = From[Root]
  BY DEF FindItem
<1> HIDE DEF From
<1>5. PICK f : f = From /\ f = [x \in NodeOrNil |-> Step(f, x)]
  BY <1>3
<1>6. \A x \in NodeOrNil : f[x] = Step(f, x)
  <2> HIDE DEF Step
  <2>1. QED BY <1>5
<1>7. PICK T \in SUBSET Node : T = {x \in S : ~(f[x] = Nil \/ (f[x] \in S /\ ids[f[x]] = i))}
  OBVIOUS
<1>8. T = {}
  <2>1. SUFFICES ASSUME T # {} PROVE FALSE
    OBVIOUS
  <2>2. PICK x \in T : t.firstChild[x] \notin T /\ t.next[x] \notin T
    BY <1>7, <2>1, T \in (SUBSET S) \ {{}} DEF GroundedIn
  <2>3. x \in S /\ x \in Node /\ f[Nil] = Nil
    BY <1>1, <1>6, <1>7, <2>2
  <2>4. \A y \in {t.firstChild[x], t.next[x]} : f[y] = Nil \/ (f[y] \in S /\ ids[f[y]] = i)
    BY <1>7, <2>2, <2>3
  <2>5. f[x] = Step(f, x)
    BY <1>1, <1>6, <2>3
  <2>6. f[x] = Nil \/ (f[x] \in S /\ ids[f[x]] = i)
    BY <1>1, <2>3, <2>4, <2>5
  <2>7. QED BY <1>7, <2>2, <2>6
<1>9. ASSUME f[Root] = Nil PROVE \A x \in InTree(t) : ids[x] # i
  <2>1. PICK M \in SUBSET Node : M = {x \in Node : ids[x] # i /\ f[x] = Nil}
    OBVIOUS
  <2>2. ASSUME NEW x \in Node, f[x] = Nil
        PROVE  x \in M /\ {t.firstChild[x], t.next[x]} \ {Nil} \subseteq M
    <3>1. ASSUME NEW y \in Node, f[y] = Nil
          PROVE  ids[y] # i /\ f[t.firstChild[y]] = Nil /\ f[t.next[y]] = Nil
      <4>1. f[y] = Step(f, y)
        BY <1>1, <1>6
      <4>2. QED BY <1>1, <3>1, <4>1
    <3>2. f[t.firstChild[x]] = Nil /\ f[t.next[x]] = Nil /\ x \in M
      BY <2>1, <2>2, <3>1
    <3>3. \A y \in {t.firstChild[x], t.next[x]} \ {Nil} : y \in Node
      BY DEF Tree, ItemOrNil, Item
    <3>4. QED BY <2>1, <3>1, <3>2, <3>3
  <2>3. ClosedBelow(t, M)
    BY <1>9, <2>1, <2>2, NodeAssumption DEF ClosedBelow
  <2>4. QED BY <2>1, <2>3, InTreeLeast
<1>10. QED BY <1>4, <1>5, <1>7, <1>8, <1>9

\* So it does in a tree that ends.
LEMMA FindItemThere ==
  ASSUME NEW t \in Tree, Grounded(t), NEW ids, NEW i, NEW S \in SUBSET Node, Root \in S,
         \A x \in S : {t.firstChild[x], t.next[x]} \ {Nil} \subseteq S
  PROVE  /\ FindItem(t, ids, i) \in S \cup {Nil}
         /\ FindItem(t, ids, i) # Nil => ids[FindItem(t, ids, i)] = i
         /\ FindItem(t, ids, i) = Nil => \A x \in InTree(t) : ids[x] # i
<1>1. GroundedIn(t, S)
  BY DEF Grounded, GroundedIn
<1>2. QED BY <1>1, FindItemAmong

---------------------------------------------------------------------------
(* What is reached from a node.                                            *)

\* First children and next siblings stay in S.
Onward(t, S) == \A x \in S : {t.firstChild[x], t.next[x]} \ {Nil} \subseteq S

\* The node, what is below it, its later siblings and what is below these.
Reached(t, x) == {y \in Node : \A S \in SUBSET Node : {x} \ {Nil} \subseteq S /\ Onward(t, S)
                                                    => y \in S}

\* They are the smallest such set.
LEMMA ReachedLeast ==
  ASSUME NEW t \in Tree, NEW x \in NodeOrNil
  PROVE  /\ Reached(t, x) \in SUBSET Node /\ {x} \ {Nil} \subseteq Reached(t, x)
         /\ Onward(t, Reached(t, x))
         /\ \A S \in SUBSET Node : {x} \ {Nil} \subseteq S /\ Onward(t, S) => Reached(t, x) \subseteq S
<1>1. Reached(t, x) \in SUBSET Node /\ {x} \ {Nil} \subseteq Reached(t, x)
  BY NodeAssumption DEF Reached, NodeOrNil
<1>2. \A S \in SUBSET Node : {x} \ {Nil} \subseteq S /\ Onward(t, S) => Reached(t, x) \subseteq S
  BY DEF Reached
<1>3. ASSUME NEW y \in Reached(t, x), NEW z \in {t.firstChild[y], t.next[y]} \ {Nil}
      PROVE  z \in Reached(t, x)
  <2>1. y \in Node /\ z \in Node
    BY <1>1 DEF Tree, ItemOrNil, Item
  <2>2. \A S \in SUBSET Node : {x} \ {Nil} \subseteq S /\ Onward(t, S) => z \in S
    BY <1>2 DEF Onward
  <2>3. QED BY <2>1, <2>2 DEF Reached
<1>4. Onward(t, Reached(t, x))
  BY <1>3 DEF Onward
<1>5. QED BY <1>1, <1>2, <1>4

\* The root has no sibling, and what the traversals see goes on in itself.
LEMMA InTreeOnward ==
  ASSUME NEW t \in Tree, LinksAgree(t)
  PROVE  t.next[Root] = Nil /\ Onward(t, InTree(t)) /\ Root \in InTree(t)
<1>1. t.next[Root] = Nil
  BY NodeAssumption DEF LinksAgree, Tree, ItemOrNil, Item
<1>2. ClosedBelow(t, InTree(t)) /\ Root \in InTree(t) /\ InTree(t) \subseteq Node
  BY InTreeLeast
<1>3. QED BY <1>1, <1>2 DEF ClosedBelow, Onward

\* From a node one gets to it, below it or on to what follows it.
LEMMA ReachedParts ==
  ASSUME NEW t \in Tree, NEW x \in Node
  PROVE  Reached(t, x) = {x} \cup Reached(t, t.firstChild[x]) \cup Reached(t, t.next[x])
<1>1. PICK a, b, A, B, C : /\ a = t.firstChild[x] /\ b = t.next[x] /\ C = Reached(t, x)
                           /\ A = Reached(t, a) /\ B = Reached(t, b)
  OBVIOUS
<1>2. a \in NodeOrNil /\ b \in NodeOrNil /\ x \in NodeOrNil /\ x # Nil
  BY <1>1, NodeAssumption DEF Tree, ItemOrNil, Item, NodeOrNil
<1>3. A \in SUBSET Node /\ {a} \ {Nil} \subseteq A /\ Onward(t, A)
  BY <1>1, <1>2, ReachedLeast
<1>4. B \in SUBSET Node /\ {b} \ {Nil} \subseteq B /\ Onward(t, B)
  BY <1>1, <1>2, ReachedLeast
<1>5. C \in SUBSET Node /\ x \in C /\ Onward(t, C)
  BY <1>1, <1>2, ReachedLeast
<1>6. {a, b} \ {Nil} \subseteq C
  BY <1>1, <1>5 DEF Onward
<1>7. A \subseteq C /\ B \subseteq C
  BY <1>1, <1>2, <1>5, <1>6, ReachedLeast
<1>8. PICK S \in SUBSET Node : S = {x} \cup A \cup B
  BY <1>3, <1>4
<1>9. Onward(t, S)
  BY <1>1, <1>3, <1>4, <1>8 DEF Onward
<1>10. C \subseteq S
  BY <1>1, <1>2, <1>8, <1>9, ReachedLeast
<1>11. QED BY <1>1, <1>5, <1>7, <1>8, <1>10

\* What no node of a set leads to is not reached there, unless it is the start.
LEMMA ReachedThrough ==
  ASSUME NEW t \in Tree, NEW x \in NodeOrNil, NEW z \in Node, z # x,
         \A y \in Reached(t, x) : t.firstChild[y] # z /\ t.next[y] # z
  PROVE  z \notin Reached(t, x)
<1>1. PICK S \in SUBSET Node : S = Reached(t, x) \ {z}
  BY ReachedLeast
<1>2. {x} \ {Nil} \subseteq S /\ Onward(t, S)
  BY <1>1, ReachedLeast DEF Onward
<1>3. QED BY <1>1, <1>2, ReachedLeast

\* One pointer leads to a node.
LEMMA OnePointer ==
  ASSUME NEW t \in Tree, LinksAgree(t), NEW x \in Node, NEW y \in Node, NEW z \in Node
  PROVE  /\ t.firstChild[x] = z /\ t.firstChild[y] = z => x = y
         /\ t.next[x] = z /\ t.next[y] = z => x = y
         /\ ~(t.firstChild[x] = z /\ t.next[y] = z)
BY NodeAssumption DEF LinksAgree

\* What is below a node and what follows it are apart, and the node from both.
LEMMA ReachedApart ==
  ASSUME NEW t \in Tree, LinksAgree(t), Grounded(t), NEW x \in Node
  PROVE  /\ x \notin Reached(t, t.firstChild[x]) /\ x \notin Reached(t, t.next[x])
         /\ Reached(t, t.firstChild[x]) \cap Reached(t, t.next[x]) = {}
<1>1. PICK a, b, A, B : /\ a = t.firstChild[x] /\ b = t.next[x]
                        /\ A = Reached(t, a) /\ B = Reached(t, b)
  OBVIOUS
<1>2. /\ \A y \in Node : t.firstChild[y] \in NodeOrNil /\ t.next[y] \in NodeOrNil
      /\ a \in NodeOrNil /\ b \in NodeOrNil /\ x # Nil /\ Nil \notin Node
      /\ Reached(t, Nil) = {}
  <2>1. Onward(t, {}) /\ {Nil} \ {Nil} = {} /\ {} \in SUBSET Node
    BY DEF Onward
  <2>2. Reached(t, Nil) = {}
    BY <2>1 DEF Reached
  <2>3. QED BY <1>1, <2>2, NodeAssumption DEF Tree, ItemOrNil, Item, NodeOrNil
<1>3. A \in SUBSET Node /\ {a} \ {Nil} \subseteq A /\ Onward(t, A)
  BY <1>1, <1>2, ReachedLeast
<1>4. B \in SUBSET Node /\ {b} \ {Nil} \subseteq B /\ Onward(t, B)
  BY <1>1, <1>2, ReachedLeast
<1>5. x \notin A /\ x \notin B
  <2>1. SUFFICES ASSUME x \in A \/ x \in B PROVE FALSE
    OBVIOUS
  <2>2. PICK T \in SUBSET Node : T = {z \in Node : x \in Reached(t, z)}
    OBVIOUS
  <2>3. \A z \in T : t.firstChild[z] \in T \/ t.next[z] \in T
    <3>1. SUFFICES ASSUME NEW z \in T PROVE t.firstChild[z] \in T \/ t.next[z] \in T
      OBVIOUS
    <3>2. z \in Node /\ x \in Reached(t, z)
      BY <2>2
    <3>3. x \in Reached(t, t.firstChild[z]) \/ x \in Reached(t, t.next[z])
      <4>1. CASE z = x
        BY <1>1, <2>1, <4>1
      <4>2. CASE z # x
        BY <3>2, <4>2, ReachedParts
      <4>3. QED BY <4>1, <4>2
    <3>4. QED BY <1>2, <2>2, <3>2, <3>3 DEF NodeOrNil
  <2>4. T # {}
    BY <1>1, <1>2, <2>1, <2>2 DEF NodeOrNil
  <2>5. QED BY <2>3, <2>4 DEF Grounded
<1>6. a # Nil => a \notin B
  <2>1. SUFFICES ASSUME a # Nil PROVE a \notin B
    OBVIOUS
  <2>2. a \in Node /\ a # b
    BY <1>1, <1>2, <2>1, OnePointer DEF NodeOrNil
  <2>3. \A y \in B : t.firstChild[y] # a /\ t.next[y] # a
    BY <1>1, <1>4, <1>5, <2>2, OnePointer
  <2>4. QED BY <1>1, <1>2, <2>2, <2>3, ReachedThrough
<1>7. ASSUME NEW y \in A \ B, NEW z \in {t.firstChild[y], t.next[y]} \ {Nil}
      PROVE  z \in A \ B
  <2>1. z \in A /\ z \in Node /\ y \in Node /\ y # x
    BY <1>3, <1>5, <1>7 DEF Onward
  <2>2. z # b
    BY <1>1, <1>7, <2>1, OnePointer
  <2>3. \A v \in B : t.firstChild[v] # z /\ t.next[v] # z
    BY <1>4, <1>7, <2>1, OnePointer
  <2>4. z \notin B
    BY <1>1, <1>2, <2>1, <2>2, <2>3, ReachedThrough
  <2>5. QED BY <2>1, <2>4
<1>8. PICK S \in SUBSET Node : S = A \ B
  BY <1>3
<1>9. {a} \ {Nil} \subseteq S /\ Onward(t, S)
  BY <1>3, <1>6, <1>7, <1>8 DEF Onward
<1>10. A \subseteq S
  BY <1>1, <1>2, <1>8, <1>9, ReachedLeast
<1>11. QED BY <1>1, <1>5, <1>8, <1>10

\* An insertion after a node that is reached, below one that is, adds the item.
LEMMA InsertReached ==
  ASSUME NEW t \in Tree, LinksAgree(t), NEW p \in InTree(t), NEW i \in Item, t.firstChild[i] = Nil,
         NEW a \in ItemOrNil, a \in InTree(t) \cup {Nil}
  PROVE  InTree(InsertAfter(t, p, i, a)) \subseteq InTree(t) \cup {i}
<1>1. PICK u, f, M : /\ u = InsertAfter(t, p, i, a) /\ M = InTree(t)
                     /\ f = IF a = Nil THEN t.firstChild[p] ELSE t.next[a]
  OBVIOUS
<1>2. /\ M \in SUBSET Node /\ Root \in M /\ Onward(t, M)
      /\ i \in Node /\ i # Nil /\ Nil \notin Node /\ p \in M /\ u \in Tree
  BY <1>1, InTreeLeast, InTreeOnward, InsertTyped, NodeAssumption DEF Item
<1>3. f = Nil \/ f \in M
  BY <1>1, <1>2 DEF Onward
<1>4. \A x \in Node : /\ u.firstChild[x] = IF a = Nil /\ x = p THEN i ELSE t.firstChild[x]
                      /\ u.next[x] = IF x = i THEN f ELSE IF x = a THEN i ELSE t.next[x]
  BY <1>1, <1>2, InsertFields
<1>5. PICK S \in SUBSET Node : S = M \cup {i}
  BY <1>2
<1>6. \A x \in M : t.firstChild[x] \in S \cup {Nil} /\ t.next[x] \in S \cup {Nil}
  BY <1>2, <1>5 DEF Onward
<1>7. \A x \in S : u.firstChild[x] \in S \cup {Nil} /\ u.next[x] \in S \cup {Nil}
  BY <1>3, <1>4, <1>5, <1>6
<1>8. ClosedBelow(u, S)
  BY <1>2, <1>5, <1>7 DEF ClosedBelow
<1>9. QED BY <1>1, <1>2, <1>5, <1>8, InTreeLeast

\* Taking out an item that is reached adds nothing.
LEMMA DetachReached ==
  ASSUME NEW t \in Tree, LinksAgree(t), NEW i \in Item, i \in InTree(t)
  PROVE  InTree(DetachFromTree(t, i)) \subseteq InTree(t)
<1>1. PICK u, M : u = DetachFromTree(t, i) /\ M = InTree(t)
  OBVIOUS
<1>2. M \in SUBSET Node /\ Root \in M /\ Onward(t, M) /\ u \in Tree
  BY <1>1, InTreeLeast, InTreeOnward, DetachTyped
<1>3. \A x \in Node :
        /\ u.firstChild[x] \in {t.firstChild[x], t.next[i]}
        /\ u.next[x] \in {Nil, t.next[i], t.next[x]}
  BY <1>1, DetachFields
<1>4. \A x \in M : t.firstChild[x] \in M \cup {Nil} /\ t.next[x] \in M \cup {Nil}
  BY <1>2 DEF Onward
<1>5. \A x \in M : u.firstChild[x] \in M \cup {Nil} /\ u.next[x] \in M \cup {Nil}
  BY <1>1, <1>2, <1>3, <1>4
<1>6. ClosedBelow(u, M)
  BY <1>2, <1>5 DEF ClosedBelow
<1>7. QED BY <1>1, <1>2, <1>6, InTreeLeast

---------------------------------------------------------------------------
(* What a user reads of a document, and its chains of children.            *)

\* The recursion of Outline.
Reads(t, ids, texts, f) ==
  /\ \A x \in Node : f[x] = <<ids[x], texts[x], f[t.firstChild[x]], f[t.next[x]]>>
  /\ f[Nil] = <<>>

\* Outline does what its recursion says in a tree that ends.
LEMMA OutlineUnfolds ==
  ASSUME NEW t \in Tree, Grounded(t), NEW ids, NEW texts
  PROVE  \E f : Reads(t, ids, texts, f) /\ Outline(t, ids, texts) = f[t.firstChild[Root]]
<1> DEFINE Step(f, x) == IF x = Nil THEN <<>>
                         ELSE <<ids[x], texts[x], f[t.firstChild[x]], f[t.next[x]]>>
           Over(x) == Reached(t, x) \cup {Nil}
           Tried(f, x) == f = [y \in Over(x) |-> Step(f, y)]
           From == CHOOSE f : f = [x \in NodeOrNil |-> Step(f, x)]
<1>1. /\ \A x \in Node : t.firstChild[x] \in NodeOrNil /\ t.next[x] \in NodeOrNil
      /\ Nil \in NodeOrNil /\ Node \subseteq NodeOrNil /\ Nil \notin Node
  BY NodeAssumption DEF Tree, ItemOrNil, Item, NodeOrNil
<1>2. ASSUME NEW x \in NodeOrNil
      PROVE  /\ x \in Over(x) /\ Over(x) \subseteq NodeOrNil /\ Nil \in Over(x)
             /\ \A y \in Over(x) \cap Node : t.firstChild[y] \in Over(x) /\ t.next[y] \in Over(x)
  BY <1>1, ReachedLeast DEF Onward, NodeOrNil
<1>3. ASSUME NEW x \in NodeOrNil, NEW z \in NodeOrNil, NEW f, NEW g, Tried(f, x), Tried(g, z),
             NEW y \in Over(x) \cap Over(z)
      PROVE  f[y] = g[y]
  <2>1. PICK A, B : A = Over(x) /\ B = Over(z) /\ A \subseteq NodeOrNil
    BY <1>2
  <2>2. /\ f = [v \in A |-> Step(f, v)] /\ g = [v \in B |-> Step(g, v)]
    BY <1>3, <2>1
  <2>3. \A v \in A \cap Node : t.firstChild[v] \in A /\ t.next[v] \in A
    BY <1>2, <2>1
  <2>4. \A v \in B \cap Node : t.firstChild[v] \in B /\ t.next[v] \in B
    BY <1>2, <2>1
  <2>5. \A v \in A : f[v] = Step(f, v)
    <3> HIDE DEF Step
    <3>1. QED BY <2>2
  <2>6. \A v \in B : g[v] = Step(g, v)
    <3> HIDE DEF Step
    <3>1. QED BY <2>2
  <2>7. PICK T \in SUBSET Node : T = {v \in Node : v \in A \cap B /\ f[v] # g[v]}
    OBVIOUS
  <2>8. T = {}
    <3>1. SUFFICES ASSUME T # {} PROVE FALSE
      OBVIOUS
    <3>2. PICK v \in T : t.firstChild[v] \notin T /\ t.next[v] \notin T
      BY <3>1 DEF Grounded
    <3>3. v \in Node /\ v \in A /\ v \in B /\ f[v] # g[v] /\ v # Nil
      BY <1>1, <2>7, <3>2
    <3>4. PICK a, b : a = t.firstChild[v] /\ b = t.next[v]
      OBVIOUS
    <3>5. a \in A /\ a \in B /\ b \in A /\ b \in B
      BY <2>3, <2>4, <3>3, <3>4
    <3>6. f[Nil] = g[Nil] \/ Nil \notin A \cap B
      BY <2>5, <2>6
    <3>7. f[a] = g[a] /\ f[b] = g[b]
      BY <1>1, <2>1, <2>7, <3>2, <3>4, <3>5, <3>6 DEF NodeOrNil
    <3>8. f[v] = <<ids[v], texts[v], f[a], f[b]>> /\ g[v] = <<ids[v], texts[v], g[a], g[b]>>
      BY <2>5, <2>6, <3>3, <3>4
    <3>9. QED BY <3>3, <3>7, <3>8
  <2>9. y = Nil \/ y \in Node
    BY <2>1 DEF NodeOrNil
  <2>10. y = Nil => f[y] = g[y]
    BY <2>1, <2>5, <2>6
  <2>11. y \in Node => f[y] = g[y]
    BY <2>1, <2>7, <2>8
  <2>12. QED BY <2>9, <2>10, <2>11
<1>4. \E f : Tried(f, Nil)
  <2>1. Over(Nil) = {Nil}
    <3>1. Onward(t, {}) /\ {Nil} \ {Nil} = {} /\ {} \in SUBSET Node
      BY DEF Onward
    <3>2. Reached(t, Nil) = {}
      BY <3>1 DEF Reached
    <3>3. QED BY <3>2
  <2>2. PICK f : f = [y \in {Nil} |-> <<>>]
    OBVIOUS
  <2>3. \A y \in {Nil} : Step(f, y) = <<>>
    OBVIOUS
  <2>4. f = [y \in Over(Nil) |-> Step(f, y)]
    <3> HIDE DEF Step, Over
    <3>1. QED BY <2>1, <2>2, <2>3
  <2>5. QED BY <2>4
<1>5. ASSUME NEW x \in Node, \E f : Tried(f, t.firstChild[x]), \E f : Tried(f, t.next[x])
      PROVE  \E f : Tried(f, x)
  <2>1. PICK a, b : a = t.firstChild[x] /\ b = t.next[x] /\ a \in NodeOrNil /\ b \in NodeOrNil
    BY <1>1
  <2>2. PICK fa : Tried(fa, a)
    BY <1>5, <2>1
  <2>3. PICK fb : Tried(fb, b)
    BY <1>5, <2>1
  <2>4. PICK A, B, X : A = Over(a) /\ B = Over(b) /\ X = Over(x) /\ X = {x} \cup A \cup B
    <3>1. Over(x) = {x} \cup Over(a) \cup Over(b)
      <4>1. Reached(t, x) = {x} \cup Reached(t, a) \cup Reached(t, b)
        BY <2>1, ReachedParts
      <4>2. QED BY <4>1
    <3> HIDE DEF Over
    <3>2. QED BY <3>1
  <2>5. \A y \in A : fa[y] = Step(fa, y)
    <3>1. fa = [y \in A |-> Step(fa, y)]
      BY <2>2, <2>4
    <3> HIDE DEF Step
    <3>2. QED BY <3>1
  <2>6. \A y \in B : fb[y] = Step(fb, y)
    <3>1. fb = [y \in B |-> Step(fb, y)]
      BY <2>3, <2>4
    <3> HIDE DEF Step
    <3>2. QED BY <3>1
  <2>7. \A y \in A \cap B : fa[y] = fb[y]
    <3> HIDE DEF Step, Over, Tried
    <3>1. QED BY <1>3, <2>1, <2>2, <2>3, <2>4
  <2>8. a \in A /\ b \in B /\ X \subseteq NodeOrNil
    <3>1. a \in A /\ b \in B /\ A \subseteq NodeOrNil /\ B \subseteq NodeOrNil
      BY <1>2, <2>1, <2>4
    <3> HIDE DEF Over
    <3>2. QED BY <1>1, <2>4, <3>1
  <2>9. /\ \A y \in A \cap Node : t.firstChild[y] \in A /\ t.next[y] \in A
        /\ \A y \in B \cap Node : t.firstChild[y] \in B /\ t.next[y] \in B
    BY <1>2, <2>1, <2>4
  <2>10. PICK f : f = [y \in X |-> IF y \in A THEN fa[y] ELSE IF y \in B THEN fb[y]
                                   ELSE <<ids[x], texts[x], fa[a], fb[b]>>]
    OBVIOUS
  <2>11. (\A y \in A : f[y] = fa[y]) /\ (\A y \in B : f[y] = fb[y])
    BY <2>4, <2>7, <2>10
  <2>12. ASSUME NEW y \in A PROVE f[y] = Step(f, y)
    BY <1>1, <2>4, <2>5, <2>8, <2>9, <2>11, <2>12 DEF NodeOrNil
  <2>13. ASSUME NEW y \in B PROVE f[y] = Step(f, y)
    BY <1>1, <2>4, <2>6, <2>8, <2>9, <2>11, <2>13 DEF NodeOrNil
  <2>14. ASSUME x \notin A, x \notin B PROVE f[x] = Step(f, x)
    BY <1>1, <2>1, <2>4, <2>8, <2>10, <2>11, <2>14
  <2>15. \A y \in X : f[y] = Step(f, y)
    <3> HIDE DEF Step
    <3>1. QED BY <2>4, <2>12, <2>13, <2>14
  <2>16. f = [y \in X |-> Step(f, y)]
    <3> HIDE DEF Step
    <3>1. QED BY <2>10, <2>15
  <2>17. QED BY <2>4, <2>16
<1>6. \A x \in NodeOrNil : \E f : Tried(f, x)
  <2> HIDE DEF Tried
  <2>1. PICK T \in SUBSET Node : T = {x \in Node : ~\E f : Tried(f, x)}
    OBVIOUS
  <2>2. T = {}
    <3>1. SUFFICES ASSUME T # {} PROVE FALSE
      OBVIOUS
    <3>2. PICK x \in T : t.firstChild[x] \notin T /\ t.next[x] \notin T
      BY <3>1 DEF Grounded
    <3>3. \E f : Tried(f, t.firstChild[x])
      BY <1>1, <1>4, <2>1, <3>2 DEF NodeOrNil
    <3>4. \E f : Tried(f, t.next[x])
      BY <1>1, <1>4, <2>1, <3>2 DEF NodeOrNil
    <3>5. QED BY <1>5, <2>1, <3>2, <3>3, <3>4
  <2>3. QED BY <1>4, <2>1, <2>2 DEF NodeOrNil
<1>7. \E f : f = [x \in NodeOrNil |-> Step(f, x)]
  <2> DEFINE Of(x) == CHOOSE f : Tried(f, x)
  <2>1. \A x \in NodeOrNil : Tried(Of(x), x)
    <3> HIDE DEF Tried
    <3>1. QED BY <1>6
  <2>2. PICK F : F = [x \in NodeOrNil |-> Of(x)[x]]
    OBVIOUS
  <2>3. ASSUME NEW x \in NodeOrNil PROVE F[x] = Step(F, x)
    <3>1. PICK f : f = Of(x) /\ Tried(f, x)
      <4> HIDE DEF Tried, Of
      <4>1. QED BY <2>1
    <3>2. f[x] = Step(f, x)
      <4>1. f = [y \in Over(x) |-> Step(f, y)] /\ x \in Over(x)
        BY <1>2, <3>1
      <4> HIDE DEF Step, Over
      <4>2. QED BY <4>1
    <3>3. CASE x = Nil
      BY <2>2, <3>1, <3>2, <3>3
    <3>4. CASE x \in Node
      <4>1. PICK a, b : /\ a = t.firstChild[x] /\ b = t.next[x] /\ a \in NodeOrNil /\ b \in NodeOrNil
        BY <1>1, <3>4
      <4>2. PICK fa, fb : fa = Of(a) /\ fb = Of(b) /\ Tried(fa, a) /\ Tried(fb, b)
        <5> HIDE DEF Tried, Of
        <5>1. QED BY <2>1, <4>1
      <4>3. a \in Over(x) \cap Over(a) /\ b \in Over(x) \cap Over(b)
        BY <1>2, <3>4, <4>1
      <4>4. f[a] = fa[a] /\ f[b] = fb[b]
        <5> HIDE DEF Tried, Over, Of, Step
        <5>1. QED BY <1>3, <3>1, <4>1, <4>2, <4>3
      <4>5. F[a] = fa[a] /\ F[b] = fb[b] /\ F[x] = f[x]
        BY <2>2, <3>1, <4>1, <4>2
      <4>6. QED BY <3>2, <4>1, <4>4, <4>5
    <3>5. QED BY <3>3, <3>4 DEF NodeOrNil
  <2>4. F = [x \in NodeOrNil |-> Step(F, x)]
    <3> HIDE DEF Step, Of
    <3>1. QED BY <2>2, <2>3
  <2>5. QED
    <3> HIDE DEF Step
    <3>1. QED BY <2>4
<1>8. From = [x \in NodeOrNil |-> Step(From, x)]
  <2> HIDE DEF Step
  <2>1. QED BY <1>7
<1>9. Outline(t, ids, texts) = From[t.firstChild[Root]]
  BY DEF Outline
<1> HIDE DEF From
<1>10. PICK f : f = From
  OBVIOUS
<1>11. \A x \in NodeOrNil : f[x] = Step(f, x)
  <2> HIDE DEF Step
  <2>1. QED BY <1>8, <1>10
<1>12. f[Nil] = <<>>
  BY <1>1, <1>11
<1>13. \A x \in Node : f[x] = <<ids[x], texts[x], f[t.firstChild[x]], f[t.next[x]]>>
  BY <1>1, <1>11
<1>14. Reads(t, ids, texts, f)
  BY <1>12, <1>13 DEF Reads
<1>15. QED BY <1>9, <1>10, <1>14

\* The chain of the children of a node is the smallest set with the first one
\* that goes on.
LEMMA ChainLeast ==
  ASSUME NEW t \in Tree, NEW p \in Node
  PROVE  /\ Chain(t, p) \in SUBSET Node
         /\ t.firstChild[p] # Nil => t.firstChild[p] \in Chain(t, p)
         /\ \A x \in Chain(t, p) : t.next[x] # Nil => t.next[x] \in Chain(t, p)
         /\ \A S \in SUBSET Node : /\ t.firstChild[p] # Nil => t.firstChild[p] \in S
                                   /\ \A x \in S : t.next[x] # Nil => t.next[x] \in S
                                   => Chain(t, p) \subseteq S
<1>1. Chain(t, p) \in SUBSET Node
  BY DEF Chain
<1>2. \A x \in Node : /\ t.firstChild[x] # Nil => t.firstChild[x] \in Node
                      /\ t.next[x] # Nil => t.next[x] \in Node
  BY DEF Tree, ItemOrNil, Item
<1>3. \A x : x \in Chain(t, p) <=>
        x \in Node /\ \A S \in SUBSET Node : /\ t.firstChild[p] # Nil => t.firstChild[p] \in S
                                             /\ \A y \in S : t.next[y] # Nil => t.next[y] \in S
                                             => x \in S
  BY DEF Chain
<1>4. QED BY <1>1, <1>2, <1>3

\* A chain has one end.
LEMMA ChainEndUnique ==
  ASSUME NEW t \in Tree, NEW p \in Node, NEW y \in Chain(t, p), NEW z \in Chain(t, p),
         t.next[y] = Nil, t.next[z] = Nil
  PROVE  y = z
<1>1. SUFFICES ASSUME y # z PROVE FALSE
  OBVIOUS
<1>2. PICK C \in SUBSET Node : C = Chain(t, p)
  BY ChainLeast
<1>3. /\ t.firstChild[p] # Nil => t.firstChild[p] \in C
      /\ \A x \in C : t.next[x] # Nil => t.next[x] \in C
  BY <1>2, ChainLeast
<1> DEFINE Avoids(x) == \E S \in SUBSET Node : /\ x \in S /\ z \notin S
                                              /\ \A v \in S : t.next[v] # Nil => t.next[v] \in S
           V == {x \in C : ~Avoids(x)}
<1>4. t.firstChild[p] # Nil => t.firstChild[p] \in V
  <2>1. SUFFICES ASSUME t.firstChild[p] # Nil, Avoids(t.firstChild[p]) PROVE FALSE
    BY <1>3
  <2>2. PICK S \in SUBSET Node : /\ t.firstChild[p] \in S /\ z \notin S
                                 /\ \A v \in S : t.next[v] # Nil => t.next[v] \in S
    BY <2>1
  <2>3. C \subseteq S
    BY <1>2, <2>2, ChainLeast
  <2>4. QED BY <1>2, <2>2, <2>3
<1>5. ASSUME NEW x \in V, t.next[x] # Nil
      PROVE  t.next[x] \in V
  <2>1. SUFFICES ASSUME Avoids(t.next[x]) PROVE FALSE
    BY <1>3, <1>5
  <2>2. PICK S \in SUBSET Node : /\ t.next[x] \in S /\ z \notin S
                                 /\ \A v \in S : t.next[v] # Nil => t.next[v] \in S
    BY <2>1
  <2>3. PICK R \in SUBSET Node : R = S \cup {x}
    OBVIOUS
  <2>4. x \in R /\ z \notin R /\ \A v \in R : t.next[v] # Nil => t.next[v] \in R
    BY <1>5, <2>2, <2>3
  <2>5. Avoids(x)
    BY <2>4
  <2>6. QED BY <2>5
<1>6. C \subseteq V
  <2>1. V \in SUBSET Node
    OBVIOUS
  <2> HIDE DEF V
  <2>2. QED BY <1>2, <1>4, <1>5, <2>1, ChainLeast
<1>7. Avoids(y)
  <2>1. {y} \in SUBSET Node /\ z \notin {y}
    BY <1>1, <1>2
  <2>2. QED BY <2>1
<1>8. QED BY <1>2, <1>6, <1>7

\* getLastChild returns it.
LEMMA LastChildIs ==
  ASSUME NEW t \in Tree, NEW p \in Node, t.firstChild[p] # Nil,
         NEW z \in Chain(t, p), t.next[z] = Nil
  PROVE  LastChild(t, p) = z
<1>1. PICK l : l = (CHOOSE x \in Chain(t, p) : t.next[x] = Nil)
  OBVIOUS
<1>2. l \in Chain(t, p) /\ t.next[l] = Nil
  BY <1>1
<1>3. QED BY <1>1, <1>2, ChainEndUnique DEF LastChild

\* Where pointers are only added, a chain only grows.
LEMMA ChainGrows ==
  ASSUME NEW t \in Tree, NEW u \in Tree, NEW p \in Node,
         t.firstChild[p] # Nil => u.firstChild[p] = t.firstChild[p],
         \A x \in Node : t.next[x] # Nil => u.next[x] = t.next[x]
  PROVE  Chain(t, p) \subseteq Chain(u, p)
<1>1. PICK S \in SUBSET Node : S = Chain(u, p)
  BY ChainLeast
<1>2. /\ u.firstChild[p] # Nil => u.firstChild[p] \in S
      /\ \A x \in S : u.next[x] # Nil => u.next[x] \in S
  BY <1>1, ChainLeast
<1>3. /\ t.firstChild[p] # Nil => t.firstChild[p] \in S
      /\ \A x \in S : t.next[x] # Nil => t.next[x] \in S
  BY <1>2
<1>4. QED BY <1>1, <1>3, ChainLeast

\* A document reads the same with other objects in the same places.
LEMMA SameOutline ==
  ASSUME NEW t \in Tree, Grounded(t), NEW u \in Tree, Grounded(u),
         NEW ids, NEW texts, NEW jds, NEW uexts,
         NEW M \in SUBSET Node, Root \in M, NEW at, at[Root] = Root,
         \A x \in M : /\ at[x] \in Node
                      /\ t.firstChild[x] = Nil => u.firstChild[at[x]] = Nil
                      /\ t.firstChild[x] # Nil => /\ t.firstChild[x] \in M
                                                  /\ u.firstChild[at[x]] = at[t.firstChild[x]]
                      /\ t.next[x] = Nil => u.next[at[x]] = Nil
                      /\ t.next[x] # Nil => /\ t.next[x] \in M
                                            /\ u.next[at[x]] = at[t.next[x]]
                      /\ x # Root => jds[at[x]] = ids[x] /\ uexts[at[x]] = texts[x]
  PROVE  Outline(u, jds, uexts) = Outline(t, ids, texts)
<1>1. PICK f : Reads(t, ids, texts, f) /\ Outline(t, ids, texts) = f[t.firstChild[Root]]
  BY OutlineUnfolds
<1>2. PICK g : Reads(u, jds, uexts, g) /\ Outline(u, jds, uexts) = g[u.firstChild[Root]]
  BY OutlineUnfolds
<1>3. \A x \in Node : /\ t.firstChild[x] # Root /\ t.next[x] # Root /\ x # Nil
  BY NodeAssumption DEF Tree, ItemOrNil, Item
<1>4. PICK T \in SUBSET Node : T = {x \in M \ {Root} : f[x] # g[at[x]]}
  OBVIOUS
<1>5. T = {}
  <2>1. SUFFICES ASSUME T # {} PROVE FALSE
    OBVIOUS
  <2>2. PICK x \in T : t.firstChild[x] \notin T /\ t.next[x] \notin T
    BY <2>1 DEF Grounded
  <2>3. x \in M /\ x # Root /\ x \in Node /\ at[x] \in Node /\ f[x] # g[at[x]]
    BY <1>4, <2>2
  <2>4. PICK a, b, c, d : /\ a = t.firstChild[x] /\ b = t.next[x]
                          /\ c = u.firstChild[at[x]] /\ d = u.next[at[x]]
    OBVIOUS
  <2>5. f[a] = g[c]
    BY <1>1, <1>2, <1>3, <1>4, <2>2, <2>3, <2>4 DEF Reads
  <2>6. f[b] = g[d]
    BY <1>1, <1>2, <1>3, <1>4, <2>2, <2>3, <2>4 DEF Reads
  <2>7. f[x] = <<ids[x], texts[x], f[a], f[b]>>
    BY <1>1, <2>3, <2>4 DEF Reads
  <2>8. g[at[x]] = <<jds[at[x]], uexts[at[x]], g[c], g[d]>>
    BY <1>2, <2>3, <2>4 DEF Reads
  <2>9. jds[at[x]] = ids[x] /\ uexts[at[x]] = texts[x]
    BY <2>3
  <2>10. QED BY <2>3, <2>5, <2>6, <2>7, <2>8, <2>9
<1>6. f[t.firstChild[Root]] = g[u.firstChild[Root]]
  <2>1. CASE t.firstChild[Root] = Nil
    BY <1>1, <1>2, <2>1 DEF Reads
  <2>2. CASE t.firstChild[Root] # Nil
    <3>1. PICK a : a = t.firstChild[Root] /\ a \in M \ {Root} /\ u.firstChild[Root] = at[a]
      BY <1>3, <2>2
    <3>2. QED BY <1>4, <1>5, <3>1
  <2>3. QED BY <2>1, <2>2
<1>7. QED BY <1>1, <1>2, <1>6

---------------------------------------------------------------------------
\* A sequence of siblings: each is the next of the one before, and the last has
\* no next.
Siblings(t, c) == /\ c \in Seq(Item)
                  /\ \A k \in 1..Len(c) - 1 : t.next[c[k]] = c[k + 1]
                  /\ c # <<>> => t.next[c[Len(c)]] = Nil

\* The loop over the children of a node goes through the siblings from its first
\* child on, all of them in any set that next siblings do not leave.
LEMMA ChildrenAre ==
  ASSUME NEW t \in Tree, ChainsEnd(t), NEW p \in Node
  PROVE  /\ Siblings(t, Children(t, p))
         /\ t.firstChild[p] = Nil => Children(t, p) = <<>>
         /\ t.firstChild[p] # Nil => Children(t, p) # <<>> /\ Children(t, p)[1] = t.firstChild[p]
         /\ \A S \in SUBSET Item : /\ t.firstChild[p] # Nil => t.firstChild[p] \in S
                                   /\ \A x \in S : t.next[x] # Nil => t.next[x] \in S
                                   => \A k \in 1..Len(Children(t, p)) : Children(t, p)[k] \in S
<1> DEFINE Step(f, x) == IF x = Nil THEN <<>> ELSE <<x>> \o f[t.next[x]]
           From == CHOOSE f : f = [x \in NodeOrNil |-> Step(f, x)]
<1>1. /\ \A x \in Node : /\ t.firstChild[x] \in NodeOrNil /\ t.next[x] \in NodeOrNil
                         /\ t.next[x] # Nil => t.next[x] \in Item
                         /\ t.firstChild[x] # Nil => t.firstChild[x] \in Item
      /\ Nil \in NodeOrNil /\ Node \subseteq NodeOrNil /\ Nil \notin Node /\ Root \in Node
      /\ Item \subseteq Node
  BY NodeAssumption DEF Tree, ItemOrNil, Item, NodeOrNil
<1>2. \E f : f = [x \in NodeOrNil |-> Step(f, x)]
  <2>1. PICK r : r = [parent |-> t.parent, next |-> t.next, prev |-> t.prev,
                      firstChild |-> [x \in Node |-> Nil]]
    OBVIOUS
  <2>2. r \in Tree /\ r.next = t.next /\ \A x \in Node : r.firstChild[x] = Nil
    BY <2>1 DEF Tree, ItemOrNil
  <2>3. Grounded(r)
    BY <1>1, <2>2 DEF Grounded, ChainsEnd
  <2>4. PICK g : g = [u \in Node \X Seq(Node) \X Seq(Node) |-> <<u[1]>> \o u[3]]
    OBVIOUS
  <2>5. PICK R : R = Seq(Node)
    OBVIOUS
  <2>a. PICK e : e = <<>>
    OBVIOUS
  <2>b. e \in R
    BY <2>5, <2>a
  <2>c. g \in [Node \X Seq(Node) \X Seq(Node) -> Seq(Node)]
    BY <2>4
  <2>d. g \in [Node \X R \X R -> R]
    BY <2>5, <2>c
  <2>6. PICK f \in [NodeOrNil -> Seq(Node)] : Folding(r, f, <<>>, g)
    <3>1. \E f \in [NodeOrNil -> R] : Folding(r, f, e, g)
      BY <2>2, <2>3, <2>b, <2>d, FoldExists
    <3>2. QED BY <2>5, <2>a, <3>1
  <2>7. ASSUME NEW x \in NodeOrNil PROVE f[x] = Step(f, x)
    <3>1. CASE x = Nil
      BY <2>6, <3>1 DEF Folding
    <3>2. CASE x \in Node
      <4>1. PICK a \in Seq(Node), b \in Seq(Node) : a = f[r.firstChild[x]] /\ b = f[t.next[x]]
        BY <1>1, <2>2, <2>6, <3>2
      <4>2. f[x] = g[<<x, a, b>>]
        BY <2>2, <2>6, <3>2, <4>1 DEF Folding
      <4>3. g[<<x, a, b>>] = <<x>> \o b
        BY <2>4, <3>2
      <4>4. QED BY <1>1, <3>2, <4>1, <4>2, <4>3
    <3>3. QED BY <3>1, <3>2 DEF NodeOrNil
  <2>8. f = [x \in NodeOrNil |-> Step(f, x)]
    BY <2>6, <2>7
  <2>9. QED BY <2>8
<1>3. From = [x \in NodeOrNil |-> Step(From, x)]
  BY <1>2
<1>4. Children(t, p) = From[t.firstChild[p]]
  BY DEF Children
<1> HIDE DEF From
<1>5. PICK f : f = From /\ f = [x \in NodeOrNil |-> Step(f, x)]
  BY <1>3
<1>6. \A x \in NodeOrNil : f[x] = Step(f, x)
  <2> HIDE DEF Step
  <2>1. QED BY <1>5
<1>7. f[Nil] = <<>> /\ \A x \in Node : f[x] = <<x>> \o f[t.next[x]]
  BY <1>1, <1>6
<1> HIDE DEF Step
<1> DEFINE Good(x) == Siblings(t, f[x]) /\ f[x] # <<>> /\ f[x][1] = x
<1>8. \A x \in Item : Good(x)
  <2>1. PICK T \in SUBSET Node : T = {x \in Item : ~Good(x)}
    BY <1>1
  <2>2. SUFFICES ASSUME T # {} PROVE FALSE
    BY <2>1
  <2>3. PICK x \in T : t.next[x] \notin T
    BY <2>2, T \in (SUBSET Node) \ {{}} DEF ChainsEnd
  <2>4. x \in Item /\ x \in Node /\ t.next[x] \in NodeOrNil
    BY <1>1, <2>1, <2>3
  <2>5. CASE t.next[x] = Nil
    <3>1. f[x] = <<x>> \o <<>>
      BY <1>7, <2>4, <2>5
    <3>2. f[x] = <<x>>
      BY <2>4, <3>1
    <3>3. Good(x)
      BY <2>4, <2>5, <3>2 DEF Siblings
    <3>4. QED BY <2>1, <2>3, <3>3
  <2>6. CASE t.next[x] # Nil
    <3>1. PICK y, c : y = t.next[x] /\ c = f[y] /\ y \in Item /\ Good(y)
      BY <1>1, <2>1, <2>3, <2>4, <2>6
    <3>2. PICK n \in Nat : n = Len(c) /\ c \in Seq(Item) /\ n > 0 /\ c[1] = y
      <4>1. c \in Seq(Item) /\ c # <<>> /\ c[1] = y
        BY <3>1 DEF Siblings
      <4>2. QED BY <4>1
    <3>3. f[x] = <<x>> \o c
      BY <1>7, <2>4, <3>1
    <3>4. PICK d : d = f[x] /\ d \in Seq(Item) /\ Len(d) = n + 1 /\ d[1] = x
                   /\ \A k \in 1..n : d[k + 1] = c[k]
      <4>1. PICK d : d = <<x>> \o c
        OBVIOUS
      <4>2. d \in Seq(Item) /\ Len(d) = n + 1 /\ d[1] = x
        BY <2>4, <3>2, <4>1
      <4>3. \A k \in 1..n : d[k + 1] = c[k]
        BY <2>4, <3>2, <4>1
      <4>4. d = f[x]
        BY <3>3, <4>1
      <4>5. QED BY <4>2, <4>3, <4>4
    <3>5. \A k \in 1..n - 1 : t.next[c[k]] = c[k + 1]
      BY <3>1, <3>2 DEF Siblings
    <3>6. t.next[c[n]] = Nil
      BY <3>1, <3>2 DEF Siblings
    <3>7. ASSUME NEW k \in 1..n PROVE t.next[d[k]] = d[k + 1]
      <4>1. CASE k = 1
        BY <3>1, <3>2, <3>4, <4>1
      <4>2. CASE k # 1
        <5>1. PICK j \in 1..n - 1 : k = j + 1
          BY <4>2, k - 1 \in 1..n - 1
        <5>2. d[k] = c[j] /\ d[k + 1] = c[j + 1]
          BY <3>2, <3>4, <5>1
        <5>3. QED BY <3>5, <5>1, <5>2
      <4>3. QED BY <4>1, <4>2
    <3>8. t.next[d[n + 1]] = Nil
      BY <3>2, <3>4, <3>6
    <3>9. Siblings(t, d) /\ d # <<>>
      BY <3>2, <3>4, <3>7, <3>8 DEF Siblings
    <3>10. QED BY <2>1, <2>3, <3>4, <3>9
  <2>7. QED BY <2>5, <2>6
<1>9. PICK h, c : h = t.firstChild[p] /\ c = f[h] /\ c = Children(t, p)
  BY <1>4, <1>5
<1>10. CASE h = Nil
  <2>1. c = <<>>
    BY <1>7, <1>9, <1>10
  <2>2. Siblings(t, c)
    BY <2>1 DEF Siblings
  <2>3. QED BY <1>9, <1>10, <2>1, <2>2
<1>11. CASE h # Nil
  <2>1. h \in Item /\ Siblings(t, c) /\ c # <<>> /\ c[1] = h
    BY <1>1, <1>8, <1>9, <1>11
  <2>2. PICK n \in Nat : n = Len(c) /\ n > 0
    BY <2>1 DEF Siblings
  <2>3. \A k \in 1..n - 1 : t.next[c[k]] = c[k + 1] /\ c[k + 1] \in Item
    BY <2>1, <2>2 DEF Siblings
  <2>4. ASSUME NEW S \in SUBSET Item, h \in S, \A x \in S : t.next[x] # Nil => t.next[x] \in S
        PROVE  \A k \in 1..n : c[k] \in S
    <3>1. PICK T : T = {k \in Nat : k \in 1..n => c[k] \in S}
      OBVIOUS
    <3>2. 0 \in T
      BY <3>1
    <3>3. ASSUME NEW k \in Nat, k \in T PROVE k + 1 \in T
      <4>1. CASE k = 0
        BY <2>1, <2>4, <3>1, <4>1
      <4>2. CASE k # 0 /\ k + 1 \in 1..n
        <5>1. k \in 1..n /\ k \in 1..n - 1
          BY <4>2
        <5>2. c[k] \in S /\ t.next[c[k]] = c[k + 1] /\ c[k + 1] \in Item
          BY <2>3, <3>1, <3>3, <5>1
        <5>3. c[k + 1] # Nil
          BY <1>1, <5>2
        <5>4. c[k + 1] \in S
          BY <2>4, <5>2, <5>3
        <5>5. QED BY <3>1, <5>4
      <4>3. CASE k + 1 \notin 1..n
        BY <3>1, <4>3
      <4>4. QED BY <4>1, <4>2, <4>3
    <3>4. Nat \subseteq T
      BY <3>2, <3>3, SetInduction
    <3>5. QED BY <3>1, <3>4
  <2>5. QED BY <1>9, <1>11, <2>1, <2>2, <2>4
<1>12. QED BY <1>10, <1>11

\* The links that lead on agree with those that lead back.
OnwardAgree(t) ==
  /\ \A x \in Node : t.next[x] # Nil => t.prev[t.next[x]] = x /\ t.parent[t.next[x]] = t.parent[x]
  /\ \A x \in Node : t.firstChild[x] # Nil =>
       t.parent[t.firstChild[x]] = x /\ t.prev[t.firstChild[x]] = Nil

\* Nothing hangs below a node that is out of the tree, or after it.
Hung(t) == \A x \in Node \ InTree(t) : t.firstChild[x] = Nil /\ t.next[x] = Nil

\* They do if all links agree.
LEMMA AgreeOnward ==
  ASSUME NEW t, LinksAgree(t)
  PROVE  OnwardAgree(t)
BY DEF LinksAgree, OnwardAgree

\* No items of the tree are each below another of them.
LEMMA NoParentLoop ==
  ASSUME NEW t \in Tree, OnwardAgree(t), NEW S \in SUBSET InTree(t), Root \notin S,
         \A x \in S : t.parent[x] \in S
  PROVE  S = {}
<1>1. PICK M, T : M = InTree(t) /\ T = {x \in M : x # Root /\ t.parent[x] \in S}
  OBVIOUS
<1>2. M \in SUBSET Node /\ ClosedBelow(t, M) /\ Root \in M /\ S \subseteq T
  BY <1>1, InTreeLeast
<1>3. /\ Nil \notin Node /\ Root \in Node /\ t.next[Root] = Nil
      /\ \A x \in Node : /\ t.firstChild[x] # Nil => t.firstChild[x] \in Item
                         /\ t.next[x] # Nil => t.next[x] \in Item
  BY NodeAssumption DEF Tree, ItemOrNil, Item, OnwardAgree
<1>4. PICK N \in SUBSET Node : N = M \ T
  BY <1>2
<1>5. ASSUME NEW x \in N, t.firstChild[x] # Nil PROVE t.firstChild[x] \in N
  <2>1. t.firstChild[x] \in M /\ t.parent[t.firstChild[x]] = x
    BY <1>2, <1>4, <1>5 DEF ClosedBelow, OnwardAgree
  <2>2. QED BY <1>1, <1>2, <1>4, <2>1
<1>6. ASSUME NEW x \in N, x # Root, t.next[x] # Nil PROVE t.next[x] \in N
  <2>1. t.next[x] \in M /\ t.parent[t.next[x]] = t.parent[x]
    BY <1>2, <1>4, <1>6 DEF ClosedBelow, OnwardAgree
  <2>2. QED BY <1>1, <1>4, <1>6, <2>1
<1>7. ClosedBelow(t, N)
  BY <1>1, <1>2, <1>4, <1>5, <1>6 DEF ClosedBelow
<1>8. M \subseteq N
  BY <1>1, <1>7, InTreeLeast
<1>9. QED BY <1>1, <1>2, <1>4, <1>8

\* A function from a finite set onto one that contains it: they are the same.
LEMMA OntoMore ==
  ASSUME NEW Q, IsFiniteSet(Q), NEW S, S \subseteq Q, NEW f, \A q \in Q : \E x \in S : f[x] = q
  PROVE  S = Q /\ \A x \in S : f[x] \in Q
<1>1. PICK g : g = [q \in Q |-> CHOOSE x \in S : f[x] = q]
  OBVIOUS
<1>2. \A q \in Q : g[q] \in S /\ f[g[q]] = q
  BY <1>1
<1>3. g \in [Q -> Q]
  BY <1>1, <1>2
<1>4. \A p, q \in Q : g[p] = g[q] => p = q
  BY <1>2
<1>5. g \in Injection(Q, Q)
  BY <1>3, <1>4 DEF Injection, IsInjective
<1>6. g \in Surjection(Q, Q)
  <2>1. Cardinality(Q) = Cardinality(Q) /\ IsFiniteSet(Q)
    OBVIOUS
  <2>2. QED BY <1>5, <2>1, FS_Injection, FS_Surjection
<1>7. \A x \in Q : \E q \in Q : g[q] = x
  BY <1>6 DEF Surjection
<1>8. \A x \in Q : x \in S /\ f[x] \in Q
  BY <1>2, <1>7
<1>9. QED BY <1>8

\* Where no nodes have their parents among themselves, going on comes to an end.
LEMMA ParentsGround ==
  ASSUME NEW t \in Tree, OnwardAgree(t), ChainsEnd(t), NEW N \in SUBSET Node,
         \A S \in SUBSET N : (\A x \in S : t.parent[x] \in S) => S = {}
  PROVE  GroundedIn(t, N)
<1>1. SUFFICES ASSUME NEW S \in SUBSET N, S # {},
                      \A x \in S : t.firstChild[x] \in S \/ t.next[x] \in S
               PROVE  FALSE
  BY DEF GroundedIn
<1>2. PICK Q : Q = {t.parent[x] : x \in S}
  OBVIOUS
<1>3. IsFiniteSet(Q)
  <2>1. IsFiniteSet(NodeOrNil)
    BY HeapFinite, FS_AddElement DEF NodeOrNil
  <2>2. Q \subseteq NodeOrNil
    BY <1>2 DEF Tree
  <2>3. QED BY <2>1, <2>2, FS_Subset
<1>4. \A x \in S : x \in Node /\ Nil \notin S
  BY NodeAssumption
<1>5. PICK q \in Q : \A x \in S : t.parent[x] = q => x \notin Q
  <2>1. SUFFICES ASSUME \A q \in Q : \E x \in S : t.parent[x] = q /\ x \in Q PROVE FALSE
    OBVIOUS
  <2>2. PICK P : P = S \cap Q
    OBVIOUS
  <2>3. PICK f : f = [x \in P |-> t.parent[x]]
    OBVIOUS
  <2>4. \A q \in Q : \E x \in P : f[x] = q
    BY <2>1, <2>2, <2>3
  <2>5. P = Q /\ \A x \in P : f[x] \in Q
    BY <1>3, <2>2, <2>4, OntoMore
  <2>6. P \in SUBSET N /\ \A x \in P : t.parent[x] \in P
    BY <2>2, <2>3, <2>5
  <2>7. P = {}
    BY <2>6
  <2>8. PICK x \in S : t.parent[x] \in Q
    BY <1>1, <1>2
  <2>9. QED BY <2>5, <2>7, <2>8
<1>6. PICK C \in SUBSET Node : C = {x \in S : t.parent[x] = q}
  BY <1>4
<1>7. C # {}
  BY <1>2, <1>6
<1>8. PICK x \in C : t.next[x] \notin C
  BY <1>6, <1>7 DEF ChainsEnd
<1>9. x \in S /\ x \in Node /\ t.parent[x] = q /\ x \notin Q
  BY <1>4, <1>5, <1>6, <1>8
<1>10. t.firstChild[x] \notin S
  <2>1. SUFFICES ASSUME t.firstChild[x] \in S PROVE FALSE
    OBVIOUS
  <2>2. t.parent[t.firstChild[x]] = x
    BY <1>4, <1>9, <2>1 DEF OnwardAgree
  <2>3. QED BY <1>2, <1>9, <2>1, <2>2
<1>11. t.next[x] \in S
  BY <1>1, <1>9, <1>10
<1>12. t.parent[t.next[x]] = q
  BY <1>4, <1>9, <1>11 DEF OnwardAgree
<1>13. QED BY <1>6, <1>8, <1>11, <1>12

\* So it does in the tree.
LEMMA TreeGrounded ==
  ASSUME NEW t \in Tree, OnwardAgree(t), ChainsEnd(t)
  PROVE  GroundedIn(t, InTree(t))
<1>1. PICK N : N = InTree(t) \ {Root}
  OBVIOUS
<1>2. N \in SUBSET Node /\ InTree(t) \subseteq Node
  BY <1>1, InTreeLeast
<1>3. GroundedIn(t, N)
  <2>1. \A S \in SUBSET N : (\A x \in S : t.parent[x] \in S) => S = {}
    BY <1>1, NoParentLoop
  <2>2. QED BY <1>2, <2>1, ParentsGround
<1>4. ASSUME NEW S \in SUBSET InTree(t), S # {}
      PROVE  \E x \in S : t.firstChild[x] \notin S /\ t.next[x] \notin S
  <2>1. \A x \in S : t.firstChild[x] # Root /\ t.next[x] # Root
    BY <1>2, NodeAssumption DEF Tree, ItemOrNil, Item
  <2>2. CASE S = {Root}
    BY <2>1, <2>2
  <2>3. CASE S # {Root}
    <3>1. PICK P : P = S \ {Root}
      OBVIOUS
    <3>2. P \in (SUBSET N) \ {{}}
      BY <1>1, <1>4, <2>3, <3>1
    <3>3. PICK x \in P : t.firstChild[x] \notin P /\ t.next[x] \notin P
      BY <1>3, <3>2 DEF GroundedIn
    <3>4. QED BY <2>1, <3>1, <3>3
  <2>4. QED BY <2>2, <2>3
<1>5. QED BY <1>4 DEF GroundedIn

\* And everywhere, if nothing hangs elsewhere.
LEMMA HungGrounded ==
  ASSUME NEW t \in Tree, OnwardAgree(t), ChainsEnd(t), Hung(t)
  PROVE  Grounded(t)
<1>1. PICK M : M = InTree(t)
  OBVIOUS
<1>2. M \subseteq Node /\ ClosedBelow(t, M) /\ Nil \notin Node
  BY <1>1, InTreeLeast, NodeAssumption
<1>3. t.next[Root] = Nil
  BY NodeAssumption DEF OnwardAgree, Tree, ItemOrNil, Item
<1>4. \A x \in M : t.firstChild[x] \in M \cup {Nil} /\ t.next[x] \in M \cup {Nil}
  BY <1>2, <1>3 DEF ClosedBelow
<1>5. ASSUME NEW S \in SUBSET Node, S # {}
      PROVE  \E x \in S : t.firstChild[x] \notin S /\ t.next[x] \notin S
  <2>1. CASE S \cap M = {}
    BY <1>1, <1>2, <1>5, <2>1 DEF Hung
  <2>2. CASE S \cap M # {}
    <3>1. PICK x \in S \cap M : t.firstChild[x] \notin S \cap M /\ t.next[x] \notin S \cap M
      BY <1>1, <2>2, TreeGrounded DEF GroundedIn
    <3>2. QED BY <1>2, <1>4, <3>1
  <2>3. QED BY <2>1, <2>2
<1>6. QED BY <1>5 DEF Grounded

\* What is linked is in the tree then.
LEMMA HungLinked ==
  ASSUME NEW t \in Tree, LinksAgree(t), Hung(t), NEW x \in Node, Linked(t, x)
  PROVE  x \in InTree(t)
<1>1. ClosedBelow(t, InTree(t)) /\ Nil \notin Node /\ Root \in Node
  BY InTreeLeast, NodeAssumption
<1>2. CASE t.prev[x] # Nil
  <2>1. PICK y \in Item : y = t.prev[x]
    BY <1>2 DEF Tree, ItemOrNil
  <2>2. y \in Node /\ y # Root /\ t.next[y] = x /\ x # Nil
    BY <1>1, <1>2, <2>1 DEF LinksAgree, Item
  <2>3. y \in InTree(t)
    BY <2>2 DEF Hung
  <2>4. QED BY <1>1, <2>2, <2>3 DEF ClosedBelow
<1>3. CASE t.prev[x] = Nil
  <2>1. PICK p \in Node : t.firstChild[p] = x /\ x # Nil
    BY <1>1, <1>3 DEF Linked
  <2>2. p \in InTree(t)
    BY <2>1 DEF Hung
  <2>3. QED BY <1>1, <2>1, <2>2 DEF ClosedBelow
<1>4. QED BY <1>2, <1>3

\* From an item of the tree, those that lead back do not leave it.
LEMMA InTreeBack ==
  ASSUME NEW t \in Tree, OnwardAgree(t), NEW x \in InTree(t) \ {Root}
  PROVE  /\ t.parent[x] \in InTree(t) /\ t.parent[x] \in Node
         /\ t.prev[x] = Nil => t.firstChild[t.parent[x]] = x
         /\ t.prev[x] # Nil => t.prev[x] \in InTree(t) \ {Root} /\ t.next[t.prev[x]] = x
<1>1. PICK M : M = InTree(t)
  OBVIOUS
<1>2. M \subseteq Node /\ ClosedBelow(t, M) /\ Root \in M /\ Nil \notin Node
  BY <1>1, InTreeLeast, NodeAssumption
<1>3. t.next[Root] = Nil
  BY NodeAssumption DEF OnwardAgree, Tree, ItemOrNil, Item
<1>4. PICK N : N = {y \in M : y # Root => /\ t.parent[y] \in M
                                          /\ t.prev[y] = Nil => t.firstChild[t.parent[y]] = y
                                          /\ t.prev[y] # Nil => /\ t.prev[y] \in M \ {Root}
                                                                /\ t.next[t.prev[y]] = y}
  OBVIOUS
<1>5. N \in SUBSET Node /\ Root \in N
  BY <1>2, <1>4
<1>6. ASSUME NEW y \in N, t.firstChild[y] # Nil PROVE t.firstChild[y] \in N
  <2>1. PICK z : z = t.firstChild[y]
    OBVIOUS
  <2>2. z \in M /\ t.parent[z] = y /\ t.prev[z] = Nil
    BY <1>2, <1>4, <1>6, <2>1 DEF ClosedBelow, OnwardAgree
  <2>3. QED BY <1>4, <2>1, <2>2
<1>7. ASSUME NEW y \in N, y # Root, t.next[y] # Nil PROVE t.next[y] \in N
  <2>1. PICK z : z = t.next[y]
    OBVIOUS
  <2>2. z \in M /\ t.parent[z] = t.parent[y] /\ t.prev[z] = y /\ y \in M
    BY <1>2, <1>4, <1>7, <2>1 DEF ClosedBelow, OnwardAgree
  <2>3. t.parent[y] \in M
    BY <1>4, <1>7
  <2>4. y # Nil
    BY <1>2, <2>2
  <2>5. QED BY <1>4, <1>7, <2>1, <2>2, <2>3, <2>4
<1>8. ClosedBelow(t, N)
  BY <1>5, <1>6, <1>7 DEF ClosedBelow
<1>9. M \subseteq N
  BY <1>1, <1>5, <1>8, InTreeLeast
<1>10. QED BY <1>1, <1>2, <1>4, <1>9

\* Then every chain in it begins somewhere.
LEMMA HungWhole ==
  ASSUME NEW t \in Tree, LinksAgree(t), Hung(t)
  PROVE  Whole(t)
<1>1. t.next[Root] = Nil
  BY NodeAssumption DEF LinksAgree, Tree, ItemOrNil, Item
<1>2. SUFFICES ASSUME NEW x \in Node, t.next[x] # Nil PROVE Linked(t, x)
  BY DEF Whole
<1>3. x \in InTree(t) \ {Root}
  BY <1>1, <1>2 DEF Hung
<1>4. QED BY <1>3, ReachedLinked

\* Nodes of a tree stay in it if they stay linked, each below another of them.
LEMMA StaysInTree ==
  ASSUME NEW u \in Tree, LinksAgree(u), ChainsEnd(u), Whole(u), NEW N \in SUBSET Node,
         \A x \in N \ {Root} : Linked(u, x) /\ u.parent[x] \in N,
         \A S \in SUBSET (N \ {Root}) : (\A x \in S : u.parent[x] \in S) => S = {}
  PROVE  N \subseteq InTree(u)
<1>1. PICK B \in SUBSET (N \ {Root}) : B = N \ InTree(u)
  BY InTreeLeast
<1>2. ASSUME NEW x \in B PROVE u.parent[x] \in B
  <2>1. Linked(u, x) /\ x \in Node /\ u.parent[x] \in N
    BY <1>1, <1>2
  <2>2. u.parent[x] \notin InTree(u)
    BY <1>1, <1>2, <2>1, HeapFinite, LinkedReached
  <2>3. QED BY <1>1, <2>1, <2>2
<1>3. B = {}
  BY <1>2
<1>4. QED BY <1>1, <1>3

\* An item without children is linked to an item of the tree.
LEMMA HungAdds ==
  ASSUME NEW t \in Tree, LinksAgree(t), ChainsEnd(t), Hung(t), NEW p \in InTree(t), NEW i \in Item,
         Detached(t, i), t.firstChild[i] = Nil, NEW b \in ItemOrNil, b # i,
         b # Nil => Linked(t, b)
  PROVE  LET u == AddAsChild(t, p, i, b) IN Hung(u) /\ InTree(t) \cup {i} \subseteq InTree(u)
<1>1. PICK M : M = InTree(t)
  OBVIOUS
<1>2. /\ M \in SUBSET Node /\ Root \in M /\ p \in Node /\ i \in Node /\ Nil \notin Node /\ i # Nil
      /\ Whole(t) /\ OnwardAgree(t)
  BY <1>1, InTreeLeast, HungWhole, AgreeOnward, NodeAssumption DEF Item
<1>3. PICK a \in ItemOrNil : /\ AddAsChild(t, p, i, b) = InsertAfter(t, p, i, a)
                             /\ a # i /\ ~WrongAfter(t, p, a) /\ a \in {b, Nil}
  BY NodeAssumption DEF AddAsChild, WrongAfter, ItemOrNil, Item
<1>4. PICK u : u = AddAsChild(t, p, i, b) /\ u = InsertAfter(t, p, i, a)
  BY <1>3
<1>5. u \in Tree /\ LinksAgree(u) /\ ChainsEnd(u)
  BY <1>2, <1>3, <1>4, InsertTyped, InsertLinks, InsertChains
<1>6. /\ Linked(u, i) /\ Whole(u)
      /\ \A x \in Item \ {i} : Linked(u, x) <=> Linked(t, x)
  <2>1. PICK v : v = AddAsChild(t, p, i, b)
    OBVIOUS
  <2>2. /\ Linked(v, i) /\ Whole(v)
        /\ \A x \in Item \ {i} : Linked(v, x) <=> Linked(t, x)
    BY <1>2, <2>1, AddLinked
  <2>3. u = v
    BY <1>4, <2>1
  <2>4. QED BY <2>2, <2>3
<1>7. i \notin M
  <2>1. ~Linked(t, i)
    BY <1>2 DEF Detached, Linked
  <2>2. QED BY <1>1, <2>1, ReachedLinked, i # Root DEF Item
<1>8. \A x \in Node : u.parent[x] = IF x = i THEN p ELSE t.parent[x]
  BY <1>2, <1>4, InsertFields
<1>9. ASSUME NEW x \in M \ {Root} PROVE Linked(u, x) /\ u.parent[x] \in M
  <2>1. Linked(t, x) /\ t.parent[x] \in M
    BY <1>1, <1>2, ReachedLinked, InTreeBack
  <2>2. x \in Item \ {i} /\ x \in Node
    BY <1>2, <1>7 DEF Item
  <2>3. QED BY <1>6, <1>7, <1>8, <2>1, <2>2
<1>10. ASSUME NEW S \in SUBSET (M \ {Root}), \A x \in S : u.parent[x] \in S PROVE S = {}
  <2>1. \A x \in S : t.parent[x] \in S
    BY <1>2, <1>7, <1>8, <1>10
  <2>2. QED BY <1>1, <1>2, <2>1, NoParentLoop
<1>11. M \subseteq InTree(u)
  BY <1>2, <1>5, <1>6, <1>9, <1>10, StaysInTree
<1>12. i \in InTree(u)
  <2>1. u.parent[i] \in InTree(u)
    BY <1>1, <1>2, <1>8, <1>11
  <2>2. QED BY <1>2, <1>5, <1>6, <2>1, HeapFinite, LinkedReached
<1>13. a = Nil \/ a \in M
  BY <1>1, <1>3, HungLinked DEF ItemOrNil, Item
<1>14. ASSUME NEW x \in Node \ InTree(u) PROVE u.firstChild[x] = Nil /\ u.next[x] = Nil
  <2>1. x \in Node /\ x \notin M /\ x # i /\ x # p /\ x # a
    BY <1>1, <1>2, <1>11, <1>12, <1>13, <1>14
  <2>2. t.firstChild[x] = Nil /\ t.next[x] = Nil
    BY <1>1, <2>1 DEF Hung
  <2>3. /\ u.firstChild[x] = IF a = Nil /\ x = p THEN i ELSE t.firstChild[x]
        /\ u.next[x] = IF x = i THEN (IF a = Nil THEN t.firstChild[p] ELSE t.next[a])
                       ELSE IF x = a THEN i ELSE t.next[x]
    BY <1>2, <1>4, <2>1, InsertFields
  <2>4. QED BY <2>1, <2>2, <2>3
<1>15. QED BY <1>1, <1>4, <1>11, <1>12, <1>14 DEF Hung

\* An item without children is taken out of the tree.
LEMMA HungRemoves ==
  ASSUME NEW t \in Tree, LinksAgree(t), ChainsEnd(t), Hung(t), NEW i \in InTree(t) \ {Root},
         t.firstChild[i] = Nil
  PROVE  LET u == DetachFromTree(t, i) IN Hung(u) /\ InTree(t) \ {i} \subseteq InTree(u)
<1>1. PICK M : M = InTree(t)
  OBVIOUS
<1>2. /\ M \in SUBSET Node /\ Root \in M /\ i \in Node /\ i \in Item /\ Nil \notin Node /\ i # Nil
      /\ Whole(t) /\ OnwardAgree(t)
  BY <1>1, InTreeLeast, HungWhole, AgreeOnward, NodeAssumption DEF Item
<1>3. PICK u : u = DetachFromTree(t, i)
  OBVIOUS
<1>4. u \in Tree /\ LinksAgree(u) /\ ChainsEnd(u)
  BY <1>2, <1>3, DetachTyped, DetachLinks, DetachChains
<1>5. Whole(u) /\ \A x \in Item \ {i} : Linked(u, x) <=> Linked(t, x)
  BY <1>2, <1>3, DetachLinked
<1>6. \A x \in Node : /\ u.parent[x] = t.parent[x]
                      /\ u.firstChild[x] = IF x = t.parent[i] /\ t.firstChild[x] = i
                                           THEN t.next[i] ELSE t.firstChild[x]
                      /\ u.next[x] = IF x = i THEN Nil
                                     ELSE IF x = t.prev[i] THEN t.next[i] ELSE t.next[x]
  BY <1>2, <1>3, DetachFields
<1>7. PICK N : N = M \ {i}
  OBVIOUS
<1>8. ASSUME NEW x \in N \ {Root} PROVE Linked(u, x) /\ u.parent[x] \in N
  <2>1. x \in InTree(t) \ {Root} /\ x \in Item \ {i} /\ x \in Node
    BY <1>1, <1>2, <1>7 DEF Item
  <2>2. Linked(t, x) /\ t.parent[x] \in M
    BY <1>1, <1>2, <2>1, ReachedLinked, InTreeBack
  <2>3. t.parent[x] # i
    BY <1>2, <2>1, <2>2, HeapFinite, NoChildren
  <2>4. QED BY <1>5, <1>6, <1>7, <2>1, <2>2, <2>3
<1>9. ASSUME NEW S \in SUBSET (N \ {Root}), \A x \in S : u.parent[x] \in S PROVE S = {}
  <2>1. \A x \in S : t.parent[x] \in S
    BY <1>2, <1>6, <1>7, <1>9
  <2>2. S \in SUBSET InTree(t) /\ Root \notin S
    BY <1>1, <1>7
  <2>3. QED BY <1>2, <2>1, <2>2, NoParentLoop
<1>10. N \subseteq InTree(u)
  <2>1. N \in SUBSET Node
    BY <1>2, <1>7
  <2>2. QED BY <1>4, <1>5, <1>8, <1>9, <2>1, StaysInTree
<1>11. ASSUME NEW x \in Node \ InTree(u) PROVE u.firstChild[x] = Nil /\ u.next[x] = Nil
  <2>1. x = i \/ x \notin M
    BY <1>7, <1>10, <1>11
  <2>2. CASE x = i
    BY <1>2, <1>6, <2>2
  <2>3. CASE x \notin M
    <3>1. t.firstChild[x] = Nil /\ t.next[x] = Nil
      BY <1>1, <2>3 DEF Hung
    <3>2. x # t.prev[i]
      BY <1>1, <1>2, <2>3, InTreeBack
    <3>3. QED BY <1>2, <1>6, <3>1, <3>2
  <2>4. QED BY <2>1, <2>2, <2>3
<1>12. QED BY <1>1, <1>3, <1>7, <1>10, <1>11 DEF Hung

\* An item of the tree is linked elsewhere in it, not below itself.
LEMMA HungMoves ==
  ASSUME NEW t \in Tree, LinksAgree(t), ChainsEnd(t), Hung(t), NEW i \in InTree(t) \ {Root},
         NEW p \in InTree(t) \ {i}, NEW b \in ItemOrNil, b # i, b # Nil => Linked(t, b),
         \A S \in SUBSET (InTree(t) \ {Root}) :
           (\A x \in S : (IF x = i THEN p ELSE t.parent[x]) \in S) => S = {}
  PROVE  LET u == AddAsChild(DetachFromTree(t, i), p, i, b) IN
         Hung(u) /\ InTree(t) \subseteq InTree(u)
<1>1. PICK M : M = InTree(t)
  OBVIOUS
<1>2. /\ M \in SUBSET Node /\ Root \in M /\ i \in Node /\ i \in Item /\ Nil \notin Node /\ i # Nil
      /\ p \in Node /\ Whole(t) /\ OnwardAgree(t)
  BY <1>1, InTreeLeast, HungWhole, AgreeOnward, NodeAssumption DEF Item
<1>3. PICK d : d = DetachFromTree(t, i)
  OBVIOUS
<1>4. d \in Tree /\ LinksAgree(d) /\ ChainsEnd(d) /\ Detached(d, i)
  BY <1>2, <1>3, DetachTyped, DetachLinks, DetachChains, DetachDetaches
<1>5. Whole(d) /\ \A x \in Item \ {i} : Linked(d, x) <=> Linked(t, x)
  BY <1>2, <1>3, DetachLinked
<1>6. \A x \in Node : /\ d.parent[x] = t.parent[x]
                      /\ d.firstChild[x] = IF x = t.parent[i] /\ t.firstChild[x] = i
                                           THEN t.next[i] ELSE t.firstChild[x]
                      /\ d.next[x] = IF x = i THEN Nil
                                     ELSE IF x = t.prev[i] THEN t.next[i] ELSE t.next[x]
  BY <1>2, <1>3, DetachFields
<1>7. PICK a \in ItemOrNil : /\ AddAsChild(d, p, i, b) = InsertAfter(d, p, i, a)
                             /\ a # i /\ ~WrongAfter(d, p, a) /\ a \in {b, Nil}
  BY <1>2 DEF AddAsChild, WrongAfter, ItemOrNil
<1>8. PICK u : u = AddAsChild(d, p, i, b) /\ u = InsertAfter(d, p, i, a)
  BY <1>7
<1>9. u \in Tree /\ LinksAgree(u) /\ ChainsEnd(u)
  BY <1>2, <1>4, <1>7, <1>8, InsertTyped, InsertLinks, InsertChains
<1>10. b # Nil => Linked(d, b)
  BY <1>5 DEF ItemOrNil
<1>11. /\ Linked(u, i) /\ Whole(u)
       /\ \A x \in Item \ {i} : Linked(u, x) <=> Linked(d, x)
  <2>1. PICK v : v = AddAsChild(d, p, i, b)
    OBVIOUS
  <2>2. /\ Linked(v, i) /\ Whole(v)
        /\ \A x \in Item \ {i} : Linked(v, x) <=> Linked(d, x)
    BY <1>2, <1>4, <1>5, <1>10, <2>1, AddLinked
  <2>3. u = v
    BY <1>8, <2>1
  <2>4. QED BY <2>2, <2>3
<1>12. \A x \in Node : /\ u.parent[x] = IF x = i THEN p ELSE t.parent[x]
                       /\ u.firstChild[x] = IF a = Nil /\ x = p THEN i ELSE d.firstChild[x]
                       /\ u.next[x] = IF x = i
                                      THEN (IF a = Nil THEN d.firstChild[p] ELSE d.next[a])
                                      ELSE IF x = a THEN i ELSE d.next[x]
  BY <1>2, <1>4, <1>6, <1>8, InsertFields
<1>13. ASSUME NEW x \in M \ {Root} PROVE Linked(u, x) /\ u.parent[x] \in M
  <2>1. Linked(t, x) /\ t.parent[x] \in M
    BY <1>1, <1>2, ReachedLinked, InTreeBack
  <2>2. x \in Item /\ x \in Node
    BY <1>2 DEF Item
  <2>3. QED BY <1>1, <1>5, <1>11, <1>12, <2>1, <2>2
<1>14. ASSUME NEW S \in SUBSET (M \ {Root}), \A x \in S : u.parent[x] \in S PROVE S = {}
  <2>1. \A x \in S : (IF x = i THEN p ELSE t.parent[x]) \in S
    BY <1>2, <1>12, <1>14
  <2>2. QED BY <1>1, <2>1
<1>15. M \subseteq InTree(u)
  BY <1>2, <1>9, <1>11, <1>13, <1>14, StaysInTree
<1>16. a = Nil \/ a \in M
  BY <1>1, <1>7, HungLinked DEF ItemOrNil, Item
<1>17. ASSUME NEW x \in Node \ InTree(u) PROVE u.firstChild[x] = Nil /\ u.next[x] = Nil
  <2>1. x \in Node /\ x \notin M /\ x # i /\ x # p /\ x # a
    BY <1>1, <1>2, <1>15, <1>16, <1>17
  <2>2. t.firstChild[x] = Nil /\ t.next[x] = Nil
    BY <1>1, <2>1 DEF Hung
  <2>3. x # t.prev[i]
    BY <1>1, <1>2, <2>1, InTreeBack
  <2>4. d.firstChild[x] = Nil /\ d.next[x] = Nil
    BY <1>2, <1>6, <2>1, <2>2, <2>3
  <2>5. QED BY <1>12, <2>1, <2>4
<1>18. QED BY <1>1, <1>3, <1>8, <1>15, <1>17 DEF Hung

\* So it is next to its parent or its siblings.
LEMMA NearMoves ==
  ASSUME NEW t \in Tree, LinksAgree(t), NEW i \in InTree(t) \ {Root},
         NEW p \in InTree(t) \ {i},
         \/ p = t.parent[i]
         \/ t.parent[i] # Root /\ p = t.parent[t.parent[i]]
         \/ p # Root /\ t.parent[p] = t.parent[i],
         NEW S \in SUBSET (InTree(t) \ {Root}),
         \A x \in S : (IF x = i THEN p ELSE t.parent[x]) \in S
  PROVE  S = {}
<1>1. OnwardAgree(t) /\ t.parent[i] \in InTree(t)
  BY AgreeOnward, InTreeBack
<1>2. CASE i \notin S
  <2>1. \A x \in S : t.parent[x] \in S
    BY <1>2
  <2>2. QED BY <1>1, <2>1, NoParentLoop
<1>3. CASE i \in S
  <2>1. p \in S /\ p # Root
    BY <1>3
  <2>2. CASE p = t.parent[i]
    <3>1. \A x \in S : t.parent[x] \in S
      BY <2>2
    <3>2. QED BY <1>1, <3>1, NoParentLoop
  <2>3. CASE t.parent[i] # Root /\ p = t.parent[t.parent[i]]
    <3>1. PICK T : T = S \cup {t.parent[i]}
      OBVIOUS
    <3>2. T \in SUBSET InTree(t) /\ Root \notin T
      BY <1>1, <2>3, <3>1
    <3>3. \A x \in T : t.parent[x] \in T
      BY <2>1, <2>3, <3>1
    <3>4. QED BY <1>1, <3>1, <3>2, <3>3, NoParentLoop
  <2>4. CASE t.parent[p] = t.parent[i]
    <3>1. \A x \in S : t.parent[x] \in S
      BY <2>1, <2>4
    <3>2. QED BY <1>1, <3>1, NoParentLoop
  <2>5. QED BY <2>2, <2>3, <2>4
<1>4. QED BY <1>2, <1>3

---------------------------------------------------------------------------
\* Nothing leads on to the node.
Loose(t, i) == \A x \in Node : t.next[x] # i /\ t.firstChild[x] # i

\* Taking an item out of the tree leaves links that lead back as they lead on.
LEMMA OnwardDetach ==
  ASSUME NEW t \in Tree, OnwardAgree(t), ChainsEnd(t), NEW i \in InTree(t) \ {Root}
  PROVE  LET u == DetachFromTree(t, i) IN
         /\ u \in Tree /\ OnwardAgree(u) /\ ChainsEnd(u) /\ Loose(u, i)
         /\ u.next[i] = Nil /\ u.prev[i] = Nil /\ u.parent = t.parent
<1>1. PICK u : u = DetachFromTree(t, i)
  OBVIOUS
<1>2. /\ i \in Node /\ i \in Item /\ i # Nil /\ Nil \notin Node
      /\ \A x \in Node : /\ t.next[x] # Nil => t.next[x] \in Item /\ t.next[x] \in Node
                         /\ t.firstChild[x] # Nil => t.firstChild[x] \in Node
  BY InTreeLeast, NodeAssumption DEF Item, Tree, ItemOrNil
<1>3. /\ t.prev[i] = Nil => t.firstChild[t.parent[i]] = i
      /\ t.prev[i] # Nil => t.prev[i] \in Node /\ t.next[t.prev[i]] = i
      /\ t.parent[i] \in Node
  BY InTreeBack, InTreeLeast
<1>4. t.next[i] # i
  BY <1>2, {i} \in (SUBSET Node) \ {{}} DEF ChainsEnd
<1>5. t.prev[i] # i
  BY <1>2, <1>3, <1>4
<1>6. u \in Tree
  BY <1>1, <1>2, DetachTyped
<1>7. \A x \in Node :
        /\ u.parent[x] = t.parent[x]
        /\ u.firstChild[x] = IF x = t.parent[i] /\ t.firstChild[x] = i
                             THEN t.next[i] ELSE t.firstChild[x]
        /\ u.next[x] = IF x = i THEN Nil
                       ELSE IF x = t.prev[i] THEN t.next[i] ELSE t.next[x]
        /\ u.prev[x] = IF x = i THEN Nil
                       ELSE IF x = t.next[i] THEN t.prev[i] ELSE t.prev[x]
  BY <1>1, <1>2, DetachFields
<1>8. /\ \A x \in Node : t.next[x] # Nil => t.prev[t.next[x]] = x /\ t.parent[t.next[x]] = t.parent[x]
      /\ \A x \in Node : t.firstChild[x] # Nil =>
           t.parent[t.firstChild[x]] = x /\ t.prev[t.firstChild[x]] = Nil
  BY DEF OnwardAgree
<1>9. ASSUME NEW x \in Node, u.next[x] # Nil
      PROVE  u.prev[u.next[x]] = x /\ u.parent[u.next[x]] = u.parent[x]
  <2>1. x # i
    BY <1>7, <1>9
  <2>2. CASE x = t.prev[i]
    <3>1. u.next[x] = t.next[i] /\ t.next[x] = i /\ t.next[i] \in Node /\ t.next[i] # Nil
      BY <1>2, <1>3, <1>7, <1>9, <2>1, <2>2
    <3>2. t.parent[i] = t.parent[x] /\ t.parent[t.next[i]] = t.parent[i]
      BY <1>2, <1>8, <3>1
    <3>3. QED BY <1>4, <1>7, <2>2, <3>1, <3>2
  <2>3. CASE x # t.prev[i]
    <3>1. u.next[x] = t.next[x] /\ t.next[x] \in Node /\ t.next[x] # Nil
      BY <1>2, <1>7, <1>9, <2>1, <2>3
    <3>2. t.prev[t.next[x]] = x /\ t.parent[t.next[x]] = t.parent[x]
      BY <1>8, <3>1
    <3>3. t.next[x] # i
      BY <2>3, <3>2
    <3>4. t.next[x] # t.next[i]
      BY <1>2, <1>8, <2>1, <3>1, <3>2
    <3>5. QED BY <1>7, <3>1, <3>2, <3>3, <3>4
  <2>4. QED BY <2>2, <2>3
<1>10. ASSUME NEW x \in Node, u.firstChild[x] # Nil
       PROVE  u.parent[u.firstChild[x]] = x /\ u.prev[u.firstChild[x]] = Nil
  <2>1. CASE x = t.parent[i] /\ t.firstChild[x] = i
    <3>1. t.prev[i] = Nil /\ t.next[i] # Nil /\ u.firstChild[x] = t.next[i] /\ t.next[i] \in Node
      BY <1>2, <1>7, <1>8, <1>10, <2>1
    <3>2. t.parent[t.next[i]] = x
      BY <1>2, <1>8, <2>1, <3>1
    <3>3. QED BY <1>4, <1>7, <3>1, <3>2
  <2>2. CASE ~(x = t.parent[i] /\ t.firstChild[x] = i)
    <3>1. u.firstChild[x] = t.firstChild[x] /\ t.firstChild[x] \in Node /\ t.firstChild[x] # Nil
      BY <1>2, <1>7, <1>10, <2>2
    <3>2. t.parent[t.firstChild[x]] = x /\ t.prev[t.firstChild[x]] = Nil
      BY <1>8, <3>1
    <3>3. t.firstChild[x] # i
      BY <2>2, <3>2
    <3>4. t.firstChild[x] # t.next[i]
      BY <1>2, <1>8, <3>1, <3>2
    <3>5. QED BY <1>7, <3>1, <3>2, <3>3, <3>4
  <2>3. QED BY <2>1, <2>2
<1>11. OnwardAgree(u)
  BY <1>9, <1>10 DEF OnwardAgree
<1>12. Loose(u, i)
  <2>1. ASSUME NEW x \in Node, u.next[x] = i PROVE FALSE
    <3>1. t.next[x] = i /\ x # t.prev[i]
      BY <1>2, <1>4, <1>7, <2>1
    <3>2. QED BY <1>2, <1>8, <3>1
  <2>2. ASSUME NEW x \in Node, u.firstChild[x] = i PROVE FALSE
    <3>1. t.firstChild[x] = i /\ x # t.parent[i]
      BY <1>2, <1>4, <1>7, <2>2
    <3>2. QED BY <1>2, <1>8, <3>1
  <2>3. QED BY <2>1, <2>2 DEF Loose
<1>13. ASSUME NEW S \in SUBSET Node, S # {} PROVE \E x \in S : u.next[x] \notin S
  <2>1. CASE i \in S
    BY <1>2, <1>7, <2>1
  <2>2. CASE i \notin S
    <3>1. PICK y \in S \cup {i} : t.next[y] \notin S \cup {i}
      BY <1>2, S \cup {i} \in (SUBSET Node) \ {{}} DEF ChainsEnd
    <3>2. PICK z \in S : t.next[z] \notin S
      BY <1>13 DEF ChainsEnd
    <3>3. u.next[z] \in {t.next[z], t.next[i]}
      BY <1>7, <2>2, <3>2
    <3>4. CASE y = i
      BY <3>1, <3>2, <3>3, <3>4
    <3>5. CASE y # i
      <4>1. y \in S /\ y \in Node /\ t.next[y] # i
        BY <3>1, <3>5
      <4>2. y # t.prev[i]
        BY <1>2, <1>3, <4>1
      <4>3. QED BY <1>7, <3>1, <3>5, <4>1, <4>2
    <3>6. QED BY <3>4, <3>5
  <2>3. QED BY <2>1, <2>2
<1>14. ChainsEnd(u)
  BY <1>13 DEF ChainsEnd
<1>15. u.next[i] = Nil /\ u.prev[i] = Nil /\ u.parent = t.parent
  <2>1. u.parent = t.parent
    BY <1>1 DEF DetachFromTree
  <2>2. QED BY <1>2, <1>7, <2>1
<1>16. QED BY <1>1, <1>6, <1>11, <1>12, <1>14, <1>15

\* Linking one that nothing leads on to does too, even after itself.
LEMMA OnwardInsert ==
  ASSUME NEW t \in Tree, OnwardAgree(t), ChainsEnd(t), NEW p \in Node, NEW i \in Item, Loose(t, i),
         t.next[i] = Nil, t.prev[i] = Nil, NEW a \in ItemOrNil, ~WrongAfter(t, p, a)
  PROVE  LET u == InsertAfter(t, p, i, a) IN u \in Tree /\ OnwardAgree(u) /\ ChainsEnd(u)
<1>1. PICK u, f : u = InsertAfter(t, p, i, a) /\ f = IF a = Nil THEN t.firstChild[p] ELSE t.next[a]
  OBVIOUS
<1>2. /\ i \in Node /\ i # Nil /\ Nil \notin Node
      /\ \A x \in Node : /\ t.next[x] # Nil => t.next[x] \in Node
                         /\ t.firstChild[x] # Nil => t.firstChild[x] \in Node
      /\ a # Nil => a \in Node /\ t.parent[a] = p
  BY NodeAssumption DEF Item, Tree, ItemOrNil, WrongAfter
<1>3. u \in Tree
  BY <1>1, InsertTyped
<1>4. \A x \in Node :
        /\ u.parent[x] = IF x = i THEN p ELSE t.parent[x]
        /\ u.firstChild[x] = IF a = Nil /\ x = p THEN i ELSE t.firstChild[x]
        /\ u.next[x] = IF x = i THEN f ELSE IF x = a THEN i ELSE t.next[x]
        /\ u.prev[x] = IF x = i /\ a # Nil THEN a ELSE IF x = f THEN i ELSE t.prev[x]
  BY <1>1, InsertFields
<1>5. /\ \A x \in Node : t.next[x] # Nil => t.prev[t.next[x]] = x /\ t.parent[t.next[x]] = t.parent[x]
      /\ \A x \in Node : t.firstChild[x] # Nil =>
           t.parent[t.firstChild[x]] = x /\ t.prev[t.firstChild[x]] = Nil
  BY DEF OnwardAgree
<1>6. \A x \in Node : t.next[x] # i /\ t.firstChild[x] # i
  BY DEF Loose
<1>7. f # i /\ (f # Nil => f \in Node /\ t.parent[f] = p /\ t.prev[f] = a)
  BY <1>1, <1>2, <1>5, <1>6
<1>8. a = i => f = Nil
  BY <1>1, <1>2
<1>9. ASSUME NEW x \in Node, u.next[x] # Nil
      PROVE  u.prev[u.next[x]] = x /\ u.parent[u.next[x]] = u.parent[x]
  <2>1. CASE x = i
    BY <1>2, <1>4, <1>7, <1>9, <2>1
  <2>2. CASE x # i /\ x = a
    BY <1>2, <1>4, <1>7, <2>2
  <2>3. CASE x # i /\ x # a
    <3>1. u.next[x] = t.next[x] /\ t.next[x] \in Node /\ t.next[x] # Nil
      BY <1>2, <1>4, <1>9, <2>3
    <3>2. t.prev[t.next[x]] = x /\ t.parent[t.next[x]] = t.parent[x] /\ t.next[x] # i
      BY <1>5, <1>6, <3>1
    <3>3. t.next[x] # f
      BY <1>2, <1>7, <2>3, <3>1, <3>2
    <3>4. QED BY <1>4, <2>3, <3>1, <3>2, <3>3
  <2>4. QED BY <2>1, <2>2, <2>3
<1>10. ASSUME NEW x \in Node, u.firstChild[x] # Nil
       PROVE  u.parent[u.firstChild[x]] = x /\ u.prev[u.firstChild[x]] = Nil
  <2>1. CASE a = Nil /\ x = p
    BY <1>2, <1>4, <1>7, <2>1
  <2>2. CASE ~(a = Nil /\ x = p)
    <3>1. u.firstChild[x] = t.firstChild[x] /\ t.firstChild[x] \in Node /\ t.firstChild[x] # Nil
      BY <1>2, <1>4, <1>10, <2>2
    <3>2. t.parent[t.firstChild[x]] = x /\ t.prev[t.firstChild[x]] = Nil /\ t.firstChild[x] # i
      BY <1>5, <1>6, <3>1
    <3>3. t.firstChild[x] # f
      BY <1>2, <1>7, <2>2, <3>1, <3>2
    <3>4. QED BY <1>4, <3>1, <3>2, <3>3
  <2>3. QED BY <2>1, <2>2
<1>11. OnwardAgree(u)
  BY <1>9, <1>10 DEF OnwardAgree
<1>12. ASSUME NEW S \in SUBSET Node, S # {} PROVE \E x \in S : u.next[x] \notin S
  <2>1. CASE i \notin S
    <3>1. PICK x \in S : t.next[x] \notin S
      BY <1>12 DEF ChainsEnd
    <3>2. QED BY <1>4, <2>1, <3>1
  <2>2. CASE i \in S /\ f \notin S
    BY <1>2, <1>4, <2>2
  <2>3. CASE i \in S /\ f \in S
    <3>1. f \in S \ {i} /\ f # Nil
      BY <1>2, <1>7, <2>3
    <3>2. PICK x \in S \ {i} : t.next[x] \notin S \ {i}
      BY <3>1, S \ {i} \in (SUBSET Node) \ {{}} DEF ChainsEnd
    <3>3. t.next[x] \notin S /\ x # i /\ x \in Node
      BY <1>6, <3>2
    <3>4. CASE x # a
      BY <1>4, <3>2, <3>3, <3>4
    <3>5. CASE x = a
      BY <1>1, <1>2, <2>3, <3>3, <3>5
    <3>6. QED BY <3>4, <3>5
  <2>4. QED BY <2>1, <2>2, <2>3
<1>13. ChainsEnd(u)
  BY <1>12 DEF ChainsEnd
<1>14. QED BY <1>1, <1>3, <1>11, <1>13

---------------------------------------------------------------------------
(* Two copies of a tree.                                                   *)

\* The nodes D of t and their counterparts in u are linked alike.
Pair(at, D, t, u) ==
  /\ D \in SUBSET Node /\ Root \in D
  /\ at \in [D \cup {Nil} -> NodeOrNil] /\ at[Nil] = Nil /\ at[Root] = Root
  /\ \A x, y \in D \cup {Nil} : at[x] = at[y] => x = y
  /\ \A x \in D : /\ t.firstChild[x] \in D \cup {Nil} /\ u.firstChild[at[x]] = at[t.firstChild[x]]
                  /\ t.next[x] \in D \cup {Nil} /\ u.next[at[x]] = at[t.next[x]]
  /\ \A x \in D \ {Root} :
       /\ t.prev[x] \in D \cup {Nil} /\ u.prev[at[x]] = at[t.prev[x]]
       /\ t.parent[x] \in D \cup {Nil} /\ u.parent[at[x]] = at[t.parent[x]]

\* Counterparts of nodes are nodes, of items items.
LEMMA PairNodes ==
  ASSUME NEW at, NEW D, NEW t, NEW u, Pair(at, D, t, u)
  PROVE  /\ \A x \in D : at[x] \in Node /\ x \in Node /\ x # Nil
         /\ \A x \in D \ {Root} : at[x] \in Item /\ x \in Item
         /\ \A x \in D : at[x] = Root => x = Root
         /\ D \in SUBSET Node /\ Root \in D /\ at[Root] = Root /\ at[Nil] = Nil
         /\ \A x, y \in D \cup {Nil} : at[x] = at[y] => x = y
BY NodeAssumption DEF Pair, Item, NodeOrNil

\* Taking an item and its counterpart out.
LEMMA PairDetach ==
  ASSUME NEW t \in Tree, NEW u \in Tree, NEW at, NEW D, Pair(at, D, t, u), NEW i \in D \ {Root}
  PROVE  Pair(at, D, DetachFromTree(t, i), DetachFromTree(u, at[i]))
<1>1. /\ \A x \in D : at[x] \in Node /\ x \in Node /\ x # Nil
      /\ i \in Item /\ at[i] \in Item /\ i \in D
  BY PairNodes
<1>2. PICK j \in Item : j = at[i]
  BY <1>1
<1>3. PICK v, w : v = DetachFromTree(t, i) /\ w = DetachFromTree(u, j)
  OBVIOUS
<1>4. /\ \A x, y \in D \cup {Nil} : at[x] = at[y] => x = y
      /\ at[Nil] = Nil
      /\ t.parent[i] \in D \cup {Nil} /\ u.parent[j] = at[t.parent[i]]
      /\ t.next[i] \in D \cup {Nil} /\ u.next[j] = at[t.next[i]]
      /\ t.prev[i] \in D \cup {Nil} /\ u.prev[j] = at[t.prev[i]]
  BY <1>2 DEF Pair
<1>5. ASSUME NEW x \in D
      PROVE  /\ v.firstChild[x] \in D \cup {Nil} /\ w.firstChild[at[x]] = at[v.firstChild[x]]
             /\ v.next[x] \in D \cup {Nil} /\ w.next[at[x]] = at[v.next[x]]
             /\ x # Root => /\ v.prev[x] \in D \cup {Nil} /\ w.prev[at[x]] = at[v.prev[x]]
                            /\ v.parent[x] \in D \cup {Nil} /\ w.parent[at[x]] = at[v.parent[x]]
  <2>1. PICK y \in Node : y = at[x]
    BY <1>1
  <2>2. /\ v.parent[x] = t.parent[x] /\ w.parent[y] = u.parent[y]
        /\ v.firstChild[x] = IF x = t.parent[i] /\ t.firstChild[x] = i
                             THEN t.next[i] ELSE t.firstChild[x]
        /\ v.next[x] = IF x = i THEN Nil ELSE IF x = t.prev[i] THEN t.next[i] ELSE t.next[x]
        /\ v.prev[x] = IF x = i THEN Nil ELSE IF x = t.next[i] THEN t.prev[i] ELSE t.prev[x]
    BY <1>1, <1>3, DetachFields
  <2>3. /\ w.firstChild[y] = IF y = u.parent[j] /\ u.firstChild[y] = j
                             THEN u.next[j] ELSE u.firstChild[y]
        /\ w.next[y] = IF y = j THEN Nil ELSE IF y = u.prev[j] THEN u.next[j] ELSE u.next[y]
        /\ w.prev[y] = IF y = j THEN Nil ELSE IF y = u.next[j] THEN u.prev[j] ELSE u.prev[y]
        /\ w.parent[y] = u.parent[y]
    BY <1>3, DetachFields
  <2>4. /\ t.firstChild[x] \in D \cup {Nil} /\ u.firstChild[y] = at[t.firstChild[x]]
        /\ t.next[x] \in D \cup {Nil} /\ u.next[y] = at[t.next[x]]
        /\ x # Root => /\ t.prev[x] \in D \cup {Nil} /\ u.prev[y] = at[t.prev[x]]
                       /\ t.parent[x] \in D \cup {Nil} /\ u.parent[y] = at[t.parent[x]]
    BY <2>1 DEF Pair
  <2>5. /\ x = i <=> y = j
        /\ x = t.parent[i] <=> y = u.parent[j]
        /\ x = t.prev[i] <=> y = u.prev[j]
        /\ x = t.next[i] <=> y = u.next[j]
        /\ t.firstChild[x] = i <=> u.firstChild[y] = j
    BY <1>1, <1>2, <1>4, <2>1, <2>4
  <2>6. v.firstChild[x] \in D \cup {Nil} /\ w.firstChild[y] = at[v.firstChild[x]]
    BY <1>4, <2>2, <2>3, <2>4, <2>5
  <2>7. v.next[x] \in D \cup {Nil} /\ w.next[y] = at[v.next[x]]
    BY <1>4, <2>2, <2>3, <2>4, <2>5
  <2>8. x # Root => v.prev[x] \in D \cup {Nil} /\ w.prev[y] = at[v.prev[x]]
    BY <1>4, <2>2, <2>3, <2>4, <2>5
  <2>9. QED BY <2>1, <2>2, <2>3, <2>4, <2>6, <2>7, <2>8
<1>6. Pair(at, D, v, w)
  <2>1. /\ D \in SUBSET Node /\ Root \in D
        /\ at \in [D \cup {Nil} -> NodeOrNil] /\ at[Nil] = Nil /\ at[Root] = Root
        /\ \A x, y \in D \cup {Nil} : at[x] = at[y] => x = y
    BY DEF Pair
  <2>2. QED BY <1>5, <2>1 DEF Pair
<1>7. QED BY <1>2, <1>3, <1>6

\* Linking an item and its counterpart alike.
LEMMA PairInsert ==
  ASSUME NEW t \in Tree, NEW u \in Tree, NEW at, NEW D, Pair(at, D, t, u), NEW i \in D \ {Root},
         NEW p \in D, NEW a \in (D \ {Root}) \cup {Nil}
  PROVE  Pair(at, D, InsertAfter(t, p, i, a), InsertAfter(u, at[p], at[i], at[a]))
<1>1. /\ \A x \in D : at[x] \in Node /\ x \in Node /\ x # Nil
      /\ i \in Item /\ at[i] \in Item /\ i \in D /\ p \in Node
      /\ a \in ItemOrNil /\ at[a] \in ItemOrNil
      /\ at[Nil] = Nil /\ a \in D \cup {Nil}
      /\ \A x, y \in D \cup {Nil} : at[x] = at[y] => x = y
  BY PairNodes DEF ItemOrNil
<1>2. PICK j \in Item, q \in Node, b \in ItemOrNil : j = at[i] /\ q = at[p] /\ b = at[a]
  BY <1>1
<1>3. PICK v, w : v = InsertAfter(t, p, i, a) /\ w = InsertAfter(u, q, j, b)
  OBVIOUS
<1>4. PICK f, g : /\ f = (IF a = Nil THEN t.firstChild[p] ELSE t.next[a])
                  /\ g = (IF b = Nil THEN u.firstChild[q] ELSE u.next[b])
  OBVIOUS
<1>5. (a = Nil <=> b = Nil) /\ f \in D \cup {Nil} /\ g = at[f]
  <2>1. a = Nil <=> b = Nil
    BY <1>1, <1>2
  <2>2. CASE a = Nil
    BY <1>2, <1>4, <2>1, <2>2 DEF Pair
  <2>3. CASE a # Nil
    BY <1>1, <1>2, <1>4, <2>1, <2>3 DEF Pair
  <2>4. QED BY <2>1, <2>2, <2>3
<1>6. ASSUME NEW x \in D
      PROVE  /\ v.firstChild[x] \in D \cup {Nil} /\ w.firstChild[at[x]] = at[v.firstChild[x]]
             /\ v.next[x] \in D \cup {Nil} /\ w.next[at[x]] = at[v.next[x]]
             /\ x # Root => /\ v.prev[x] \in D \cup {Nil} /\ w.prev[at[x]] = at[v.prev[x]]
                            /\ v.parent[x] \in D \cup {Nil} /\ w.parent[at[x]] = at[v.parent[x]]
  <2>1. PICK y \in Node : y = at[x]
    BY <1>1
  <2>2. /\ v.parent[x] = IF x = i THEN p ELSE t.parent[x]
        /\ v.firstChild[x] = IF a = Nil /\ x = p THEN i ELSE t.firstChild[x]
        /\ v.next[x] = IF x = i THEN f ELSE IF x = a THEN i ELSE t.next[x]
        /\ v.prev[x] = IF x = i /\ a # Nil THEN a ELSE IF x = f THEN i ELSE t.prev[x]
    BY <1>1, <1>3, <1>4, InsertFields
  <2>3. /\ w.parent[y] = IF y = j THEN q ELSE u.parent[y]
        /\ w.firstChild[y] = IF b = Nil /\ y = q THEN j ELSE u.firstChild[y]
        /\ w.next[y] = IF y = j THEN g ELSE IF y = b THEN j ELSE u.next[y]
        /\ w.prev[y] = IF y = j /\ b # Nil THEN b ELSE IF y = g THEN j ELSE u.prev[y]
    BY <1>3, <1>4, InsertFields
  <2>4. /\ t.firstChild[x] \in D \cup {Nil} /\ u.firstChild[y] = at[t.firstChild[x]]
        /\ t.next[x] \in D \cup {Nil} /\ u.next[y] = at[t.next[x]]
        /\ x # Root => /\ t.prev[x] \in D \cup {Nil} /\ u.prev[y] = at[t.prev[x]]
                       /\ t.parent[x] \in D \cup {Nil} /\ u.parent[y] = at[t.parent[x]]
    BY <2>1 DEF Pair
  <2>5. (x = i <=> y = j) /\ (x = p <=> y = q) /\ (x = a <=> y = b) /\ (x = f <=> y = g)
    BY <1>1, <1>2, <1>5, <2>1
  <2>6. v.firstChild[x] \in D \cup {Nil} /\ w.firstChild[y] = at[v.firstChild[x]]
    BY <1>1, <1>2, <1>5, <2>2, <2>3, <2>4, <2>5
  <2>7. v.next[x] \in D \cup {Nil} /\ w.next[y] = at[v.next[x]]
    BY <1>1, <1>2, <1>5, <2>2, <2>3, <2>4, <2>5
  <2>8. x # Root => v.prev[x] \in D \cup {Nil} /\ w.prev[y] = at[v.prev[x]]
    BY <1>1, <1>2, <1>5, <2>2, <2>3, <2>4, <2>5
  <2>9. x # Root => v.parent[x] \in D \cup {Nil} /\ w.parent[y] = at[v.parent[x]]
    BY <1>1, <1>2, <2>2, <2>3, <2>4, <2>5
  <2>10. QED BY <2>1, <2>6, <2>7, <2>8, <2>9
<1>7. Pair(at, D, v, w)
  <2>1. /\ D \in SUBSET Node /\ Root \in D
        /\ at \in [D \cup {Nil} -> NodeOrNil] /\ at[Nil] = Nil /\ at[Root] = Root
        /\ \A x, y \in D \cup {Nil} : at[x] = at[y] => x = y
    BY DEF Pair
  <2>2. QED BY <1>6, <2>1 DEF Pair
<1>8. QED BY <1>2, <1>3, <1>7

\* Two nodes more, not linked yet.
LEMMA PairGrows ==
  ASSUME NEW t \in Tree, NEW u \in Tree, NEW at, NEW D, Pair(at, D, t, u),
         NEW i \in Item, i \notin D, Unlinked(t, i), NEW j \in Item, Unlinked(u, j),
         \A x \in D : at[x] # j
  PROVE  \E bt : /\ Pair(bt, D \cup {i}, t, u) /\ bt[i] = j
                 /\ \A x \in D \cup {Nil} : bt[x] = at[x]
<1>1. /\ \A x \in D : at[x] \in Node /\ x \in Node /\ x # Nil
      /\ i # Nil /\ j # Nil /\ i # Root /\ i \in Node /\ j \in NodeOrNil
  BY PairNodes, NodeAssumption DEF Item, NodeOrNil
<1>2. PICK bt : bt = [x \in D \cup {i} \cup {Nil} |-> IF x = i THEN j ELSE at[x]]
  OBVIOUS
<1>3. bt[i] = j /\ \A x \in D \cup {Nil} : bt[x] = at[x]
  BY <1>1, <1>2
<1>4. bt \in [(D \cup {i}) \cup {Nil} -> NodeOrNil]
  BY <1>1, <1>2 DEF Pair
<1>5. bt[Nil] = Nil /\ bt[Root] = Root /\ D \cup {i} \in SUBSET Node /\ Root \in D
  BY <1>1, <1>3 DEF Pair
<1>6. \A x, y \in (D \cup {i}) \cup {Nil} : bt[x] = bt[y] => x = y
  <2>1. \A x, y \in D \cup {Nil} : at[x] = at[y] => x = y
    BY DEF Pair
  <2>2. \A x \in D \cup {Nil} : bt[x] # j
    BY <1>1, <1>3, <1>5
  <2>3. QED BY <1>3, <2>1, <2>2
<1>7. ASSUME NEW x \in D \cup {i}
      PROVE  /\ t.firstChild[x] \in D \cup {i} \cup {Nil} /\ u.firstChild[bt[x]] = bt[t.firstChild[x]]
             /\ t.next[x] \in D \cup {i} \cup {Nil} /\ u.next[bt[x]] = bt[t.next[x]]
             /\ x # Root => /\ t.prev[x] \in D \cup {i} \cup {Nil} /\ u.prev[bt[x]] = bt[t.prev[x]]
                            /\ t.parent[x] \in D \cup {i} \cup {Nil} /\ u.parent[bt[x]] = bt[t.parent[x]]
  <2>1. CASE x = i
    BY <1>3, <1>5, <2>1 DEF Unlinked
  <2>2. CASE x # i
    BY <1>3, <2>2 DEF Pair
  <2>3. QED BY <2>1, <2>2
<1>8. Pair(bt, D \cup {i}, t, u)
  BY <1>4, <1>5, <1>6, <1>7 DEF Pair
<1>9. QED BY <1>3, <1>8

\* The nodes of one tree are the counterparts of those of the other.
LEMMA PairTrees ==
  ASSUME NEW t \in Tree, NEW u \in Tree, NEW at, NEW D, Pair(at, D, t, u)
  PROVE  /\ InTree(t) \subseteq D
         /\ \A x \in D : x \in InTree(t) <=> at[x] \in InTree(u)
         /\ \A y \in InTree(u) : \E x \in InTree(t) : y = at[x]
<1>1. /\ \A x \in D : at[x] \in Node /\ x \in Node /\ x # Nil
      /\ \A x \in D : at[x] = Root => x = Root
      /\ at[Root] = Root /\ Root \in D /\ at[Nil] = Nil
      /\ \A x, y \in D \cup {Nil} : at[x] = at[y] => x = y
      /\ D \in SUBSET Node
  BY PairNodes
<1>2. /\ InTree(t) \subseteq Node /\ Root \in InTree(t) /\ ClosedBelow(t, InTree(t))
      /\ \A S \in SUBSET Node : ClosedBelow(t, S) => InTree(t) \subseteq S
  BY InTreeLeast
<1>3. /\ InTree(u) \subseteq Node /\ Root \in InTree(u) /\ ClosedBelow(u, InTree(u))
      /\ \A S \in SUBSET Node : ClosedBelow(u, S) => InTree(u) \subseteq S
  BY InTreeLeast
<1>4. /\ \A x \in D : /\ t.firstChild[x] \in D \cup {Nil} /\ u.firstChild[at[x]] = at[t.firstChild[x]]
                      /\ t.next[x] \in D \cup {Nil} /\ u.next[at[x]] = at[t.next[x]]
  BY DEF Pair
<1>5. PICK N, M : N = InTree(t) /\ M = InTree(u)
  OBVIOUS
<1>6. N \subseteq {x \in D : at[x] \in M}
  <2>1. PICK S \in SUBSET Node : S = {x \in D : at[x] \in M}
    BY <1>1
  <2>2. Root \in S
    BY <1>1, <1>3, <1>5, <2>1
  <2>3. \A x \in S : t.firstChild[x] # Nil /\ (x = Root \/ x # Root) => t.firstChild[x] \in S
    <3>1. SUFFICES ASSUME NEW x \in S, t.firstChild[x] # Nil PROVE t.firstChild[x] \in S
      OBVIOUS
    <3>2. PICK c \in D : c = t.firstChild[x] /\ u.firstChild[at[x]] = at[c] /\ at[c] # Nil
      BY <1>1, <1>4, <2>1, <3>1
    <3>3. at[c] \in M
      BY <1>1, <1>3, <1>5, <2>1, <3>2 DEF ClosedBelow
    <3>4. QED BY <2>1, <3>2, <3>3
  <2>4. \A x \in S \ {Root} : t.next[x] # Nil => t.next[x] \in S
    <3>1. SUFFICES ASSUME NEW x \in S \ {Root}, t.next[x] # Nil PROVE t.next[x] \in S
      OBVIOUS
    <3>2. PICK c \in D : c = t.next[x] /\ u.next[at[x]] = at[c] /\ at[c] # Nil
      BY <1>1, <1>4, <2>1, <3>1
    <3>3. at[c] \in M
      BY <1>1, <1>3, <1>5, <2>1, <3>1, <3>2 DEF ClosedBelow
    <3>4. QED BY <2>1, <3>2, <3>3
  <2>5. ClosedBelow(t, S)
    BY <2>2, <2>3, <2>4 DEF ClosedBelow
  <2>6. QED BY <1>2, <1>5, <2>1, <2>5
<1>7. ASSUME NEW y \in M PROVE \E x \in N : y = at[x]
  <2>1. PICK S \in SUBSET Node : S = {z \in Node : \E x \in N : z = at[x]}
    OBVIOUS
  <2>2. Root \in S
    BY <1>1, <1>2, <1>5, <2>1
  <2>3. \A z \in S : u.firstChild[z] # Nil => u.firstChild[z] \in S
    <3>1. SUFFICES ASSUME NEW z \in S, u.firstChild[z] # Nil PROVE u.firstChild[z] \in S
      OBVIOUS
    <3>2. PICK x \in N : z = at[x] /\ x \in D
      BY <1>6, <2>1
    <3>3. PICK c \in D : c = t.firstChild[x] /\ u.firstChild[z] = at[c] /\ at[c] \in Node
      BY <1>1, <1>4, <3>1, <3>2
    <3>4. c \in N
      BY <1>1, <1>2, <1>5, <3>2, <3>3 DEF ClosedBelow
    <3>5. QED BY <2>1, <3>3, <3>4
  <2>4. \A z \in S \ {Root} : u.next[z] # Nil => u.next[z] \in S
    <3>1. SUFFICES ASSUME NEW z \in S \ {Root}, u.next[z] # Nil PROVE u.next[z] \in S
      OBVIOUS
    <3>2. PICK x \in N : z = at[x] /\ x \in D /\ x # Root
      BY <1>1, <1>6, <2>1
    <3>3. PICK c \in D : c = t.next[x] /\ u.next[z] = at[c] /\ at[c] \in Node
      BY <1>1, <1>4, <3>1, <3>2
    <3>4. c \in N
      BY <1>1, <1>2, <1>5, <3>2, <3>3 DEF ClosedBelow
    <3>5. QED BY <2>1, <3>3, <3>4
  <2>5. ClosedBelow(u, S)
    BY <2>2, <2>3, <2>4 DEF ClosedBelow
  <2>6. QED BY <1>3, <1>5, <2>1, <2>5
<1>8. \A x \in D : x \in N <=> at[x] \in M
  <2>1. SUFFICES ASSUME NEW x \in D, at[x] \in M PROVE x \in N
    BY <1>6
  <2>2. PICK z \in N : at[x] = at[z] /\ z \in D
    BY <1>6, <1>7, <2>1
  <2>3. QED BY <1>1, <2>2
<1>9. QED BY <1>5, <1>6, <1>7, <1>8

\* What is read of them is the same, and nothing hangs outside the other.
LEMMA PairReads ==
  ASSUME NEW t \in Tree, OnwardAgree(t), ChainsEnd(t), Hung(t),
         NEW u \in Tree, OnwardAgree(u), ChainsEnd(u), NEW at, NEW D, Pair(at, D, t, u),
         \A y \in Node : (\A x \in D : at[x] # y) => Unlinked(u, y)
  PROVE  /\ Hung(u)
         /\ \A ids, texts, jds, uexts :
              (\A x \in InTree(t) \ {Root} : jds[at[x]] = ids[x] /\ uexts[at[x]] = texts[x])
              => Outline(u, jds, uexts) = Outline(t, ids, texts)
<1>1. PICK N, M : N = InTree(t) /\ M = InTree(u)
  OBVIOUS
<1>2. /\ N \subseteq D /\ \A x \in D : x \in N <=> at[x] \in M
  BY <1>1, PairTrees
<1>3. /\ \A x \in D : at[x] \in Node /\ x \in Node /\ x # Nil
      /\ D \in SUBSET Node /\ Root \in D /\ at[Root] = Root /\ at[Nil] = Nil
  BY PairNodes
<1>4. \A x \in D : /\ t.firstChild[x] \in D \cup {Nil} /\ u.firstChild[at[x]] = at[t.firstChild[x]]
                   /\ t.next[x] \in D \cup {Nil} /\ u.next[at[x]] = at[t.next[x]]
  BY DEF Pair
<1>5. Hung(u)
  <2>1. SUFFICES ASSUME NEW y \in Node \ M PROVE u.firstChild[y] = Nil /\ u.next[y] = Nil
    BY <1>1 DEF Hung
  <2>2. CASE \A x \in D : at[x] # y
    BY <2>2 DEF Unlinked
  <2>3. CASE \E x \in D : at[x] = y
    <3>1. PICK x \in D : at[x] = y
      BY <2>3
    <3>2. x \in Node \ N
      BY <1>2, <1>3, <3>1
    <3>3. t.firstChild[x] = Nil /\ t.next[x] = Nil
      BY <1>1, <3>2 DEF Hung
    <3>4. QED BY <1>3, <1>4, <3>1, <3>3
  <2>4. QED BY <2>2, <2>3
<1>6. Grounded(t) /\ Grounded(u)
  BY <1>5, HungGrounded
<1>7. N \in SUBSET Node /\ Root \in N /\ ClosedBelow(t, N)
  BY <1>1, InTreeLeast
<1>8. t.next[Root] = Nil
  <2>1. t.next[Root] # Nil => t.next[Root] \in Node /\ t.prev[t.next[Root]] = Root
    BY NodeAssumption DEF OnwardAgree, Tree, ItemOrNil, Item
  <2>2. \A x \in Node : t.prev[x] # Root
    BY NodeAssumption DEF Tree, ItemOrNil, Item
  <2>3. QED BY <2>1, <2>2
<1>9. \A x \in N : /\ t.firstChild[x] # Nil => t.firstChild[x] \in N
                   /\ t.next[x] # Nil => t.next[x] \in N
  BY <1>7, <1>8 DEF ClosedBelow
<1>10. ASSUME NEW ids, NEW texts, NEW jds, NEW uexts,
              \A x \in N \ {Root} : jds[at[x]] = ids[x] /\ uexts[at[x]] = texts[x]
       PROVE  Outline(u, jds, uexts) = Outline(t, ids, texts)
  <2>1. \A x \in N :
          /\ at[x] \in Node
          /\ t.firstChild[x] = Nil => u.firstChild[at[x]] = Nil
          /\ t.firstChild[x] # Nil => /\ t.firstChild[x] \in N
                                      /\ u.firstChild[at[x]] = at[t.firstChild[x]]
          /\ t.next[x] = Nil => u.next[at[x]] = Nil
          /\ t.next[x] # Nil => /\ t.next[x] \in N
                                /\ u.next[at[x]] = at[t.next[x]]
          /\ x # Root => jds[at[x]] = ids[x] /\ uexts[at[x]] = texts[x]
    BY <1>2, <1>3, <1>4, <1>9, <1>10
  <2>2. QED BY <1>3, <1>6, <1>7, <2>1, SameOutline
<1>11. QED BY <1>1, <1>5, <1>10

\* What is read at a node is something.
LEMMA NotNothing ==
  ASSUME NEW a, NEW b, NEW c, NEW d
  PROVE  <<a, b, c, d>> # <<>>
<1>1. Len(<<a, b, c, d>>) = 4
  OBVIOUS
<1>2. Len(<<>>) = 0
  OBVIOUS
<1>3. QED BY <1>1, <1>2

\* Where two trees read the same, each item of one has a counterpart in the other.
LEMMA OutlineMatched ==
  ASSUME NEW t \in Tree, NEW u \in Tree, NEW ids, NEW texts, NEW jds, NEW uexts,
         NEW f, NEW g, Reads(t, ids, texts, f), Reads(u, jds, uexts, g),
         f[t.firstChild[Root]] = g[u.firstChild[Root]]
  PROVE  \A x \in InTree(t) \ {Root} : \E y \in InTree(u) \ {Root} : f[x] = g[y]
<1>1. PICK N, M : N = InTree(t) /\ M = InTree(u)
  OBVIOUS
<1>2. /\ N \subseteq Node /\ Root \in N /\ ClosedBelow(t, N)
      /\ \A S \in SUBSET Node : ClosedBelow(t, S) => N \subseteq S
      /\ M \subseteq Node /\ Root \in M /\ ClosedBelow(u, M)
  BY <1>1, InTreeLeast
<1>3. /\ \A x \in Node : f[x] = <<ids[x], texts[x], f[t.firstChild[x]], f[t.next[x]]>>
      /\ f[Nil] = <<>>
      /\ \A x \in Node : g[x] = <<jds[x], uexts[x], g[u.firstChild[x]], g[u.next[x]]>>
      /\ g[Nil] = <<>>
  BY DEF Reads
<1>4. \A x \in Node : f[x] # <<>> /\ g[x] # <<>>
  <2>1. SUFFICES ASSUME NEW x \in Node PROVE f[x] # <<>> /\ g[x] # <<>>
    OBVIOUS
  <2>2. /\ f[x] = <<ids[x], texts[x], f[t.firstChild[x]], f[t.next[x]]>>
        /\ g[x] = <<jds[x], uexts[x], g[u.firstChild[x]], g[u.next[x]]>>
    BY <1>3
  <2>3. QED BY <2>2, NotNothing
<1>5. /\ \A x \in Node : /\ t.firstChild[x] # Nil => t.firstChild[x] \in Node /\ t.firstChild[x] # Root
                         /\ t.next[x] # Nil => t.next[x] \in Node /\ t.next[x] # Root
                         /\ u.firstChild[x] # Nil => u.firstChild[x] \in Node /\ u.firstChild[x] # Root
                         /\ u.next[x] # Nil => u.next[x] \in Node /\ u.next[x] # Root
      /\ Root \in Node
  BY NodeAssumption DEF Tree, ItemOrNil, Item
<1>6. PICK S \in SUBSET Node : S = {x \in Node : x = Root \/ \E y \in M \ {Root} : f[x] = g[y]}
  OBVIOUS
<1>7. Root \in S
  BY <1>5, <1>6
<1>8. ASSUME t.firstChild[Root] # Nil PROVE t.firstChild[Root] \in S
  <2>1. PICK c, d : c = t.firstChild[Root] /\ d = u.firstChild[Root]
    OBVIOUS
  <2>2. f[c] = g[d] /\ c \in Node /\ d # Nil
    BY <1>3, <1>4, <1>5, <1>8, <2>1
  <2>3. d \in M \ {Root}
    BY <1>2, <1>5, <2>1, <2>2 DEF ClosedBelow
  <2>4. QED BY <1>6, <2>1, <2>2, <2>3
<1>9. ASSUME NEW x \in S \ {Root}
      PROVE  /\ t.firstChild[x] # Nil => t.firstChild[x] \in S
             /\ t.next[x] # Nil => t.next[x] \in S
  <2>1. PICK y \in M \ {Root} : f[x] = g[y]
    BY <1>6, <1>9
  <2>2. x \in Node /\ y \in Node
    BY <1>2
  <2>3. f[t.firstChild[x]] = g[u.firstChild[y]] /\ f[t.next[x]] = g[u.next[y]]
    BY <1>3, <2>1, <2>2
  <2>4. ASSUME t.firstChild[x] # Nil PROVE t.firstChild[x] \in S
    <3>1. PICK c, d : c = t.firstChild[x] /\ d = u.firstChild[y]
      OBVIOUS
    <3>2. f[c] = g[d] /\ c \in Node /\ d # Nil
      BY <1>3, <1>4, <1>5, <2>2, <2>3, <2>4, <3>1
    <3>3. d \in M \ {Root}
      BY <1>2, <1>5, <2>2, <3>1, <3>2 DEF ClosedBelow
    <3>4. QED BY <1>6, <3>1, <3>2, <3>3
  <2>5. ASSUME t.next[x] # Nil PROVE t.next[x] \in S
    <3>1. PICK c, d : c = t.next[x] /\ d = u.next[y]
      OBVIOUS
    <3>2. f[c] = g[d] /\ c \in Node /\ d # Nil
      BY <1>3, <1>4, <1>5, <2>2, <2>3, <2>5, <3>1
    <3>3. d \in M \ {Root}
      BY <1>2, <1>5, <2>2, <3>1, <3>2 DEF ClosedBelow
    <3>4. QED BY <1>6, <3>1, <3>2, <3>3
  <2>6. QED BY <2>4, <2>5
<1>10. ClosedBelow(t, S)
  BY <1>7, <1>8, <1>9 DEF ClosedBelow
<1>11. N \subseteq S
  BY <1>2, <1>10
<1>12. QED BY <1>1, <1>6, <1>11

\* Then their nodes are linked alike.
LEMMA PairOf ==
  ASSUME NEW t \in Tree, OnwardAgree(t), ChainsEnd(t), Hung(t),
         NEW u \in Tree, OnwardAgree(u), ChainsEnd(u), Hung(u),
         NEW ids, NEW texts, NEW jds, NEW uexts, ids[Root] = jds[Root],
         \A x, y \in InTree(t) : ids[x] = ids[y] => x = y,
         \A x, y \in InTree(u) : jds[x] = jds[y] => x = y,
         Outline(t, ids, texts) = Outline(u, jds, uexts)
  PROVE  \E at : /\ Pair(at, InTree(t), t, u) /\ InTree(u) = {at[x] : x \in InTree(t)}
                 /\ \A x \in InTree(t) : /\ jds[at[x]] = ids[x]
                                         /\ x # Root => uexts[at[x]] = texts[x]
<1>1. PICK N, M : N = InTree(t) /\ M = InTree(u)
  OBVIOUS
<1>2. /\ N \in SUBSET Node /\ Root \in N /\ ClosedBelow(t, N)
      /\ \A S \in SUBSET Node : ClosedBelow(t, S) => N \subseteq S
      /\ M \in SUBSET Node /\ Root \in M /\ ClosedBelow(u, M)
  BY <1>1, InTreeLeast
<1>3. Grounded(t) /\ Grounded(u)
  BY HungGrounded
<1>4. PICK f : Reads(t, ids, texts, f) /\ Outline(t, ids, texts) = f[t.firstChild[Root]]
  BY <1>3, OutlineUnfolds
<1>5. PICK g : Reads(u, jds, uexts, g) /\ Outline(u, jds, uexts) = g[u.firstChild[Root]]
  BY <1>3, OutlineUnfolds
<1>6. f[t.firstChild[Root]] = g[u.firstChild[Root]]
  BY <1>4, <1>5
<1>7. \A x \in N \ {Root} : \E y \in M \ {Root} : f[x] = g[y]
  BY <1>1, <1>4, <1>5, <1>6, OutlineMatched
<1>8. \A y \in M \ {Root} : \E x \in N \ {Root} : g[y] = f[x]
  <2>1. g[u.firstChild[Root]] = f[t.firstChild[Root]]
    BY <1>6
  <2>2. QED BY <1>1, <1>4, <1>5, <2>1, OutlineMatched
<1>9. /\ \A x \in Node : f[x] = <<ids[x], texts[x], f[t.firstChild[x]], f[t.next[x]]>>
      /\ f[Nil] = <<>>
      /\ \A x \in Node : g[x] = <<jds[x], uexts[x], g[u.firstChild[x]], g[u.next[x]]>>
      /\ g[Nil] = <<>>
  BY <1>4, <1>5 DEF Reads
<1>10. \A x \in Node : f[x] # <<>> /\ g[x] # <<>>
  <2>1. SUFFICES ASSUME NEW x \in Node PROVE f[x] # <<>> /\ g[x] # <<>>
    OBVIOUS
  <2>2. /\ f[x] = <<ids[x], texts[x], f[t.firstChild[x]], f[t.next[x]]>>
        /\ g[x] = <<jds[x], uexts[x], g[u.firstChild[x]], g[u.next[x]]>>
    BY <1>9
  <2>3. QED BY <2>2, NotNothing
<1>11. \A x, y \in Node : f[x] = g[y] =>
         /\ ids[x] = jds[y] /\ texts[x] = uexts[y]
         /\ f[t.firstChild[x]] = g[u.firstChild[y]] /\ f[t.next[x]] = g[u.next[y]]
  BY <1>9
<1>12. PICK at : at = [x \in N \cup {Nil} |->
                         IF x = Nil THEN Nil ELSE IF x = Root THEN Root
                         ELSE CHOOSE y \in M \ {Root} : f[x] = g[y]]
  OBVIOUS
<1>13. Nil \notin Node /\ Root \in Node
  BY NodeAssumption
<1>14. /\ at[Nil] = Nil /\ at[Root] = Root
       /\ \A x \in N \ {Root} : at[x] \in M \ {Root} /\ f[x] = g[at[x]]
  <2>1. at[Nil] = Nil /\ at[Root] = Root
    BY <1>2, <1>12, <1>13
  <2>2. ASSUME NEW x \in N \ {Root} PROVE at[x] \in M \ {Root} /\ f[x] = g[at[x]]
    <3>1. at[x] = CHOOSE y \in M \ {Root} : f[x] = g[y]
      BY <1>2, <1>12, <1>13
    <3>2. QED BY <1>7, <3>1
  <2>3. QED BY <2>1, <2>2
<1>15. \A x \in N \ {Root} : \A y \in M \ {Root} : f[x] = g[y] => at[x] = y
  <2>1. SUFFICES ASSUME NEW x \in N \ {Root}, NEW y \in M \ {Root}, f[x] = g[y] PROVE at[x] = y
    OBVIOUS
  <2>2. jds[at[x]] = jds[y]
    BY <1>2, <1>11, <1>14, <2>1
  <2>3. QED BY <1>1, <1>14, <2>2
<1>16. /\ \A x \in N : at[x] \in M /\ jds[at[x]] = ids[x]
       /\ \A x \in N \ {Root} : uexts[at[x]] = texts[x]
  BY <1>2, <1>11, <1>14
<1>17. \A x, y \in N \cup {Nil} : at[x] = at[y] => x = y
  <2>1. \A x, y \in N : at[x] = at[y] => x = y
    BY <1>1, <1>16
  <2>2. \A x \in N : at[x] # Nil
    BY <1>2, <1>13, <1>16
  <2>3. QED BY <1>14, <2>1, <2>2
<1>18. M = {at[x] : x \in N}
  <2>1. ASSUME NEW y \in M PROVE \E x \in N : at[x] = y
    <3>1. CASE y = Root
      BY <1>2, <1>14, <3>1
    <3>2. CASE y # Root
      BY <1>8, <1>15, <3>2
    <3>3. QED BY <3>1, <3>2
  <2>2. QED BY <1>16, <2>1
<1>19. /\ \A x \in Node : /\ t.firstChild[x] \in Item \cup {Nil} /\ t.next[x] \in Item \cup {Nil}
                          /\ u.firstChild[x] \in Item \cup {Nil} /\ u.next[x] \in Item \cup {Nil}
                          /\ t.prev[x] # Root /\ u.prev[x] # Root
       /\ Item = Node \ {Root}
  BY <1>13 DEF Tree, ItemOrNil, Item
<1>20. t.next[Root] = Nil /\ u.next[Root] = Nil
  BY <1>13, <1>19 DEF OnwardAgree
<1>21. ASSUME NEW x \in N
       PROVE  /\ t.firstChild[x] \in N \cup {Nil} /\ u.firstChild[at[x]] = at[t.firstChild[x]]
              /\ t.next[x] \in N \cup {Nil} /\ u.next[at[x]] = at[t.next[x]]
  <2>1. PICK y \in M : y = at[x]
    BY <1>16
  <2>2. x \in Node /\ y \in Node /\ (x = Root <=> y = Root)
    BY <1>2, <1>14, <2>1
  <2>3. PICK c, d : c = t.firstChild[x] /\ d = u.firstChild[y]
    OBVIOUS
  <2>4. f[c] = g[d]
    BY <1>6, <1>11, <1>14, <2>1, <2>2, <2>3
  <2>5. c \in N \cup {Nil} /\ d = at[c]
    <3>1. c \in Item \cup {Nil} /\ d \in Item \cup {Nil}
      BY <1>19, <2>2, <2>3
    <3>2. (c # Nil => c \in N \ {Root}) /\ (d # Nil => d \in M \ {Root})
      BY <1>2, <1>19, <2>1, <2>2, <2>3, <3>1 DEF ClosedBelow
    <3>3. c = Nil <=> d = Nil
      BY <1>2, <1>9, <1>10, <2>4, <3>2
    <3>4. QED BY <1>14, <1>15, <2>4, <3>2, <3>3
  <2>6. PICK e, h : e = t.next[x] /\ h = u.next[y]
    OBVIOUS
  <2>7. e \in N \cup {Nil} /\ h = at[e]
    <3>1. CASE x = Root
      BY <1>14, <1>20, <2>2, <2>6, <3>1
    <3>2. CASE x # Root
      <4>1. f[e] = g[h]
        BY <1>11, <1>14, <2>1, <2>2, <2>6, <3>2
      <4>2. e \in Item \cup {Nil} /\ h \in Item \cup {Nil}
        BY <1>19, <2>2, <2>6
      <4>3. (e # Nil => e \in N \ {Root}) /\ (h # Nil => h \in M \ {Root})
        BY <1>2, <1>19, <2>1, <2>2, <2>6, <3>2, <4>2 DEF ClosedBelow
      <4>4. e = Nil <=> h = Nil
        BY <1>2, <1>9, <1>10, <4>1, <4>3
      <4>5. QED BY <1>14, <1>15, <4>1, <4>3, <4>4
    <3>3. QED BY <3>1, <3>2
  <2>8. QED BY <2>1, <2>3, <2>5, <2>6, <2>7
<1>22. \A x \in N \ {Root} :
         /\ t.parent[x] \in N
         /\ t.prev[x] = Nil => t.firstChild[t.parent[x]] = x
         /\ t.prev[x] # Nil => t.prev[x] \in N \ {Root} /\ t.next[t.prev[x]] = x
  BY <1>1, InTreeBack
<1>23. /\ \A x \in Node : t.next[x] # Nil => t.parent[t.next[x]] = t.parent[x]
       /\ \A x \in Node : t.firstChild[x] # Nil => t.parent[t.firstChild[x]] = x
       /\ \A x \in Node : u.next[x] # Nil => /\ u.prev[u.next[x]] = x
                                             /\ u.parent[u.next[x]] = u.parent[x]
       /\ \A x \in Node : u.firstChild[x] # Nil =>
            u.parent[u.firstChild[x]] = x /\ u.prev[u.firstChild[x]] = Nil
  BY DEF OnwardAgree
<1>24. \A x \in N : at[x] \in Node /\ at[x] # Nil
  BY <1>2, <1>13, <1>16
<1>25. ASSUME NEW x \in N \ {Root}
       PROVE  t.prev[x] \in N \cup {Nil} /\ u.prev[at[x]] = at[t.prev[x]]
  <2>1. CASE t.prev[x] = Nil
    <3>1. PICK p \in N : p = t.parent[x] /\ t.firstChild[p] = x
      BY <1>22, <2>1
    <3>2. u.firstChild[at[p]] = at[x]
      BY <1>21, <3>1
    <3>3. u.prev[at[x]] = Nil
      BY <1>23, <1>24, <3>2
    <3>4. QED BY <1>14, <2>1, <3>3
  <2>2. CASE t.prev[x] # Nil
    <3>1. PICK w \in N : w = t.prev[x] /\ t.next[w] = x
      BY <1>22, <2>2
    <3>2. u.next[at[w]] = at[x]
      BY <1>21, <3>1
    <3>3. u.prev[at[x]] = at[w]
      BY <1>23, <1>24, <3>2
    <3>4. QED BY <3>1, <3>3
  <2>3. QED BY <2>1, <2>2
<1>26. \A x \in N \ {Root} : u.parent[at[x]] = at[t.parent[x]]
  <2>1. PICK S \in SUBSET Node :
          S = {x \in Node : x \in N /\ (x = Root \/ u.parent[at[x]] = at[t.parent[x]])}
    OBVIOUS
  <2>2. Root \in S
    BY <1>2, <2>1
  <2>3. ASSUME NEW x \in S, t.firstChild[x] # Nil PROVE t.firstChild[x] \in S
    <3>1. PICK c \in N : c = t.firstChild[x] /\ t.parent[c] = x /\ u.firstChild[at[x]] = at[c] /\ x \in N
      BY <1>21, <1>23, <2>1, <2>3
    <3>2. u.parent[at[c]] = at[x]
      BY <1>23, <1>24, <3>1
    <3>3. c \in Node
      BY <1>2
    <3>4. QED BY <2>1, <3>1, <3>2, <3>3
  <2>4. ASSUME NEW x \in S \ {Root}, t.next[x] # Nil PROVE t.next[x] \in S
    <3>1. PICK c \in N : /\ c = t.next[x] /\ t.parent[c] = t.parent[x] /\ u.next[at[x]] = at[c]
                         /\ x \in N /\ u.parent[at[x]] = at[t.parent[x]]
      BY <1>21, <1>23, <2>1, <2>4
    <3>2. u.parent[at[c]] = u.parent[at[x]]
      BY <1>23, <1>24, <3>1
    <3>3. c \in Node
      BY <1>2
    <3>4. QED BY <2>1, <3>1, <3>2, <3>3
  <2>5. ClosedBelow(t, S)
    BY <2>2, <2>3, <2>4 DEF ClosedBelow
  <2>6. QED BY <1>2, <2>1, <2>5
<1>27. at \in [N \cup {Nil} -> NodeOrNil]
  <2>1. \A x \in N \cup {Nil} : at[x] \in NodeOrNil
    BY <1>14, <1>24 DEF NodeOrNil
  <2>2. at = [x \in N \cup {Nil} |-> at[x]]
    BY <1>12
  <2>3. QED BY <2>1, <2>2
<1>28. Pair(at, N, t, u)
  BY <1>2, <1>14, <1>17, <1>21, <1>22, <1>25, <1>26, <1>27 DEF Pair
<1>29. QED BY <1>1, <1>16, <1>18, <1>28
=============================================================================
