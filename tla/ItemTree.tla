------------------------------ MODULE ItemTree ------------------------------
(***************************************************************************)
(* The pointer structure ClientItem (client/core.cpp) and LogItem          *)
(* (server/servercore.cpp) share: each node has a parent, a next sibling,  *)
(* a previous sibling and a first child.  A tree is a record of four       *)
(* functions over Node; Nil is the null pointer.  Nothing is ever freed by *)
(* the code, so a detached node keeps its fields.                          *)
(***************************************************************************)
EXTENDS Naturals, FiniteSets, Sequences

CONSTANTS Node,      \* the heap of items, the root included
          Root,      \* the root item of the document
          Nil,       \* nullptr
          Text,      \* the texts an item can have
          EmptyText  \* the text of a new item

ASSUME NodeAssumption == Root \in Node /\ Nil \notin Node
ASSUME TextAssumption == EmptyText \in Text

\* The memory of a computer is finite.
ASSUME HeapFinite == IsFiniteSet(Node)

Item == Node \ {Root}
NodeOrNil == Node \cup {Nil}
ItemOrNil == Item \cup {Nil}

\* The root is nobody's child or sibling.
Tree == [parent : [Node -> NodeOrNil], next : [Node -> ItemOrNil],
         prev : [Node -> ItemOrNil], firstChild : [Node -> ItemOrNil]]

NoLinks == [x \in Node |-> Nil]

\* A document with its root item and nothing below it.
EmptyTree == [parent |-> NoLinks, next |-> NoLinks, prev |-> NoLinks,
              firstChild |-> NoLinks]

---------------------------------------------------------------------------
(* The operations.  The tests for null pointers in the code are implicit:  *)
(* no node equals Nil, so a function is not changed at a null pointer.     *)

\* The bug of forgetting the last line, prev = next = nullptr.
DetachKeepingLinks(t, i) ==
  [parent |-> t.parent,
   firstChild |-> [x \in Node |-> IF x = t.parent[i] /\ t.firstChild[x] = i
                                  THEN t.next[i] ELSE t.firstChild[x]],
   next |-> [x \in Node |-> IF x = t.prev[i] THEN t.next[i] ELSE t.next[x]],
   prev |-> [x \in Node |-> IF x = t.next[i] THEN t.prev[i] ELSE t.prev[x]]]

\* The parent pointer survives: a detached item still names its old parent.
DetachFromTree(t, i) ==
  [parent |-> t.parent,
   firstChild |-> [x \in Node |-> IF x = t.parent[i] /\ t.firstChild[x] = i
                                  THEN t.next[i] ELSE t.firstChild[x]],
   next |-> [x \in Node |-> IF x = i THEN Nil
                            ELSE IF x = t.prev[i] THEN t.next[i] ELSE t.next[x]],
   prev |-> [x \in Node |-> IF x = i THEN Nil
                            ELSE IF x = t.next[i] THEN t.prev[i] ELSE t.prev[x]]]

\* Link i into p's children right after a, first when a is Nil.
InsertAfter(t, p, i, a) ==
  LET follower == IF a = Nil THEN t.firstChild[p] ELSE t.next[a] IN
  [parent |-> [t.parent EXCEPT ![i] = p],
   firstChild |-> IF a = Nil THEN [t.firstChild EXCEPT ![p] = i] ELSE t.firstChild,
   next |-> [x \in Node |-> IF x = i THEN follower
                              ELSE IF x = a THEN i ELSE t.next[x]],
   prev |-> [x \in Node |-> IF x = i /\ a # Nil THEN a
                              ELSE IF x = follower THEN i ELSE t.prev[x]]]

\* "Error: after->parent != this" is logged, and the item goes first.
WrongAfter(t, p, a) == a # Nil /\ t.parent[a] # p

\* ClientItem::addAsChild
AddAsChild(t, p, i, after) ==
  InsertAfter(t, p, i, IF WrongAfter(t, p, after) THEN Nil ELSE after)

\* LogItem::addAsChild returns instead, leaving the item out of the tree.
ServerAddAsChild(t, p, i, after) ==
  IF WrongAfter(t, p, after) THEN t ELSE InsertAfter(t, p, i, after)

---------------------------------------------------------------------------
(* What the traversals of the code see.                                    *)

\* The nodes findItem, started at the root item, can return: the smallest
\* set with the root that first children and next siblings do not leave.
ClosedBelow(t, S) ==
  /\ {Root, t.firstChild[Root]} \ {Nil} \subseteq S
  /\ \A x \in S \ {Root} : {t.firstChild[x], t.next[x]} \ {Nil} \subseteq S

InTree(t) == {x \in Node : \A S \in SUBSET Node : x \in S \/ ~ClosedBelow(t, S)}

\* The chain of p's children that getLastChild and findItem walk along, and
\* its end, Nil when p has no children.
Chain(t, p) ==
  LET closed == {S \in SUBSET Node :
                   /\ {t.firstChild[p]} \ {Nil} \subseteq S
                   /\ \A x \in S : {t.next[x]} \ {Nil} \subseteq S}
  IN {x \in Node : \A S \in closed : x \in S}

LastChild(t, p) ==
  IF t.firstChild[p] = Nil THEN Nil
  ELSE CHOOSE x \in Chain(t, p) : t.next[x] = Nil

\* findItem: the first item with this id, an item before what is below it, and
\* that before its later siblings; Nil when there is none.
FindItem(t, ids, i) ==
  LET from[x \in NodeOrNil] ==
        IF x = Nil THEN Nil
        ELSE IF ids[x] = i THEN x
        ELSE LET below == from[t.firstChild[x]] IN
             IF below # Nil THEN below ELSE from[t.next[x]]
  IN from[Root]

\* The children of p in order.
Children(t, p) ==
  LET from[x \in NodeOrNil] == IF x = Nil THEN <<>> ELSE <<x>> \o from[t.next[x]]
  IN from[t.firstChild[p]]

\* A document as its user reads it: ids and texts, in their order and nesting.
Outline(t, ids, texts) ==
  LET from[x \in NodeOrNil] ==
        IF x = Nil THEN <<>>
        ELSE <<ids[x], texts[x], from[t.firstChild[x]], from[t.next[x]]>>
  IN from[t.firstChild[Root]]

\* Where operator new puts the next item, Nil when the heap is full.
NextFree(heap) == IF Node \subseteq heap THEN Nil ELSE CHOOSE x \in Item : x \notin heap

\* The pointers of some nodes that lead to x.
Entries(t, nodes, x) == {<<"firstChild", p>> : p \in {q \in nodes : t.firstChild[q] = x}}
                        \cup {<<"next", b>> : b \in {q \in nodes : t.next[q] = x}}

\* No traversal of the structure below the root comes back to a node: every
\* node met is entered by exactly one pointer.
EnteredOnce(t) == LET met == InTree(t) IN
  /\ Entries(t, met, Root) = {}
  /\ \A x \in met \ {Root} : Cardinality(Entries(t, met, x)) = 1

\* A node that was never linked.
Unlinked(t, x) == /\ t.parent[x] = Nil /\ t.firstChild[x] = Nil
                  /\ t.next[x] = Nil /\ t.prev[x] = Nil

\* No link leads to or from a detached node, but for its parent pointer.
Detached(t, x) ==
  t.next[x] = Nil /\ t.prev[x] = Nil /\ \A p \in Node : t.firstChild[p] # x

\* The links of every node, detached ones too, agree with each other.
LinksAgree(t) ==
  /\ \A x \in Node : t.next[x] # Nil => t.prev[t.next[x]] = x
  /\ \A x \in Node : t.prev[x] # Nil => t.next[t.prev[x]] = x
  /\ \A x \in Node : t.firstChild[x] # Nil =>
       t.parent[t.firstChild[x]] = x /\ t.prev[t.firstChild[x]] = Nil
  /\ \A x \in Node : t.next[x] # Nil => t.parent[t.next[x]] = t.parent[x]

\* No chain of siblings is circular: in any set of nodes one has no next
\* sibling in the set.
ChainsEnd(t) == \A S \in (SUBSET Node) \ {{}} : \E x \in S : t.next[x] \notin S

\* Going on to first children and next siblings comes to an end: in any set of
\* nodes there is one that leads to no other of them.
Grounded(t) == \A S \in (SUBSET Node) \ {{}} :
                 \E x \in S : t.firstChild[x] \notin S /\ t.next[x] \notin S
=============================================================================
