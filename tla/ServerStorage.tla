---------------------------- MODULE ServerStorage ----------------------------
(***************************************************************************)
(* One document of the server and its file: XmlDB (server/storage.cpp)     *)
(* writes the whole tree over the old file, and reads it when the server   *)
(* starts.  The server may stop at any moment, in the middle of a save as  *)
(* well.  XML is abstracted to the sequence of the items written, each     *)
(* with its id, its parent's id, its text and its done flag.               *)
(***************************************************************************)
EXTENDS ServerDocument

CONSTANTS Ids,         \* bound: the ids clients give to new items
          MaxChanges,  \* bound: packets between two saves
          MaxLabels    \* bound: texts and marks, at one time

ASSUME IdsAssumption == Ids # {} /\ Ids \subseteq Nat \ {NoId} /\ IsFiniteSet(Ids)
ASSUME MaxChangesAssumption == MaxChanges \in Nat
ASSUME MaxLabelsAssumption == MaxLabels \in Nat

VARIABLES copy,     \* the ServerDocument, Nil while the server does not run
          file,     \* what was written, and where the writing stopped
          saved,    \* history: the document of the last save, when it ended
          collided, \* history: an item was created with an id in use
          refused,  \* the server threw while it read the file
          changes   \* history: how many packets came since the last save or start

vars == <<copy, file, saved, collided, refused, changes>>

---------------------------------------------------------------------------
(* Writing.                                                                *)

\* The bug of writing the children of an item first.
EntriesChildrenFirst(s) ==
  LET from[x \in NodeOrNil] ==
        IF x = Nil THEN <<>>
        ELSE from[s.tree.firstChild[x]]
             \o <<[id |-> s.id[x], parent |-> s.id[s.tree.parent[x]], text |-> s.text[x],
               done |-> s.done[x]]>>
             \o from[s.tree.next[x]]
  IN from[s.tree.firstChild[Root]]

\* saveNode: an item before what is below it, and that before its siblings.
EntriesOf(s) ==
  LET from[x \in NodeOrNil] ==
        IF x = Nil THEN <<>>
        ELSE <<[id |-> s.id[x], parent |-> s.id[s.tree.parent[x]], text |-> s.text[x],
               done |-> s.done[x]]>>
             \o from[s.tree.firstChild[x]] \o from[s.tree.next[x]]
  IN from[s.tree.firstChild[Root]]

\* The bug of opening the file without truncating it.
WrittenAfterTheRest(old, s) == [items |-> old.items \o EntriesOf(s), stop |-> "end"]

\* XmlDB::saveDocument over what the file held before.
Written(old, s) == [items |-> EntriesOf(s), stop |-> "end"]

\* What toUInt makes of a number that is cut: 0 of nothing, or its first digits.
Prefixes(n) == {0} \cup {n \div 10^k : k \in 1..9}  \* bound: numbers of ten digits

\* What is in the file when the writing stops before the end: the last item may
\* lack its done flag, that and its text, or these and its parent; or it ends in
\* the number of its parent, of which the first digits or nothing can be read.
\* An item that lacks its id, or the end of it, counts as not written.  A cut
\* inside a text is not modelled.
Interrupted(old, s) ==
  LET whole == Written(old, s).items
      Upto(n, stop) == [items |-> SubSeq(whole, 1, n), stop |-> stop]
  IN {Upto(n, "item") : n \in 0..Len(whole)}
     \cup {Upto(n, stop) : n \in 1..Len(whole), stop \in {"parent", "text", "done"}}
     \cup (UNION {{[Upto(n, "number") EXCEPT !.items[n].parent = number] :
                     number \in Prefixes(whole[n].parent)} : n \in 1..Len(whole)})

---------------------------------------------------------------------------
(* Reading.                                                                *)

\* The bug of forgetting item->prev.
AddAsLastChildKeepingPrev(t, p, i) ==
  IF t.firstChild[p] = Nil THEN ServerAddAsChild(t, p, i, Nil)
  ELSE [t EXCEPT !.next = [@ EXCEPT ![LastChild(t, p)] = i],
                 !.parent = [@ EXCEPT ![i] = p]]

\* LogItem::addAsLastChild
AddAsLastChild(t, p, i) ==
  IF t.firstChild[p] = Nil THEN ServerAddAsChild(t, p, i, Nil)
  ELSE [t EXCEPT !.next = [@ EXCEPT ![LastChild(t, p)] = i],
                 !.prev = [@ EXCEPT ![i] = LastChild(t, p)],
                 !.parent = [@ EXCEPT ![i] = p]]

NewCopy == [tree |-> EmptyTree, text |-> [x \in Item |-> EmptyText], heap |-> {Root},
            done |-> [x \in Item |-> FALSE], id |-> [x \in Node |-> NoId]]

\* The start of the next item enters the one read before it in the map items,
\* or throws "Error: dublicate id!!".
Register(l) ==
  IF l.current = Nil THEN l
  ELSE IF \E x \in l.items : l.doc.id[x] = l.doc.id[l.current] THEN [l EXCEPT !.threw = TRUE]
  ELSE [l EXCEPT !.items = @ \cup {l.current}]

\* The bug of linking an item below the root until its parent is read.
ReadItemBelowRoot(l, entry, whole) ==
  LET new == NextFree(l.doc.heap)
      parents == {x \in l.items : l.doc.id[x] = entry.parent}
      linked == whole # "parent" /\ parents # {}
  IN [l EXCEPT
        !.current = new,
        !.doc = [tree |-> AddAsLastChild(l.doc.tree, IF linked THEN CHOOSE x \in parents : TRUE
                                                     ELSE Root, new),
                 text |-> [l.doc.text EXCEPT ![new] = entry.text],
                 done |-> [l.doc.done EXCEPT ![new] = entry.done],
                 heap |-> l.doc.heap \cup {new},
                 id |-> [l.doc.id EXCEPT ![new] = entry.id]]]

\* The rest of the item, as far as it was written: the parent is looked up in
\* the map, whatever number was read for it, and an item for which none was begun
\* or found is left out of the tree.
ReadItem(l, entry, whole) ==
  LET new == NextFree(l.doc.heap)
      parents == {x \in l.items : l.doc.id[x] = entry.parent}
      linked == whole # "parent" /\ parents # {}
  IN [l EXCEPT
        !.current = new,
        !.doc = [tree |-> IF linked
                          THEN AddAsLastChild(l.doc.tree, CHOOSE x \in parents : TRUE, new)
                          ELSE l.doc.tree,
                 text |-> [l.doc.text EXCEPT ![new] = IF whole \in {"item", "done"} THEN entry.text
                                                      ELSE EmptyText],
                 done |-> [l.doc.done EXCEPT ![new] = whole = "item" /\ entry.done],
                 heap |-> l.doc.heap \cup {new},
                 id |-> [l.doc.id EXCEPT ![new] = entry.id]]]

\* XmlDB::loadTree.  Once it has thrown nothing more is read.
LoadTree(f) ==
  LET after[k \in 0..Len(f.items)] ==
        IF k = 0 THEN [doc |-> NewCopy, items |-> {Root}, current |-> Nil, threw |-> FALSE]
        ELSE LET l == Register(after[k - 1]) IN
             IF l.threw THEN l
             ELSE ReadItem(l, f.items[k], IF k = Len(f.items) /\ f.stop # "end" THEN f.stop
                                          ELSE "item")
  IN after[Len(f.items)]

\* ServerDocument::loadData: a document without items gets a new one.
LoadData(f) ==
  LET l == LoadTree(f) IN
  IF l.threw \/ l.doc.tree.firstChild[Root] # Nil THEN l
  ELSE [l EXCEPT !.doc = CreateNewChild(@)]

OutlineOf(s) == Outline(s.tree, s.id, [x \in Item |-> <<s.text[x], s.done[x]>>])

---------------------------------------------------------------------------
(* The server.                                                             *)

\* Where below p a client can put an item: first, or after a child of p.
Places(t, p) == {NoId} \cup {copy.id[x] : x \in {y \in InTree(t) \ {Root} : t.parent[y] = p}}

\* What a client that shows the document may send.  It takes an item out before
\* it chooses the place the item moves to.
Packets ==
  LET known == InTree(copy.tree)
      ids == {copy.id[x] : x \in known} \ {NoId}  \* the root is left alone
      Without(x) == DetachFromTree(copy.tree, x)
  IN (UNION {[type : {"PT_ITEM_CREATED"}, item : Ids, parent : {copy.id[p]},
              prev : Places(copy.tree, p)] : p \in known})
     \cup (UNION {UNION {[type : {"PT_ITEM_MOVED"}, item : {copy.id[x]} \cap ids,
                          parent : {copy.id[p]}, prev : Places(Without(x), p)]
                         : p \in InTree(Without(x))} : x \in known})
     \cup [type : {"PT_ITEM_DELETED"}, item : ids]
     \cup [type : {"PT_ITEM_CHANGED"}, item : ids, text : Text]
     \cup [type : {"PT_ITEM_DONE_CHANGED"}, item : ids, done : BOOLEAN]

\* A move to a place below the item itself.  No client asks for it, but the server
\* may find such a place when an id is in use twice.
Astray(s, packet) ==
  ~({Found(s, packet.parent), PrevFound(s, packet)}
      \subseteq InTree(DetachFromTree(s.tree, Found(s, packet.item))) \cup {Nil})

Labels(s) == {<<"text", x>> : x \in {y \in Item : s.text[y] # EmptyText}}
             \cup {<<"done", x>> : x \in {y \in Item : s.done[y]}}

Receive ==
  /\ copy # Nil
  /\ changes < MaxChanges
  /\ \E packet \in Packets :
       /\ packet.type = "PT_ITEM_CREATED" => ~(Node \subseteq copy.heap)  \* bound: objects
       /\ packet.type = "PT_ITEM_MOVED" => ~Astray(copy, packet)  \* bound: no move goes astray
       /\ Cardinality(Labels(Handle(copy, packet))) <= MaxLabels
       /\ copy' = Handle(copy, packet)
       /\ collided' = (collided \/ (/\ packet.type = "PT_ITEM_CREATED"
                                    /\ Found(copy, packet.item) # Nil))
  /\ changes' = changes + 1
  /\ UNCHANGED <<file, saved, refused>>

Save ==
  /\ copy # Nil
  /\ file' = Written(file, copy)
  /\ saved' = OutlineOf(copy)
  /\ changes' = 0
  /\ UNCHANGED <<copy, collided, refused>>

StopWhileSaving ==
  /\ copy # Nil
  /\ \A x \in copy.heap \ {Root} : copy.id[x] \in Ids \cup {1}  \* bound: ids loadData gave later
  /\ file' \in Interrupted(file, copy)
  /\ copy' = Nil
  /\ saved' = <<>>
  /\ changes' = 0
  /\ UNCHANGED <<collided, refused>>

Stop ==
  /\ copy # Nil
  /\ copy' = Nil
  /\ changes' = 0
  /\ UNCHANGED <<file, saved, collided, refused>>

\* The constructor of TodoServer reads every file; nobody catches what it throws.
Start ==
  /\ copy = Nil
  /\ LET l == LoadData(file) IN
     /\ copy' = IF l.threw THEN Nil ELSE l.doc
     /\ refused' = l.threw
  /\ UNCHANGED <<file, saved, collided, changes>>

\* createDocument leaves an empty file, which it reads like any other, and saves.
Init ==
  LET empty == [items |-> <<>>, stop |-> "item"]
      new == LoadData(empty).doc
  IN /\ \/ copy = new /\ file = Written(empty, new)
        \/ copy = Nil /\ file = empty
     /\ saved = OutlineOf(new)
     /\ collided = FALSE
     /\ refused = FALSE
     /\ changes = 0

Next == Receive \/ Save \/ StopWhileSaving \/ Stop \/ Start

Spec == Init /\ [][Next]_vars

---------------------------------------------------------------------------
(* Properties.                                                             *)

\* Reading gives back what writing put down (loadTree after saveDocument): when
\* the last save ended, the server starts with the same items, order, nesting,
\* texts and done flags.  A document saved without items comes back with a new one.
SavedComesBack == [][copy = Nil /\ copy' # Nil /\ file.stop = "end" /\ saved # <<>>
                     => OutlineOf(copy') = saved]_vars

\* When the server stopped in a save, what comes back is the document as far as
\* it is in the file, in its order and with every item below its own parent; the
\* last item may be missing.  The one exception is a last item that was cut in
\* the number of its parent: it comes back below the item or the root which the
\* rest of the number names, and all others keep their places.  A file without a
\* whole item may come back as one new item.
PartComesBack == [][copy = Nil /\ copy' # Nil /\ file.stop # "end" =>
  LET back == EntriesOf(copy')
      n == Len(file.items)
      Same(k, j) == /\ back[k].id = file.items[j].id
                    /\ back[k].parent = file.items[j].parent
  IN \/ n <= 1 /\ Len(back) = 1
     \/ /\ n = Len(back) \/ (n = Len(back) + 1 /\ file.stop \in {"parent", "number"})
        /\ \A k \in DOMAIN back : Same(k, k)
     \/ /\ file.stop = "number" /\ Len(back) = n
        /\ \E m \in DOMAIN back : \A k \in DOMAIN back :
             Same(k, IF k < m THEN k ELSE IF k = m THEN n ELSE k - 1)]_vars

\* The tree the server works on is sound, as it was read and as the packets
\* leave it, moves among them: addAsLastChild sets only some of the links.
CopyWellFormed == copy # Nil => LinksAgree(copy.tree) /\ EnteredOnce(copy.tree)

\* The server refuses a file only if an item was created with an id in use.
StartsAgain == refused => collided
=============================================================================
