------------------------------- MODULE ItemView -------------------------------
(***************************************************************************)
(* What of a document the user sees and where the keyboard goes: folding   *)
(* (ItemWidget::setFold), searching (ApplicationControl::doSearch and      *)
(* leaveSearch) and the walks along the tree they share with switchFocusTo,*)
(* while commands, undo and redo change the tree.  A fold hides the widgets*)
(* below it; a search hides the fields of a widget and leaves it in place. *)
(***************************************************************************)
EXTENDS ClientDocument

CONSTANTS PageStep,  \* PAGESTEP
          MaxSize,   \* bound: objects and done commands when a command is given
          MaxFolded  \* bound: items folded at a time
ASSUME ViewAssumption == PageStep \in Nat \ {0} /\ {MaxSize, MaxFolded} \subseteq Nat

VARIABLES folded,     \* items with ClientItem::folded, ItemWidget::folded alike
          children,   \* ItemWidget::children of each item's newest widget
          hidden,     \* items whose widget setVisible(false) was called for
          blank,      \* items whose fields a search has hidden
          searching,  \* ApplicationControl::state is SEARCH
          moved,      \* history: items whose widget has had several parents, or
                      \* was out of the tree and came back by a move
          upset       \* history: an item was folded or moved during a search, or
                      \* came back by a move

viewVars == <<folded, children, hidden, blank, searching, moved, upset>>

---------------------------------------------------------------------------
(* The walks.                                                              *)

\* The bug of looking one level up only.
GetNextItemNearby(x) ==
  IF tree.firstChild[x] # Nil /\ x \notin folded THEN tree.firstChild[x]
  ELSE IF tree.next[x] # Nil \/ tree.parent[x] = Nil THEN tree.next[x]
  ELSE tree.next[tree.parent[x]]

\* Down to the first child, or to what follows the item or something above it.
GetNextItemInTree(x) ==
  LET after[y \in NodeOrNil] ==
        IF y = Nil THEN Nil
        ELSE IF tree.next[y] # Nil THEN tree.next[y] ELSE after[tree.parent[y]]
  IN IF tree.firstChild[x] # Nil /\ x \notin folded THEN tree.firstChild[x] ELSE after[x]

\* Up to the last item below the one before; only that one's own fold counts.
GetPrevItemInTree(x) ==
  LET before == tree.prev[x]
      lowest[y \in Item] ==
        IF tree.firstChild[y] = Nil THEN y ELSE lowest[LastChild(tree, y)]
  IN IF before # Nil
     THEN IF before \in folded THEN before ELSE lowest[before]
     ELSE IF tree.parent[x] # Root THEN tree.parent[x] ELSE x

PageUp(x) ==
  LET up[n \in 0..PageStep] == IF n = 0 THEN x ELSE GetPrevItemInTree(up[n - 1]) IN up[PageStep]

PageDown(x) ==
  LET down[n \in 0..PageStep] ==
        IF n = 0 THEN x
        ELSE LET y == GetNextItemInTree(down[n - 1]) IN IF y = Nil THEN down[n - 1] ELSE y
  IN down[PageStep]

ToEnd ==
  LET last[y \in Node] == IF tree.firstChild[y] = Nil THEN y ELSE last[LastChild(tree, y)]
  IN last[Root]

\* The item that gets the focus, by a key in the field of x; Nil leaves it there.
SwitchFocusTo(x, to) ==
  CASE to = "UP" -> GetPrevItemInTree(x)
    [] to = "DOWN" -> GetNextItemInTree(x)
    [] to = "LEFT" -> IF tree.parent[x] = Root THEN x ELSE tree.parent[x]
    [] to = "PAGE_UP" -> PageUp(x)
    [] to = "PAGE_DOWN" -> PageDown(x)
    [] to = "TO_BEGIN" -> tree.firstChild[Root]
    [] to = "TO_END" -> ToEnd

\* The items the loops of doSearch and leaveSearch come to, in order.
Walk ==
  LET from[x \in NodeOrNil] == IF x = Nil THEN <<>> ELSE <<x>> \o from[GetNextItemInTree(x)]
  IN from[GetNextItemInTree(Root)]

Walked == LET walk == Walk IN {walk[k] : k \in DOMAIN walk}

Above(x) == LET up[y \in NodeOrNil] == IF y \in {Root, Nil} THEN {} ELSE {y} \cup up[tree.parent[y]]
            IN up[tree.parent[x]]

\* A key works and a fold button can be clicked where the user sees the field.
Seen == {x \in OnScreen : ({x} \cup Above(x)) \cap hidden = {} /\ x \notin blank}

---------------------------------------------------------------------------
(* The slots of GuiControl for what the document tells it.                 *)

\* The bug of showing a widget in a folded parent.
HidesUnfolded(i, parent) == hidden

\* ItemWidget::addChild: a widget that was hidden stays so in a new parent.
AddChild(i, parent) == IF parent \in folded THEN hidden \cup {i} ELSE hidden

\* addItem makes a new widget and drops the old one.
WidgetAdded(i, parent) ==
  /\ children' = [x \in Item |-> IF x = i THEN {}
                                 ELSE IF x = parent THEN children[x] \cup {i} ELSE children[x] \ {i}]
  /\ hidden' = AddChild(i, parent) \ (IF parent \in folded THEN {} ELSE {i})
  /\ blank' = blank \ {i}
  /\ moved' = moved \ {i}
  /\ UNCHANGED upset

WidgetRemoved(i, parent) ==
  /\ children' = [x \in Item |-> IF x = parent THEN children[x] \ {i} ELSE children[x]]
  /\ UNCHANGED <<hidden, blank, moved, upset>>

\* updateItemPosition asks the new parent to let go of the widget, not the old
\* one, which goes on to count it among its children.
WidgetMoved(i, parent) ==
  /\ children' = [x \in Item |-> IF x = parent THEN children[x] \cup {i} ELSE children[x]]
  /\ hidden' = AddChild(i, parent)
  /\ moved' = IF plugged[i] /\ tree.parent[i] = parent THEN moved ELSE moved \cup {i}
  /\ upset' = (upset \/ searching \/ ~plugged[i])
  /\ UNCHANGED blank

ScreenFollows ==
  LET signal == signals'[1] IN
  \/ signal.name = "itemAdded" /\ WidgetAdded(signal.item, tree'.parent[signal.item])
  \/ signal.name = "itemDeleted" /\ WidgetRemoved(signal.item, tree'.parent[signal.item])
  \/ signal.name = "itemModified" /\ WidgetMoved(signal.item, tree'.parent[signal.item])
  \/ signal.name = "itemTextChanged" /\ UNCHANGED <<children, hidden, blank, moved, upset>>

\* The item whose key gave a command; any, for a text handed over later.
Origin(action) ==
  CASE action.kind = "create" -> IF action.prev = Nil THEN {action.parent} ELSE {action.prev}
    [] action.kind = "edit" -> {}
    [] OTHER -> {action.item}

Edit ==
  /\ LET seen == Seen IN
     \/ /\ Len(actionList) + Cardinality(heap) <= MaxSize
        /\ Command
        /\ Origin(Last(actionList')) \subseteq seen
     \/ UndoLastAction
     \/ RedoAction
  /\ heap' \ heap \subseteq {NextFree(heap)}
  /\ ScreenFollows
  /\ UNCHANGED <<folded, searching>>

---------------------------------------------------------------------------
(* Folding and searching.                                                  *)

\* oneOfItemsFoldChanged: the widget's setFold, then the document's setItemFold.
Fold == \E i \in Seen :
  /\ folded' = IF i \in folded THEN folded \ {i} ELSE folded \cup {i}
  /\ Cardinality(folded') <= MaxFolded
  /\ hidden' = IF i \in folded THEN hidden \ children[i] ELSE hidden \cup children[i]
  /\ upset' = (upset \/ (searching /\ i \notin folded))
  /\ UNCHANGED <<vars, children, blank, searching, moved>>

\* search with a request, doSearch: what matches is shown, the rest is hidden.
Search ==
  /\ searching' = TRUE
  /\ LET walked == Walked IN
     \E found \in SUBSET walked : blank' = (blank \cup walked) \ found
  /\ UNCHANGED <<vars, folded, children, hidden, moved, upset>>

\* search with an empty request, leaveSearch.
LeaveSearch ==
  /\ searching /\ searching' = FALSE
  /\ blank' = blank \ Walked
  /\ UNCHANGED <<vars, folded, children, hidden, moved, upset>>

---------------------------------------------------------------------------
ViewInit ==
  /\ Init
  /\ folded = {}
  /\ children = [x \in Item |-> {y \in Item : plugged[y] /\ tree.parent[y] = x}]
  /\ hidden = {} /\ blank = {} /\ searching = FALSE
  /\ moved = {} /\ upset = FALSE

ViewNext == Edit \/ Fold \/ Search \/ LeaveSearch

ViewSpec == ViewInit /\ [][ViewNext]_<<vars, viewVars>>

---------------------------------------------------------------------------
(* Properties.                                                             *)

\* The walk down (getNextItemInTree), which focus and search go by, meets every
\* item that no fold covers and no other.
WalkIsUnfolded == Walked = {x \in InTree(tree) \ {Root} : Above(x) \cap folded = {}}

\* The keys (switchFocusTo) take the focus along that walk, back as well, but
\* for an item that is folded and last below the one before, or last of all:
\* there UP, PAGE_UP and TO_END go astray into the fold.
FocusFollowsWalk ==
  LET walk == Walk
      met == {walk[j] : j \in DOMAIN walk}
      At(k) == IF k < 1 THEN walk[1] ELSE IF k > Len(walk) THEN walk[Len(walk)] ELSE walk[k]
      Astray(y) == Above(y) \cap folded # {}
  IN \A k \in DOMAIN walk :
       LET Goes(to) == SwitchFocusTo(walk[k], to) IN
       /\ Goes("DOWN") = IF k = Len(walk) THEN Nil ELSE walk[k + 1]
       /\ Goes("PAGE_DOWN") = At(k + PageStep)
       /\ Goes("LEFT") \in met
       /\ Goes("TO_BEGIN") = walk[1]
       /\ \/ Goes("UP") = At(k - 1)
          \/ /\ Astray(Goes("UP"))
             /\ walk[k - 1] \in folded /\ tree.prev[walk[k]] # walk[k - 1]
       /\ \/ Goes("TO_END") = walk[Len(walk)]
          \/ Astray(Goes("TO_END")) /\ walk[Len(walk)] \in folded
       /\ Goes("PAGE_UP") = At(k - PageStep) \/ \E j \in 1..k - 1 : walk[j] \in folded

\* A search that is over has hidden nothing for good (doSearch, leaveSearch),
\* unless something was folded or moved meanwhile.  An item that the redone
\* creation left out of the tree may have been hidden, too, when a redone move
\* brings it back.
SearchLeavesAll == ~searching /\ ~upset => blank \cap OnScreen = {}

\* Focus and search meet what the user sees, in the order it is shown, and
\* leave everything seen.
WalksMeetUnfolded == WalkIsUnfolded /\ FocusFollowsWalk /\ SearchLeavesAll

\* An item that stayed with one parent is hidden exactly while that parent is
\* folded (setFold, addChild), however it was undone, redone and folded: what is
\* missing on the screen is what the user folded away.
FoldHides == \A x \in OnScreen \ moved :
  x \in hidden <=> tree.parent[x] \in folded
===============================================================================
