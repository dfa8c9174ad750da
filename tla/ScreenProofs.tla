---------------------------- MODULE ScreenProofs -----------------------------
(***************************************************************************)
(* What the user sees of a document.  Undo and redo bring back what was    *)
(* shown: ClientDocument implements EditHistory, and the screen shows the  *)
(* document, until a creation is redone.  Folds hide what is below them,   *)
(* whatever is done, undone and redone.                                    *)
(*                                                                         *)
(* The invariant for undo and redo keeps the whole document, not only the  *)
(* view of it, as it was when each listed action was made and as it was    *)
(* when each was undone: taking an item out and linking it at the place    *)
(* captured before are inverse to each other, pointer by pointer.          *)
(***************************************************************************)
EXTENDS ClientDocumentHistory, ItemView, ClientDocumentProofs

Views == UNION {[N -> [child : ItemOrNil, next : ItemOrNil, text : Text]] : N \in SUBSET Node}

\* There is a view for each entry.
Counted == /\ before \in Seq(Views) /\ Len(before) = Len(actionList)
           /\ after \in Seq(Views) /\ Len(after) = Len(redoActionList)
           /\ remade \in BOOLEAN
HistoryKnown == ~remade => Screened /\ \E V, W :
  /\ Behind(V) /\ \A k \in 1..Len(actionList) : before[k] = View(V[k - 1])
  /\ Ahead(W) /\ \A k \in 1..Len(redoActionList) : after[k] = View(W[k - 1])

\* The view of a document is one.
LEMMA ViewTyped ==
  ASSUME NEW s \in Doc
  PROVE  View(s) \in Views
<1>1. PICK N \in SUBSET Node : N = InTree(s.tree)
  BY DEF InTree
<1>2. s.tree \in Tree /\ s.text \in [Item -> Text]
  BY DEF Doc
<1>3. \A x \in N : /\ s.tree.firstChild[x] \in ItemOrNil /\ s.tree.next[x] \in ItemOrNil
                   /\ (IF x = Root THEN EmptyText ELSE s.text[x]) \in Text
  BY <1>2, TextAssumption DEF Tree, Item
<1>4. View(s) \in [N -> [child : ItemOrNil, next : ItemOrNil, text : Text]]
  BY <1>1, <1>3 DEF View
<1>5. QED BY <1>4 DEF Views

\* What the user sees is the view of the document.
LEMMA ViewShown == DocumentView = View(Current)
BY DEF DocumentView, View, Current

\* It is one in every state.
LEMMA SeenTyped ==
  ASSUME IndInv
  PROVE  DocumentView \in Views
<1>1. PICK N \in SUBSET Node : N = InTree(tree)
  BY DEF InTree
<1>2. tree \in Tree /\ text \in [Item -> Text]
  BY DEF IndInv, TypeOK
<1>3. \A x \in N : /\ tree.firstChild[x] \in ItemOrNil /\ tree.next[x] \in ItemOrNil
                   /\ (IF x = Root THEN EmptyText ELSE text[x]) \in Text
  BY <1>2, TextAssumption DEF Tree, Item
<1>4. DocumentView \in [N -> [child : ItemOrNil, next : ItemOrNil, text : Text]]
  BY <1>1, <1>3 DEF DocumentView
<1>5. QED BY <1>4 DEF Views

\* One view more.
LEMMA ViewsGrow ==
  ASSUME NEW n \in Nat, NEW seen \in Seq(Views), Len(seen) = n, NEW V, NEW U,
         \A k \in 1..n : seen[k] = View(V[k - 1]), \A k \in 0..n : View(U[k]) = View(V[k]),
         View(V[n]) \in Views
  PROVE  \A k \in 1..n + 1 : Append(seen, View(V[n]))[k] = View(U[k - 1])
<1>1. PICK v \in Views : v = View(V[n])
  OBVIOUS
<1>2. Append(seen, v)[n + 1] = v /\ \A k \in 1..n : Append(seen, v)[k] = seen[k]
  BY PushProperties
<1>3. ASSUME NEW k \in 1..n PROVE Append(seen, v)[k] = View(U[k - 1])
  <2>1. k - 1 \in 0..n
    OBVIOUS
  <2>2. QED BY <1>2, <2>1
<1>4. Append(seen, v)[n + 1] = View(U[(n + 1) - 1])
  <2>1. (n + 1) - 1 = n /\ n \in 0..n
    OBVIOUS
  <2>2. QED BY <1>1, <1>2, <2>1
<1>5. \A k \in 1..n + 1 : k \in 1..n \/ k = n + 1
  OBVIOUS
<1>6. QED BY <1>1, <1>3, <1>4, <1>5

\* One view less.
LEMMA ViewsShrink ==
  ASSUME NEW n \in Nat, NEW seen \in Seq(Views), Len(seen) = n, n > 0
  PROVE  Len(Pop(seen)) = n - 1 /\ \A k \in 1..n - 1 : Pop(seen)[k] = seen[k]
<1>1. seen # <<>>
  OBVIOUS
<1>2. QED BY <1>1, PopProperties DEF Pop

\* Until a creation is redone the lists know what is behind them.
LEMMA KnownHeld ==
  ASSUME IndInv, HistoryKnown, ~remade
  PROVE  Held
BY DEF HistoryKnown, Held

---------------------------------------------------------------------------
(* The steps.                                                              *)

\* What the lists know is kept by a command.
LEMMA CommandRemembers ==
  ASSUME IndInv, IndInv', Counted, HistoryKnown, Command,
         before' = Append(before, DocumentView), after' = <<>>, UNCHANGED remade
  PROVE  Counted' /\ HistoryKnown'
<1>1. PICK x : Commanded(x)
  BY CommandMakes
<1>2. PICK i \in Item : Make(x, i) /\ actionList' = Append(actionList, On(x, i))
  BY <1>1 DEF Commanded, DoAction
<1>3. Makeable(x) /\ redoActionList' = <<>>
  BY <1>1 DEF Commanded, DoAction
<1>4. Counted'
  <2>1. On(x, i) \in Action
    BY <1>2, <1>3, Parts, MakeKeeps DEF IndInv
  <2>2. PICK y \in Action : y = On(x, i)
    BY <2>1
  <2>3. Len(actionList') = Len(actionList) + 1
    BY <1>2, <2>2, PushProperties DEF IndInv, TypeOK
  <2>4. before' \in Seq(Views) /\ Len(before') = Len(before) + 1
    BY SeenTyped, PushProperties DEF Counted
  <2>5. after' \in Seq(Views) /\ Len(after') = Len(redoActionList')
    BY <1>3
  <2>6. QED BY <2>3, <2>4, <2>5 DEF Counted
<1>5. ASSUME ~remade
      PROVE  Screened' /\ \E V, W :
               /\ Behind(V)' /\ \A k \in 1..Len(actionList') : before'[k] = View(V[k - 1])
               /\ Ahead(W)' /\ \A k \in 1..Len(redoActionList') : after'[k] = View(W[k - 1])
  <2>1. PICK V : Behind(V) /\ \A k \in 1..Len(actionList) : before[k] = View(V[k - 1])
    BY <1>5 DEF HistoryKnown
  <2>2. Held
    BY <1>5, KnownHeld
  <2>3. Screened'
    BY <2>2, CommandHeld DEF Held
  <2>4. Screened /\ Hung(tree) /\ Fresh(Current)
    BY <2>2, HeldShows
  <2>5. /\ Did(On(x, i), FoundBy(x, i), Current') /\ Current' \in Doc /\ Fresh(Current)'
    BY <1>1, <1>2, <2>4, CommandDid
  <2>6. PICK U : Behind(U)' /\ \A k \in 0..Len(actionList) : View(U[k]) = View(V[k])
    BY <1>2, <1>3, <2>1, <2>5, BehindGrows
  <2>7. \A k \in 1..Len(actionList') : before'[k] = View(U[k - 1])
    <3>1. PICK n \in Nat : n = Len(actionList)
      BY DEF IndInv, TypeOK
    <3>2. before \in Seq(Views) /\ Len(before) = n
      BY <3>1 DEF Counted
    <3>3. /\ \A k \in 1..n : before[k] = View(V[k - 1])
          /\ \A k \in 0..n : View(U[k]) = View(V[k])
      BY <2>1, <2>6, <3>1
    <3>4. DocumentView = View(V[n]) /\ View(V[n]) \in Views
      BY <2>1, <3>1, ViewShown, SeenTyped DEF Behind
    <3>5. \A k \in 1..n + 1 : Append(before, View(V[n]))[k] = View(U[k - 1])
      BY <3>2, <3>3, <3>4, ViewsGrow
    <3>6. Len(actionList') = n + 1
      <4>1. On(x, i) \in Action
        BY <1>2, <1>3, Parts, MakeKeeps DEF IndInv
      <4>2. QED BY <1>2, <3>1, <4>1, PushProperties DEF IndInv, TypeOK
    <3>7. QED BY <3>4, <3>5, <3>6
  <2>8. PICK W : Ahead(W)'
    BY <1>3, <2>5, AheadEnds
  <2>9. \A k \in 1..Len(redoActionList') : FALSE
    BY <1>3
  <2>10. QED BY <2>3, <2>6, <2>7, <2>8, <2>9
<1>6. QED BY <1>4, <1>5 DEF HistoryKnown

\* And by an undo, which goes back to the view of its entry.
LEMMA UndoRemembers ==
  ASSUME IndInv, IndInv', Counted, HistoryKnown, UndoLastAction,
         before' = Pop(before), after' = Append(after, DocumentView), UNCHANGED remade
  PROVE  /\ Counted' /\ HistoryKnown'
         /\ before # <<>> /\ (~remade => DocumentView' = before[Len(before)])
<1>1. actionList \in Seq(Action) /\ redoActionList \in Seq(Action) /\ actionList # <<>>
  BY DEF IndInv, TypeOK, UndoLastAction
<1>2. before # <<>>
  BY <1>1 DEF Counted
<1>3. Counted'
  <2>1. Len(actionList') = Len(actionList) - 1
    BY <1>1, PopProperties DEF UndoLastAction
  <2>2. before' \in Seq(Views) /\ Len(before') = Len(before) - 1
    BY <1>2, PopProperties DEF Counted, Pop
  <2>3. after' \in Seq(Views) /\ Len(after') = Len(after) + 1
    BY SeenTyped, PushProperties DEF Counted
  <2>4. PICK n \in Nat, x \in Action : n = Len(actionList) /\ x = actionList[n]
    BY <1>1, PopProperties
  <2>5. Len(redoActionList') = Len(redoActionList) + 1
    BY <1>1, <2>4, PushProperties DEF UndoLastAction
  <2>6. QED BY <2>1, <2>2, <2>3, <2>5 DEF Counted
<1>4. ASSUME ~remade
      PROVE  /\ Screened' /\ \E V, W :
                  /\ Behind(V)' /\ \A k \in 1..Len(actionList') : before'[k] = View(V[k - 1])
                  /\ Ahead(W)' /\ \A k \in 1..Len(redoActionList') : after'[k] = View(W[k - 1])
             /\ DocumentView' = before[Len(before)]
  <2>1. PICK V, W :
          /\ Behind(V) /\ \A k \in 1..Len(actionList) : before[k] = View(V[k - 1])
          /\ Ahead(W) /\ \A k \in 1..Len(redoActionList) : after[k] = View(W[k - 1])
    BY <1>4 DEF HistoryKnown
  <2>2. PICK n \in Nat : n = Len(actionList) /\ n > 0
    BY <1>1
  <2>3. /\ Behind(V)' /\ Current' = V[n - 1]
        /\ Current' \in Doc /\ heap' = heap /\ Fresh(Current)'
    BY <2>1, <2>2, BehindShrinks
  <2>4. Screened'
    BY <1>4, KnownHeld, UndoHeld DEF Held
  <2>5. DocumentView' = View(V[n - 1])
    BY <2>3, ViewShown DEF DocumentView, View, Current
  <2>6. /\ DocumentView' = before[Len(before)]
        /\ \A k \in 1..Len(actionList') : before'[k] = View(V[k - 1])
    <3>1. before \in Seq(Views) /\ Len(before) = n
      BY <2>2 DEF Counted
    <3>2. Len(actionList') = n - 1
      BY <1>1, <2>2, PopProperties DEF UndoLastAction
    <3>3. \A k \in 1..n - 1 : before'[k] = before[k]
      BY <2>2, <3>1, ViewsShrink
    <3>4. n \in 1..n /\ \A k \in 1..n - 1 : k \in 1..n
      BY <2>2
    <3>5. \A k \in 1..n : before[k] = View(V[k - 1])
      BY <2>1, <2>2
    <3>6. QED BY <2>5, <3>1, <3>2, <3>3, <3>4, <3>5
  <2>7. PICK x \in Action : /\ Did(x, Current', Current)
                            /\ redoActionList' = Append(redoActionList, x)
    BY <2>1, BehindShrinks
  <2>8. PICK U : Ahead(U)' /\ \A k \in 0..Len(redoActionList) : U[k] = W[k]
    BY <2>1, <2>3, <2>7, AheadGrows
  <2>9. \A k \in 1..Len(redoActionList') : after'[k] = View(U[k - 1])
    <3>1. PICK m \in Nat : m = Len(redoActionList)
      BY <1>1
    <3>2. after \in Seq(Views) /\ Len(after) = m
      BY <3>1 DEF Counted
    <3>3. /\ \A k \in 1..m : after[k] = View(W[k - 1])
          /\ \A k \in 0..m : View(U[k]) = View(W[k])
      BY <2>1, <2>8, <3>1
    <3>4. DocumentView = View(W[m]) /\ View(W[m]) \in Views
      BY <2>1, <3>1, ViewShown, SeenTyped DEF Ahead
    <3>5. \A k \in 1..m + 1 : Append(after, View(W[m]))[k] = View(U[k - 1])
      BY <3>2, <3>3, <3>4, ViewsGrow
    <3>6. Len(redoActionList') = m + 1
      BY <1>1, <2>7, <3>1, PushProperties
    <3>7. QED BY <3>4, <3>5, <3>6
  <2>10. QED BY <2>3, <2>4, <2>6, <2>8, <2>9
<1>5. QED BY <1>2, <1>3, <1>4 DEF HistoryKnown

\* And by a redo, which goes back to the view its entry was undone in.
LEMMA RedoRemembers ==
  ASSUME IndInv, IndInv', Counted, HistoryKnown, RedoAction,
         before' = Append(before, DocumentView), after' = Pop(after),
         remade' = (remade \/ Last(redoActionList).kind = "create")
  PROVE  /\ Counted' /\ HistoryKnown'
         /\ after # <<>> /\ (~remade' => DocumentView' = after[Len(after)])
<1>1. actionList \in Seq(Action) /\ redoActionList \in Seq(Action) /\ redoActionList # <<>>
  BY DEF IndInv, TypeOK, RedoAction
<1>2. PICK x : x = Last(redoActionList)
  OBVIOUS
<1>3. PICK i \in Item : Make(x, i) /\ actionList' = Append(actionList, On(x, i))
  BY <1>2 DEF RedoAction, Last
<1>4. redoActionList' = SubSeq(redoActionList, 1, Len(redoActionList) - 1)
  BY DEF RedoAction
<1>5. after # <<>>
  BY <1>1 DEF Counted
<1>6. Counted'
  <2>1. Len(redoActionList') = Len(redoActionList) - 1
    BY <1>1, <1>4, PopProperties
  <2>2. after' \in Seq(Views) /\ Len(after') = Len(after) - 1
    BY <1>5, PopProperties DEF Counted, Pop
  <2>3. before' \in Seq(Views) /\ Len(before') = Len(before) + 1
    BY SeenTyped, PushProperties DEF Counted
  <2>4. Len(actionList') = Len(actionList) + 1
    BY <1>1, <1>3
  <2>5. remade' \in BOOLEAN
    OBVIOUS
  <2>6. QED BY <2>1, <2>2, <2>3, <2>4, <2>5 DEF Counted
<1>7. ASSUME ~remade'
      PROVE  /\ Screened' /\ \E V, W :
                  /\ Behind(V)' /\ \A k \in 1..Len(actionList') : before'[k] = View(V[k - 1])
                  /\ Ahead(W)' /\ \A k \in 1..Len(redoActionList') : after'[k] = View(W[k - 1])
             /\ DocumentView' = after[Len(after)]
  <2>1. ~remade /\ x.kind # "create"
    BY <1>2, <1>7
  <2>2. PICK V, W :
          /\ Behind(V) /\ \A k \in 1..Len(actionList) : before[k] = View(V[k - 1])
          /\ Ahead(W) /\ \A k \in 1..Len(redoActionList) : after[k] = View(W[k - 1])
    BY <2>1 DEF HistoryKnown
  <2>3. PICK m \in Nat : m = Len(redoActionList) /\ m > 0
    BY <1>1
  <2>4. /\ Makeable(x) /\ Did(x, Current, Current') /\ Current' \in Doc /\ Fresh(Current)'
        /\ Ahead(W)' /\ Current' = W[m - 1]
    BY <1>1, <1>2, <1>3, <1>4, <2>1, <2>2, <2>3, AheadShrinks
  <2>5. Screened'
    BY <1>2, <2>1, KnownHeld, RedoHeld DEF Held
  <2>6. DocumentView' = View(W[m - 1])
    BY <2>4, ViewShown DEF DocumentView, View, Current
  <2>7. /\ DocumentView' = after[Len(after)]
        /\ \A k \in 1..Len(redoActionList') : after'[k] = View(W[k - 1])
    <3>1. after \in Seq(Views) /\ Len(after) = m
      BY <2>3 DEF Counted
    <3>2. Len(redoActionList') = m - 1
      BY <1>1, <1>4, <2>3, PopProperties
    <3>3. \A k \in 1..m - 1 : after'[k] = after[k]
      BY <2>3, <3>1, ViewsShrink
    <3>4. m \in 1..m /\ \A k \in 1..m - 1 : k \in 1..m
      BY <2>3
    <3>5. \A k \in 1..m : after[k] = View(W[k - 1])
      BY <2>2, <2>3
    <3>6. QED BY <2>6, <3>1, <3>2, <3>3, <3>4, <3>5
  <2>8. On(x, i) = x /\ FoundBy(x, i) = Current
    BY <2>1 DEF On, FoundBy
  <2>9. PICK U : Behind(U)' /\ \A k \in 0..Len(actionList) : View(U[k]) = View(V[k])
    BY <1>3, <2>2, <2>4, <2>8, BehindGrows
  <2>10. \A k \in 1..Len(actionList') : before'[k] = View(U[k - 1])
    <3>1. PICK n \in Nat : n = Len(actionList)
      BY <1>1
    <3>2. before \in Seq(Views) /\ Len(before) = n
      BY <3>1 DEF Counted
    <3>3. /\ \A k \in 1..n : before[k] = View(V[k - 1])
          /\ \A k \in 0..n : View(U[k]) = View(V[k])
      BY <2>2, <2>9, <3>1
    <3>4. DocumentView = View(V[n]) /\ View(V[n]) \in Views
      BY <2>2, <3>1, ViewShown, SeenTyped DEF Behind
    <3>5. \A k \in 1..n + 1 : Append(before, View(V[n]))[k] = View(U[k - 1])
      BY <3>2, <3>3, <3>4, ViewsGrow
    <3>6. Len(actionList') = n + 1
      BY <1>1, <1>3, <3>1
    <3>7. QED BY <3>4, <3>5, <3>6
  <2>11. QED BY <2>4, <2>5, <2>7, <2>9, <2>10
<1>8. QED BY <1>5, <1>6, <1>7 DEF HistoryKnown

\* A loaded document has nothing behind it, and all of it is on the screen.
LEMMA InitRemembers ==
  ASSUME HInit
  PROVE  Counted /\ HistoryKnown
<1>1. /\ IndInv /\ tree \in InitialTrees /\ heap = InTree(tree)
      /\ text = [x \in Item |-> EmptyText]
      /\ actionList = <<>> /\ redoActionList = <<>> /\ before = <<>> /\ after = <<>>
      /\ plugged = [x \in Item |-> x \in heap] /\ remade = FALSE
  BY InitInv DEF HInit, Init
<1>2. Counted
  <2>1. \A e : e = <<>> => e \in Seq(Views) /\ Len(e) = 0
    OBVIOUS
  <2>2. Len(actionList) = Len(before) /\ Len(redoActionList) = Len(after)
    BY <1>1
  <2>3. remade \in BOOLEAN
    BY <1>1
  <2>4. QED BY <1>1, <2>1, <2>2, <2>3 DEF Counted
<1>3. \A x \in Item \ heap : Unlinked(tree, x) /\ text[x] = EmptyText
  BY <1>1, InitialTreesAssumption
<1>4. Held
  BY <1>1, <1>3, HeldBegins
<1>5. /\ Len(actionList) = 0 /\ Len(redoActionList) = 0
      /\ \A k \in 1..Len(actionList) : FALSE
      /\ \A k \in 1..Len(redoActionList) : FALSE
  BY <1>1
<1>6. QED BY <1>2, <1>4, <1>5 DEF HistoryKnown, Held

\* Saving and stuttering change no view.
LEMMA StillRemembers ==
  ASSUME Counted, HistoryKnown, UNCHANGED historyVars,
         UNCHANGED <<tree, text, heap, actionList, redoActionList, plugged>>
  PROVE  Counted' /\ HistoryKnown' /\ DocumentView' = DocumentView
<1>1. UNCHANGED <<before, after, remade>>
  BY DEF historyVars
<1>2. Counted'
  BY <1>1 DEF Counted
<1>3. DocumentView' = DocumentView
  BY DEF DocumentView
<1>4. ASSUME NEW V, NEW W, Behind(V), Ahead(W) PROVE Behind(V)' /\ Ahead(W)'
  BY <1>1, <1>4 DEF Behind, Ahead, Fresh, Current
<1>5. Screened => Screened'
  BY DEF Screened
<1>6. HistoryKnown'
  BY <1>1, <1>4, <1>5 DEF HistoryKnown
<1>7. QED BY <1>2, <1>3, <1>6

---------------------------------------------------------------------------
(* What follows.                                                           *)

\* Every step keeps what the lists and the views know.
LEMMA StepRemembers ==
  ASSUME IndInv, IndInv', Counted, HistoryKnown, [HNext]_<<vars, historyVars>>
  PROVE  Counted' /\ HistoryKnown'
<1>1. CASE Command /\ before' = Append(before, DocumentView) /\ after' = <<>> /\ UNCHANGED remade
  BY <1>1, CommandRemembers
<1>2. CASE UndoLastAction /\ before' = Pop(before) /\ after' = Append(after, DocumentView)
                          /\ UNCHANGED remade
  BY <1>2, UndoRemembers
<1>3. CASE /\ RedoAction
           /\ before' = Append(before, DocumentView)
           /\ after' = Pop(after)
           /\ remade' = (remade \/ Last(redoActionList).kind = "create")
  BY <1>3, RedoRemembers
<1>4. CASE Save /\ UNCHANGED historyVars
  BY <1>4, StillRemembers DEF Save
<1>5. CASE UNCHANGED <<vars, historyVars>>
  BY <1>5, StillRemembers DEF vars, docVars
<1>6. QED BY <1>1, <1>2, <1>3, <1>4, <1>5 DEF HNext

\* The history variables change nothing of the document.
LEMMA HistoryOnly ==
  ASSUME IndInv, [HNext]_<<vars, historyVars>>
  PROVE  IndInv'
<1>1. [Next]_vars
  BY DEF HNext, Next
<1>2. QED BY <1>1, CommandKeeps, SaveKeeps, UndoKeeps, RedoKeeps, StutterKeeps DEF Next

\* A step is one of the abstract specification, or leaves the view alone.
LEMMA StepImplements ==
  ASSUME IndInv, IndInv', Counted, HistoryKnown, [HNext]_<<vars, historyVars>>
  PROVE  [EH!Next]_(EH!vars)
<1>1. CASE Command /\ before' = Append(before, DocumentView) /\ after' = <<>> /\ UNCHANGED remade
  BY <1>1 DEF EH!Next, EH!Command
<1>2. CASE UndoLastAction /\ before' = Pop(before) /\ after' = Append(after, DocumentView)
                          /\ UNCHANGED remade
  <2>1. before # <<>> /\ (~remade => DocumentView' = before[Len(before)])
    BY <1>2, UndoRemembers
  <2>2. remade \in BOOLEAN
    BY DEF Counted
  <2>3. EH!Undo
    BY <1>2, <2>1, <2>2 DEF EH!Undo, EH!Pop, EH!Top, Pop
  <2>4. QED BY <2>3 DEF EH!Next
<1>3. CASE /\ RedoAction
           /\ before' = Append(before, DocumentView)
           /\ after' = Pop(after)
           /\ remade' = (remade \/ Last(redoActionList).kind = "create")
  <2>1. after # <<>> /\ (~remade' => DocumentView' = after[Len(after)])
    BY <1>3, RedoRemembers
  <2>2. remade \in BOOLEAN
    BY DEF Counted
  <2>3. CASE remade' = remade
    <3>1. EH!Redo
      BY <1>3, <2>1, <2>2, <2>3 DEF EH!Redo, EH!Pop, EH!Top, Pop
    <3>2. QED BY <3>1 DEF EH!Next
  <2>4. CASE remade' # remade
    <3>1. remade' = TRUE
      BY <1>3, <2>2, <2>4
    <3>2. EH!RedoCreation
      BY <1>3, <2>1, <3>1 DEF EH!RedoCreation, EH!Pop, Pop
    <3>3. QED BY <3>2 DEF EH!Next
  <2>5. QED BY <2>3, <2>4
<1>4. CASE Save /\ UNCHANGED historyVars
  <2>1. DocumentView' = DocumentView
    BY <1>4, StillRemembers DEF Save
  <2>2. QED BY <1>4, <2>1 DEF historyVars, EH!vars
<1>5. CASE UNCHANGED <<vars, historyVars>>
  <2>1. DocumentView' = DocumentView
    BY <1>5, StillRemembers DEF vars, docVars
  <2>2. QED BY <1>5, <2>1 DEF historyVars, EH!vars
<1>6. QED BY <1>1, <1>2, <1>3, <1>4, <1>5 DEF HNext

\* Undo shows the user exactly what the last command found, and redo what the
\* last undo left, whatever was done in between (undoLastAction, redoAction and
\* the revert and make of every ClientAction), until a creation is redone.
THEOREM HistoryImplemented == HSpec => ImplementsEditHistory
<1>1. HInit => IndInv /\ Counted /\ HistoryKnown
  BY InitInv, InitRemembers DEF HInit
<1>2. IndInv /\ Counted /\ HistoryKnown /\ [HNext]_<<vars, historyVars>>
      => IndInv' /\ Counted' /\ HistoryKnown'
  BY HistoryOnly, StepRemembers
<1>3. HInit => EH!Init
  BY DEF HInit, EH!Init
<1>4. IndInv /\ IndInv' /\ Counted /\ HistoryKnown /\ [HNext]_<<vars, historyVars>>
      => [EH!Next]_(EH!vars)
  BY StepImplements
<1>5. QED BY <1>1, <1>2, <1>3, <1>4, PTL DEF HSpec, ImplementsEditHistory, EH!Spec
\* The screen shows exactly the document, all of it and nothing else (the tree
\* of items against the tree of their widgets), until a creation is redone.
THEOREM ScreenAlwaysDocument == HSpec => []ScreenIsDocument
<1>1. HInit => IndInv /\ Counted /\ HistoryKnown
  BY InitInv, InitRemembers DEF HInit
<1>2. IndInv /\ Counted /\ HistoryKnown /\ [HNext]_<<vars, historyVars>>
      => IndInv' /\ Counted' /\ HistoryKnown'
  BY HistoryOnly, StepRemembers
<1>3. IndInv /\ Counted /\ HistoryKnown => ScreenIsDocument
  <2>1. SUFFICES ASSUME IndInv, Counted, HistoryKnown, ~remade
                 PROVE  OnScreen = InTree(tree) \ {Root}
    BY DEF ScreenIsDocument, Counted
  <2>2. QED BY <2>1, KnownHeld, HeldShows
<1>4. QED BY <1>1, <1>2, <1>3, PTL DEF HSpec

---------------------------------------------------------------------------
(* Folds and searches: ItemView.                                           *)

\* Every step of the view is one of the document or leaves it alone.
LEMMA ViewStepsOfDocument ==
  ASSUME [ViewNext]_<<vars, viewVars>>
  PROVE  [Next]_vars
BY DEF ViewNext, Edit, Fold, Search, LeaveSearch, Next

\* The inductive invariant of the document holds among folds and searches.
THEOREM ViewKeepsDocument == ViewSpec => []IndInv
<1>1. ViewInit => IndInv
  BY InitInv DEF ViewInit
<1>2. IndInv /\ [ViewNext]_<<vars, viewVars>> => IndInv'
  BY ViewStepsOfDocument, CommandKeeps, SaveKeeps, UndoKeeps, RedoKeeps, StutterKeeps DEF Next
<1>3. QED BY <1>1, <1>2, PTL DEF ViewSpec

---------------------------------------------------------------------------
(* Widgets.                                                                *)

\* The widget of x sits where it always did, its parent's widget knows, and it
\* is hidden as the fold of the parent says.
InPlace(x) == /\ \A p \in Item : x \in children[p] <=> p = tree.parent[x]
              /\ x \in hidden <=> tree.parent[x] \in folded

\* An item that was plugged in twice in different places is left out, and one
\* that would be below itself: nothing shows it.
Stays(x) == plugged[x] /\ x \notin moved /\ tree.parent[x] # x

FoldInv == /\ folded \subseteq Item /\ hidden \subseteq Item /\ moved \subseteq Item
           /\ children \in [Item -> SUBSET Item]
           /\ \A x \in Item : Stays(x) => InPlace(x)

\* The parents after an item was linked, and after it was taken out first.
LEMMA ParentLinked ==
  ASSUME NEW t \in Tree, NEW p \in Node, NEW i \in Item, NEW b
  PROVE  /\ AddAsChild(t, p, i, b).parent = [t.parent EXCEPT ![i] = p]
         /\ AddAsChild(DetachFromTree(t, i), p, i, b).parent = [t.parent EXCEPT ![i] = p]
         /\ DetachFromTree(t, i).parent = t.parent
BY DEF AddAsChild, InsertAfter, DetachFromTree

\* The widget of i is made anew, below p's.
Added(i, p) == /\ tree'.parent = [tree.parent EXCEPT ![i] = p]
               /\ plugged' = AddWidget(i)
               /\ WidgetAdded(i, p)

\* It is taken out.
TakenOut(i) == /\ tree'.parent = tree.parent
               /\ plugged' = UnplagItem(i)
               /\ WidgetRemoved(i, tree.parent[i])

\* It is plugged in below p's, as it is.
Shifted(i, p) == /\ tree'.parent = [tree.parent EXCEPT ![i] = p]
                 /\ plugged' = UpdateItemPosition(i)
                 /\ WidgetMoved(i, p)

Untouched == tree' = tree /\ plugged' = plugged
             /\ UNCHANGED <<children, hidden, blank, moved, upset>>

\* What the screen does for a signal.
LEMMA SignalShown ==
  ASSUME NEW n, NEW i, signals'[1] = Sig(n, i), ScreenFollows
  PROVE  /\ n = "itemAdded" => WidgetAdded(i, tree'.parent[i])
         /\ n = "itemDeleted" => WidgetRemoved(i, tree'.parent[i])
         /\ n = "itemModified" => WidgetMoved(i, tree'.parent[i])
         /\ n = "itemTextChanged" => UNCHANGED <<children, hidden, blank, moved, upset>>
<1>1. signals'[1].name = n /\ signals'[1].item = i
  BY DEF Sig
<1>2. QED BY <1>1 DEF ScreenFollows

\* A new item is shown, or an item is put back.
LEMMA AddShown ==
  ASSUME tree \in Tree, ScreenFollows, NEW p \in Node, NEW i \in Item, NEW b,
         MakeCreate(p, i, b) \/ AddItem(i, p, b)
  PROVE  Added(i, p)
<1>1. tree' = AddAsChild(tree, p, i, b) /\ plugged' = AddWidget(i)
  BY DEF MakeCreate, AddItem
<1>2. signals'[1] = Sig("itemAdded", i)
  BY DEF MakeCreate, AddItem
<1>3. tree'.parent = [tree.parent EXCEPT ![i] = p] /\ tree'.parent[i] = p
  BY <1>1, ParentLinked DEF Tree, Item
<1>4. WidgetAdded(i, p)
  BY <1>2, <1>3, SignalShown
<1>5. QED BY <1>1, <1>3, <1>4 DEF Added

\* An item is taken off the screen.
LEMMA DetachShown ==
  ASSUME tree \in Tree, ScreenFollows, NEW i \in Item, DetachItem(i)
  PROVE  TakenOut(i)
<1>1. tree' = DetachFromTree(tree, i) /\ plugged' = UnplagItem(i)
  BY DEF DetachItem
<1>2. signals'[1] = Sig("itemDeleted", i)
  BY DEF DetachItem
<1>3. tree'.parent = tree.parent
  BY <1>1 DEF DetachFromTree
<1>4. WidgetRemoved(i, tree.parent[i])
  BY <1>2, <1>3, SignalShown
<1>5. QED BY <1>1, <1>3, <1>4 DEF TakenOut

\* An item is plugged in again.
LEMMA MoveShown ==
  ASSUME tree \in Tree, ScreenFollows, NEW p \in Node, NEW i \in Item, NEW b, MakeMove(i, p, b)
  PROVE  Shifted(i, p)
<1>1. tree' = AddAsChild(DetachFromTree(tree, i), p, i, b) /\ plugged' = UpdateItemPosition(i)
  BY DEF MakeMove
<1>2. signals'[1] = Sig("itemModified", i)
  BY DEF MakeMove
<1>3. tree'.parent = [tree.parent EXCEPT ![i] = p] /\ tree'.parent[i] = p
  BY <1>1, ParentLinked DEF Tree, Item
<1>4. WidgetMoved(i, p)
  BY <1>2, <1>3, SignalShown
<1>5. QED BY <1>1, <1>3, <1>4 DEF Shifted

\* A text changes no place.
LEMMA EditShown ==
  ASSUME ScreenFollows, NEW i, NEW s, MakeEdit(i, s)
  PROVE  Untouched
<1>1. signals'[1] = Sig("itemTextChanged", i) /\ tree' = tree /\ plugged' = plugged
  BY DEF MakeEdit
<1>2. QED BY <1>1, SignalShown DEF Untouched

\* What a step that made or reverted an action did to the screen.
Shown == \/ \E i \in Item, p \in Node : Added(i, p) \/ Shifted(i, p)
         \/ \E i \in Item : TakenOut(i)
         \/ Untouched

\* A command or a redo changes the screen in one of these ways.
LEMMA MakeShown ==
  ASSUME tree \in Tree, heap \subseteq Node, ScreenFollows, NEW x, Makeable(x),
         NEW i \in Item, Make(x, i)
  PROVE  Shown
<1>1. CASE x.kind = "create" /\ MakeCreate(x.parent, i, x.prev)
  <2>1. x.kind \notin {"delete", "edit", "move"}
    BY <1>1
  <2>2. x.parent \in Node
    BY <1>1, <2>1 DEF Makeable
  <2>3. Added(i, x.parent)
    BY <1>1, <2>2, AddShown
  <2>4. QED BY <2>2, <2>3 DEF Shown
<1>2. CASE x.kind = "delete" /\ DetachItem(i)
  BY <1>2, DetachShown DEF Shown
<1>3. CASE x.kind = "edit" /\ MakeEdit(i, x.after)
  BY <1>3, EditShown DEF Shown
<1>4. CASE x.kind = "move" /\ MakeMove(i, x.newParent, x.newPrev)
  <2>1. x.newParent \in Node
    BY <1>4 DEF Makeable, Action, CreateAction, DeleteAction, EditAction, MoveAction
  <2>2. Shifted(i, x.newParent)
    BY <1>4, <2>1, MoveShown
  <2>3. QED BY <2>1, <2>2 DEF Shown
<1>5. QED BY <1>1, <1>2, <1>3, <1>4 DEF Make

\* So does an undo.
LEMMA RevertShown ==
  ASSUME tree \in Tree, ScreenFollows, NEW x \in Action, Revert(x)
  PROVE  Shown
<1>1. x.item \in Item
  BY ActionItems
<1>2. CASE x.kind = "create" /\ DetachItem(x.item)
  BY <1>1, <1>2, DetachShown DEF Shown
<1>3. CASE x.kind = "delete" /\ AddItem(x.item, x.parent, x.prev)
  <2>1. x.parent \in Node
    BY <1>3 DEF Action, CreateAction, DeleteAction, EditAction, MoveAction
  <2>2. Added(x.item, x.parent)
    BY <1>1, <1>3, <2>1, AddShown
  <2>3. QED BY <1>1, <2>1, <2>2 DEF Shown
<1>4. CASE x.kind = "edit" /\ MakeEdit(x.item, x.before)
  BY <1>4, EditShown DEF Shown
<1>5. CASE x.kind = "move" /\ MakeMove(x.item, x.oldParent, x.oldPrev)
  <2>1. x.oldParent \in Node
    BY <1>5 DEF Action, CreateAction, DeleteAction, EditAction, MoveAction
  <2>2. Shifted(x.item, x.oldParent)
    BY <1>1, <1>5, <2>1, MoveShown
  <2>3. QED BY <1>1, <2>1, <2>2 DEF Shown
<1>6. QED BY <1>2, <1>3, <1>4, <1>5 DEF Revert

\* A command, an undo or a redo did one of these.
LEMMA EditShows ==
  ASSUME IndInv, Command \/ UndoLastAction \/ RedoAction, ScreenFollows
  PROVE  Shown
<1>1. /\ TypeOK /\ tree \in Tree /\ heap \subseteq Node
      /\ actionList \in Seq(Action) /\ redoActionList \in Seq(Action)
  BY DEF IndInv, TypeOK
<1>2. CASE Command
  <2>1. PICK x : Makeable(x) /\ DoAction(x)
    BY <1>2, CommandMakes DEF Commanded
  <2>2. PICK i \in Item : Make(x, i)
    BY <2>1 DEF DoAction
  <2>3. QED BY <1>1, <2>1, <2>2, MakeShown
<1>3. CASE UndoLastAction
  <2>1. actionList # <<>> /\ Revert(actionList[Len(actionList)])
    BY <1>3 DEF UndoLastAction
  <2>2. actionList[Len(actionList)] \in Action
    BY <1>1, <2>1, PopProperties
  <2>3. QED BY <1>1, <2>1, <2>2, RevertShown
<1>4. CASE RedoAction
  <2>1. redoActionList # <<>> /\ \E i \in Item : Make(redoActionList[Len(redoActionList)], i)
    BY <1>4 DEF RedoAction
  <2>2. PICK m, x : /\ m = Len(redoActionList) /\ x = redoActionList[m]
                    /\ m \in 1..Len(redoActionList) /\ x \in Action
    BY <1>1, <2>1, PopProperties
  <2>3. PICK i \in Item : Make(x, i)
    BY <2>1, <2>2
  <2>4. Makeable(x)
    <3>1. /\ {x.item} \cup Uses(x) \cup Parents(x) \subseteq heap
          /\ x.kind # "create" => x.item \notin Neighbours(x)
      BY <2>2 DEF IndInv, ListsAllocated
    <3>2. Allocated(x)
      BY <3>1 DEF Allocated
    <3>3. CASE x.kind # "create"
      BY <2>2, <3>2, <3>3 DEF Makeable
    <3>4. CASE x.kind = "create"
      <4>1. x.parent \in heap /\ x.prev \in ItemOrNil /\ x.prev \in heap \cup {Nil}
        BY <2>2, <3>1, <3>4
           DEF Action, CreateAction, DeleteAction, EditAction, MoveAction, Uses, Neighbours,
               Parents
      <4>2. QED BY <3>4, <4>1 DEF Makeable
    <3>5. QED BY <3>3, <3>4
  <2>5. QED BY <1>1, <2>3, <2>4, MakeShown
<1>5. QED BY <1>2, <1>3, <1>4

---------------------------------------------------------------------------
(* Each of these keeps the widgets in their places.                        *)

\* A new widget has no children, and its parent counts it.
LEMMA AddedKeeps ==
  ASSUME FoldInv, tree \in Tree, plugged \in [Item -> BOOLEAN], folded' = folded,
         NEW i \in Item, NEW p \in Node, Added(i, p)
  PROVE  FoldInv'
<1>1. /\ \A x \in Node : tree'.parent[x] = IF x = i THEN p ELSE tree.parent[x]
      /\ \A x \in Item : plugged'[x] = (x = i \/ (plugged[x] /\ tree'.parent[x] # i))
  BY DEF Added, Tree, AddWidget, Item
<1>2. /\ children' \in [Item -> SUBSET Item]
      /\ \A x \in Item : children'[x] = IF x = i THEN {}
                                        ELSE IF x = p THEN children[x] \cup {i} ELSE children[x] \ {i}
  BY DEF Added, WidgetAdded, FoldInv
<1>3. /\ hidden' = (IF p \in folded THEN hidden \cup {i} ELSE hidden)
                   \ (IF p \in folded THEN {} ELSE {i})
      /\ moved' = moved \ {i}
  BY DEF Added, WidgetAdded, AddChild
<1>4. ASSUME NEW x \in Item, Stays(x)' PROVE InPlace(x)'
  <2>1. x # i => Stays(x) /\ tree.parent[x] # i /\ tree'.parent[x] = tree.parent[x]
    BY <1>1, <1>3, <1>4 DEF Stays, Item
  <2>2. CASE x = i
    <3>1. p # i /\ tree'.parent[x] = p
      BY <1>1, <1>4, <2>2 DEF Stays, Item
    <3>2. \A q \in Item : x \in children'[q] <=> q = p
      BY <1>2, <2>2, <3>1
    <3>3. x \in hidden' <=> p \in folded
      BY <1>3, <2>2
    <3>4. QED BY <3>1, <3>2, <3>3 DEF InPlace
  <2>3. CASE x # i
    <3>1. InPlace(x)
      BY <2>1, <2>3 DEF FoldInv
    <3>2. \A q \in Item : x \in children'[q] <=> q = tree.parent[x]
      BY <1>2, <2>1, <2>3, <3>1 DEF InPlace
    <3>3. x \in hidden' <=> tree.parent[x] \in folded
      BY <1>3, <2>3, <3>1 DEF InPlace
    <3>4. QED BY <2>1, <2>3, <3>2, <3>3 DEF InPlace
  <2>4. QED BY <2>2, <2>3
<1>5. folded' \subseteq Item /\ hidden' \subseteq Item /\ moved' \subseteq Item
  BY <1>3 DEF FoldInv
<1>6. QED BY <1>2, <1>4, <1>5 DEF FoldInv

\* A widget that is let go of is counted by nobody.
LEMMA TakenOutKeeps ==
  ASSUME FoldInv, tree \in Tree, plugged \in [Item -> BOOLEAN], folded' = folded,
         NEW i \in Item, TakenOut(i)
  PROVE  FoldInv'
<1>1. /\ \A x \in Item : plugged'[x] = (x # i /\ plugged[x])
      /\ tree'.parent = tree.parent
  BY DEF TakenOut, UnplagItem
<1>2. /\ children' \in [Item -> SUBSET Item]
      /\ \A x \in Item : \A y \in Item \ {i} : y \in children'[x] <=> y \in children[x]
      /\ hidden' = hidden /\ moved' = moved
  BY DEF TakenOut, WidgetRemoved, FoldInv
<1>3. ASSUME NEW x \in Item, Stays(x)' PROVE InPlace(x)'
  <2>1. x # i /\ Stays(x)
    BY <1>1, <1>2, <1>3 DEF Stays
  <2>2. InPlace(x)
    BY <2>1 DEF FoldInv
  <2>3. QED BY <1>1, <1>2, <2>1, <2>2 DEF InPlace
<1>4. QED BY <1>2, <1>3 DEF FoldInv

\* A widget that moves is counted by its new parent as well.
LEMMA ShiftedKeeps ==
  ASSUME FoldInv, tree \in Tree, plugged \in [Item -> BOOLEAN], folded' = folded,
         NEW i \in Item, NEW p \in Node, Shifted(i, p)
  PROVE  FoldInv'
<1>1. /\ \A x \in Node : tree'.parent[x] = IF x = i THEN p ELSE tree.parent[x]
      /\ \A x \in Item : plugged'[x] = (x = i \/ plugged[x])
  BY DEF Shifted, Tree, UpdateItemPosition, Item
<1>2. /\ children' \in [Item -> SUBSET Item]
      /\ \A x \in Item : children'[x] = IF x = p THEN children[x] \cup {i} ELSE children[x]
  BY DEF Shifted, WidgetMoved, FoldInv
<1>3. /\ hidden' = IF p \in folded THEN hidden \cup {i} ELSE hidden
      /\ moved' = IF plugged[i] /\ tree.parent[i] = p THEN moved ELSE moved \cup {i}
  BY DEF Shifted, WidgetMoved, AddChild
<1>4. ASSUME NEW x \in Item, Stays(x)' PROVE InPlace(x)'
  <2>1. Stays(x) /\ tree'.parent[x] = tree.parent[x] /\ (x = i => tree.parent[x] = p)
    <3>1. x \notin moved' /\ tree'.parent[x] # x /\ plugged'[x]
      BY <1>4 DEF Stays
    <3>2. CASE x = i
      <4>1. plugged[i] /\ tree.parent[i] = p /\ i \notin moved
        BY <1>3, <3>1, <3>2
      <4>2. tree'.parent[i] = p
        BY <1>1 DEF Item
      <4>3. QED BY <3>1, <3>2, <4>1, <4>2 DEF Stays
    <3>3. CASE x # i
      <4>1. plugged[x] /\ tree'.parent[x] = tree.parent[x] /\ x \notin moved
        BY <1>1, <1>3, <3>1, <3>3 DEF Item
      <4>2. QED BY <3>1, <3>3, <4>1 DEF Stays
    <3>4. QED BY <3>2, <3>3
  <2>2. InPlace(x)
    BY <2>1 DEF FoldInv
  <2>3. \A q \in Item : x \in children'[q] <=> q = tree.parent[x]
    BY <1>2, <2>1, <2>2 DEF InPlace
  <2>4. x \in hidden' <=> tree.parent[x] \in folded
    BY <1>3, <2>1, <2>2 DEF InPlace
  <2>5. QED BY <2>1, <2>3, <2>4 DEF InPlace
<1>5. folded' \subseteq Item /\ hidden' \subseteq Item /\ moved' \subseteq Item
  BY <1>3 DEF FoldInv
<1>6. QED BY <1>2, <1>4, <1>5 DEF FoldInv

\* A command, an undo and a redo change the screen in these ways only.
LEMMA EditKeepsFolds ==
  ASSUME IndInv, FoldInv, Edit
  PROVE  FoldInv'
<1>1. Shown /\ folded' = folded
  BY EditShows DEF Edit
<1>2. tree \in Tree /\ plugged \in [Item -> BOOLEAN]
  BY DEF IndInv, TypeOK
<1>3. CASE Untouched
  BY <1>1, <1>3 DEF Untouched, FoldInv, Stays, InPlace
<1>4. QED BY <1>1, <1>2, <1>3, AddedKeeps, TakenOutKeeps, ShiftedKeeps DEF Shown

\* A fold hides the widgets that the parent knows, and shows them again.
LEMMA FoldKeepsFolds ==
  ASSUME IndInv, FoldInv, Fold
  PROVE  FoldInv'
<1>1. PICK i \in Seen :
        /\ folded' = IF i \in folded THEN folded \ {i} ELSE folded \cup {i}
        /\ hidden' = IF i \in folded THEN hidden \ children[i] ELSE hidden \cup children[i]
        /\ UNCHANGED <<vars, children, blank, searching, moved>>
  BY DEF Fold
<1>2. i \in Item
  BY DEF Seen, OnScreen
<1>3. tree' = tree /\ plugged' = plugged /\ children' = children /\ moved' = moved
  BY <1>1 DEF vars, docVars
<1>4. folded' \subseteq Item /\ hidden' \subseteq Item
  BY <1>1, <1>2 DEF FoldInv
<1>5. ASSUME NEW x \in Item, Stays(x)' PROVE InPlace(x)'
  <2>1. InPlace(x)
    BY <1>3, <1>5 DEF FoldInv, Stays
  <2>2. x \in children[i] <=> i = tree.parent[x]
    BY <1>2, <2>1 DEF InPlace
  <2>3. x \in hidden' <=> tree.parent[x] \in folded'
    BY <1>1, <2>1, <2>2 DEF InPlace
  <2>4. QED BY <1>3, <2>1, <2>3 DEF InPlace
<1>6. QED BY <1>3, <1>4, <1>5 DEF FoldInv

\* At first nothing is folded.
LEMMA ViewInitFolds ==
  ASSUME ViewInit
  PROVE  FoldInv
<1>1. folded = {} /\ hidden = {} /\ moved = {}
      /\ children = [x \in Item |-> {y \in Item : plugged[y] /\ tree.parent[y] = x}]
  BY DEF ViewInit
<1>2. QED BY <1>1 DEF FoldInv, Stays, InPlace

\* What is on the screen is plugged in.
LEMMA OnScreenPlugged ==
  ASSUME NEW i \in OnScreen
  PROVE  plugged[i]
<1>1. PICK S : S = {x \in Item : plugged[x]}
  OBVIOUS
<1>2. ClosedOnScreen(S) /\ S \in SUBSET Item
  BY <1>1 DEF ClosedOnScreen
<1>3. i \in S
  BY <1>2 DEF OnScreen
<1>4. QED BY <1>1, <1>3

\* Folds stay in step with the widgets, among any commands, undos, redos and
\* searches.
THEOREM FoldInvHolds == ViewSpec => []FoldInv
<1>1. ViewInit => FoldInv
  BY ViewInitFolds
<1>2. IndInv /\ FoldInv /\ [ViewNext]_<<vars, viewVars>> => FoldInv'
  <2>1. CASE Edit
    BY <2>1, EditKeepsFolds
  <2>2. CASE Fold
    BY <2>2, FoldKeepsFolds
  <2>3. CASE Search \/ LeaveSearch \/ UNCHANGED <<vars, viewVars>>
    <3>1. UNCHANGED <<tree, plugged, folded, children, hidden, moved>>
      BY <2>3 DEF Search, LeaveSearch, vars, docVars, viewVars
    <3>2. QED BY <3>1 DEF FoldInv, Stays, InPlace
  <2>4. QED BY <2>1, <2>2, <2>3 DEF ViewNext
<1>3. QED BY <1>1, <1>2, ViewKeepsDocument, PTL DEF ViewSpec

\* An item that stayed with one parent is hidden exactly while that parent is
\* folded (setFold, addChild).
THEOREM FoldsAlwaysHide == ViewSpec => []FoldHides
<1>1. IndInv /\ FoldInv => FoldHides
  <2> SUFFICES ASSUME IndInv, FoldInv, NEW x \in OnScreen \ moved
               PROVE  x \in hidden <=> tree.parent[x] \in folded
    BY DEF FoldHides
  <2>1. x \in Item /\ tree.parent[x] # x /\ plugged[x]
    BY OnScreenFacts, OnScreenPlugged
  <2>2. InPlace(x)
    BY <2>1 DEF FoldInv, Stays
  <2>3. QED BY <2>2 DEF InPlace
<1>2. QED BY <1>1, ViewKeepsDocument, FoldInvHolds, PTL
=============================================================================
