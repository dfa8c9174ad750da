------------------------------ MODULE TextEntry ------------------------------
(***************************************************************************)
(* What becomes of the keys the user types: LogTextEdit                    *)
(* (client/logtextedit.cpp) hands a text over when the typing pauses or    *)
(* after some keys, GuiControl gives it to the current document, whichever *)
(* that is by then, ClientDocument records an EditAction, and RemoteDB     *)
(* tells the server.  Undo and redo write into the same text fields.       *)
(*                                                                         *)
(* Texts are numbers: each key makes a text not seen before.               *)
(***************************************************************************)
EXTENDS GuiControl

CONSTANTS IdOf,         \* ids of the items: each document has its own
          MaxKeys,      \* bound: keys typed
          EditTrashold  \* EDIT_TRASHOLD

ASSUME EntryAssumption ==
  /\ IdOf \in [Item -> Nat] /\ MaxKeys \in Nat /\ EditTrashold \in Nat \ {0}
  /\ \A i, j \in Item : DocOf[i] = DocOf[j] /\ IdOf[i] = IdOf[j] => i = j

VARIABLES docs,      \* texts, actions and the server's texts, a record as in EntryType
          typed,     \* the text of each LogTextEdit; a widget is a page and an item
          due,       \* the widgets whose timer runs
          editCountSinceLastSignal,
          keys,      \* keys typed so far
          awaited,   \* the text on its way to each item, NoText if none
          disturbed  \* history: what happened that nothing is promised after

entryVars == <<docs, typed, due, editCountSinceLastSignal, keys, awaited, disturbed>>
vars == <<guiVars, entryVars>>

EmptyText == 0
FirstText == 1  \* what every item holds on the server
NoText == MaxKeys + 2
Texts == 0..MaxKeys + 1
Widget == Page \X Item
FieldOf(i) == <<gui.place[i].page, i>>
Visible == {w \in gui.widgets : w[1] = ShownPage}

\* History: an item's text goes to another document than its own, or to more.
Misdirect(i) ==
  disturbed' = disturbed \cup {x \in {"misdirected"} : gui.connected # <<DocOf[i]>>}

---------------------------------------------------------------------------
(* The document a signal goes to.  The operators take and return docs with *)
(* the fields of the window.                                               *)

State == [text |-> docs.text, actionList |-> docs.actionList,
          redoActionList |-> docs.redoActionList, stored |-> docs.stored, typed |-> typed]

\* itemTextChanged of document d: RemoteDB sends the text under the id of d,
\* GuiControl writes it into the field it knows for the item.
TextChanged(s, d, i) ==
  LET sent == {<<d, IdOf[j]>> : j \in {x \in Item : DocOf[x] = d /\ IdOf[x] = IdOf[i]}} IN
  [s EXCEPT !.stored = [x \in DOMAIN @ |-> IF x \in sent THEN s.text[i] ELSE @[x]],
            !.typed = [w \in DOMAIN @ |-> IF w = FieldOf(i) THEN s.text[i] ELSE @[w]]]

\* The bug of telling the window and the server before the text is set.
WithTextAfterEmit(s, d, i, t) == [TextChanged(s, d, i) EXCEPT !.text = [@ EXCEPT ![i] = t]]

\* The text of an item is set, and then the signal goes out.
WithText(s, d, i, t) == TextChanged([s EXCEPT !.text = [@ EXCEPT ![i] = t]], d, i)

\* The bug of recording the text of the field as the one before the edit.
SetItemTextFromField(s, d, i, t) ==
  [WithText(s, d, i, t) EXCEPT
     !.actionList = [@ EXCEPT ![d] = Append(s.actionList[d],
                                            [item |-> i, before |-> s.typed[FieldOf(i)],
                                             after |-> t])],
     !.redoActionList = [@ EXCEPT ![d] = <<>>]]

\* setItemText and doAction, with an EditAction.
SetItemText(s, d, i, t) ==
  [WithText(s, d, i, t) EXCEPT
     !.actionList = [@ EXCEPT ![d] = Append(s.actionList[d],
                                            [item |-> i, before |-> s.text[i], after |-> t])],
     !.redoActionList = [@ EXCEPT ![d] = <<>>]]

UndoLastAction(s, d) ==
  IF s.actionList[d] = <<>> THEN s
  ELSE LET action == Last(s.actionList[d]) IN
       [WithText(s, d, action.item, action.before) EXCEPT
          !.actionList = [@ EXCEPT ![d] = Front(s.actionList[d])],
          !.redoActionList = [@ EXCEPT ![d] = Append(s.redoActionList[d], action)]]

RedoAction(s, d) ==
  IF s.redoActionList[d] = <<>> THEN s
  ELSE LET action == Last(s.redoActionList[d]) IN
       [WithText(s, d, action.item, action.after) EXCEPT
          !.actionList = [@ EXCEPT ![d] = Append(s.actionList[d], action)],
          !.redoActionList = [@ EXCEPT ![d] = Front(s.redoActionList[d])]]

\* A signal of GuiControl reaches the documents in the order of the
\* connections; Slot(s, d) is what the slot of d does.
Deliver(Slot(_, _), s) ==
  LET told[n \in 0..Len(gui.connected)] ==
        IF n = 0 THEN s ELSE Slot(told[n - 1], gui.connected[n])
  IN told[Len(gui.connected)]

Becomes(s) == /\ docs' = [text |-> s.text, actionList |-> s.actionList,
                          redoActionList |-> s.redoActionList, stored |-> s.stored]
              /\ typed' = s.typed

---------------------------------------------------------------------------
(* The window.                                                             *)

\* A new LogTextEdit shows the text of its item; no timer runs for it.  The
\* text of an item that arrives is asked for at once.
GuiStep ==
  /\ GuiNext
  /\ LET new == gui'.widgets \ gui.widgets IN
     typed' = [w \in Widget |-> IF w \in new THEN docs.text[w[2]] ELSE typed[w]]
  /\ awaited' = [i \in Item |-> IF i \in arrived' \ arrived
                               THEN docs.stored[<<DocOf[i], IdOf[i]>>] ELSE awaited[i]]
  /\ UNCHANGED <<docs, due, editCountSinceLastSignal, keys, disturbed>>

\* The bug of starting the count again without handing the text over.
OnTextChangedLosing(w) ==
  /\ ~gui.crashed /\ w \in Visible /\ keys < MaxKeys
  /\ keys' = keys + 1
  /\ typed' = [typed EXCEPT ![w] = keys + 2]
  /\ IF editCountSinceLastSignal[w] + 1 >= EditTrashold
     THEN /\ editCountSinceLastSignal' = [editCountSinceLastSignal EXCEPT ![w] = 0]
          /\ due' = due \ {w}
     ELSE /\ editCountSinceLastSignal' = [editCountSinceLastSignal EXCEPT ![w] = @ + 1]
          /\ due' = due \cup {w}
  /\ UNCHANGED <<guiVars, docs, awaited, disturbed>>

\* The bug of looking at the counter before the key is counted.
OnTextChangedLate(w) ==
  /\ ~gui.crashed /\ w \in Visible /\ keys < MaxKeys
  /\ keys' = keys + 1
  /\ typed' = [typed EXCEPT ![w] = keys + 2]
  /\ editCountSinceLastSignal' = [editCountSinceLastSignal EXCEPT ![w] = @ + 1]
  /\ due' = due \cup {w}
  /\ UNCHANGED <<guiVars, docs, awaited, disturbed>>

\* onTextChanged, after a key went into the field: the text is handed over at
\* once when the counter is full, or else by the timer, which starts again.
OnTextChanged(w) ==
  /\ ~gui.crashed /\ w \in Visible /\ keys < MaxKeys
  /\ keys' = keys + 1
  /\ LET new == [typed EXCEPT ![w] = keys + 2] IN
     IF editCountSinceLastSignal[w] + 1 >= EditTrashold
     THEN /\ editCountSinceLastSignal' = [editCountSinceLastSignal EXCEPT ![w] = 0]
          /\ due' = due \ {w}
          /\ LET To(s, d) == SetItemText(s, d, w[2], keys + 2) IN
             Becomes(Deliver(To, [State EXCEPT !.typed = new]))
          /\ Misdirect(w[2])
     ELSE /\ editCountSinceLastSignal' = [editCountSinceLastSignal EXCEPT ![w] = @ + 1]
          /\ due' = due \cup {w}
          /\ typed' = new
          /\ UNCHANGED <<docs, disturbed>>
  /\ UNCHANGED <<guiVars, awaited>>

\* The bug of handing over the text of the page shown only.
TimerFiresWhileShown(w) ==
  /\ ~gui.crashed /\ w \in due /\ w \in Visible
  /\ due' = due \ {w}
  /\ LET To(s, d) == SetItemText(s, d, w[2], typed[w]) IN Becomes(Deliver(To, State))
  /\ Misdirect(w[2])
  /\ UNCHANGED <<guiVars, editCountSinceLastSignal, keys, awaited>>

\* timeout() of a field, on a page that was closed as well: the counter stays.
TimerFires(w) ==
  /\ ~gui.crashed /\ w \in due
  /\ due' = due \ {w}
  /\ LET To(s, d) == SetItemText(s, d, w[2], typed[w]) IN Becomes(Deliver(To, State))
  /\ Misdirect(w[2])
  /\ UNCHANGED <<guiVars, editCountSinceLastSignal, keys, awaited>>

\* Ctrl+Z and Ctrl+Shift+Z in any field: no timer is stopped.
Undo ==
  /\ ~gui.crashed /\ Visible # {}
  /\ Becomes(Deliver(UndoLastAction, State))
  /\ UNCHANGED <<guiVars, due, editCountSinceLastSignal, keys, awaited, disturbed>>

Redo ==
  /\ ~gui.crashed /\ Visible # {}
  /\ Becomes(Deliver(RedoAction, State))
  /\ UNCHANGED <<guiVars, due, editCountSinceLastSignal, keys, awaited, disturbed>>

Edited(i) == \E d \in Doc :
  \E action \in ToSet(docs.actionList[d]) \cup ToSet(docs.redoActionList[d]) : action.item = i

\* RemoteDB::onItemReceived: the text is set without an action, and shown only
\* if the window listens to the document.
TextArrives(i) ==
  /\ ~gui.crashed /\ awaited[i] # NoText
  /\ awaited' = [awaited EXCEPT ![i] = NoText]
  /\ LET s == WithText(State, DocOf[i], i, awaited[i])
         seen == Contains(gui.connected, DocOf[i])
     IN /\ Becomes(IF seen THEN s ELSE [s EXCEPT !.typed = typed])
        /\ disturbed' = disturbed
             \cup {x \in {"edited before"} : Edited(i)}
             \cup {x \in {"unseen"} : ~seen /\ gui.place[i] # Nowhere}
  /\ UNCHANGED <<guiVars, due, editCountSinceLastSignal, keys>>

Init ==
  /\ GuiInit
  /\ docs = [text |-> [i \in Item |-> EmptyText],
             actionList |-> [d \in Doc |-> <<>>], redoActionList |-> [d \in Doc |-> <<>>],
             stored |-> [x \in {<<DocOf[i], IdOf[i]>> : i \in Item} |-> FirstText]]
  /\ typed = [w \in Widget |-> EmptyText]
  /\ due = {}
  /\ editCountSinceLastSignal = [w \in Widget |-> 0]
  /\ keys = 0
  /\ awaited = [i \in Item |-> NoText]
  /\ disturbed = {}

Next == \/ GuiStep
        \/ \E w \in Widget : OnTextChanged(w) \/ TimerFires(w)
        \/ Undo \/ Redo
        \/ \E i \in Item : TextArrives(i)

\* A single shot timer fires.
Timers == \A w \in Widget : WF_vars(TimerFires(w))

Spec == Init /\ [][Next]_vars /\ Timers
---------------------------------------------------------------------------
(* Properties.                                                             *)

EntryType ==
  /\ GuiType
  /\ docs.text \in [Item -> Texts] /\ docs.stored \in [DOMAIN docs.stored -> Texts]
  /\ \A d \in Doc : /\ docs.actionList[d] \in Seq([item : Item, before : Texts, after : Texts])
                    /\ docs.redoActionList[d] \in Seq([item : Item, before : Texts, after : Texts])
  /\ typed \in [Widget -> Texts] /\ due \subseteq Widget
  /\ editCountSinceLastSignal \in [Widget -> 0..EditTrashold - 1]
  /\ awaited \in [Item -> Texts \cup {NoText}]

\* A field shows something else than its item holds only while its timer runs
\* (onTextChanged, setItemText of GuiControl): what is typed is on its way, and
\* undo, redo and loading reach the field, whatever tabs were used meanwhile.
\* A text that arrives for a document that is not current never reaches it.
FieldSettles == "unseen" \notin disturbed =>
  \A i \in Item : gui.place[i] # Nowhere /\ typed[FieldOf(i)] # docs.text[i] => FieldOf(i) \in due

\* The edits of an item follow each other without a gap (EditAction, doAction):
\* each starts from the text the one before it ended with, done or undone, and
\* the item's text stands between the two, so that undoing all of them gives
\* the first text back, unless a text went to another document, or came from
\* the server when the item was edited already.
EditsChain == disturbed \subseteq {"unseen"} => \A i \in Item :
  LET done == docs.actionList[DocOf[i]]
      all == done \o Reverse(docs.redoActionList[DocOf[i]])
      Untouched(k, m) == \A x \in k + 1..m - 1 : all[x].item # i
  IN \A k \in 1..Len(all) : all[k].item = i =>
       /\ k <= Len(done) /\ Untouched(k, Len(done) + 1) => docs.text[i] = all[k].after
       /\ k > Len(done) /\ Untouched(Len(done), k) => docs.text[i] = all[k].before
       /\ \A m \in k + 1..Len(all) :
            all[m].item = i /\ Untouched(k, m) => all[k].after = all[m].before

\* What the server has been told of an item (RemoteDB::onItemTextChanged) is
\* its text: the ids of items are those of one document only, and a text handed
\* over under another document overwrites an item there.
ServerHasText == "misdirected" \notin disturbed => \A i \in arrived :
  awaited[i] = NoText => docs.stored[<<DocOf[i], IdOf[i]>>] = docs.text[i]

\* What was typed becomes the text of an item, even after its tab was closed,
\* unless the field is overwritten before its timer fires.
TypedArrives == \A t \in FirstText + 1..MaxKeys + 1 :
  (\E w \in due : typed[w] = t)
  ~> \/ \E i \in Item : docs.text[i] = t
     \/ \A w \in Widget : typed[w] # t
     \/ gui.crashed
=============================================================================
