----------------------------- MODULE GuiControl -----------------------------
(***************************************************************************)
(* Which document the window shows: GuiControl (client/guicontrol.cpp)     *)
(* keeps a map from documents to tab indices beside a QTabWidget whose     *)
(* tabs the user opens, clicks and closes, and fills a page with a widget  *)
(* per item (guiItemsMap) while the items still arrive from the server.    *)
(*                                                                         *)
(* A page is known by the order in which the pages were made, and is never *)
(* deleted; tab indices count from 1.  Documents are numbers in the order  *)
(* of their addresses, which is the order of the map docToTab.             *)
(***************************************************************************)
EXTENDS Naturals, Sequences, SequencesExt, FiniteSets, FiniteSetsExt

CONSTANTS Doc,       \* the documents of the list, as numbers
          NoDoc,     \* a null ClientDocument*
          Item,      \* the items of all documents
          DocOf,     \* the document of each item
          ParentOf,  \* the item above each item, NoItem at the top
          NoItem,
          MaxPages   \* bound: pages made

ASSUME DocAssumption == Doc \subseteq Nat /\ NoDoc \notin Doc /\ NoItem \notin Item
ASSUME ContentsAssumption ==
  /\ DocOf \in [Item -> Doc] /\ ParentOf \in [Item -> Item \cup {NoItem}]
  /\ \A i \in Item : ParentOf[i] # NoItem => DocOf[ParentOf[i]] = DocOf[i]
ASSUME MaxPagesAssumption == MaxPages \in Nat

VARIABLES gui,       \* GuiControl and its QTabWidget, a record as in GuiType
          selected,  \* the entry of the document list, and ApplicationControl::currentDocument
          arrived,   \* the items loaded so far
          shifted,   \* history: a tab was closed that had tabs after it
          missed     \* history: documents that got an item while they were not current

guiVars == <<gui, selected, arrived, shifted, missed>>

NoTab == 0
NoPage == 0
Page == 1..MaxPages
Nowhere == [page |-> NoPage, nested |-> FALSE]

---------------------------------------------------------------------------
(* Pages and widgets.  The operators take and return the record gui.       *)

\* The document a scan of docToTab finds at an index.
DocAt(g, k) == LET there == {d \in Doc : g.docToTab[d] = k} IN
  IF there = {} THEN NoDoc ELSE Min(there)

\* The bug of looking only at the document's own item for the page.
AddItemOnTop(g, i) ==
  [g EXCEPT !.place = [@ EXCEPT ![i] = [page |-> g.rootWidget, nested |-> FALSE]],
            !.widgets = @ \cup {<<g.rootWidget, i>>}]

\* addItem: into the widget of the parent, or else at the top of rootWidget.
AddItem(g, i) ==
  LET nested == ParentOf[i] # NoItem /\ g.place[ParentOf[i]] # Nowhere
      page == IF nested THEN g.place[ParentOf[i]].page ELSE g.rootWidget
  IN [g EXCEPT !.place = [@ EXCEPT ![i] = [page |-> page, nested |-> nested]],
               !.widgets = @ \cup {<<page, i>>}]

\* addChildern for what has arrived, items before what is below them: their
\* entries in guiItemsMap are replaced.
AddChildern(g, d) ==
  LET here == {i \in arrived : DocOf[i] = d} IN
  [g EXCEPT !.place = [i \in Item |->
                         IF i \in here
                         THEN [page |-> g.rootWidget, nested |-> ParentOf[i] # NoItem]
                         ELSE @[i]],
            !.widgets = @ \cup ({g.rootWidget} \X here)]

Connect(g, d) == [g EXCEPT !.connected = Append(@, d)]

\* disconnect: every connection of a document is removed.
Without(list, d) ==
  LET kept[n \in 0..Len(list)] ==
        IF n = 0 THEN <<>>
        ELSE IF list[n] = d THEN kept[n - 1] ELSE Append(kept[n - 1], list[n])
  IN kept[Len(list)]

\* currentDocument = doc, after every connection of the old one is removed.
Leave(g, d) == [g EXCEPT !.currentDocument = d, !.connected = Without(@, g.currentDocument)]

\* onDocumentTabChanged, by the signal of tab index k, which is the current
\* one: a document found there is set as the current one, and has a tab.
OnDocumentTabChanged(g, k) ==
  LET d == DocAt(g, k) IN
  IF d \in {NoDoc, g.currentDocument} THEN g
  ELSE Connect([Leave(g, d) EXCEPT !.rootWidget = g.tabs[k]], d)

\* QTabWidget::setCurrentIndex ignores an index that is current or unknown.
SetCurrentIndex(g, k) ==
  IF k = g.tabIndex \/ k \notin DOMAIN g.tabs THEN g
  ELSE OnDocumentTabChanged([g EXCEPT !.tabIndex = k], k)

\* QTabWidget::addTab: the first tab becomes the current one.
AddTab(g, page) ==
  LET added == [g EXCEPT !.tabs = Append(@, page)] IN
  IF g.tabs = <<>> THEN OnDocumentTabChanged([added EXCEPT !.tabIndex = 1], 1) ELSE added

\* initRootWidget, and the rest of the else branch of setCurrentDocument.
OpenPage(g, d) ==
  LET page == Len(g.pageDoc) + 1
      made == AddTab([g EXCEPT !.pageDoc = Append(@, d), !.rootWidget = page], page)
      index == Len(made.tabs)
  IN AddChildern(SetCurrentIndex([made EXCEPT !.docToTab = [@ EXCEPT ![d] = index]], index), d)

\* The widget of the current page is asked for without a test for null.
ReturnToTab(g, k) ==
  LET at == SetCurrentIndex(g, k) IN
  IF at.tabs = <<>> THEN [at EXCEPT !.crashed = TRUE]
  ELSE [at EXCEPT !.rootWidget = at.tabs[at.tabIndex]]

\* The bug of looking for the tab by the page last shown.
SetCurrentDocumentKeepingPage(g, d) ==
  IF d = g.currentDocument THEN g
  ELSE LET left == Leave(g, d) IN
       Connect(IF g.docToTab[d] # NoTab THEN SetCurrentIndex(left, g.docToTab[d])
               ELSE OpenPage(left, d), d)

SetCurrentDocument(g, d) ==
  IF d = g.currentDocument THEN g
  ELSE LET left == Leave(g, d) IN
       Connect(IF g.docToTab[d] # NoTab THEN ReturnToTab(left, g.docToTab[d])
               ELSE OpenPage(left, d), d)

\* QTabWidget::removeTab: the tab after a closed current one takes its place.
RemoveTab(g, k) ==
  LET removed == [g EXCEPT !.tabs = RemoveAt(@, k)]
      moved == IF k > g.tabIndex THEN g.tabIndex
               ELSE IF k < g.tabIndex THEN g.tabIndex - 1
               ELSE Min({k, Len(g.tabs) - 1})
      at == [removed EXCEPT !.tabIndex = moved]
  IN IF k > g.tabIndex \/ moved = NoTab THEN at ELSE OnDocumentTabChanged(at, moved)

---------------------------------------------------------------------------
(* What the user and the loading do.                                       *)

\* onDocumentTreeItemChanged: the list signals another entry only.  Only here
\* does ApplicationControl learn of the document.
Select(d) ==
  /\ ~gui.crashed /\ d # selected
  /\ Len(gui.pageDoc) < MaxPages
  /\ gui' = SetCurrentDocument(gui, d)
  /\ selected' = d
  /\ UNCHANGED <<arrived, shifted, missed>>

ClickTab(k) ==
  /\ ~gui.crashed
  /\ gui' = SetCurrentIndex(gui, k)
  /\ UNCHANGED <<selected, arrived, shifted, missed>>

ShowNextDocument ==
  /\ ~gui.crashed /\ gui.tabs # <<>>
  /\ gui' = SetCurrentIndex(gui, IF gui.tabIndex < Len(gui.tabs) THEN gui.tabIndex + 1 ELSE 1)
  /\ UNCHANGED <<selected, arrived, shifted, missed>>

ShowPrevDocument ==
  /\ ~gui.crashed /\ gui.tabs # <<>>
  /\ gui' = SetCurrentIndex(gui, IF gui.tabIndex > 1 THEN gui.tabIndex - 1 ELSE Len(gui.tabs))
  /\ UNCHANGED <<selected, arrived, shifted, missed>>

\* The bug of keeping the entry of a closed tab.
OnDocumentTabClosePressedKeepingEntry(k) ==
  /\ ~gui.crashed
  /\ gui' = RemoveTab(gui, k)
  /\ shifted' = (shifted \/ k < Len(gui.tabs))
  /\ UNCHANGED <<selected, arrived, missed>>

\* The entries of the tabs after it keep their indices.
OnDocumentTabClosePressed(k) ==
  /\ ~gui.crashed
  /\ LET d == DocAt(gui, k) IN
     gui' = RemoveTab(IF d = NoDoc THEN gui
                      ELSE [gui EXCEPT !.docToTab = [@ EXCEPT ![d] = NoTab]], k)
  /\ shifted' = (shifted \/ k < Len(gui.tabs))
  /\ UNCHANGED <<selected, arrived, missed>>

\* The signal itemAdded of a document, once for each connection.  Every list
\* of children has one item here, so that a list arrives in one step.
ItemArrives(i) ==
  /\ ~gui.crashed /\ i \notin arrived
  /\ ParentOf[i] # NoItem => ParentOf[i] \in arrived
  /\ arrived' = arrived \cup {i}
  /\ IF Contains(gui.connected, DocOf[i])
     THEN gui' = AddItem(gui, i) /\ UNCHANGED missed
     ELSE missed' = missed \cup {DocOf[i]} /\ UNCHANGED gui
  /\ UNCHANGED <<selected, shifted>>

GuiInit ==
  /\ gui = [docToTab |-> [d \in Doc |-> NoTab], tabs |-> <<>>, tabIndex |-> NoTab,
            pageDoc |-> <<>>, rootWidget |-> NoPage, currentDocument |-> NoDoc,
            connected |-> <<>>, place |-> [i \in Item |-> Nowhere], widgets |-> {},
            crashed |-> FALSE]
  /\ selected = NoDoc
  /\ arrived = {}
  /\ shifted = FALSE
  /\ missed = {}

GuiNext == \/ \E d \in Doc : Select(d)
           \/ \E k \in DOMAIN gui.tabs : ClickTab(k) \/ OnDocumentTabClosePressed(k)
           \/ ShowNextDocument \/ ShowPrevDocument
           \/ \E i \in Item : ItemArrives(i)

GuiSpec == GuiInit /\ [][GuiNext]_guiVars

---------------------------------------------------------------------------
(* Properties.                                                             *)

GuiType ==
  /\ gui.docToTab \in [Doc -> Nat] /\ gui.tabs \in Seq(Page) /\ gui.tabIndex \in Nat
  /\ gui.pageDoc \in Seq(Doc) /\ gui.rootWidget \in Page \cup {NoPage}
  /\ gui.currentDocument \in Doc \cup {NoDoc} /\ gui.connected \in Seq(Doc)
  /\ gui.place \in [Item -> [page : Page \cup {NoPage}, nested : BOOLEAN]]
  /\ gui.widgets \subseteq Page \X Item
  /\ gui.crashed \in BOOLEAN
  /\ selected \in Doc \cup {NoDoc} /\ arrived \subseteq Item /\ shifted \in BOOLEAN
  /\ missed \subseteq Doc

ShownPage == IF gui.tabs = <<>> THEN NoPage ELSE gui.tabs[gui.tabIndex]

\* While no tab was closed but the last one, docToTab (setCurrentDocument,
\* onDocumentTabClosePressed) and the tab bar agree: each entry is the index of
\* the document's own page, the tab shown is the page of currentDocument and
\* the one new items go to, commands go to that document alone, once, and the
\* page is there when it is asked for.
TabsMatch == ~shifted =>
  /\ ~gui.crashed
  /\ \A d \in Doc : \A k \in DOMAIN gui.tabs :
       gui.docToTab[d] = k <=> gui.pageDoc[gui.tabs[k]] = d
  /\ \A d \in Doc : gui.docToTab[d] \in {NoTab} \cup DOMAIN gui.tabs
  /\ ShownPage # NoPage =>
       gui.pageDoc[ShownPage] = gui.currentDocument /\ gui.rootWidget = ShownPage
  /\ gui.connected = IF gui.currentDocument = NoDoc THEN <<>> ELSE <<gui.currentDocument>>

\* A document that has a tab shows everything that arrived, each item on the
\* document's page and inside the widget of its parent (addItem, addChildern),
\* unless something arrived while another document was current: that is never
\* made up for.
ShownComplete == ~shifted =>
  \A i \in arrived : LET d == DocOf[i] IN
    gui.docToTab[d] # NoTab /\ d \notin missed =>
      gui.place[i] = [page |-> gui.tabs[gui.docToTab[d]], nested |-> ParentOf[i] # NoItem]

\* Choosing a document in the list brings it up, for the search as well
\* (onDocumentTreeItemChanged), unless it is the current document and its tab
\* was closed: setCurrentDocument returns, and the document stays out of sight.
SelectShows == [][selected' # selected /\ ~shifted =>
  \/ gui'.tabs # <<>> /\ gui'.pageDoc[gui'.tabs[gui'.tabIndex]] = selected'
  \/ selected' = gui.currentDocument /\ gui.docToTab[selected'] = NoTab]_guiVars
=============================================================================
