---------------------------- MODULE WindowProofs ----------------------------
(***************************************************************************)
(* The window: that the tabs, the pages and the map of documents agree     *)
(* (GuiControl), and that what is typed arrives (TextEntry).               *)
(***************************************************************************)
EXTENDS TextEntry, SequenceTheorems, WellFoundedInduction, TLAPS

---------------------------------------------------------------------------
(* Induction on numbers, by the least number for which a claim fails.      *)

\* The order of the numbers, as the library states it, is a set of pairs.
LEMMA LessRelation == OpToRel(<, Nat) = {ss \in Nat \X Nat : ss[1] < ss[2]}
BY Zenon DEF OpToRel

\* Every set of numbers has a least one.
LEMMA LeastNumber ==
  ASSUME NEW T, T \subseteq Nat, T # {}
  PROVE  \E n \in T : \A m \in T : n <= m
<1>1. PICK n \in T : \A m \in T : ~(<<m, n>> \in OpToRel(<, Nat))
  BY NatLessThanWellFounded, WFMin
<1>2. ASSUME NEW m \in T
      PROVE  n <= m
  <2>1. n \in Nat /\ m \in Nat
    BY <1>1
  <2>2. ~(m < n)
    <3>1. SUFFICES ASSUME m < n PROVE FALSE
      OBVIOUS
    <3>2. <<m, n>> \in OpToRel(<, Nat)
      BY <2>1, <3>1, LessRelation
    <3>3. QED BY <1>1, <3>2
  <2>3. QED BY <2>1, <2>2
<1>3. QED BY <1>1, <1>2

\* What holds of 0, and of each number after one it holds of, holds of all.
LEMMA SetInduction ==
  ASSUME NEW T, 0 \in T, \A n \in Nat : n \in T => n + 1 \in T
  PROVE  Nat \subseteq T
<1> SUFFICES ASSUME Nat \ T # {} PROVE FALSE
  OBVIOUS
<1>1. PICK n \in Nat \ T : \A m \in Nat \ T : n <= m
  BY LeastNumber
<1>2. n # 0 /\ n - 1 \in Nat
  BY <1>1
<1>3. n - 1 \in T
  <2>1. ~(n <= n - 1)
    BY <1>2
  <2>2. QED BY <1>1, <1>2, <2>1
<1>4. (n - 1) + 1 \in T
  BY <1>2, <1>3
<1>5. QED BY <1>1, <1>2, <1>4

---------------------------------------------------------------------------
(* Connections.                                                            *)

Step(list, d, f, n) ==
  IF n = 0 THEN <<>> ELSE IF list[n] = d THEN f[n - 1] ELSE Append(f[n - 1], list[n])

\* Prefix by prefix the list can be gone through.
LEMMA KeptExists ==
  ASSUME NEW list, NEW d
  PROVE  \A m \in Nat : \E f : f = [n \in 0..m |-> Step(list, d, f, n)]
<1> DEFINE T == {m \in Nat : \E f : f = [n \in 0..m |-> Step(list, d, f, n)]}
<1>1. 0 \in T
  <2> DEFINE f == [n \in 0..0 |-> <<>>]
  <2>1. f = [n \in 0..0 |-> Step(list, d, f, n)]
    BY DEF Step
  <2>2. \E g : g = [n \in 0..0 |-> Step(list, d, g, n)]
    BY <2>1
  <2>3. QED BY <2>2
<1>2. ASSUME NEW m \in Nat, m \in T
      PROVE  m + 1 \in T
  <2>1. PICK f : f = [n \in 0..m |-> Step(list, d, f, n)]
    BY <1>2
  <2> DEFINE g == [n \in 0..m + 1 |-> IF n = m + 1 THEN Step(list, d, f, n) ELSE f[n]]
  <2>2. g = [n \in 0..m + 1 |-> Step(list, d, g, n)]
    <3>1. ASSUME NEW n \in 0..m + 1
          PROVE  g[n] = Step(list, d, g, n)
      <4>1. n # 0 => n - 1 \in 0..m /\ g[n - 1] = f[n - 1]
        OBVIOUS
      <4>2. Step(list, d, g, n) = Step(list, d, f, n)
        BY <4>1 DEF Step
      <4>3. CASE n = m + 1
        BY <4>2, <4>3
      <4>4. CASE n # m + 1
        <5>1. n \in 0..m /\ g[n] = f[n]
          BY <4>4
        <5>2. f[n] = Step(list, d, f, n)
          BY <2>1, <5>1
        <5>3. QED BY <4>2, <5>1, <5>2
      <4>5. QED BY <4>3, <4>4
    <3>2. QED BY <3>1
  <2>3. \E h : h = [n \in 0..m + 1 |-> Step(list, d, h, n)]
    BY <2>2
  <2>4. QED BY <2>3
<1>3. Nat \subseteq T
  <2> HIDE DEF T
  <2>1. QED BY <1>1, <1>2, SetInduction
<1>4. QED BY <1>3

\* What is left of a list of documents is one, and nothing of a list of one.
LEMMA WithoutList ==
  ASSUME NEW S, NEW list \in Seq(S), NEW d
  PROVE  /\ Without(list, d) \in Seq(S)
         /\ list = <<>> => Without(list, d) = <<>>
         /\ Len(list) = 1 /\ list[1] = d => Without(list, d) = <<>>
<1>1. Len(list) \in Nat /\ list \in [1..Len(list) -> S]
  BY LenProperties
<1>2. PICK f : /\ f = [n \in 0..Len(list) |-> Step(list, d, f, n)]
               /\ Without(list, d) = f[Len(list)]
  <2> DEFINE F == CHOOSE f : f = [n \in 0..Len(list) |-> Step(list, d, f, n)]
  <2>1. \E f : f = [n \in 0..Len(list) |-> Step(list, d, f, n)]
    BY <1>1, KeptExists
  <2>2. F = [n \in 0..Len(list) |-> Step(list, d, F, n)]
    BY <2>1
  <2>3. Without(list, d) = F[Len(list)]
    BY DEF Without, Step
  <2>4. QED BY <2>2, <2>3
<1>3. \A n \in 0..Len(list) : f[n] = Step(list, d, f, n)
  BY <1>2
<1>4. f[0] = <<>>
  BY <1>1, <1>3 DEF Step
<1>5. Without(list, d) \in Seq(S)
  <2> DEFINE T == {n \in Nat : n <= Len(list) => f[n] \in Seq(S)}
  <2>1. 0 \in T
    <3>1. <<>> \in Seq(S)
      OBVIOUS
    <3>2. f[0] \in Seq(S)
      BY <1>4, <3>1
    <3>3. QED BY <3>2
  <2>2. ASSUME NEW n \in Nat, n \in T
        PROVE  n + 1 \in T
    <3> SUFFICES ASSUME n + 1 <= Len(list) PROVE f[n + 1] \in Seq(S)
      OBVIOUS
    <3>1. n \in 0..Len(list) /\ n + 1 \in 1..Len(list) /\ n + 1 # 0 /\ (n + 1) - 1 = n
      BY <1>1
    <3>2. f[n] \in Seq(S)
      BY <2>2, <3>1
    <3>3. f[n + 1] = IF list[n + 1] = d THEN f[n] ELSE Append(f[n], list[n + 1])
      BY <1>3, <3>1 DEF Step
    <3>4. list[n + 1] \in S
      BY <1>1, <3>1
    <3>5. QED BY <3>2, <3>3, <3>4, AppendProperties
  <2>3. Nat \subseteq T
    <3> HIDE DEF T
    <3>1. QED BY <2>1, <2>2, SetInduction
  <2>4. f[Len(list)] \in Seq(S)
    BY <1>1, <2>3
  <2>5. QED BY <1>2, <2>4
<1>6. list = <<>> => Without(list, d) = <<>>
  BY <1>2, <1>4
<1>7. Len(list) = 1 /\ list[1] = d => Without(list, d) = <<>>
  BY <1>2, <1>3, <1>4 DEF Step
<1>8. QED BY <1>5, <1>6, <1>7

---------------------------------------------------------------------------
(* The window as a record.                                                 *)

Gui == [docToTab : [Doc -> Nat], tabs : Seq(Page), tabIndex : Nat,
        pageDoc : Seq(Doc), rootWidget : Page \cup {NoPage},
        currentDocument : Doc \cup {NoDoc}, connected : Seq(Doc),
        place : [Item -> [page : Page \cup {NoPage}, nested : BOOLEAN]],
        widgets : SUBSET (Page \X Item), crashed : BOOLEAN]

\* Every tab shows a page that was made, and one of them is shown if there is any.
Sound(g) ==
  /\ g \in Gui
  /\ \A k \in DOMAIN g.tabs : g.tabs[k] \in DOMAIN g.pageDoc
  /\ g.tabIndex <= Len(g.tabs) /\ (g.tabIndex = NoTab <=> g.tabs = <<>>)
  /\ Len(g.pageDoc) <= MaxPages

\* What the lookups need.
Used(g) == g.rootWidget = NoPage =>
  g.tabs = <<>> /\ g.connected = <<>> /\ \A d \in Doc : g.docToTab[d] = NoTab

\* What a scan of docToTab finds has that entry, and it finds one if there is one.
LEMMA DocAtTab ==
  ASSUME NEW g \in Gui, NEW k
  PROVE  /\ DocAt(g, k) \in Doc \cup {NoDoc}
         /\ DocAt(g, k) # NoDoc => g.docToTab[DocAt(g, k)] = k
         /\ \A d \in Doc : g.docToTab[d] = k => DocAt(g, k) # NoDoc
<1> DEFINE there == {d \in Doc : g.docToTab[d] = k}
<1>1. there \subseteq Nat /\ NoDoc \notin Doc
  BY DocAssumption
<1>2. ASSUME there # {}
      PROVE  Min(there) \in there
  <2>1. \E n \in there : \A m \in there : n <= m
    BY <1>1, <1>2, LeastNumber
  <2>2. QED BY <2>1 DEF Min
<1>3. there = {} => DocAt(g, k) = NoDoc
  BY DEF DocAt
<1>4. there # {} => DocAt(g, k) = Min(there)
  BY DEF DocAt
<1>5. QED BY <1>1, <1>2, <1>3, <1>4

\* Connecting changes the connections alone.
LEMMA ConnectGui ==
  ASSUME NEW g \in Gui, NEW d \in Doc
  PROVE  /\ Connect(g, d) \in Gui
         /\ Connect(g, d).connected = Append(g.connected, d)
         /\ Connect(g, d).docToTab = g.docToTab /\ Connect(g, d).tabs = g.tabs
         /\ Connect(g, d).tabIndex = g.tabIndex /\ Connect(g, d).pageDoc = g.pageDoc
         /\ Connect(g, d).rootWidget = g.rootWidget
         /\ Connect(g, d).currentDocument = g.currentDocument
         /\ Connect(g, d).place = g.place /\ Connect(g, d).widgets = g.widgets
         /\ Connect(g, d).crashed = g.crashed
<1>1. Append(g.connected, d) \in Seq(Doc)
  BY AppendProperties DEF Gui
<1>2. QED BY <1>1 DEF Connect, Gui

\* Leaving the current document changes it and the connections alone.
LEMMA LeaveGui ==
  ASSUME NEW g \in Gui, NEW d \in Doc
  PROVE  /\ Leave(g, d) \in Gui
         /\ Leave(g, d).connected = Without(g.connected, g.currentDocument)
         /\ Leave(g, d).currentDocument = d
         /\ Leave(g, d).docToTab = g.docToTab /\ Leave(g, d).tabs = g.tabs
         /\ Leave(g, d).tabIndex = g.tabIndex /\ Leave(g, d).pageDoc = g.pageDoc
         /\ Leave(g, d).rootWidget = g.rootWidget
         /\ Leave(g, d).place = g.place /\ Leave(g, d).widgets = g.widgets
         /\ Leave(g, d).crashed = g.crashed
<1>1. Without(g.connected, g.currentDocument) \in Seq(Doc)
  BY WithoutList DEF Gui
<1>2. QED BY <1>1 DEF Leave, Gui

\* What the operators that change the tab shown leave alone.
Keeps(h, g) ==
  /\ h.docToTab = g.docToTab /\ h.tabs = g.tabs /\ h.pageDoc = g.pageDoc
  /\ h.place = g.place /\ h.widgets = g.widgets /\ h.crashed = g.crashed

\* The signal of a tab sets the document found there, or changes nothing.
LEMMA ChangedGui ==
  ASSUME NEW g \in Gui, NEW k \in DOMAIN g.tabs, NEW h, h = OnDocumentTabChanged(g, k)
  PROVE  /\ h \in Gui /\ Keeps(h, g) /\ h.tabIndex = g.tabIndex
         /\ \/ h = g /\ DocAt(g, k) \in {NoDoc, g.currentDocument}
            \/ /\ DocAt(g, k) \notin {NoDoc, g.currentDocument}
               /\ h.currentDocument = DocAt(g, k) /\ h.rootWidget = g.tabs[k]
               /\ h.connected = Append(Without(g.connected, g.currentDocument), DocAt(g, k))
<1> DEFINE d == DocAt(g, k)
<1>1. CASE d \in {NoDoc, g.currentDocument}
  BY <1>1 DEF OnDocumentTabChanged, Keeps
<1>2. CASE d \notin {NoDoc, g.currentDocument}
  <2>1. d \in Doc
    BY <1>2, DocAtTab
  <2> DEFINE left == Leave(g, d)
             there == [left EXCEPT !.rootWidget = g.tabs[k]]
  <2>2. h = Connect(there, d)
    BY <1>2 DEF OnDocumentTabChanged
  <2>3. g.tabs[k] \in Page
    <3>1. g.tabs \in Seq(Page)
      BY DEF Gui
    <3>2. QED BY <3>1
  <2>4. left \in Gui
    BY <2>1, LeaveGui
  <2> HIDE DEF d
  <2>5. /\ there \in Gui /\ there.rootWidget = g.tabs[k] /\ Keeps(there, left)
        /\ there.tabIndex = left.tabIndex /\ there.currentDocument = left.currentDocument
        /\ there.connected = left.connected
    <3> HIDE DEF left
    <3>1. QED BY <2>3, <2>4 DEF Gui, Keeps
  <2>6. /\ left.connected = Without(g.connected, g.currentDocument)
        /\ left.currentDocument = d /\ left.tabIndex = g.tabIndex /\ Keeps(left, g)
    BY <2>1, LeaveGui DEF Keeps
  <2> HIDE DEF there, left
  <2>7. /\ h \in Gui /\ h.connected = Append(there.connected, d) /\ h.tabIndex = there.tabIndex
        /\ h.rootWidget = there.rootWidget /\ h.currentDocument = there.currentDocument
        /\ Keeps(h, there)
    BY <2>1, <2>2, <2>5, ConnectGui DEF Keeps
  <2>8. Keeps(h, g)
    BY <2>5, <2>6, <2>7 DEF Keeps
  <2>9. QED BY <1>2, <2>5, <2>6, <2>7, <2>8 DEF d
<1>3. QED BY <1>1, <1>2

\* Showing a tab: its index, and what its signal does.
LEMMA IndexGui ==
  ASSUME NEW g \in Gui, NEW k, NEW h, h = SetCurrentIndex(g, k)
  PROVE  /\ h \in Gui /\ Keeps(h, g)
         /\ \/ h = g /\ (k = g.tabIndex \/ k \notin DOMAIN g.tabs)
            \/ /\ k \in DOMAIN g.tabs /\ k # g.tabIndex /\ h.tabIndex = k
               /\ \/ /\ DocAt(g, k) \in {NoDoc, g.currentDocument}
                     /\ h.currentDocument = g.currentDocument
                     /\ h.rootWidget = g.rootWidget /\ h.connected = g.connected
                  \/ /\ DocAt(g, k) \notin {NoDoc, g.currentDocument}
                     /\ h.currentDocument = DocAt(g, k) /\ h.rootWidget = g.tabs[k]
                     /\ h.connected = Append(Without(g.connected, g.currentDocument), DocAt(g, k))
<1>1. CASE k = g.tabIndex \/ k \notin DOMAIN g.tabs
  BY <1>1 DEF SetCurrentIndex, Keeps
<1>2. CASE k # g.tabIndex /\ k \in DOMAIN g.tabs
  <2> DEFINE at == [g EXCEPT !.tabIndex = k]
  <2>1. k \in Nat
    <3>1. g.tabs \in Seq(Page)
      BY DEF Gui
    <3>2. QED BY <1>2, <3>1, LenProperties
  <2>2. /\ at \in Gui /\ Keeps(at, g) /\ at.tabIndex = k /\ at.rootWidget = g.rootWidget
        /\ at.currentDocument = g.currentDocument /\ at.connected = g.connected
    BY <2>1 DEF Gui, Keeps
  <2>3. h = OnDocumentTabChanged(at, k)
    BY <1>2 DEF SetCurrentIndex
  <2> HIDE DEF at
  <2>4. DocAt(at, k) = DocAt(g, k)
    BY <2>2 DEF DocAt, Keeps
  <2>5. k \in DOMAIN at.tabs
    BY <1>2, <2>2 DEF Keeps
  <2>6. /\ h \in Gui /\ Keeps(h, at) /\ h.tabIndex = at.tabIndex
        /\ \/ h = at /\ DocAt(at, k) \in {NoDoc, at.currentDocument}
           \/ /\ DocAt(at, k) \notin {NoDoc, at.currentDocument}
              /\ h.currentDocument = DocAt(at, k) /\ h.rootWidget = at.tabs[k]
              /\ h.connected = Append(Without(at.connected, at.currentDocument), DocAt(at, k))
    BY <2>2, <2>3, <2>5, ChangedGui
  <2>7. Keeps(h, g)
    BY <2>2, <2>6 DEF Keeps
  <2>8. at.tabs = g.tabs
    BY <2>2 DEF Keeps
  <2>9. QED BY <1>2, <2>2, <2>4, <2>6, <2>7, <2>8
<1>3. QED BY <1>1, <1>2

\* Every entry is NoTab or the index of a tab.
Indexed(g) == \A d \in Doc : g.docToTab[d] \in {NoTab} \cup DOMAIN g.tabs

\* A new tab is shown only if it is the first, and finds no document yet.
LEMMA AddTabGui ==
  ASSUME NEW g \in Gui, NEW page \in Page, g.rootWidget = page,
         NEW h, h = AddTab(g, page)
  PROVE  /\ h \in Gui /\ h.tabs = Append(g.tabs, page) /\ h.rootWidget = page
         /\ h.docToTab = g.docToTab /\ h.pageDoc = g.pageDoc
         /\ h.place = g.place /\ h.widgets = g.widgets /\ h.crashed = g.crashed
         /\ h.tabIndex = IF g.tabs = <<>> THEN 1 ELSE g.tabIndex
         /\ Indexed(g) => h.currentDocument = g.currentDocument /\ h.connected = g.connected
<1> DEFINE added == [g EXCEPT !.tabs = Append(@, page)]
           at == [added EXCEPT !.tabIndex = 1]
<1>1. g.tabs \in Seq(Page) /\ Append(g.tabs, page) \in Seq(Page)
  BY AppendProperties DEF Gui
<1>2. /\ added \in Gui /\ added.tabs = Append(g.tabs, page) /\ added.rootWidget = page
      /\ added.docToTab = g.docToTab /\ added.pageDoc = g.pageDoc /\ added.place = g.place
      /\ added.widgets = g.widgets /\ added.crashed = g.crashed /\ added.tabIndex = g.tabIndex
      /\ added.currentDocument = g.currentDocument /\ added.connected = g.connected
  BY <1>1 DEF Gui
<1>3. CASE g.tabs # <<>>
  BY <1>2, <1>3 DEF AddTab
<1>4. CASE g.tabs = <<>>
  <2>1. h = OnDocumentTabChanged(at, 1)
    BY <1>4 DEF AddTab
  <2> HIDE DEF added
  <2>2. /\ at \in Gui /\ at.tabs = Append(g.tabs, page) /\ at.rootWidget = page
        /\ at.docToTab = g.docToTab /\ at.pageDoc = g.pageDoc /\ at.place = g.place
        /\ at.widgets = g.widgets /\ at.crashed = g.crashed /\ at.tabIndex = 1
        /\ at.currentDocument = g.currentDocument /\ at.connected = g.connected
    BY <1>2 DEF Gui
  <2> HIDE DEF at
  <2>3. Len(g.tabs) = 0
    BY <1>4
  <2>4. 1 \in DOMAIN at.tabs /\ at.tabs[1] = page
    BY <1>1, <2>2, <2>3, AppendProperties, LenProperties
  <2>5. /\ h \in Gui /\ Keeps(h, at) /\ h.tabIndex = at.tabIndex
        /\ \/ h = at
           \/ DocAt(at, 1) \notin {NoDoc, at.currentDocument} /\ h.rootWidget = at.tabs[1]
    BY <2>1, <2>2, <2>4, ChangedGui
  <2>6. Indexed(g) => h = at
    <3>1. SUFFICES ASSUME Indexed(g), h # at PROVE FALSE
      OBVIOUS
    <3>2. DocAt(at, 1) \in Doc /\ at.docToTab[DocAt(at, 1)] = 1
      BY <2>2, <2>5, <3>1, DocAtTab
    <3>3. DOMAIN g.tabs = {}
      BY <1>4
    <3>4. QED BY <2>2, <3>1, <3>2, <3>3 DEF Indexed, NoTab
  <2>7. QED BY <1>4, <2>2, <2>4, <2>5, <2>6 DEF Keeps
<1>5. QED BY <1>3, <1>4

\* What has arrived of a document goes to the page new items go to.
LEMMA ChildernGui ==
  ASSUME NEW g \in Gui, NEW d \in Doc, g.rootWidget \in Page, arrived \subseteq Item,
         NEW h, h = AddChildern(g, d)
  PROVE  /\ h \in Gui /\ h.tabs = g.tabs /\ h.rootWidget = g.rootWidget
         /\ h.docToTab = g.docToTab /\ h.pageDoc = g.pageDoc /\ h.crashed = g.crashed
         /\ h.tabIndex = g.tabIndex /\ h.currentDocument = g.currentDocument
         /\ h.connected = g.connected
         /\ \A i \in Item : h.place[i] =
              IF i \in arrived /\ DocOf[i] = d
              THEN [page |-> g.rootWidget, nested |-> ParentOf[i] # NoItem] ELSE g.place[i]
         /\ h.widgets = g.widgets \cup ({g.rootWidget} \X {i \in arrived : DocOf[i] = d})
<1> DEFINE here == {i \in arrived : DocOf[i] = d}
           place == [i \in Item |-> IF i \in here
                                    THEN [page |-> g.rootWidget, nested |-> ParentOf[i] # NoItem]
                                    ELSE g.place[i]]
           widgets == g.widgets \cup ({g.rootWidget} \X here)
<1>1. place \in [Item -> [page : Page \cup {NoPage}, nested : BOOLEAN]]
  <2>1. \A i \in Item : g.place[i] \in [page : Page \cup {NoPage}, nested : BOOLEAN]
    BY DEF Gui
  <2>2. QED BY <2>1
<1>2. widgets \in SUBSET (Page \X Item)
  <2>1. g.widgets \subseteq Page \X Item
    BY DEF Gui
  <2>2. {g.rootWidget} \X here \subseteq Page \X Item
    OBVIOUS
  <2>3. QED BY <2>1, <2>2
<1>3. h = [g EXCEPT !.place = place, !.widgets = widgets]
  BY DEF AddChildern
<1>4. \A i \in Item : place[i] =
        IF i \in arrived /\ DocOf[i] = d
        THEN [page |-> g.rootWidget, nested |-> ParentOf[i] # NoItem] ELSE g.place[i]
  OBVIOUS
<1> HIDE DEF place, widgets
<1>5. /\ h \in Gui /\ h.tabs = g.tabs /\ h.rootWidget = g.rootWidget
      /\ h.docToTab = g.docToTab /\ h.pageDoc = g.pageDoc /\ h.crashed = g.crashed
      /\ h.tabIndex = g.tabIndex /\ h.currentDocument = g.currentDocument
      /\ h.connected = g.connected /\ h.place = place /\ h.widgets = widgets
  BY <1>1, <1>2, <1>3 DEF Gui
<1>6. QED BY <1>4, <1>5 DEF widgets

\* A page opened for a document is shown, and its signal finds no other document.
LEMMA OpenGui ==
  ASSUME NEW g, Sound(g), NEW d \in Doc, Len(g.pageDoc) < MaxPages, arrived \subseteq Item,
         NEW page, page = Len(g.pageDoc) + 1, NEW index, index = Len(g.tabs) + 1,
         NEW h, h = OpenPage(g, d)
  PROVE  /\ h \in Gui /\ h.tabs = Append(g.tabs, page) /\ h.rootWidget = page
         /\ page \in Page /\ h.pageDoc = Append(g.pageDoc, d)
         /\ h.docToTab = [g.docToTab EXCEPT ![d] = index]
         /\ h.tabIndex = index /\ h.crashed = g.crashed
         /\ \A i \in Item : h.place[i] =
              IF i \in arrived /\ DocOf[i] = d
              THEN [page |-> page, nested |-> ParentOf[i] # NoItem] ELSE g.place[i]
         /\ h.widgets = g.widgets \cup ({page} \X {i \in arrived : DocOf[i] = d})
         /\ g.currentDocument = d /\ Indexed(g) => h.currentDocument = d /\ h.connected = g.connected
<1> DEFINE first == [g EXCEPT !.pageDoc = Append(@, d), !.rootWidget = page]
           made == AddTab(first, page)
           entered == [made EXCEPT !.docToTab = [@ EXCEPT ![d] = index]]
           at == SetCurrentIndex(entered, index)
<1>1. /\ g \in Gui /\ g.tabs \in Seq(Page) /\ Len(g.tabs) \in Nat /\ g.tabIndex \in Nat
      /\ g.pageDoc \in Seq(Doc) /\ Len(g.pageDoc) \in Nat /\ Append(g.pageDoc, d) \in Seq(Doc)
      /\ g.tabIndex <= Len(g.tabs) /\ (g.tabIndex = NoTab <=> g.tabs = <<>>)
      /\ DOMAIN g.tabs = 1..Len(g.tabs) /\ MaxPages \in Nat
  BY AppendProperties, LenProperties, MaxPagesAssumption DEF Sound, Gui
<1>2. page \in Page /\ index \in Nat /\ index > g.tabIndex
  BY <1>1 DEF Page
<1>3. /\ first \in Gui /\ first.pageDoc = Append(g.pageDoc, d) /\ first.rootWidget = page
      /\ first.tabs = g.tabs /\ first.docToTab = g.docToTab /\ first.place = g.place
      /\ first.widgets = g.widgets /\ first.crashed = g.crashed /\ first.tabIndex = g.tabIndex
      /\ first.currentDocument = g.currentDocument /\ first.connected = g.connected
  BY <1>1, <1>2 DEF Gui
<1> HIDE DEF first
<1>4. /\ made \in Gui /\ made.tabs = Append(g.tabs, page) /\ made.rootWidget = page
      /\ made.docToTab = g.docToTab /\ made.pageDoc = Append(g.pageDoc, d)
      /\ made.place = g.place /\ made.widgets = g.widgets /\ made.crashed = g.crashed
      /\ made.tabIndex = IF g.tabs = <<>> THEN 1 ELSE g.tabIndex
      /\ Indexed(g) => made.currentDocument = g.currentDocument /\ made.connected = g.connected
  <2>1. Indexed(g) => Indexed(first)
    BY <1>3 DEF Indexed
  <2>2. QED BY <1>2, <1>3, <2>1, AddTabGui
<1> HIDE DEF made
<1>5. [g.docToTab EXCEPT ![d] = index] \in [Doc -> Nat]
  BY <1>1, <1>2 DEF Gui
<1>6. /\ entered \in Gui /\ entered.tabs = made.tabs /\ entered.rootWidget = page
      /\ entered.docToTab = [g.docToTab EXCEPT ![d] = index] /\ entered.pageDoc = made.pageDoc
      /\ entered.place = g.place /\ entered.widgets = g.widgets /\ entered.crashed = g.crashed
      /\ entered.tabIndex = made.tabIndex
      /\ entered.currentDocument = made.currentDocument /\ entered.connected = made.connected
  BY <1>4, <1>5 DEF Gui
<1> HIDE DEF entered
<1>7. /\ entered.tabs[index] = page /\ DOMAIN entered.tabs = 1..index /\ Len(entered.tabs) = index
      /\ index \in DOMAIN entered.tabs
  BY <1>1, <1>2, <1>4, <1>6, AppendProperties, LenProperties
<1>8. /\ at \in Gui /\ Keeps(at, entered) /\ at.tabIndex = index /\ at.rootWidget = page
      /\ DocAt(entered, index) \in {NoDoc, entered.currentDocument}
         => at.currentDocument = entered.currentDocument /\ at.connected = entered.connected
  <2>1. CASE index = entered.tabIndex
    BY <1>6, <2>1, IndexGui
  <2>2. CASE index # entered.tabIndex
    BY <1>6, <1>7, <2>2, IndexGui
  <2>3. QED BY <2>1, <2>2
<1>9. g.currentDocument = d /\ Indexed(g) => at.currentDocument = d /\ at.connected = g.connected
  <2> SUFFICES ASSUME g.currentDocument = d, Indexed(g)
               PROVE  at.currentDocument = d /\ at.connected = g.connected
    OBVIOUS
  <2>1. entered.currentDocument = d /\ entered.connected = g.connected
    BY <1>4, <1>6
  <2>2. DocAt(entered, index) \in {NoDoc, d}
    <3>1. SUFFICES ASSUME DocAt(entered, index) # NoDoc, DocAt(entered, index) # d PROVE FALSE
      OBVIOUS
    <3>2. PICK e \in Doc : e # d /\ entered.docToTab[e] = index
      <4>1. entered \in Gui
        BY <1>6
      <4>2. /\ DocAt(entered, index) \in Doc \cup {NoDoc}
            /\ DocAt(entered, index) # NoDoc
               => entered.docToTab[DocAt(entered, index)] = index
        BY <4>1, DocAtTab
      <4>3. QED BY <3>1, <4>2
    <3>3. g.docToTab[e] = index
      BY <1>1, <1>6, <3>2 DEF Gui
    <3>4. QED BY <1>1, <1>2, <3>2, <3>3 DEF Indexed, NoTab
  <2>3. QED BY <1>8, <2>1, <2>2
<1> HIDE DEF at
<1>10. h = AddChildern(at, d)
  <2>1. Len(made.tabs) = index
    BY <1>6, <1>7
  <2>2. QED BY <2>1 DEF OpenPage, first, made, entered, at
<1>11. /\ h \in Gui /\ h.tabs = at.tabs /\ h.rootWidget = at.rootWidget
       /\ h.docToTab = at.docToTab /\ h.pageDoc = at.pageDoc /\ h.crashed = at.crashed
       /\ h.tabIndex = at.tabIndex /\ h.currentDocument = at.currentDocument
       /\ h.connected = at.connected
       /\ \A i \in Item : h.place[i] =
            IF i \in arrived /\ DocOf[i] = d
            THEN [page |-> at.rootWidget, nested |-> ParentOf[i] # NoItem] ELSE at.place[i]
       /\ h.widgets = at.widgets \cup ({at.rootWidget} \X {i \in arrived : DocOf[i] = d})
  <2>1. at \in Gui /\ at.rootWidget \in Page
    BY <1>2, <1>8
  <2>2. QED BY <1>10, <2>1, ChildernGui
<1>12. QED BY <1>2, <1>4, <1>6, <1>8, <1>9, <1>11 DEF Keeps

\* No page is a null pointer.
LEMMA NoPageIsNone == NoPage \notin Page
BY MaxPagesAssumption DEF NoPage, Page

\* Going back to a tab: the entry is the tab shown, and its page gets new items.
LEMMA ReturnGui ==
  ASSUME NEW g, Sound(g), g.rootWidget # NoPage, NEW k, NEW h, h = ReturnToTab(g, k)
  PROVE  /\ h \in Gui /\ h.docToTab = g.docToTab /\ h.tabs = g.tabs /\ h.pageDoc = g.pageDoc
         /\ h.place = g.place /\ h.widgets = g.widgets /\ h.rootWidget # NoPage
         /\ h.rootWidget = g.rootWidget \/ h.rootWidget \in DOMAIN g.pageDoc
         /\ h.tabIndex = IF k \in DOMAIN g.tabs THEN k ELSE g.tabIndex
         /\ k \in DOMAIN g.tabs /\ DocAt(g, k) = g.currentDocument =>
              /\ h.crashed = g.crashed /\ h.rootWidget = g.tabs[k]
              /\ h.currentDocument = g.currentDocument /\ h.connected = g.connected
<1> DEFINE at == SetCurrentIndex(g, k)
<1>1. /\ g \in Gui /\ g.tabs \in Seq(Page) /\ Len(g.tabs) \in Nat /\ g.tabIndex \in Nat
      /\ g.tabIndex <= Len(g.tabs) /\ (g.tabIndex = NoTab <=> g.tabs = <<>>)
      /\ DOMAIN g.tabs = 1..Len(g.tabs)
  BY LenProperties DEF Sound, Gui
<1>2. /\ at \in Gui /\ Keeps(at, g)
      /\ at.tabIndex = IF k \in DOMAIN g.tabs THEN k ELSE g.tabIndex
      /\ k \in DOMAIN g.tabs /\ DocAt(g, k) = g.currentDocument =>
           at.currentDocument = g.currentDocument /\ at.connected = g.connected
  BY <1>1, IndexGui
<1>3. at.rootWidget # NoPage
  <2>1. \A j \in DOMAIN g.tabs : g.tabs[j] # NoPage
    <3>1. \A j \in DOMAIN g.tabs : g.tabs[j] \in Page
      BY <1>1
    <3>2. QED BY <3>1, NoPageIsNone
  <2>2. at.rootWidget = g.rootWidget \/ (k \in DOMAIN g.tabs /\ at.rootWidget = g.tabs[k])
    BY <1>1, IndexGui
  <2>3. QED BY <2>1, <2>2
<1> HIDE DEF at
<1>4. CASE g.tabs = <<>>
  <2>1. h = [at EXCEPT !.crashed = TRUE]
    BY <1>2, <1>4 DEF ReturnToTab, at, Keeps
  <2>2. k \notin DOMAIN g.tabs
    BY <1>4
  <2>3. /\ h \in Gui /\ h.docToTab = at.docToTab /\ h.tabs = at.tabs /\ h.pageDoc = at.pageDoc
        /\ h.place = at.place /\ h.widgets = at.widgets /\ h.rootWidget = at.rootWidget
        /\ h.tabIndex = at.tabIndex
    BY <1>2, <2>1 DEF Gui
  <2>4. at = g
    BY <2>2, <1>1, <1>4, IndexGui DEF at, NoTab
  <2>5. QED BY <1>2, <1>3, <2>2, <2>3, <2>4 DEF Keeps
<1>5. CASE g.tabs # <<>>
  <2>1. h = [at EXCEPT !.rootWidget = at.tabs[at.tabIndex]]
    BY <1>2, <1>5 DEF ReturnToTab, at, Keeps
  <2>2. at.tabIndex \in DOMAIN g.tabs /\ at.tabs = g.tabs
    BY <1>1, <1>2, <1>5 DEF Keeps, NoTab
  <2>3. at.tabs[at.tabIndex] \in Page /\ NoPage \notin Page
    <3>1. g.tabs[at.tabIndex] \in Page
      BY <1>1, <2>2
    <3>2. QED BY <2>2, <3>1, NoPageIsNone
  <2>4. /\ h \in Gui /\ h.docToTab = at.docToTab /\ h.tabs = at.tabs /\ h.pageDoc = at.pageDoc
        /\ h.place = at.place /\ h.widgets = at.widgets
        /\ h.rootWidget = at.tabs[at.tabIndex] /\ h.tabIndex = at.tabIndex
        /\ h.crashed = at.crashed /\ h.currentDocument = at.currentDocument
        /\ h.connected = at.connected
    BY <1>2, <2>1, <2>3 DEF Gui
  <2>5. at.tabs[at.tabIndex] \in DOMAIN g.pageDoc
    BY <2>2 DEF Sound
  <2>6. QED BY <1>2, <2>2, <2>3, <2>4, <2>5 DEF Keeps
<1>6. QED BY <1>4, <1>5

---------------------------------------------------------------------------
(* The map and the tabs.                                                   *)

\* TabsMatch, of a record.
Match(g) ==
  /\ ~g.crashed
  /\ \A d \in Doc : \A k \in DOMAIN g.tabs : g.docToTab[d] = k <=> g.pageDoc[g.tabs[k]] = d
  /\ Indexed(g)
  /\ g.tabs # <<>> => g.pageDoc[g.tabs[g.tabIndex]] = g.currentDocument
                      /\ g.rootWidget = g.tabs[g.tabIndex]
  /\ g.connected = IF g.currentDocument = NoDoc THEN <<>> ELSE <<g.currentDocument>>

\* A tab leads to the document of its page.
LEMMA DocOfTab ==
  ASSUME NEW g, Sound(g), Match(g), NEW k \in DOMAIN g.tabs
  PROVE  DocAt(g, k) = g.pageDoc[g.tabs[k]] /\ DocAt(g, k) \in Doc
<1>1. g.tabs[k] \in DOMAIN g.pageDoc /\ g.pageDoc \in Seq(Doc) /\ g \in Gui
  BY DEF Sound, Gui
<1>2. g.pageDoc[g.tabs[k]] \in Doc
  BY <1>1
<1>3. g.docToTab[g.pageDoc[g.tabs[k]]] = k
  BY <1>2 DEF Match
<1>4. DocAt(g, k) # NoDoc
  BY <1>1, <1>2, <1>3, DocAtTab
<1>5. DocAt(g, k) \in Doc /\ g.docToTab[DocAt(g, k)] = k
  BY <1>1, <1>4, DocAtTab
<1>6. QED BY <1>5 DEF Match

\* The connections of the old document are all there are.
LEMMA LeftAlone ==
  ASSUME NEW g, Sound(g), Match(g)
  PROVE  Without(g.connected, g.currentDocument) = <<>>
<1>1. g.connected \in Seq(Doc)
  BY DEF Sound, Gui
<1>2. CASE g.currentDocument = NoDoc
  <2>1. g.connected = <<>>
    BY <1>2 DEF Match
  <2>2. QED BY <1>1, <2>1, WithoutList
<1>3. CASE g.currentDocument # NoDoc
  <2>1. Len(g.connected) = 1 /\ g.connected[1] = g.currentDocument
    BY <1>3 DEF Match
  <2>2. QED BY <1>1, <2>1, WithoutList
<1>4. QED BY <1>2, <1>3

\* In h, the tab of d is shown again, all the rest is as it was.
Returns(h, g, d) ==
  /\ g.docToTab[d] # NoTab
  /\ h.docToTab = g.docToTab /\ h.tabs = g.tabs /\ h.pageDoc = g.pageDoc
  /\ h.place = g.place /\ h.widgets = g.widgets

\* In h, d has got a new page, at the last tab, with what arrived of it.
Opens(h, g, d) ==
  /\ g.docToTab[d] = NoTab
  /\ h.tabs = Append(g.tabs, Len(g.pageDoc) + 1)
  /\ h.pageDoc = Append(g.pageDoc, d) /\ Len(g.pageDoc) + 1 \in Page
  /\ h.docToTab = [g.docToTab EXCEPT ![d] = Len(g.tabs) + 1]
  /\ \A i \in Item : h.place[i] =
       IF i \in arrived /\ DocOf[i] = d
       THEN [page |-> Len(g.pageDoc) + 1, nested |-> ParentOf[i] # NoItem] ELSE g.place[i]
  /\ h.widgets = g.widgets
       \cup ({Len(g.pageDoc) + 1} \X {i \in arrived : DocOf[i] = d})

\* What choosing a document does: it brings up its tab, or opens a page.
LEMMA SetGui ==
  ASSUME NEW g, Sound(g), Used(g), NEW d \in Doc, d # g.currentDocument,
         Len(g.pageDoc) < MaxPages, arrived \subseteq Item,
         NEW h, h = SetCurrentDocument(g, d)
  PROVE  /\ Sound(h) /\ h.rootWidget # NoPage /\ h.connected # <<>>
         /\ h.rootWidget = g.rootWidget \/ h.rootWidget \in DOMAIN h.pageDoc
         /\ \/ Returns(h, g, d)
            \/ Opens(h, g, d)
         /\ Match(g) => Match(h) /\ h.tabs # <<>> /\ h.pageDoc[h.tabs[h.tabIndex]] = d
<1> DEFINE left == Leave(g, d)
           page == Len(g.pageDoc) + 1
           index == Len(g.tabs) + 1
<1>1. /\ g \in Gui /\ g.tabs \in Seq(Page) /\ Len(g.tabs) \in Nat /\ DOMAIN g.tabs = 1..Len(g.tabs)
      /\ g.pageDoc \in Seq(Doc) /\ Len(g.pageDoc) \in Nat /\ DOMAIN g.pageDoc = 1..Len(g.pageDoc)
      /\ g.docToTab \in [Doc -> Nat] /\ MaxPages \in Nat
  BY LenProperties, MaxPagesAssumption DEF Sound, Gui
<1>2. /\ left \in Gui /\ left.connected = Without(g.connected, g.currentDocument)
      /\ left.currentDocument = d
      /\ left.docToTab = g.docToTab /\ left.tabs = g.tabs
      /\ left.tabIndex = g.tabIndex /\ left.pageDoc = g.pageDoc
      /\ left.rootWidget = g.rootWidget
      /\ left.place = g.place /\ left.widgets = g.widgets /\ left.crashed = g.crashed
  BY <1>1, LeaveGui
<1> HIDE DEF left
<1>3. Sound(left)
  BY <1>2 DEF Sound
<1>4. \A k : DocAt(left, k) = DocAt(g, k)
  BY <1>2 DEF DocAt
<1>5. Match(g) => left.connected = <<>> /\ Append(left.connected, d) = <<d>>
  <2>1. Append(<<>>, d) = <<d>>
    OBVIOUS
  <2>2. Match(g) => left.connected = <<>>
    BY <1>2, LeftAlone
  <2>3. QED BY <2>1, <2>2
<1>6. CASE g.docToTab[d] # NoTab
  <2> DEFINE k == g.docToTab[d]
             at == ReturnToTab(left, k)
  <2>1. h = Connect(at, d)
    BY <1>2, <1>6 DEF SetCurrentDocument, left
  <2>2. left.rootWidget # NoPage
    BY <1>2, <1>6 DEF Used
  <2>3. /\ at \in Gui /\ at.docToTab = g.docToTab /\ at.tabs = g.tabs /\ at.pageDoc = g.pageDoc
        /\ at.place = g.place /\ at.widgets = g.widgets /\ at.rootWidget # NoPage
        /\ at.rootWidget = g.rootWidget \/ at.rootWidget \in DOMAIN g.pageDoc
        /\ at.tabIndex = IF k \in DOMAIN g.tabs THEN k ELSE g.tabIndex
        /\ k \in DOMAIN g.tabs /\ DocAt(g, k) = d =>
             /\ at.crashed = g.crashed /\ at.rootWidget = g.tabs[k]
             /\ at.currentDocument = d /\ at.connected = left.connected
    BY <1>2, <1>3, <1>4, <2>2, ReturnGui
  <2> HIDE DEF at
  <2>4. /\ h \in Gui /\ h.docToTab = g.docToTab /\ h.tabs = g.tabs /\ h.pageDoc = g.pageDoc
        /\ h.place = g.place /\ h.widgets = g.widgets /\ h.rootWidget = at.rootWidget
        /\ h.tabIndex = at.tabIndex /\ h.crashed = at.crashed
        /\ h.currentDocument = at.currentDocument /\ h.connected = Append(at.connected, d)
    BY <2>1, <2>3, ConnectGui
  <2>5. Sound(h)
    <3>1. h.tabIndex <= Len(h.tabs) /\ (h.tabIndex = NoTab <=> h.tabs = <<>>)
      <4>1. CASE k \in DOMAIN g.tabs
        <5>1. g.tabs # <<>> /\ k # NoTab /\ k <= Len(g.tabs)
          BY <1>1, <4>1 DEF NoTab
        <5>2. QED BY <2>3, <2>4, <4>1, <5>1
      <4>2. CASE k \notin DOMAIN g.tabs
        BY <2>3, <2>4, <4>2 DEF Sound
      <4>3. QED BY <4>1, <4>2
    <3>2. QED BY <2>4, <3>1 DEF Sound
  <2>6. ASSUME Match(g)
        PROVE  Match(h) /\ h.tabs # <<>> /\ h.pageDoc[h.tabs[h.tabIndex]] = d
    <3>1. k \in DOMAIN g.tabs
      BY <1>6, <2>6 DEF Match, Indexed
    <3>2. DocAt(g, k) = d /\ g.pageDoc[g.tabs[k]] = d
      BY <2>6, <3>1, DocOfTab DEF Match
    <3>3. /\ h.tabIndex = k /\ h.crashed = g.crashed /\ h.rootWidget = g.tabs[k]
          /\ h.currentDocument = d /\ h.connected = <<d>>
      BY <1>5, <2>3, <2>4, <2>6, <3>1, <3>2
    <3>4. d # NoDoc /\ g.tabs # <<>>
      BY <1>1, <3>1, DocAssumption
    <3>5. QED BY <2>4, <2>6, <3>2, <3>3, <3>4 DEF Match, Indexed
  <2>7. h.connected # <<>>
    <3>1. at.connected \in Seq(Doc)
      BY <2>3 DEF Gui
    <3>2. QED BY <2>4, <3>1, AppendProperties
  <2>8. QED BY <1>6, <2>3, <2>4, <2>5, <2>6, <2>7 DEF Returns
<1>7. CASE g.docToTab[d] = NoTab
  <2> DEFINE at == OpenPage(left, d)
  <2>1. h = Connect(at, d)
    BY <1>2, <1>7 DEF SetCurrentDocument, left
  <2>2. /\ at \in Gui /\ at.tabs = Append(g.tabs, page) /\ at.rootWidget = page
        /\ page \in Page /\ at.pageDoc = Append(g.pageDoc, d)
        /\ at.docToTab = [g.docToTab EXCEPT ![d] = index]
        /\ at.tabIndex = index /\ at.crashed = g.crashed
        /\ \A i \in Item : at.place[i] =
             IF i \in arrived /\ DocOf[i] = d
             THEN [page |-> page, nested |-> ParentOf[i] # NoItem] ELSE g.place[i]
        /\ at.widgets = g.widgets \cup ({page} \X {i \in arrived : DocOf[i] = d})
        /\ Indexed(left) => at.currentDocument = d /\ at.connected = left.connected
    <3>1. /\ Len(left.pageDoc) < MaxPages /\ page = Len(left.pageDoc) + 1
          /\ index = Len(left.tabs) + 1
      BY <1>2
    <3> HIDE DEF page, index
    <3>2. /\ at \in Gui /\ at.tabs = Append(left.tabs, page) /\ at.rootWidget = page
          /\ page \in Page /\ at.pageDoc = Append(left.pageDoc, d)
          /\ at.docToTab = [left.docToTab EXCEPT ![d] = index]
          /\ at.tabIndex = index /\ at.crashed = left.crashed
          /\ \A i \in Item : at.place[i] =
               IF i \in arrived /\ DocOf[i] = d
               THEN [page |-> page, nested |-> ParentOf[i] # NoItem] ELSE left.place[i]
          /\ at.widgets = left.widgets \cup ({page} \X {i \in arrived : DocOf[i] = d})
          /\ left.currentDocument = d /\ Indexed(left)
             => at.currentDocument = d /\ at.connected = left.connected
      BY <1>3, <3>1, OpenGui
    <3> HIDE DEF at
    <3>3. QED BY <1>2, <3>2
  <2> HIDE DEF at
  <2>3. /\ h \in Gui /\ h.docToTab = at.docToTab /\ h.tabs = at.tabs /\ h.pageDoc = at.pageDoc
        /\ h.place = at.place /\ h.widgets = at.widgets /\ h.rootWidget = at.rootWidget
        /\ h.tabIndex = at.tabIndex /\ h.crashed = at.crashed
        /\ h.currentDocument = at.currentDocument /\ h.connected = Append(at.connected, d)
    <3>1. at \in Gui
      BY <2>2
    <3>2. QED BY <2>1, <3>1, ConnectGui
  <2>4. /\ Len(h.tabs) = index /\ DOMAIN h.tabs = 1..index /\ h.tabs[index] = page
        /\ \A k \in DOMAIN g.tabs : h.tabs[k] = g.tabs[k]
        /\ Len(h.pageDoc) = page /\ DOMAIN h.pageDoc = 1..page /\ h.pageDoc[page] = d
        /\ \A p \in DOMAIN g.pageDoc : h.pageDoc[p] = g.pageDoc[p]
    BY <1>1, <2>2, <2>3, AppendProperties, LenProperties
  <2>5. h.tabs # <<>> /\ index # NoTab
    BY <1>1, <2>4 DEF NoTab
  <2>6. \A k \in DOMAIN h.tabs : h.tabs[k] \in DOMAIN h.pageDoc
    <3>1. SUFFICES ASSUME NEW k \in DOMAIN h.tabs PROVE h.tabs[k] \in 1..page
      BY <2>4
    <3>2. CASE k = index
      BY <1>1, <2>4, <3>2
    <3>3. CASE k # index
      <4>1. k \in DOMAIN g.tabs
        BY <1>1, <2>4, <3>3
      <4>2. g.tabs[k] \in 1..Len(g.pageDoc)
        BY <1>1, <4>1 DEF Sound
      <4>3. QED BY <1>1, <2>4, <4>1, <4>2
    <3>4. QED BY <3>2, <3>3
  <2>7. Sound(h)
    BY <1>1, <2>2, <2>3, <2>4, <2>5, <2>6 DEF Sound
  <2>8. h.rootWidget # NoPage
    BY <2>2, <2>3, NoPageIsNone
  <2>9. ASSUME Match(g)
        PROVE  Match(h) /\ h.tabs # <<>> /\ h.pageDoc[h.tabs[h.tabIndex]] = d
    <3>1. Indexed(left)
      BY <1>2, <2>9 DEF Match, Indexed
    <3>2. h.currentDocument = d /\ h.connected = <<d>> /\ ~h.crashed
      BY <1>5, <2>2, <2>3, <2>9, <3>1 DEF Match
    <3>3. \A e \in Doc : h.docToTab[e] = IF e = d THEN index ELSE g.docToTab[e]
      BY <1>1, <2>2, <2>3
    <3>4. \A e \in Doc : g.docToTab[e] \in {NoTab} \cup 1..Len(g.tabs)
      BY <1>1, <2>9 DEF Match, Indexed
    <3>5. Indexed(h)
      BY <1>1, <2>4, <3>3, <3>4 DEF Indexed
    <3>6. ASSUME NEW e \in Doc, NEW k \in DOMAIN h.tabs
          PROVE  h.docToTab[e] = k <=> h.pageDoc[h.tabs[k]] = e
      <4>1. CASE k = index
        <5>1. h.pageDoc[h.tabs[k]] = d
          BY <2>4, <4>1
        <5>2. e # d => h.docToTab[e] # index
          BY <1>1, <3>3, <3>4 DEF NoTab
        <5>3. QED BY <3>3, <4>1, <5>1, <5>2
      <4>2. CASE k # index
        <5>1. k \in DOMAIN g.tabs
          BY <1>1, <2>4, <4>2
        <5>2. h.pageDoc[h.tabs[k]] = g.pageDoc[g.tabs[k]]
          BY <2>4, <5>1 DEF Sound
        <5>3. g.docToTab[e] = k <=> g.pageDoc[g.tabs[k]] = e
          BY <2>9, <5>1 DEF Match
        <5>4. CASE e = d
          <6>1. k # NoTab
            BY <1>1, <5>1 DEF NoTab
          <6>2. QED BY <1>7, <3>3, <4>2, <5>2, <5>3, <5>4, <6>1
        <5>5. CASE e # d
          BY <3>3, <5>2, <5>3, <5>5
        <5>6. QED BY <5>4, <5>5
      <4>3. QED BY <4>1, <4>2
    <3>7. /\ h.tabIndex = index /\ h.pageDoc[h.tabs[h.tabIndex]] = d
          /\ h.rootWidget = h.tabs[h.tabIndex]
      BY <2>2, <2>3, <2>4
    <3>8. d # NoDoc
      BY DocAssumption
    <3>9. QED BY <2>5, <3>2, <3>5, <3>6, <3>7, <3>8 DEF Match
  <2>10. Opens(h, g, d)
    BY <1>7, <2>2, <2>3 DEF Opens
  <2>11. h.connected # <<>>
    <3>1. at.connected \in Seq(Doc)
      BY <2>2 DEF Gui
    <3>2. QED BY <2>3, <3>1, AppendProperties
  <2>12. h.rootWidget \in DOMAIN h.pageDoc
    BY <1>1, <2>2, <2>3, <2>4
  <2>13. QED BY <2>7, <2>8, <2>9, <2>10, <2>11, <2>12
<1>8. QED BY <1>6, <1>7

---------------------------------------------------------------------------
(* Closing a tab.                                                          *)

\* A sequence without one of its elements.
LEMMA RemoveAtProperties ==
  ASSUME NEW S, NEW s \in Seq(S), NEW k \in 1..Len(s)
  PROVE  /\ RemoveAt(s, k) \in Seq(S) /\ Len(RemoveAt(s, k)) = Len(s) - 1
         /\ \A j \in 1..Len(s) - 1 : RemoveAt(s, k)[j] = IF j < k THEN s[j] ELSE s[j + 1]
<1>1. Len(s) \in Nat /\ DOMAIN s = 1..Len(s) /\ \A i \in 1..Len(s) : s[i] \in S
  BY LenProperties
<1> DEFINE a == SubSeq(s, 1, k - 1)
           b == SubSeq(s, k + 1, Len(s))
<1>2. /\ a \in Seq(S) /\ Len(a) = k - 1
      /\ \A i \in 1..k - 1 : a[i] = s[i]
  <2>1. \A i \in 1..k - 1 : s[i] \in S
    BY <1>1
  <2>2. /\ a \in Seq(S) /\ Len(a) = IF 1 <= k - 1 THEN (k - 1) - 1 + 1 ELSE 0
        /\ \A i \in 1..(k - 1) - 1 + 1 : a[i] = s[1 + i - 1]
    BY <2>1, SubSeqProperties
  <2> HIDE DEF a
  <2>3. QED BY <1>1, <2>2
<1>3. /\ b \in Seq(S) /\ Len(b) = Len(s) - k
      /\ \A i \in 1..Len(s) - k : b[i] = s[k + i]
  <2>1. \A i \in k + 1..Len(s) : s[i] \in S
    BY <1>1
  <2>2. /\ b \in Seq(S) /\ Len(b) = IF k + 1 <= Len(s) THEN Len(s) - (k + 1) + 1 ELSE 0
        /\ \A i \in 1..Len(s) - (k + 1) + 1 : b[i] = s[(k + 1) + i - 1]
    BY <1>1, <2>1, SubSeqProperties
  <2> HIDE DEF b
  <2>3. Len(b) = Len(s) - k
    <3>1. PICK l \in Nat : l = Len(s) /\ k \in 1..l
      BY <1>1
    <3>2. Len(b) = IF k + 1 <= l THEN l - (k + 1) + 1 ELSE 0
      BY <2>2, <3>1
    <3>3. Len(b) = l - k
      BY ONLY <3>1, <3>2
    <3>4. QED BY <3>1, <3>3
  <2>4. ASSUME NEW i \in 1..Len(s) - k
        PROVE  b[i] = s[k + i]
    <3>1. i \in 1..Len(s) - (k + 1) + 1 /\ (k + 1) + i - 1 = k + i
      BY <1>1
    <3>2. b[i] = s[(k + 1) + i - 1]
      BY <2>2, <3>1
    <3>3. QED BY <3>1, <3>2
  <2>5. QED BY <2>2, <2>3, <2>4
<1>4. RemoveAt(s, k) = a \o b
  BY DEF RemoveAt
<1> HIDE DEF a, b
<1>5. /\ a \o b \in Seq(S) /\ Len(a \o b) = Len(s) - 1
      /\ \A i \in 1..Len(s) - 1 : (a \o b)[i] = IF i <= k - 1 THEN a[i] ELSE b[i - (k - 1)]
  <2>1. /\ a \o b \in Seq(S) /\ Len(a \o b) = Len(a) + Len(b)
        /\ \A i \in 1..Len(a) + Len(b) : (a \o b)[i] = IF i <= Len(a) THEN a[i] ELSE b[i - Len(a)]
    BY <1>2, <1>3, ConcatProperties
  <2>2. Len(a) + Len(b) = Len(s) - 1
    BY <1>1, <1>2, <1>3
  <2>3. QED BY <1>2, <2>1, <2>2
<1>6. ASSUME NEW j \in 1..Len(s) - 1
      PROVE  (a \o b)[j] = IF j < k THEN s[j] ELSE s[j + 1]
  <2>1. CASE j < k
    BY <1>1, <1>2, <1>5, <2>1
  <2>2. CASE ~(j < k)
    <3>1. j - (k - 1) \in 1..Len(s) - k /\ k + (j - (k - 1)) = j + 1 /\ ~(j <= k - 1)
      BY <1>1, <2>2
    <3>2. QED BY <1>3, <1>5, <2>2, <3>1
  <2>3. QED BY <2>1, <2>2
<1>7. QED BY <1>4, <1>5, <1>6

\* The least of two numbers.
LEMMA MinOfTwo ==
  ASSUME NEW a \in Nat, NEW b \in Nat
  PROVE  Min({a, b}) = IF a <= b THEN a ELSE b
<1> DEFINE m == IF a <= b THEN a ELSE b
<1>1. m \in {a, b} /\ \A y \in {a, b} : m <= y
  OBVIOUS
<1>2. \A x \in {a, b} : (\A y \in {a, b} : x <= y) => x = m
  OBVIOUS
<1>3. QED BY <1>1, <1>2 DEF Min

\* A list with one more document is not empty.
LEMMA ConnectedList ==
  ASSUME NEW list \in Seq(Doc), NEW d
  PROVE  Append(list, d) # <<>>
<1>1. Len(Append(list, d)) = Len(list) + 1 /\ Len(list) \in Nat
  BY LenProperties
<1>2. QED BY <1>1

\* removeTab: the tab shown, and what its signal does, when the last tab goes.
LEMMA RemoveGui ==
  ASSUME NEW g, Sound(g), NEW k \in DOMAIN g.tabs, NEW n, n = Len(g.tabs),
         NEW h, h = RemoveTab(g, k)
  PROVE  /\ Sound(h) /\ h.docToTab = g.docToTab /\ h.pageDoc = g.pageDoc
         /\ h.place = g.place /\ h.widgets = g.widgets /\ h.crashed = g.crashed
         /\ h.tabs = RemoveAt(g.tabs, k)
         /\ g.rootWidget # NoPage => h.rootWidget # NoPage
         /\ h.rootWidget = g.rootWidget \/ h.rootWidget \in DOMAIN g.pageDoc
         /\ g.connected # <<>> => h.connected # <<>>
         /\ k = n =>
              \/ /\ k > g.tabIndex \/ k = 1
                 /\ h.tabIndex = IF k = 1 THEN NoTab ELSE g.tabIndex
                 /\ h.rootWidget = g.rootWidget /\ h.currentDocument = g.currentDocument
                 /\ h.connected = g.connected
              \/ /\ k = g.tabIndex /\ k > 1 /\ h.tabIndex = k - 1
                 /\ \/ DocAt(g, k - 1) \in {NoDoc, g.currentDocument}
                    \/ /\ h.currentDocument = DocAt(g, k - 1) /\ h.rootWidget = g.tabs[k - 1]
                       /\ h.connected = Append(Without(g.connected, g.currentDocument),
                                               DocAt(g, k - 1))
<1> DEFINE moved == IF k > g.tabIndex THEN g.tabIndex
                    ELSE IF k < g.tabIndex THEN g.tabIndex - 1
                    ELSE Min({k, Len(g.tabs) - 1})
           removed == [g EXCEPT !.tabs = RemoveAt(@, k)]
           at == [removed EXCEPT !.tabIndex = moved]
<1>1. /\ g \in Gui /\ g.tabs \in Seq(Page) /\ n \in Nat /\ DOMAIN g.tabs = 1..n
      /\ g.tabIndex \in Nat /\ g.tabIndex <= n /\ g.tabIndex # NoTab
  <2>1. g \in Gui /\ g.tabs \in Seq(Page) /\ g.tabIndex \in Nat
    BY DEF Sound, Gui
  <2>2. n \in Nat /\ DOMAIN g.tabs = 1..n /\ g.tabs # <<>>
    BY <2>1, LenProperties
  <2>3. QED BY <2>1, <2>2 DEF Sound
<1>2. /\ RemoveAt(g.tabs, k) \in Seq(Page) /\ Len(RemoveAt(g.tabs, k)) = n - 1
      /\ \A j \in 1..n - 1 : RemoveAt(g.tabs, k)[j] = IF j < k THEN g.tabs[j] ELSE g.tabs[j + 1]
  BY <1>1, RemoveAtProperties
<1>3. /\ moved \in Nat /\ moved <= n - 1 /\ (moved = NoTab <=> n = 1)
      /\ k = n /\ k > g.tabIndex => moved = g.tabIndex
      /\ k = n /\ k = g.tabIndex => moved = k - 1
  <2>1. k \in Nat /\ 1 <= k /\ k <= n /\ n - 1 \in Nat
    BY <1>1
  <2>2. Min({k, n - 1}) = IF k <= n - 1 THEN k ELSE n - 1
    BY <2>1, MinOfTwo
  <2>3. moved = IF k > g.tabIndex THEN g.tabIndex ELSE IF k < g.tabIndex THEN g.tabIndex - 1
                ELSE IF k <= n - 1 THEN k ELSE n - 1
    BY <2>2
  <2>4. k \in 1..n /\ g.tabIndex \in 1..n
    BY <1>1 DEF NoTab
  <2> HIDE DEF moved
  <2>5. \A t, j \in 1..n :
          LET m == IF j > t THEN t ELSE IF j < t THEN t - 1 ELSE IF j <= n - 1 THEN j ELSE n - 1
          IN /\ m \in Nat /\ m <= n - 1 /\ (m = 0 <=> n = 1)
             /\ j = n /\ j > t => m = t
             /\ j = n /\ j = t => m = j - 1
    <3>1. n \in Nat
      BY <1>1
    <3>2. QED BY ONLY <3>1
  <2>6. QED BY <2>3, <2>4, <2>5 DEF NoTab
<1> HIDE DEF moved
<1>4. /\ removed \in Gui /\ removed.tabs = RemoveAt(g.tabs, k) /\ Keeps([removed EXCEPT !.tabs = g.tabs], g)
      /\ removed.docToTab = g.docToTab /\ removed.pageDoc = g.pageDoc
      /\ removed.place = g.place /\ removed.widgets = g.widgets /\ removed.crashed = g.crashed
      /\ removed.tabIndex = g.tabIndex /\ removed.rootWidget = g.rootWidget
      /\ removed.currentDocument = g.currentDocument /\ removed.connected = g.connected
  BY <1>1, <1>2 DEF Gui, Keeps
<1> HIDE DEF removed
<1>5. /\ at \in Gui /\ at.tabs = RemoveAt(g.tabs, k)
      /\ at.docToTab = g.docToTab /\ at.pageDoc = g.pageDoc
      /\ at.place = g.place /\ at.widgets = g.widgets /\ at.crashed = g.crashed
      /\ at.tabIndex = moved /\ at.rootWidget = g.rootWidget
      /\ at.currentDocument = g.currentDocument /\ at.connected = g.connected
  BY <1>3, <1>4 DEF Gui
<1> HIDE DEF at
<1>6. h = IF k > g.tabIndex \/ moved = NoTab THEN at ELSE OnDocumentTabChanged(at, moved)
  BY DEF RemoveTab, removed, moved, at
<1>7. Len(at.tabs) = n - 1 /\ DOMAIN at.tabs = 1..n - 1
  BY <1>1, <1>2, <1>5, LenProperties
<1>8. \A j \in DOMAIN at.tabs : at.tabs[j] \in DOMAIN g.pageDoc
  <2>1. SUFFICES ASSUME NEW j \in 1..n - 1 PROVE at.tabs[j] \in DOMAIN g.pageDoc
    BY <1>7
  <2>2. j \in DOMAIN g.tabs /\ j + 1 \in DOMAIN g.tabs
    BY <1>1
  <2>3. at.tabs[j] \in {g.tabs[j], g.tabs[j + 1]}
    BY <1>2, <1>5
  <2>4. QED BY <2>2, <2>3 DEF Sound
<1>9. Sound(at)
  <2>1. at.tabIndex <= Len(at.tabs)
    BY <1>3, <1>5, <1>7
  <2>2. at.tabIndex = NoTab <=> at.tabs = <<>>
    <3>1. at.tabs = <<>> <=> Len(at.tabs) = 0
      BY <1>2, <1>5, EmptySeq
    <3>2. QED BY <1>1, <1>3, <1>5, <1>7, <3>1
  <2>3. Len(at.pageDoc) <= MaxPages
    BY <1>5 DEF Sound
  <2>4. QED BY <1>5, <1>8, <2>1, <2>2, <2>3 DEF Sound
<1>10. CASE k > g.tabIndex \/ moved = NoTab
  <2>1. h = at
    BY <1>6, <1>10
  <2>2. k = n => (k > g.tabIndex \/ k = 1) /\ moved = IF k = 1 THEN NoTab ELSE g.tabIndex
    BY <1>1, <1>3, <1>10 DEF NoTab
  <2>3. QED BY <1>5, <1>9, <2>1, <2>2
<1>11. CASE ~(k > g.tabIndex \/ moved = NoTab)
  <2>1. h = OnDocumentTabChanged(at, moved) /\ moved \in DOMAIN at.tabs
    BY <1>1, <1>3, <1>6, <1>7, <1>11 DEF NoTab
  <2>2. /\ h \in Gui /\ Keeps(h, at) /\ h.tabIndex = at.tabIndex
        /\ \/ h = at /\ DocAt(at, moved) \in {NoDoc, at.currentDocument}
           \/ /\ h.currentDocument = DocAt(at, moved) /\ h.rootWidget = at.tabs[moved]
              /\ h.connected = Append(Without(at.connected, at.currentDocument), DocAt(at, moved))
    BY <1>5, <2>1, ChangedGui
  <2>3. Sound(h)
    BY <1>9, <2>2 DEF Sound, Keeps
  <2>4. at.tabs[moved] # NoPage
    <3>1. at.tabs[moved] \in Page
      BY <1>2, <1>5, <2>1
    <3>2. QED BY <3>1, NoPageIsNone
  <2>5. k = n => /\ k = g.tabIndex /\ k > 1 /\ moved = k - 1
                 /\ at.tabs[moved] = g.tabs[k - 1]
    <3>1. SUFFICES ASSUME k = n
                   PROVE  /\ k = g.tabIndex /\ k > 1 /\ moved = k - 1
                          /\ at.tabs[moved] = g.tabs[k - 1]
      OBVIOUS
    <3>2. k = g.tabIndex /\ moved = k - 1
      BY <1>1, <1>3, <1>11, <3>1
    <3>3. k > 1 /\ k - 1 \in 1..n - 1 /\ k - 1 < k
      BY <1>1, <1>3, <1>11, <3>1, <3>2 DEF NoTab
    <3>4. QED BY <1>2, <1>5, <3>2, <3>3
  <2>6. DocAt(at, moved) = DocAt(g, moved)
    BY <1>5 DEF DocAt
  <2>7. Append(Without(at.connected, at.currentDocument), DocAt(at, moved)) # <<>>
    <3>1. Without(at.connected, at.currentDocument) \in Seq(Doc)
      BY <1>5, WithoutList DEF Gui
    <3>2. QED BY <3>1, ConnectedList
  <2>8. at.tabs[moved] \in DOMAIN g.pageDoc
    BY <1>8, <2>1
  <2>9. QED BY <1>5, <2>2, <2>3, <2>4, <2>5, <2>6, <2>7, <2>8 DEF Keeps
<1>12. QED BY <1>10, <1>11
\* Showing another tab keeps the map, and the tab shown is the current document's.
LEMMA ShowGui ==
  ASSUME NEW g, Sound(g), Used(g), NEW k, NEW h, h = SetCurrentIndex(g, k)
  PROVE  /\ Sound(h) /\ Used(h) /\ Keeps(h, g)
         /\ h.rootWidget = g.rootWidget \/ h.rootWidget \in DOMAIN g.pageDoc
         /\ g.connected # <<>> => h.connected # <<>>
         /\ Match(g) => Match(h)
<1>1. g \in Gui /\ g.tabs \in Seq(Page) /\ DOMAIN g.tabs = 1..Len(g.tabs) /\ Len(g.tabs) \in Nat
  BY LenProperties DEF Sound, Gui
<1>2. /\ h \in Gui /\ Keeps(h, g)
      /\ \/ h = g /\ (k = g.tabIndex \/ k \notin DOMAIN g.tabs)
         \/ /\ k \in DOMAIN g.tabs /\ k # g.tabIndex /\ h.tabIndex = k
            /\ \/ /\ DocAt(g, k) \in {NoDoc, g.currentDocument}
                  /\ h.currentDocument = g.currentDocument
                  /\ h.rootWidget = g.rootWidget /\ h.connected = g.connected
               \/ /\ DocAt(g, k) \notin {NoDoc, g.currentDocument}
                  /\ h.currentDocument = DocAt(g, k) /\ h.rootWidget = g.tabs[k]
                  /\ h.connected = Append(Without(g.connected, g.currentDocument), DocAt(g, k))
  BY <1>1, IndexGui
<1>3. CASE h = g
  BY <1>2, <1>3
<1>4. CASE h # g
  <2>1. k \in DOMAIN g.tabs /\ k # g.tabIndex /\ h.tabIndex = k
    BY <1>2, <1>4
  <2>2. g.tabs # <<>> /\ k # NoTab /\ k <= Len(g.tabs) /\ g.tabs[k] \in Page
    BY <1>1, <2>1 DEF NoTab
  <2>3. Sound(h)
    BY <1>2, <2>1, <2>2 DEF Sound, Keeps
  <2>4. h.rootWidget = g.rootWidget \/ h.rootWidget = g.tabs[k]
    BY <1>2, <1>4
  <2>5. h.rootWidget # NoPage
    BY <2>2, <2>4, NoPageIsNone DEF Used
  <2>6. ASSUME Match(g)
        PROVE  Match(h)
    <3>1. DocAt(g, k) = g.pageDoc[g.tabs[k]] /\ DocAt(g, k) \in Doc
      BY <2>1, <2>6, DocOfTab
    <3>2. DocAt(g, k) # NoDoc
      BY <3>1, DocAssumption
    <3>3. DocAt(g, k) # g.currentDocument
      <4>1. SUFFICES ASSUME DocAt(g, k) = g.currentDocument PROVE FALSE
        OBVIOUS
      <4>2. g.pageDoc[g.tabs[g.tabIndex]] = g.currentDocument
        BY <2>2, <2>6 DEF Match
      <4>3. g.tabIndex \in DOMAIN g.tabs
        BY <1>1, <2>2 DEF Sound, Gui, NoTab
      <4>4. g.docToTab[DocAt(g, k)] = g.tabIndex
        BY <2>6, <3>1, <4>1, <4>2, <4>3 DEF Match
      <4>5. g.docToTab[DocAt(g, k)] = k
        BY <2>1, <2>6, <3>1 DEF Match
      <4>6. QED BY <2>1, <4>4, <4>5
    <3>4. Without(g.connected, g.currentDocument) = <<>>
      BY <2>6, LeftAlone
    <3>5. /\ h.currentDocument = DocAt(g, k) /\ h.rootWidget = g.tabs[k]
          /\ h.connected = <<DocAt(g, k)>>
      BY <1>2, <1>4, <3>2, <3>3, <3>4
    <3>6. h.docToTab = g.docToTab /\ h.tabs = g.tabs /\ h.pageDoc = g.pageDoc /\ h.crashed = g.crashed
      BY <1>2 DEF Keeps
    <3>7. QED BY <2>1, <2>6, <3>1, <3>2, <3>5, <3>6 DEF Match, Indexed
  <2>7. g.connected # <<>> => h.connected # <<>>
    <3>1. Without(g.connected, g.currentDocument) \in Seq(Doc)
      BY <1>1, WithoutList DEF Gui
    <3>2. QED BY <1>2, <1>4, <3>1, ConnectedList
  <2>8. g.tabs[k] \in DOMAIN g.pageDoc
    BY <2>1 DEF Sound
  <2>9. QED BY <1>2, <2>2, <2>3, <2>4, <2>5, <2>6, <2>7, <2>8 DEF Used
<1>5. QED BY <1>3, <1>4

\* The window after the close button of a tab.
Closed(g, k) == RemoveTab(IF DocAt(g, k) = NoDoc THEN g
                          ELSE [g EXCEPT !.docToTab = [@ EXCEPT ![DocAt(g, k)] = NoTab]], k)

\* Closing a tab forgets the entry it finds; closing the last one keeps the map right.
LEMMA CloseGui ==
  ASSUME NEW g, Sound(g), Used(g), NEW k \in DOMAIN g.tabs, NEW h, h = Closed(g, k)
  PROVE  /\ Sound(h) /\ h.rootWidget # NoPage
         /\ h.pageDoc = g.pageDoc /\ h.place = g.place /\ h.widgets = g.widgets
         /\ h.rootWidget = g.rootWidget \/ h.rootWidget \in DOMAIN g.pageDoc
         /\ g.connected # <<>> => h.connected # <<>>
         /\ \A e \in Doc : h.docToTab[e] # NoTab => h.docToTab[e] = g.docToTab[e]
         /\ \A j \in DOMAIN h.tabs : k = Len(g.tabs) => h.tabs[j] = g.tabs[j]
         /\ Match(g) /\ k = Len(g.tabs) => Match(h)
<1> DEFINE d == DocAt(g, k)
           f == IF d = NoDoc THEN g ELSE [g EXCEPT !.docToTab = [@ EXCEPT ![d] = NoTab]]
           n == Len(g.tabs)
<1>1. /\ g \in Gui /\ g.tabs \in Seq(Page) /\ n \in Nat /\ DOMAIN g.tabs = 1..n
      /\ g.docToTab \in [Doc -> Nat] /\ g.tabIndex \in Nat
  BY LenProperties DEF Sound, Gui
<1>2. g.rootWidget # NoPage
  <2>1. g.tabs # <<>>
    BY <1>1
  <2>2. QED BY <2>1 DEF Used
<1>3. d \in Doc \cup {NoDoc} /\ (d # NoDoc => g.docToTab[d] = k)
  BY <1>1, DocAtTab
<1> HIDE DEF d
<1>4. /\ f \in Gui /\ f.tabs = g.tabs /\ f.tabIndex = g.tabIndex /\ f.pageDoc = g.pageDoc
      /\ f.rootWidget = g.rootWidget /\ f.currentDocument = g.currentDocument
      /\ f.connected = g.connected /\ f.place = g.place /\ f.widgets = g.widgets
      /\ f.crashed = g.crashed
      /\ f.docToTab = [e \in Doc |-> IF e = d THEN NoTab ELSE g.docToTab[e]]
  <2>1. CASE d = NoDoc
    <3>1. f = g /\ \A e \in Doc : e # d
      BY <2>1, DocAssumption
    <3>2. g.docToTab = [e \in Doc |-> IF e = d THEN NoTab ELSE g.docToTab[e]]
      BY <1>1, <3>1
    <3>3. QED BY <1>1, <3>1, <3>2
  <2>2. CASE d # NoDoc
    <3>1. f = [g EXCEPT !.docToTab = [g.docToTab EXCEPT ![d] = NoTab]]
      BY <2>2
    <3>2. [g.docToTab EXCEPT ![d] = NoTab] \in [Doc -> Nat]
      BY <1>1 DEF NoTab
    <3>3. [g.docToTab EXCEPT ![d] = NoTab] = [e \in Doc |-> IF e = d THEN NoTab ELSE g.docToTab[e]]
      BY <1>1
    <3> DEFINE x == [g.docToTab EXCEPT ![d] = NoTab]
    <3> HIDE DEF x, f
    <3>4. /\ f \in Gui /\ f.tabs = g.tabs /\ f.tabIndex = g.tabIndex /\ f.pageDoc = g.pageDoc
          /\ f.rootWidget = g.rootWidget /\ f.currentDocument = g.currentDocument
          /\ f.connected = g.connected /\ f.place = g.place /\ f.widgets = g.widgets
          /\ f.crashed = g.crashed /\ f.docToTab = x
      <4>1. f = [g EXCEPT !.docToTab = x] /\ x \in [Doc -> Nat]
        BY <3>1, <3>2 DEF x
      <4>2. QED BY <1>1, <4>1 DEF Gui
    <3>5. QED BY <3>3, <3>4 DEF x
  <2>3. QED BY <2>1, <2>2
<1>5. h = RemoveTab(f, k)
  BY DEF Closed, f, d
<1> HIDE DEF f
<1>6. Sound(f) /\ k \in DOMAIN f.tabs
  BY <1>4 DEF Sound
<1>7. /\ Sound(h) /\ h.docToTab = f.docToTab /\ h.pageDoc = g.pageDoc
      /\ h.place = g.place /\ h.widgets = g.widgets /\ h.crashed = g.crashed
      /\ h.tabs = RemoveAt(g.tabs, k)
      /\ h.rootWidget # NoPage
      /\ h.rootWidget = g.rootWidget \/ h.rootWidget \in DOMAIN g.pageDoc
      /\ g.connected # <<>> => h.connected # <<>>
      /\ k = n =>
           \/ /\ k > g.tabIndex \/ k = 1
              /\ h.tabIndex = IF k = 1 THEN NoTab ELSE g.tabIndex
              /\ h.rootWidget = g.rootWidget /\ h.currentDocument = g.currentDocument
              /\ h.connected = g.connected
           \/ /\ k = g.tabIndex /\ k > 1 /\ h.tabIndex = k - 1
              /\ \/ DocAt(f, k - 1) \in {NoDoc, g.currentDocument}
                 \/ /\ h.currentDocument = DocAt(f, k - 1) /\ h.rootWidget = g.tabs[k - 1]
                    /\ h.connected = Append(Without(g.connected, g.currentDocument),
                                            DocAt(f, k - 1))
  <2>1. n = Len(f.tabs)
    BY <1>4
  <2> HIDE DEF n
  <2>2. /\ Sound(h) /\ h.docToTab = f.docToTab /\ h.pageDoc = f.pageDoc
        /\ h.place = f.place /\ h.widgets = f.widgets /\ h.crashed = f.crashed
        /\ h.tabs = RemoveAt(f.tabs, k)
        /\ f.rootWidget # NoPage => h.rootWidget # NoPage
        /\ h.rootWidget = f.rootWidget \/ h.rootWidget \in DOMAIN f.pageDoc
        /\ f.connected # <<>> => h.connected # <<>>
        /\ k = n =>
             \/ /\ k > f.tabIndex \/ k = 1
                /\ h.tabIndex = IF k = 1 THEN NoTab ELSE f.tabIndex
                /\ h.rootWidget = f.rootWidget /\ h.currentDocument = f.currentDocument
                /\ h.connected = f.connected
             \/ /\ k = f.tabIndex /\ k > 1 /\ h.tabIndex = k - 1
                /\ \/ DocAt(f, k - 1) \in {NoDoc, f.currentDocument}
                   \/ /\ h.currentDocument = DocAt(f, k - 1) /\ h.rootWidget = f.tabs[k - 1]
                      /\ h.connected = Append(Without(f.connected, f.currentDocument),
                                              DocAt(f, k - 1))
    BY <1>5, <1>6, <2>1, RemoveGui
  <2>3. /\ f.tabs = g.tabs /\ f.tabIndex = g.tabIndex /\ f.pageDoc = g.pageDoc
        /\ f.rootWidget = g.rootWidget /\ f.currentDocument = g.currentDocument
        /\ f.connected = g.connected /\ f.place = g.place /\ f.widgets = g.widgets
        /\ f.crashed = g.crashed
    BY <1>4
  <2>4. QED BY <1>2, <2>2, <2>3
<1>8. \A e \in Doc : h.docToTab[e] = IF e = d THEN NoTab ELSE g.docToTab[e]
  BY <1>4, <1>7
<1>9. /\ Len(h.tabs) = n - 1 /\ DOMAIN h.tabs = 1..n - 1
      /\ k = n => \A j \in 1..n - 1 : h.tabs[j] = g.tabs[j]
  <2>1. /\ RemoveAt(g.tabs, k) \in Seq(Page) /\ Len(RemoveAt(g.tabs, k)) = n - 1
        /\ \A j \in 1..n - 1 : RemoveAt(g.tabs, k)[j] = IF j < k THEN g.tabs[j] ELSE g.tabs[j + 1]
    BY <1>1, RemoveAtProperties
  <2>2. k = n => \A j \in 1..n - 1 : j < k
    BY <1>1
  <2>3. QED BY <1>7, <2>1, <2>2, LenProperties
<1>10. ASSUME Match(g), k = n
       PROVE  Match(h)
  <2>1. d = g.pageDoc[g.tabs[k]] /\ d \in Doc
    BY <1>10, DocOfTab DEF d
  <2>2. k \in 1..n /\ n >= 1 /\ n - 1 \in Nat
    BY <1>1
  <2>3. Indexed(h)
    <3>1. SUFFICES ASSUME NEW e \in Doc, e # d PROVE g.docToTab[e] \in {NoTab} \cup 1..n - 1
      BY <1>8, <1>9 DEF Indexed
    <3>2. g.docToTab[e] # k
      BY <1>10, <2>1, <3>1 DEF Match
    <3>3. g.docToTab[e] \in {NoTab} \cup 1..n
      BY <1>1, <1>10 DEF Match, Indexed
    <3>4. QED BY <1>10, <2>2, <3>2, <3>3
  <2>4. ASSUME NEW e \in Doc, NEW j \in 1..n - 1
        PROVE  h.docToTab[e] = j <=> h.pageDoc[h.tabs[j]] = e
    <3>1. j \in DOMAIN g.tabs /\ j # k /\ j # NoTab
      BY <1>1, <1>10, <2>2 DEF NoTab
    <3>2. h.pageDoc[h.tabs[j]] = g.pageDoc[g.tabs[j]]
      BY <1>7, <1>9, <1>10
    <3>3. g.docToTab[e] = j <=> g.pageDoc[g.tabs[j]] = e
      BY <1>10, <3>1 DEF Match
    <3>4. e = d => g.docToTab[e] # j
      BY <1>3, <2>1, <3>1, DocAssumption
    <3>5. QED BY <1>8, <3>1, <3>2, <3>3, <3>4
  <2>5. /\ h.tabs # <<>> => h.pageDoc[h.tabs[h.tabIndex]] = h.currentDocument
                            /\ h.rootWidget = h.tabs[h.tabIndex]
        /\ h.connected = IF h.currentDocument = NoDoc THEN <<>> ELSE <<h.currentDocument>>
    <3>1. g.tabs # <<>> /\ g.pageDoc[g.tabs[g.tabIndex]] = g.currentDocument
          /\ g.rootWidget = g.tabs[g.tabIndex]
          /\ g.connected = IF g.currentDocument = NoDoc THEN <<>> ELSE <<g.currentDocument>>
      <4>1. g.tabs # <<>>
        BY <1>1
      <4>2. QED BY <1>10, <4>1 DEF Match
    <3>2. h.tabs = <<>> <=> n = 1
      <4>1. h.tabs = <<>> <=> Len(h.tabs) = 0
        <5>1. h.tabs \in Seq(Page)
          BY <1>7 DEF Sound, Gui
        <5>2. QED BY <5>1, EmptySeq
      <4>2. QED BY <1>9, <2>2, <4>1
    <3>3. CASE /\ k > g.tabIndex \/ k = 1
               /\ h.tabIndex = IF k = 1 THEN NoTab ELSE g.tabIndex
               /\ h.rootWidget = g.rootWidget /\ h.currentDocument = g.currentDocument
               /\ h.connected = g.connected
      <4>1. CASE k = 1
        BY <1>10, <3>1, <3>2, <3>3, <4>1
      <4>2. CASE k # 1
        <5>1. h.tabIndex = g.tabIndex /\ g.tabIndex \in 1..n - 1
          <6>1. g.tabIndex # NoTab
            BY <3>1 DEF Sound
          <6>2. QED BY <1>1, <1>10, <2>2, <3>3, <4>2, <6>1 DEF NoTab
        <5>2. QED BY <1>7, <1>9, <1>10, <3>1, <3>3, <5>1
      <4>3. QED BY <4>1, <4>2
    <3>4. CASE /\ k = g.tabIndex /\ k > 1 /\ h.tabIndex = k - 1
               /\ \/ DocAt(f, k - 1) \in {NoDoc, g.currentDocument}
                  \/ /\ h.currentDocument = DocAt(f, k - 1) /\ h.rootWidget = g.tabs[k - 1]
                     /\ h.connected = Append(Without(g.connected, g.currentDocument),
                                             DocAt(f, k - 1))
      <4>1. k - 1 \in 1..n - 1 /\ k - 1 \in DOMAIN g.tabs /\ k - 1 # k
        BY <1>1, <1>10, <2>2, <3>4
      <4>2. g.pageDoc[g.tabs[k - 1]] \in Doc /\ g.pageDoc[g.tabs[k - 1]] # d
        <5>1. g.pageDoc[g.tabs[k - 1]] \in Doc
          BY <1>10, <4>1, DocOfTab
        <5>2. g.docToTab[g.pageDoc[g.tabs[k - 1]]] = k - 1
          BY <1>10, <4>1, <5>1 DEF Match
        <5>3. g.docToTab[d] = k
          BY <1>3, <2>1, DocAssumption
        <5>4. QED BY <4>1, <5>1, <5>2, <5>3
      <4>3. DocAt(f, k - 1) = g.pageDoc[g.tabs[k - 1]]
        <5>1. f.docToTab[g.pageDoc[g.tabs[k - 1]]] = k - 1
          <6>1. g.docToTab[g.pageDoc[g.tabs[k - 1]]] = k - 1
            BY <1>10, <4>1, <4>2 DEF Match
          <6>2. QED BY <1>4, <4>2, <6>1
        <5>2. DocAt(f, k - 1) \in Doc /\ f.docToTab[DocAt(f, k - 1)] = k - 1
          BY <1>4, <4>2, <5>1, DocAtTab
        <5>3. DocAt(f, k - 1) # d
          <6>1. k - 1 # NoTab
            BY <4>1 DEF NoTab
          <6>2. f.docToTab[d] = NoTab
            BY <1>4, <2>1
          <6>3. QED BY <5>2, <6>1, <6>2
        <5>4. g.docToTab[DocAt(f, k - 1)] = k - 1
          BY <1>4, <5>2, <5>3
        <5>5. QED BY <1>10, <4>1, <5>2, <5>4 DEF Match
      <4>4. g.currentDocument = d
        BY <2>1, <3>1, <3>4
      <4>5. DocAt(f, k - 1) \notin {NoDoc, g.currentDocument}
        BY <4>2, <4>3, <4>4, DocAssumption
      <4>6. Without(g.connected, g.currentDocument) = <<>>
        BY <1>10, LeftAlone
      <4>7. /\ h.currentDocument = DocAt(f, k - 1) /\ h.rootWidget = g.tabs[k - 1]
            /\ h.connected = <<DocAt(f, k - 1)>> /\ h.tabIndex = k - 1
        BY <3>4, <4>5, <4>6
      <4>8. h.tabs[k - 1] = g.tabs[k - 1] /\ h.pageDoc = g.pageDoc
        BY <1>7, <1>9, <1>10, <4>1
      <4>9. QED BY <4>3, <4>5, <4>7, <4>8
    <3>5. QED BY <1>7, <1>10, <3>3, <3>4
  <2>6. ~h.crashed
    BY <1>7, <1>10 DEF Match
  <2>7. QED BY <1>9, <2>3, <2>4, <2>5, <2>6 DEF Match
<1>11. QED BY <1>7, <1>8, <1>9, <1>10
---------------------------------------------------------------------------
(* Items that arrive.                                                      *)

\* The page of an item has a field for it.
Placed(g) == \A i \in Item : g.place[i] = Nowhere \/ <<g.place[i].page, i>> \in g.widgets

\* An item goes where its parent is, or else to the page new items go to.
LEMMA AddGui ==
  ASSUME NEW g, Sound(g), Placed(g), g.rootWidget # NoPage, NEW i \in Item,
         NEW nested, nested = (ParentOf[i] # NoItem /\ g.place[ParentOf[i]] # Nowhere),
         NEW page, page = IF nested THEN g.place[ParentOf[i]].page ELSE g.rootWidget,
         NEW h, h = AddItem(g, i)
  PROVE  /\ Sound(h) /\ Placed(h) /\ page \in Page
         /\ h.docToTab = g.docToTab /\ h.tabs = g.tabs /\ h.tabIndex = g.tabIndex
         /\ h.pageDoc = g.pageDoc /\ h.rootWidget = g.rootWidget
         /\ h.currentDocument = g.currentDocument /\ h.connected = g.connected
         /\ h.crashed = g.crashed /\ h.widgets = g.widgets \cup {<<page, i>>}
         /\ \A j \in Item :
              h.place[j] = IF j = i THEN [page |-> page, nested |-> nested] ELSE g.place[j]
<1>1. /\ g \in Gui /\ g.widgets \subseteq Page \X Item /\ g.rootWidget \in Page
      /\ g.place \in [Item -> [page : Page \cup {NoPage}, nested : BOOLEAN]]
  BY DEF Sound, Gui
<1>2. nested \in BOOLEAN
  OBVIOUS
<1>3. page \in Page
  <2>1. CASE nested
    <3>1. ParentOf[i] \in Item /\ g.place[ParentOf[i]] # Nowhere
      BY <2>1, ContentsAssumption
    <3>2. <<g.place[ParentOf[i]].page, ParentOf[i]>> \in Page \X Item
      BY <1>1, <3>1 DEF Placed
    <3>3. QED BY <2>1, <3>2
  <2>2. CASE ~nested
    BY <1>1, <2>2
  <2>3. QED BY <1>2, <2>1, <2>2
<1> DEFINE place == [g.place EXCEPT ![i] = [page |-> page, nested |-> nested]]
           widgets == g.widgets \cup {<<page, i>>}
<1>4. h = [g EXCEPT !.place = place, !.widgets = widgets]
  BY DEF AddItem
<1>5. /\ place \in [Item -> [page : Page \cup {NoPage}, nested : BOOLEAN]]
      /\ \A j \in Item :
           place[j] = IF j = i THEN [page |-> page, nested |-> nested] ELSE g.place[j]
  <2> DEFINE r == [page |-> page, nested |-> nested]
  <2>1. r \in [page : Page \cup {NoPage}, nested : BOOLEAN]
    BY <1>2, <1>3
  <2>2. place = [g.place EXCEPT ![i] = r]
    OBVIOUS
  <2> HIDE DEF r, place
  <2>3. /\ place \in [Item -> [page : Page \cup {NoPage}, nested : BOOLEAN]]
        /\ \A j \in Item : place[j] = IF j = i THEN r ELSE g.place[j]
    BY <1>1, <2>1, <2>2
  <2>4. QED BY <2>3 DEF r
<1>6. widgets \in SUBSET (Page \X Item)
  BY <1>1, <1>3
<1> HIDE DEF place, widgets
<1>7. /\ h \in Gui /\ h.docToTab = g.docToTab /\ h.tabs = g.tabs /\ h.tabIndex = g.tabIndex
      /\ h.pageDoc = g.pageDoc /\ h.rootWidget = g.rootWidget
      /\ h.currentDocument = g.currentDocument /\ h.connected = g.connected
      /\ h.crashed = g.crashed /\ h.place = place /\ h.widgets = widgets
  BY <1>1, <1>4, <1>5, <1>6 DEF Gui
<1>8. Sound(h)
  BY <1>7 DEF Sound
<1>9. Placed(h)
  <2>1. SUFFICES ASSUME NEW j \in Item
                 PROVE  place[j] = Nowhere \/ <<place[j].page, j>> \in widgets
    BY <1>7 DEF Placed
  <2>2. CASE j = i
    BY <1>5, <2>2 DEF widgets
  <2>3. CASE j # i
    BY <1>5, <2>3 DEF widgets, Placed
  <2>4. QED BY <2>2, <2>3
<1>10. QED BY <1>3, <1>5, <1>7, <1>8, <1>9 DEF widgets

---------------------------------------------------------------------------
(* The inductive invariant.                                                *)

\* ShownComplete, of the window, what arrived and what was missed.
Complete(g, there, lost) == \A i \in there :
  g.docToTab[DocOf[i]] # NoTab /\ DocOf[i] \notin lost =>
    g.place[i] = [page |-> g.tabs[g.docToTab[DocOf[i]]], nested |-> ParentOf[i] # NoItem]

GuiInv ==
  /\ Sound(gui) /\ Used(gui) /\ Placed(gui)
  /\ selected \in Doc \cup {NoDoc} /\ arrived \subseteq Item /\ shifted \in BOOLEAN
  /\ missed \subseteq Doc
  /\ ~shifted => Match(gui) /\ Complete(gui, arrived, missed)

\* A window without tabs is one that matches.
LEMMA InitGui == GuiInit => GuiInv
<1> SUFFICES ASSUME GuiInit PROVE GuiInv
  OBVIOUS
<1>1. /\ gui.docToTab = [d \in Doc |-> NoTab] /\ gui.tabs = <<>> /\ gui.tabIndex = NoTab
      /\ gui.pageDoc = <<>> /\ gui.rootWidget = NoPage /\ gui.currentDocument = NoDoc
      /\ gui.connected = <<>> /\ gui.place = [i \in Item |-> Nowhere] /\ gui.widgets = {}
      /\ gui.crashed = FALSE
  BY DEF GuiInit
<1>2. gui \in Gui
  <2> DEFINE none == [d \in Doc |-> NoTab]
             empty == [i \in Item |-> Nowhere]
  <2>1. none \in [Doc -> Nat]
    BY DEF NoTab
  <2>2. empty \in [Item -> [page : Page \cup {NoPage}, nested : BOOLEAN]]
    BY DEF Nowhere
  <2>3. <<>> \in Seq(Page) /\ <<>> \in Seq(Doc) /\ NoTab \in Nat
    BY DEF NoTab
  <2>4. gui = [docToTab |-> none, tabs |-> <<>>, tabIndex |-> NoTab,
               pageDoc |-> <<>>, rootWidget |-> NoPage, currentDocument |-> NoDoc,
               connected |-> <<>>, place |-> empty, widgets |-> {}, crashed |-> FALSE]
    BY DEF GuiInit
  <2> HIDE DEF none, empty
  <2>5. QED BY <2>1, <2>2, <2>3, <2>4 DEF Gui
<1>3. Len(gui.tabs) = 0 /\ Len(gui.pageDoc) = 0 /\ DOMAIN gui.tabs = {}
  BY <1>1
<1>4. Sound(gui)
  BY <1>1, <1>2, <1>3, MaxPagesAssumption DEF Sound, NoTab
<1>5. Used(gui)
  BY <1>1 DEF Used
<1>6. Placed(gui)
  BY <1>1 DEF Placed
<1>7. Match(gui)
  BY <1>1, <1>3 DEF Match, Indexed
<1>8. selected = NoDoc /\ arrived = {} /\ missed = {} /\ shifted \in BOOLEAN
  BY DEF GuiInit
<1>9. Complete(gui, arrived, missed)
  BY <1>8 DEF Complete
<1>10. QED BY <1>4, <1>5, <1>6, <1>7, <1>8, <1>9 DEF GuiInv

\* A step that brings up another tab only.
LEMMA ShowKeeps ==
  ASSUME GuiInv, NEW k, gui' = SetCurrentIndex(gui, k),
         UNCHANGED <<selected, arrived, shifted, missed>>
  PROVE  GuiInv'
<1>1. PICK h : h = gui'
  OBVIOUS
<1>2. h = SetCurrentIndex(gui, k)
  BY <1>1
<1>3. Sound(gui) /\ Used(gui)
  BY DEF GuiInv
<1>4. /\ Sound(h) /\ Used(h) /\ Keeps(h, gui) /\ (Match(gui) => Match(h))
  BY <1>2, <1>3, ShowGui
<1>5. h.docToTab = gui.docToTab /\ h.tabs = gui.tabs /\ h.place = gui.place /\ h.widgets = gui.widgets
  BY <1>4 DEF Keeps
<1>6. Placed(h)
  BY <1>5 DEF GuiInv, Placed
<1>7. ~shifted => Match(h) /\ Complete(h, arrived, missed)
  BY <1>4, <1>5 DEF GuiInv, Complete
<1>8. QED BY <1>1, <1>4, <1>6, <1>7 DEF GuiInv

\* The page a document gets shows what has arrived of it.
LEMMA SelectKeeps ==
  ASSUME GuiInv, NEW d \in Doc, Select(d)
  PROVE  /\ GuiInv'
         /\ ~shifted =>
              \/ gui'.tabs # <<>> /\ gui'.pageDoc[gui'.tabs[gui'.tabIndex]] = d
              \/ d = gui.currentDocument /\ gui.docToTab[d] = NoTab
<1>1. PICK h : h = gui'
  OBVIOUS
<1>2. /\ h = SetCurrentDocument(gui, d) /\ selected' = d /\ Len(gui.pageDoc) < MaxPages
      /\ arrived' = arrived /\ shifted' = shifted /\ missed' = missed
  BY <1>1 DEF Select
<1>3. Sound(gui) /\ Used(gui) /\ Placed(gui) /\ arrived \subseteq Item
  BY DEF GuiInv
<1>4. CASE d = gui.currentDocument
  <2>1. h = gui
    BY <1>2, <1>4 DEF SetCurrentDocument
  <2>2. GuiInv'
    BY <1>1, <1>2, <2>1 DEF GuiInv
  <2>3. ASSUME ~shifted, gui.docToTab[d] # NoTab
        PROVE  gui.tabs # <<>> /\ gui.pageDoc[gui.tabs[gui.tabIndex]] = d
    <3>1. Match(gui)
      BY <2>3 DEF GuiInv
    <3>2. gui.docToTab[d] \in DOMAIN gui.tabs
      BY <2>3, <3>1 DEF Match, Indexed
    <3>3. gui.tabs # <<>>
      BY <3>2
    <3>4. QED BY <1>4, <3>1, <3>3 DEF Match
  <2>4. QED BY <1>1, <1>4, <2>1, <2>2, <2>3
<1>5. CASE d # gui.currentDocument
  <2> DEFINE page == Len(gui.pageDoc) + 1
             index == Len(gui.tabs) + 1
  <2>1. /\ Sound(h) /\ h.rootWidget # NoPage
        /\ Returns(h, gui, d) \/ Opens(h, gui, d)
        /\ Match(gui) => Match(h) /\ h.tabs # <<>> /\ h.pageDoc[h.tabs[h.tabIndex]] = d
    BY <1>2, <1>3, <1>5, SetGui
  <2>2. /\ gui.tabs \in Seq(Page) /\ Len(gui.tabs) \in Nat /\ DOMAIN gui.tabs = 1..Len(gui.tabs)
        /\ gui.docToTab \in [Doc -> Nat] /\ DocOf \in [Item -> Doc]
    BY <1>3, LenProperties, ContentsAssumption DEF Sound, Gui
  <2> HIDE DEF page, index
  <2>3. Used(h)
    BY <2>1 DEF Used
  <2>4. CASE gui.docToTab[d] # NoTab
    <3>1. h.docToTab = gui.docToTab /\ h.tabs = gui.tabs /\ h.place = gui.place
          /\ h.widgets = gui.widgets
      BY <2>1, <2>4 DEF Returns, Opens
    <3>2. Placed(h)
      BY <1>3, <3>1 DEF Placed
    <3>3. ~shifted => Match(h) /\ Complete(h, arrived, missed)
      BY <2>1, <3>1 DEF GuiInv, Complete
    <3>4. GuiInv'
      BY <1>1, <1>2, <2>1, <2>3, <3>2, <3>3 DEF GuiInv
    <3>5. QED BY <1>1, <2>1, <3>4 DEF GuiInv
  <2>5. CASE gui.docToTab[d] = NoTab
    <3>1. /\ h.tabs = Append(gui.tabs, page) /\ page \in Page
          /\ h.docToTab = [gui.docToTab EXCEPT ![d] = index]
          /\ \A i \in Item : h.place[i] =
               IF i \in arrived /\ DocOf[i] = d
               THEN [page |-> page, nested |-> ParentOf[i] # NoItem] ELSE gui.place[i]
          /\ h.widgets = gui.widgets \cup ({page} \X {i \in arrived : DocOf[i] = d})
      BY <2>1, <2>5 DEF Returns, Opens, page, index
    <3>2. Placed(h)
      <4>1. SUFFICES ASSUME NEW i \in Item, h.place[i] # Nowhere
                     PROVE  <<h.place[i].page, i>> \in h.widgets
        BY DEF Placed
      <4>2. CASE i \in arrived /\ DocOf[i] = d
        <5>1. h.place[i] = [page |-> page, nested |-> ParentOf[i] # NoItem]
          BY <3>1, <4>2
        <5>2. h.place[i].page = page
          BY <5>1
        <5>3. QED BY <3>1, <4>2, <5>2
      <4>3. CASE ~(i \in arrived /\ DocOf[i] = d)
        <5>1. h.place[i] = gui.place[i]
          BY <3>1, <4>3
        <5>2. <<gui.place[i].page, i>> \in gui.widgets
          BY <1>3, <4>1, <5>1 DEF Placed
        <5>3. QED BY <3>1, <5>1, <5>2
      <4>4. QED BY <4>2, <4>3
    <3>3. h.tabs[index] = page /\ \A k \in 1..Len(gui.tabs) : h.tabs[k] = gui.tabs[k]
      BY <2>2, <3>1, AppendProperties DEF index
    <3>4. h.docToTab[d] = index /\ \A e \in Doc : e # d => h.docToTab[e] = gui.docToTab[e]
      BY <2>2, <3>1
    <3>5. ASSUME ~shifted
          PROVE  Complete(h, arrived, missed)
      <4>1. SUFFICES ASSUME NEW i \in arrived, h.docToTab[DocOf[i]] # NoTab, DocOf[i] \notin missed
                     PROVE  h.place[i] = [page |-> h.tabs[h.docToTab[DocOf[i]]],
                                          nested |-> ParentOf[i] # NoItem]
        BY DEF Complete
      <4>2. i \in Item /\ DocOf[i] \in Doc
        BY <1>3, <2>2
      <4>3. CASE DocOf[i] = d
        BY <3>1, <3>3, <3>4, <4>2, <4>3
      <4>4. CASE DocOf[i] # d
        <5>1. h.docToTab[DocOf[i]] = gui.docToTab[DocOf[i]] /\ h.place[i] = gui.place[i]
          BY <3>1, <3>4, <4>2, <4>4
        <5>2. gui.docToTab[DocOf[i]] \in 1..Len(gui.tabs)
          BY <2>2, <3>5, <4>1, <4>2, <5>1 DEF GuiInv, Match, Indexed
        <5>3. gui.place[i] = [page |-> gui.tabs[gui.docToTab[DocOf[i]]],
                              nested |-> ParentOf[i] # NoItem]
          BY <3>5, <4>1, <5>1 DEF GuiInv, Complete
        <5>4. h.tabs[gui.docToTab[DocOf[i]]] = gui.tabs[gui.docToTab[DocOf[i]]]
          BY <3>3, <5>2
        <5>5. QED BY <5>1, <5>3, <5>4
      <4>5. QED BY <4>3, <4>4
    <3>6. ~shifted => Match(h)
      BY <2>1 DEF GuiInv
    <3>7. GuiInv'
      BY <1>1, <1>2, <2>1, <2>3, <3>2, <3>5, <3>6 DEF GuiInv
    <3>8. QED BY <1>1, <2>1, <3>7 DEF GuiInv
  <2>6. QED BY <2>4, <2>5
<1>6. QED BY <1>4, <1>5

\* A tab that goes from the end takes only its own entry along.
LEMMA CloseKeeps ==
  ASSUME GuiInv, NEW k \in DOMAIN gui.tabs, OnDocumentTabClosePressed(k)
  PROVE  GuiInv'
<1>1. PICK h : h = gui'
  OBVIOUS
<1>2. /\ h = Closed(gui, k) /\ selected' = selected /\ arrived' = arrived /\ missed' = missed
      /\ shifted' = (shifted \/ k < Len(gui.tabs))
  BY <1>1 DEF OnDocumentTabClosePressed, Closed
<1>3. Sound(gui) /\ Used(gui) /\ Placed(gui) /\ arrived \subseteq Item
  BY DEF GuiInv
<1>4. /\ Sound(h) /\ h.rootWidget # NoPage /\ h.place = gui.place /\ h.widgets = gui.widgets
      /\ \A e \in Doc : h.docToTab[e] # NoTab => h.docToTab[e] = gui.docToTab[e]
      /\ \A j \in DOMAIN h.tabs : k = Len(gui.tabs) => h.tabs[j] = gui.tabs[j]
      /\ Match(gui) /\ k = Len(gui.tabs) => Match(h)
  BY <1>2, <1>3, CloseGui
<1>5. Used(h)
  BY <1>4 DEF Used
<1>6. Placed(h)
  BY <1>3, <1>4 DEF Placed
<1>7. ASSUME ~shifted'
      PROVE  Match(h) /\ Complete(h, arrived, missed)
  <2>1. k = Len(gui.tabs) /\ ~shifted
    <3>1. gui.tabs \in Seq(Page)
      BY <1>3 DEF Sound, Gui
    <3>2. k \in 1..Len(gui.tabs) /\ Len(gui.tabs) \in Nat
      BY <3>1, LenProperties
    <3>3. ~shifted /\ ~(k < Len(gui.tabs))
      BY <1>2, <1>7
    <3>4. QED BY <3>2, <3>3
  <2>2. Match(gui) /\ Complete(gui, arrived, missed)
    BY <2>1 DEF GuiInv
  <2>3. Match(h)
    BY <1>4, <2>1, <2>2
  <2>4. Complete(h, arrived, missed)
    <3>1. SUFFICES ASSUME NEW i \in arrived, h.docToTab[DocOf[i]] # NoTab, DocOf[i] \notin missed
                   PROVE  h.place[i] = [page |-> h.tabs[h.docToTab[DocOf[i]]],
                                        nested |-> ParentOf[i] # NoItem]
      BY DEF Complete
    <3>2. DocOf[i] \in Doc
      BY <1>3, ContentsAssumption
    <3>3. h.docToTab[DocOf[i]] = gui.docToTab[DocOf[i]]
      BY <1>4, <3>1, <3>2
    <3>4. h.docToTab[DocOf[i]] \in DOMAIN h.tabs
      BY <2>3, <3>1, <3>2 DEF Match, Indexed
    <3>5. QED BY <1>4, <2>1, <2>2, <3>1, <3>3, <3>4 DEF Complete
  <2>5. QED BY <2>3, <2>4
<1>8. QED BY <1>1, <1>2, <1>4, <1>5, <1>6, <1>7 DEF GuiInv

\* An item that arrives goes to the page of its document, or is missed.
LEMMA ArrivesKeeps ==
  ASSUME GuiInv, NEW i \in Item, ItemArrives(i)
  PROVE  GuiInv'
<1>1. PICK h, a, m : h = gui' /\ a = arrived' /\ m = missed'
  OBVIOUS
<1>2. /\ i \notin arrived /\ (ParentOf[i] # NoItem => ParentOf[i] \in arrived)
      /\ a = arrived \cup {i} /\ selected' = selected /\ shifted' = shifted
      /\ \/ Contains(gui.connected, DocOf[i]) /\ h = AddItem(gui, i) /\ m = missed
         \/ m = missed \cup {DocOf[i]} /\ h = gui
  BY <1>1 DEF ItemArrives
<1>3. /\ Sound(gui) /\ Used(gui) /\ Placed(gui) /\ arrived \subseteq Item /\ missed \subseteq Doc
      /\ selected \in Doc \cup {NoDoc} /\ shifted \in BOOLEAN
      /\ DocOf[i] \in Doc
  BY ContentsAssumption DEF GuiInv
<1>4. a \subseteq Item /\ m \subseteq Doc
  BY <1>2, <1>3
<1>5. CASE m = missed \cup {DocOf[i]} /\ h = gui
  <2>1. ~shifted => Complete(h, a, m)
    <3>1. SUFFICES ASSUME ~shifted, NEW j \in a, DocOf[j] \notin m,
                          h.docToTab[DocOf[j]] # NoTab
                   PROVE  h.place[j] = [page |-> h.tabs[h.docToTab[DocOf[j]]],
                                        nested |-> ParentOf[j] # NoItem]
      BY DEF Complete
    <3>2. j \in arrived /\ DocOf[j] \notin missed
      BY <1>2, <1>5, <3>1
    <3>3. QED BY <1>5, <3>1, <3>2 DEF GuiInv, Complete
  <2>2. ~shifted => Match(h)
    BY <1>5 DEF GuiInv
  <2>3. QED BY <1>1, <1>2, <1>3, <1>4, <1>5, <2>1, <2>2 DEF GuiInv
<1>6. CASE Contains(gui.connected, DocOf[i]) /\ h = AddItem(gui, i) /\ m = missed
  <2> DEFINE nested == ParentOf[i] # NoItem /\ gui.place[ParentOf[i]] # Nowhere
             page == IF nested THEN gui.place[ParentOf[i]].page ELSE gui.rootWidget
  <2>1. gui.connected # <<>>
    BY <1>6 DEF Contains
  <2>2. gui.rootWidget # NoPage
    BY <1>3, <2>1 DEF Used
  <2>3. /\ Sound(h) /\ Placed(h) /\ page \in Page
        /\ h.docToTab = gui.docToTab /\ h.tabs = gui.tabs /\ h.tabIndex = gui.tabIndex
        /\ h.pageDoc = gui.pageDoc /\ h.rootWidget = gui.rootWidget
        /\ h.currentDocument = gui.currentDocument /\ h.connected = gui.connected
        /\ h.crashed = gui.crashed
        /\ \A j \in Item :
             h.place[j] = IF j = i THEN [page |-> page, nested |-> nested] ELSE gui.place[j]
    <3>1. PICK n, p : n = nested /\ p = page
      OBVIOUS
    <3>2. /\ n = (ParentOf[i] # NoItem /\ gui.place[ParentOf[i]] # Nowhere)
          /\ p = IF n THEN gui.place[ParentOf[i]].page ELSE gui.rootWidget
      BY <3>1
    <3> HIDE DEF nested, page
    <3>3. /\ Sound(h) /\ Placed(h) /\ p \in Page
          /\ h.docToTab = gui.docToTab /\ h.tabs = gui.tabs /\ h.tabIndex = gui.tabIndex
          /\ h.pageDoc = gui.pageDoc /\ h.rootWidget = gui.rootWidget
          /\ h.currentDocument = gui.currentDocument /\ h.connected = gui.connected
          /\ h.crashed = gui.crashed
          /\ \A j \in Item :
               h.place[j] = IF j = i THEN [page |-> p, nested |-> n] ELSE gui.place[j]
      BY <1>3, <1>6, <2>2, <3>2, AddGui
    <3>4. QED BY <3>1, <3>3
  <2>4. Used(h)
    BY <2>2, <2>3 DEF Used
  <2>5. ASSUME ~shifted
        PROVE  Match(h) /\ Complete(h, a, m)
    <3>1. Match(gui) /\ Complete(gui, arrived, missed)
      BY <2>5 DEF GuiInv
    <3>2. Match(h)
      BY <2>3, <3>1 DEF Match, Indexed
    <3>3. gui.currentDocument = DocOf[i]
      BY <1>6, <2>1, <3>1 DEF Contains, Match
    <3> HIDE DEF page, nested
    <3>4. SUFFICES ASSUME NEW j \in a, gui.docToTab[DocOf[j]] # NoTab, DocOf[j] \notin missed
                   PROVE  h.place[j] = [page |-> gui.tabs[gui.docToTab[DocOf[j]]],
                                        nested |-> ParentOf[j] # NoItem]
      BY <1>6, <2>3, <3>2 DEF Complete
    <3>5. CASE j # i
      <4>1. j \in arrived /\ j \in Item
        BY <1>2, <1>4, <3>5
      <4>2. QED BY <2>3, <3>1, <3>4, <3>5, <4>1 DEF Complete
    <3>6. CASE j = i
      <4> DEFINE k == gui.docToTab[DocOf[i]]
      <4>1. k \in DOMAIN gui.tabs /\ k # NoTab
        BY <1>3, <3>1, <3>4, <3>6 DEF Match, Indexed
      <4>2. gui.tabs[k] \in Page /\ gui.tabs[k] # NoPage
        <5>1. gui.tabs \in Seq(Page)
          BY <1>3 DEF Sound, Gui
        <5>2. gui.tabs[k] \in Page
          BY <4>1, <5>1
        <5>3. QED BY <5>2, NoPageIsNone
      <4>3. gui.rootWidget = gui.tabs[k]
        <5>1. gui.tabs # <<>>
          BY <4>1
        <5>2. /\ gui.pageDoc[gui.tabs[gui.tabIndex]] = DocOf[i]
              /\ gui.rootWidget = gui.tabs[gui.tabIndex]
          BY <3>1, <3>3, <5>1 DEF Match
        <5>3. gui.tabIndex \in DOMAIN gui.tabs
          <6>1. gui.tabs \in Seq(Page) /\ gui.tabIndex \in Nat
            BY <1>3 DEF Sound, Gui
          <6>2. DOMAIN gui.tabs = 1..Len(gui.tabs) /\ Len(gui.tabs) \in Nat
            BY <6>1, LenProperties
          <6>3. gui.tabIndex <= Len(gui.tabs) /\ gui.tabIndex # NoTab
            BY <1>3, <5>1 DEF Sound
          <6>4. QED BY <6>1, <6>2, <6>3 DEF NoTab
        <5>4. k = gui.tabIndex
          BY <1>3, <3>1, <5>2, <5>3 DEF Match
        <5>5. QED BY <5>2, <5>4
      <4>4. CASE ParentOf[i] = NoItem
        <5>1. nested = FALSE /\ page = gui.rootWidget
          BY <4>4 DEF nested, page
        <5>2. QED BY <2>3, <3>6, <4>3, <4>4, <5>1
      <4>5. CASE ParentOf[i] # NoItem
        <5>1. ParentOf[i] \in arrived /\ DocOf[ParentOf[i]] = DocOf[i]
          BY <1>2, <4>5, ContentsAssumption
        <5>2. gui.place[ParentOf[i]] = [page |-> gui.tabs[k],
                                        nested |-> ParentOf[ParentOf[i]] # NoItem]
          BY <3>1, <3>4, <3>6, <5>1 DEF Complete
        <5>3. gui.place[ParentOf[i]].page = gui.tabs[k] /\ Nowhere.page = NoPage
          BY <5>2 DEF Nowhere
        <5>4. nested = TRUE /\ page = gui.tabs[k]
          BY <4>2, <4>5, <5>3 DEF nested, page
        <5>5. QED BY <2>3, <3>6, <4>5, <5>4
      <4>6. QED BY <4>4, <4>5
    <3>7. QED BY <3>5, <3>6
  <2>6. QED BY <1>1, <1>2, <1>3, <1>4, <2>3, <2>4, <2>5 DEF GuiInv
<1>7. QED BY <1>2, <1>5, <1>6

\* No step of the user or of the loading breaks the invariant.
LEMMA GuiStepKeeps == GuiInv /\ [GuiNext]_guiVars => GuiInv'
<1> SUFFICES ASSUME GuiInv, [GuiNext]_guiVars PROVE GuiInv'
  OBVIOUS
<1>1. CASE UNCHANGED guiVars
  BY <1>1 DEF guiVars, GuiInv
<1>2. ASSUME NEW d \in Doc, Select(d) PROVE GuiInv'
  BY <1>2, SelectKeeps
<1>3. ASSUME NEW k \in DOMAIN gui.tabs, ClickTab(k) PROVE GuiInv'
  <2>1. gui' = SetCurrentIndex(gui, k) /\ UNCHANGED <<selected, arrived, shifted, missed>>
    BY <1>3 DEF ClickTab
  <2>2. QED BY <2>1, ShowKeeps
<1>4. ASSUME NEW k \in DOMAIN gui.tabs, OnDocumentTabClosePressed(k) PROVE GuiInv'
  BY <1>4, CloseKeeps
<1>5. CASE ShowNextDocument
  <2>1. PICK k : k = IF gui.tabIndex < Len(gui.tabs) THEN gui.tabIndex + 1 ELSE 1
    OBVIOUS
  <2>2. gui' = SetCurrentIndex(gui, k) /\ UNCHANGED <<selected, arrived, shifted, missed>>
    BY <1>5, <2>1 DEF ShowNextDocument
  <2>3. QED BY <2>2, ShowKeeps
<1>6. CASE ShowPrevDocument
  <2>1. PICK k : k = IF gui.tabIndex > 1 THEN gui.tabIndex - 1 ELSE Len(gui.tabs)
    OBVIOUS
  <2>2. gui' = SetCurrentIndex(gui, k) /\ UNCHANGED <<selected, arrived, shifted, missed>>
    BY <1>6, <2>1 DEF ShowPrevDocument
  <2>3. QED BY <2>2, ShowKeeps
<1>7. ASSUME NEW i \in Item, ItemArrives(i) PROVE GuiInv'
  BY <1>7, ArrivesKeeps
<1>8. QED BY <1>1, <1>2, <1>3, <1>4, <1>5, <1>6, <1>7 DEF GuiNext

\* The inductive invariant of the window holds in every behaviour.
THEOREM GuiInvHolds == GuiSpec => []GuiInv
<1>1. QED BY InitGui, GuiStepKeeps, PTL DEF GuiSpec

\* The window keeps its types, whatever is opened, closed and loaded.
THEOREM GuiTypeHolds == GuiSpec => []GuiType
<1>1. GuiInv => GuiType
  BY DEF GuiInv, Sound, Gui, GuiType
<1>2. QED BY <1>1, GuiInvHolds, PTL

\* docToTab, the tab bar, the current document and its connections agree as
\* long as no tab was closed but the last.
THEOREM TabsAlwaysMatch == GuiSpec => []TabsMatch
<1>1. GuiInv => TabsMatch
  <2> SUFFICES ASSUME GuiInv, ~shifted PROVE TabsMatch
    BY DEF TabsMatch
  <2>1. Match(gui) /\ Sound(gui)
    BY DEF GuiInv
  <2>2. QED BY <2>1 DEF Match, Indexed, TabsMatch, ShownPage
<1>2. QED BY <1>1, GuiInvHolds, PTL

\* A document with a tab shows what has arrived of it, where it belongs.
THEOREM ShownAlwaysComplete == GuiSpec => []ShownComplete
<1>1. GuiInv => ShownComplete
  BY DEF GuiInv, Complete, ShownComplete
<1>2. QED BY <1>1, GuiInvHolds, PTL

\* What is chosen in the list is brought up, unless it is the current document
\* and its tab was closed.
THEOREM SelectAlwaysShows == GuiSpec => SelectShows
<1> DEFINE Shows == selected' # selected /\ ~shifted =>
             \/ gui'.tabs # <<>> /\ gui'.pageDoc[gui'.tabs[gui'.tabIndex]] = selected'
             \/ selected' = gui.currentDocument /\ gui.docToTab[selected'] = NoTab
<1>1. GuiInv /\ [GuiNext]_guiVars => [Shows]_guiVars
  <2> SUFFICES ASSUME GuiInv, GuiNext, selected' # selected PROVE Shows
    BY DEF guiVars
  <2>1. PICK d \in Doc : Select(d)
    BY DEF GuiNext, ClickTab, OnDocumentTabClosePressed, ShowNextDocument, ShowPrevDocument,
           ItemArrives
  <2>2. selected' = d
    BY <2>1 DEF Select
  <2>3. QED BY <2>1, <2>2, SelectKeeps
<1>2. QED BY <1>1, GuiInvHolds, PTL DEF GuiSpec, SelectShows

---------------------------------------------------------------------------
(* Fields and pages.                                                       *)

\* Every field is of an item that arrived, on a page that was made, and the
\* window listens to a document once it has fields.
Kept ==
  /\ gui.rootWidget \in {NoPage} \cup DOMAIN gui.pageDoc
  /\ \A w \in gui.widgets : w[1] \in DOMAIN gui.pageDoc /\ w[2] \in arrived
  /\ gui.widgets # {} => gui.connected # <<>>

\* An item keeps its field or gets a new one, and no field goes away.
Moves ==
  /\ gui.widgets \subseteq gui'.widgets
  /\ \A i \in Item : \/ gui'.place[i] = gui.place[i]
                     \/ <<gui'.place[i].page, i>> \in gui'.widgets \ gui.widgets

\* There are no fields at first.
LEMMA KeptAtFirst == GuiInit => Kept
BY DEF GuiInit, Kept

\* A step that brings up another tab only leaves the fields alone.
LEMMA ShowMoves ==
  ASSUME GuiInv, Kept, NEW k, gui' = SetCurrentIndex(gui, k), arrived' = arrived
  PROVE  Kept' /\ Moves
<1>1. PICK h : h = gui'
  OBVIOUS
<1>2. /\ Keeps(h, gui)
      /\ h.rootWidget = gui.rootWidget \/ h.rootWidget \in DOMAIN gui.pageDoc
      /\ gui.connected # <<>> => h.connected # <<>>
  <2>1. h = SetCurrentIndex(gui, k) /\ Sound(gui) /\ Used(gui)
    BY <1>1 DEF GuiInv
  <2>2. QED BY <2>1, ShowGui
<1>3. h.pageDoc = gui.pageDoc /\ h.place = gui.place /\ h.widgets = gui.widgets
  BY <1>2 DEF Keeps
<1>4. Moves
  BY <1>1, <1>3 DEF Moves
<1>5. Kept'
  BY <1>1, <1>2, <1>3 DEF Kept
<1>6. QED BY <1>4, <1>5

\* A page that is opened is a new one.
LEMMA SelectMoves ==
  ASSUME GuiInv, Kept, NEW d \in Doc, Select(d)
  PROVE  Kept' /\ Moves
<1>1. PICK h : h = gui'
  OBVIOUS
<1>2. h = SetCurrentDocument(gui, d) /\ Len(gui.pageDoc) < MaxPages /\ arrived' = arrived
  BY <1>1 DEF Select
<1>3. Sound(gui) /\ Used(gui) /\ arrived \subseteq Item
  BY DEF GuiInv
<1>4. CASE d = gui.currentDocument
  <2>1. h = gui
    BY <1>2, <1>4 DEF SetCurrentDocument
  <2>2. QED BY <1>1, <1>2, <2>1 DEF Kept, Moves
<1>5. CASE d # gui.currentDocument
  <2>1. /\ h.connected # <<>>
        /\ h.rootWidget = gui.rootWidget \/ h.rootWidget \in DOMAIN h.pageDoc
        /\ Returns(h, gui, d) \/ Opens(h, gui, d)
    BY <1>2, <1>3, <1>5, SetGui
  <2>2. CASE Returns(h, gui, d)
    <3>1. h.pageDoc = gui.pageDoc /\ h.place = gui.place /\ h.widgets = gui.widgets
      BY <2>2 DEF Returns
    <3>2. Moves
      BY <1>1, <3>1 DEF Moves
    <3>3. Kept'
      BY <1>1, <1>2, <2>1, <3>1 DEF Kept
    <3>4. QED BY <3>2, <3>3
  <2>3. CASE Opens(h, gui, d)
    <3>1. PICK page : page = Len(gui.pageDoc) + 1
      OBVIOUS
    <3>2. /\ h.pageDoc = Append(gui.pageDoc, d)
          /\ \A i \in Item : h.place[i] =
               IF i \in arrived /\ DocOf[i] = d
               THEN [page |-> page, nested |-> ParentOf[i] # NoItem] ELSE gui.place[i]
          /\ h.widgets = gui.widgets \cup ({page} \X {i \in arrived : DocOf[i] = d})
      BY <2>3, <3>1 DEF Opens
    <3>3. /\ DOMAIN gui.pageDoc \subseteq DOMAIN h.pageDoc
          /\ page \in DOMAIN h.pageDoc /\ page \notin DOMAIN gui.pageDoc
      <4>1. gui.pageDoc \in Seq(Doc)
        BY <1>3 DEF Sound, Gui
      <4>2. /\ Len(gui.pageDoc) \in Nat /\ DOMAIN gui.pageDoc = 1..Len(gui.pageDoc)
            /\ DOMAIN h.pageDoc = 1..page
        BY <3>1, <3>2, <4>1, AppendProperties, LenProperties
      <4>3. QED BY <3>1, <4>2
    <3>4. \A i \in arrived : <<page, i>> \notin gui.widgets
      <4>1. SUFFICES ASSUME NEW i \in arrived, <<page, i>> \in gui.widgets PROVE FALSE
        OBVIOUS
      <4>2. <<page, i>>[1] \in DOMAIN gui.pageDoc
        BY <4>1 DEF Kept
      <4>3. QED BY <3>3, <4>2
    <3>5. Moves
      <4>1. SUFFICES ASSUME NEW i \in Item, h.place[i] # gui.place[i]
                     PROVE  <<h.place[i].page, i>> \in h.widgets \ gui.widgets
        BY <1>1, <3>2 DEF Moves
      <4>2. i \in arrived /\ DocOf[i] = d
        BY <3>2, <4>1
      <4>3. h.place[i] = [page |-> page, nested |-> ParentOf[i] # NoItem]
        BY <3>2, <4>2
      <4>4. h.place[i].page = page
        BY <4>3
      <4>5. QED BY <3>2, <3>4, <4>2, <4>4
    <3>6. \A w \in h.widgets : w[1] \in DOMAIN h.pageDoc /\ w[2] \in arrived
      BY <3>2, <3>3 DEF Kept
    <3>7. h.rootWidget \in {NoPage} \cup DOMAIN h.pageDoc
      BY <2>1, <3>3 DEF Kept
    <3>8. Kept'
      BY <1>1, <1>2, <2>1, <3>6, <3>7 DEF Kept
    <3>9. QED BY <3>5, <3>8
  <2>4. QED BY <2>1, <2>2, <2>3
<1>6. QED BY <1>4, <1>5

\* Closing a tab leaves the fields of its page alone.
LEMMA CloseMoves ==
  ASSUME GuiInv, Kept, NEW k \in DOMAIN gui.tabs, OnDocumentTabClosePressed(k)
  PROVE  Kept' /\ Moves
<1>1. PICK h : h = gui'
  OBVIOUS
<1>2. h = Closed(gui, k) /\ arrived' = arrived
  BY <1>1 DEF OnDocumentTabClosePressed, Closed
<1>3. Sound(gui) /\ Used(gui)
  BY DEF GuiInv
<1>4. /\ h.pageDoc = gui.pageDoc /\ h.place = gui.place /\ h.widgets = gui.widgets
      /\ h.rootWidget = gui.rootWidget \/ h.rootWidget \in DOMAIN gui.pageDoc
      /\ gui.connected # <<>> => h.connected # <<>>
  BY <1>2, <1>3, CloseGui
<1>5. Moves
  BY <1>1, <1>4 DEF Moves
<1>6. Kept'
  BY <1>1, <1>2, <1>4 DEF Kept
<1>7. QED BY <1>5, <1>6

\* An item that arrives has no field yet.
LEMMA ArrivesMoves ==
  ASSUME GuiInv, Kept, NEW i \in Item, ItemArrives(i)
  PROVE  Kept' /\ Moves
<1>1. PICK h, a : h = gui' /\ a = arrived'
  OBVIOUS
<1>2. /\ i \notin arrived /\ a = arrived \cup {i}
      /\ \/ Contains(gui.connected, DocOf[i]) /\ h = AddItem(gui, i)
         \/ h = gui
  BY <1>1 DEF ItemArrives
<1>3. Sound(gui) /\ Used(gui) /\ Placed(gui)
  BY DEF GuiInv
<1>4. CASE h = gui
  BY <1>1, <1>2, <1>4 DEF Kept, Moves
<1>5. CASE Contains(gui.connected, DocOf[i]) /\ h = AddItem(gui, i)
  <2>1. gui.connected # <<>>
    BY <1>5 DEF Contains
  <2>2. gui.rootWidget # NoPage
    BY <1>3, <2>1 DEF Used
  <2>3. PICK n, p :
          /\ n = (ParentOf[i] # NoItem /\ gui.place[ParentOf[i]] # Nowhere)
          /\ p = IF n THEN gui.place[ParentOf[i]].page ELSE gui.rootWidget
    OBVIOUS
  <2>4. /\ h.pageDoc = gui.pageDoc /\ h.rootWidget = gui.rootWidget
        /\ h.connected = gui.connected /\ h.widgets = gui.widgets \cup {<<p, i>>}
        /\ \A j \in Item :
             h.place[j] = IF j = i THEN [page |-> p, nested |-> n] ELSE gui.place[j]
    BY <1>3, <1>5, <2>2, <2>3, AddGui
  <2>5. p \in DOMAIN gui.pageDoc
    <3>1. CASE n
      <4>1. ParentOf[i] \in Item /\ gui.place[ParentOf[i]] # Nowhere
        BY <2>3, <3>1, ContentsAssumption
      <4>2. <<gui.place[ParentOf[i]].page, ParentOf[i]>> \in gui.widgets
        BY <1>3, <4>1 DEF Placed
      <4>3. <<gui.place[ParentOf[i]].page, ParentOf[i]>>[1] \in DOMAIN gui.pageDoc
        BY <4>2 DEF Kept
      <4>4. QED BY <2>3, <3>1, <4>3
    <3>2. CASE ~n
      BY <2>2, <2>3, <3>2 DEF Kept
    <3>3. QED BY <2>3, <3>1, <3>2
  <2>6. <<p, i>> \notin gui.widgets
    <3>1. SUFFICES ASSUME <<p, i>> \in gui.widgets PROVE FALSE
      OBVIOUS
    <3>2. <<p, i>>[2] \in arrived
      BY <3>1 DEF Kept
    <3>3. QED BY <1>2, <3>2
  <2>7. Moves
    <3>1. SUFFICES ASSUME NEW j \in Item, h.place[j] # gui.place[j]
                   PROVE  <<h.place[j].page, j>> \in h.widgets \ gui.widgets
      BY <1>1, <2>4 DEF Moves
    <3>2. j = i /\ h.place[i] = [page |-> p, nested |-> n]
      BY <2>4, <3>1
    <3>3. h.place[i].page = p
      BY <3>2
    <3>4. QED BY <2>4, <2>6, <3>2, <3>3
  <2>8. \A w \in h.widgets : w[1] \in DOMAIN h.pageDoc /\ w[2] \in a
    BY <1>2, <2>4, <2>5 DEF Kept
  <2>9. Kept'
    BY <1>1, <2>1, <2>4, <2>8 DEF Kept
  <2>10. QED BY <2>7, <2>9
<1>6. QED BY <1>2, <1>4, <1>5

\* No step of the window loses a field or gives an item one that was there.
LEMMA GuiMoves ==
  ASSUME GuiInv, Kept, GuiNext
  PROVE  Kept' /\ Moves
<1>1. ASSUME NEW d \in Doc, Select(d) PROVE Kept' /\ Moves
  BY <1>1, SelectMoves
<1>2. ASSUME NEW k \in DOMAIN gui.tabs, ClickTab(k) PROVE Kept' /\ Moves
  <2>1. gui' = SetCurrentIndex(gui, k) /\ arrived' = arrived
    BY <1>2 DEF ClickTab
  <2>2. QED BY <2>1, ShowMoves
<1>3. ASSUME NEW k \in DOMAIN gui.tabs, OnDocumentTabClosePressed(k) PROVE Kept' /\ Moves
  BY <1>3, CloseMoves
<1>4. CASE ShowNextDocument
  <2>1. PICK k : k = IF gui.tabIndex < Len(gui.tabs) THEN gui.tabIndex + 1 ELSE 1
    OBVIOUS
  <2>2. gui' = SetCurrentIndex(gui, k) /\ arrived' = arrived
    BY <1>4, <2>1 DEF ShowNextDocument
  <2>3. QED BY <2>2, ShowMoves
<1>5. CASE ShowPrevDocument
  <2>1. PICK k : k = IF gui.tabIndex > 1 THEN gui.tabIndex - 1 ELSE Len(gui.tabs)
    OBVIOUS
  <2>2. gui' = SetCurrentIndex(gui, k) /\ arrived' = arrived
    BY <1>5, <2>1 DEF ShowPrevDocument
  <2>3. QED BY <2>2, ShowMoves
<1>6. ASSUME NEW i \in Item, ItemArrives(i) PROVE Kept' /\ Moves
  BY <1>6, ArrivesMoves
<1>7. QED BY <1>1, <1>2, <1>3, <1>4, <1>5, <1>6 DEF GuiNext
---------------------------------------------------------------------------
(* What the texts are, while a signal is delivered.                        *)

Edit == [item : Item, before : Texts, after : Texts]
Key(i) == <<DocOf[i], IdOf[i]>>
Keys == {Key(i) : i \in Item}

Entry == [text : [Item -> Texts], actionList : [Doc -> Seq(Edit)],
          redoActionList : [Doc -> Seq(Edit)], stored : [Keys -> Texts],
          typed : [Widget -> Texts]]

\* In r, the text of an item was set, shown, and told under document d.
Writes(r, s, d, i, t) ==
  /\ r.text = [s.text EXCEPT ![i] = t]
  /\ \A x \in Keys : r.stored[x] =
       IF \E j \in Item : DocOf[j] = d /\ IdOf[j] = IdOf[i] /\ x = <<d, IdOf[j]>>
       THEN t ELSE s.stored[x]
  /\ \A w \in Widget : r.typed[w] = IF w = FieldOf(i) THEN t ELSE s.typed[w]

\* Setting a text changes the text, the field and what the server has.
LEMMA WithTextWrites ==
  ASSUME NEW s \in Entry, NEW d, NEW i \in Item, NEW t \in Texts, NEW r, r = WithText(s, d, i, t)
  PROVE  /\ r \in Entry /\ Writes(r, s, d, i, t)
         /\ r.actionList = s.actionList /\ r.redoActionList = s.redoActionList
<1> DEFINE text == [s.text EXCEPT ![i] = t]
           u == [s EXCEPT !.text = text]
           sent == {<<d, IdOf[j]>> : j \in {x \in Item : DocOf[x] = d /\ IdOf[x] = IdOf[i]}}
           stored == [x \in DOMAIN u.stored |-> IF x \in sent THEN u.text[i] ELSE u.stored[x]]
           fields == [w \in DOMAIN u.typed |-> IF w = FieldOf(i) THEN u.text[i] ELSE u.typed[w]]
<1>1. /\ s.text \in [Item -> Texts] /\ s.stored \in [Keys -> Texts] /\ s.typed \in [Widget -> Texts]
      /\ text \in [Item -> Texts] /\ text[i] = t
  BY DEF Entry
<1> HIDE DEF text
<1>2. /\ u \in Entry /\ u.text = text /\ u.actionList = s.actionList
      /\ u.redoActionList = s.redoActionList /\ u.stored = s.stored /\ u.typed = s.typed
  BY <1>1 DEF Entry
<1>3. r = [u EXCEPT !.stored = stored, !.typed = fields]
  BY DEF WithText, TextChanged, text
<1> HIDE DEF u
<1>4. /\ stored \in [Keys -> Texts]
      /\ \A x \in Keys : stored[x] = IF x \in sent THEN t ELSE s.stored[x]
  BY <1>1, <1>2
<1>5. /\ fields \in [Widget -> Texts]
      /\ \A w \in Widget : fields[w] = IF w = FieldOf(i) THEN t ELSE s.typed[w]
  BY <1>1, <1>2
<1> HIDE DEF stored, fields
<1>6. /\ r \in Entry /\ r.text = text /\ r.stored = stored /\ r.typed = fields
      /\ r.actionList = s.actionList /\ r.redoActionList = s.redoActionList
  BY <1>2, <1>3, <1>4, <1>5 DEF Entry
<1>7. \A x : x \in sent <=>
             \E j \in Item : DocOf[j] = d /\ IdOf[j] = IdOf[i] /\ x = <<d, IdOf[j]>>
  OBVIOUS
<1> HIDE DEF sent
<1>8. QED BY <1>4, <1>5, <1>6, <1>7 DEF Writes, text

\* The text of i is t, the lists of d are these, the other lists are as they were.
Acts(r, s, d, i, t, done, undone) ==
  /\ r \in Entry /\ Writes(r, s, d, i, t)
  /\ done \in Seq(Edit) /\ undone \in Seq(Edit)
  /\ r.actionList = [s.actionList EXCEPT ![d] = done]
  /\ r.redoActionList = [s.redoActionList EXCEPT ![d] = undone]

\* New lists do not disturb the rest.
LEMMA ListsActs ==
  ASSUME NEW s \in Entry, NEW d \in Doc, NEW i \in Item, NEW t \in Texts,
         NEW done \in Seq(Edit), NEW undone \in Seq(Edit), NEW u, u = WithText(s, d, i, t),
         NEW r, r = [u EXCEPT !.actionList = [@ EXCEPT ![d] = done],
                              !.redoActionList = [@ EXCEPT ![d] = undone]]
  PROVE  Acts(r, s, d, i, t, done, undone)
<1>1. /\ u \in Entry /\ Writes(u, s, d, i, t)
      /\ u.actionList = s.actionList /\ u.redoActionList = s.redoActionList
  BY WithTextWrites
<1> DEFINE x == [s.actionList EXCEPT ![d] = done]
           y == [s.redoActionList EXCEPT ![d] = undone]
<1>2. x \in [Doc -> Seq(Edit)] /\ y \in [Doc -> Seq(Edit)]
  BY DEF Entry
<1>3. r = [u EXCEPT !.actionList = x, !.redoActionList = y]
  BY <1>1
<1> HIDE DEF x, y
<1>4. /\ r \in Entry /\ r.text = u.text /\ r.stored = u.stored /\ r.typed = u.typed
      /\ r.actionList = x /\ r.redoActionList = y
  BY <1>1, <1>2, <1>3 DEF Entry
<1>5. QED BY <1>1, <1>4 DEF Acts, Writes, x, y

\* The last of a list, and what is before it.
LEMMA LastFront ==
  ASSUME NEW S, NEW s \in Seq(S), s # <<>>
  PROVE  /\ Len(s) \in Nat \ {0} /\ Last(s) = s[Len(s)] /\ Last(s) \in S
         /\ Front(s) \in Seq(S) /\ Len(Front(s)) = Len(s) - 1
         /\ \A k \in 1..Len(s) - 1 : Front(s)[k] = s[k]
<1>1. Len(s) \in Nat /\ \A k \in 1..Len(s) : s[k] \in S
  BY LenProperties
<1>2. Len(s) # 0
  BY EmptySeq
<1>3. Last(s) = s[Len(s)] /\ Front(s) = SubSeq(s, 1, Len(s) - 1)
  BY DEF Last, Front
<1>4. \A k \in 1..Len(s) - 1 : s[k] \in S
  BY <1>1
<1>5. /\ SubSeq(s, 1, Len(s) - 1) \in Seq(S)
      /\ Len(SubSeq(s, 1, Len(s) - 1)) = IF 1 <= Len(s) - 1 THEN Len(s) - 1 - 1 + 1 ELSE 0
      /\ \A k \in 1..Len(s) - 1 - 1 + 1 : SubSeq(s, 1, Len(s) - 1)[k] = s[1 + k - 1]
  BY <1>1, <1>4, SubSeqProperties
<1> DEFINE f == SubSeq(s, 1, Len(s) - 1)
<1>6. PICK l \in Nat \ {0} : l = Len(s)
  BY <1>1, <1>2
<1> HIDE DEF f
<1>7. Len(f) = l - 1
  <2>1. Len(f) = IF 1 <= l - 1 THEN l - 1 - 1 + 1 ELSE 0
    BY <1>5, <1>6 DEF f
  <2>2. QED BY ONLY <1>6, <2>1
<1>8. \A k \in 1..l - 1 : f[k] = s[k]
  <2>1. \A k \in 1..l - 1 - 1 + 1 : f[k] = s[1 + k - 1]
    BY <1>5, <1>6 DEF f
  <2>2. QED BY ONLY <1>6, <2>1
<1>9. QED BY <1>1, <1>2, <1>3, <1>5, <1>6, <1>7, <1>8 DEF f

\* Handing over a text records it, and forgets what could be redone.
LEMMA EditActs ==
  ASSUME NEW s \in Entry, NEW d \in Doc, NEW i \in Item, NEW t \in Texts,
         NEW r, r = SetItemText(s, d, i, t)
  PROVE  Acts(r, s, d, i, t,
              Append(s.actionList[d], [item |-> i, before |-> s.text[i], after |-> t]), <<>>)
<1> DEFINE e == [item |-> i, before |-> s.text[i], after |-> t]
           u == WithText(s, d, i, t)
<1>1. e \in Edit /\ s.actionList[d] \in Seq(Edit)
  BY DEF Edit, Entry
<1> HIDE DEF e
<1>2. Append(s.actionList[d], e) \in Seq(Edit) /\ <<>> \in Seq(Edit)
  BY <1>1, AppendProperties
<1>3. r = [u EXCEPT !.actionList = [@ EXCEPT ![d] = Append(s.actionList[d], e)],
                    !.redoActionList = [@ EXCEPT ![d] = <<>>]]
  BY DEF SetItemText, e
<1>4. u = WithText(s, d, i, t)
  BY DEF u
<1> HIDE DEF u
<1>5. Acts(r, s, d, i, t, Append(s.actionList[d], e), <<>>)
  BY <1>2, <1>3, <1>4, ListsActs
<1>6. QED BY <1>5 DEF e

\* Undo moves the last action done to those to redo, and gives its text back.
LEMMA UndoActs ==
  ASSUME NEW s \in Entry, NEW d \in Doc, s.actionList[d] # <<>>, NEW e, e = Last(s.actionList[d]),
         NEW r, r = UndoLastAction(s, d)
  PROVE  /\ e \in Edit
         /\ Acts(r, s, d, e.item, e.before, Front(s.actionList[d]), Append(s.redoActionList[d], e))
<1> DEFINE u == WithText(s, d, e.item, e.before)
<1>1. s.actionList[d] \in Seq(Edit) /\ s.redoActionList[d] \in Seq(Edit)
  BY DEF Entry
<1>2. e \in Edit /\ Front(s.actionList[d]) \in Seq(Edit)
  BY <1>1, LastFront
<1>3. e.item \in Item /\ e.before \in Texts /\ Append(s.redoActionList[d], e) \in Seq(Edit)
  BY <1>1, <1>2, AppendProperties DEF Edit
<1>4. r = [u EXCEPT !.actionList = [@ EXCEPT ![d] = Front(s.actionList[d])],
                    !.redoActionList = [@ EXCEPT ![d] = Append(s.redoActionList[d], e)]]
  BY DEF UndoLastAction
<1>5. u = WithText(s, d, e.item, e.before)
  BY DEF u
<1> HIDE DEF u
<1>6. QED BY <1>2, <1>3, <1>4, <1>5, ListsActs

\* Redo moves the last action undone back, and gives its text again.
LEMMA RedoActs ==
  ASSUME NEW s \in Entry, NEW d \in Doc, s.redoActionList[d] # <<>>,
         NEW e, e = Last(s.redoActionList[d]), NEW r, r = RedoAction(s, d)
  PROVE  /\ e \in Edit
         /\ Acts(r, s, d, e.item, e.after, Append(s.actionList[d], e), Front(s.redoActionList[d]))
<1> DEFINE u == WithText(s, d, e.item, e.after)
<1>1. s.actionList[d] \in Seq(Edit) /\ s.redoActionList[d] \in Seq(Edit)
  BY DEF Entry
<1>2. e \in Edit /\ Front(s.redoActionList[d]) \in Seq(Edit)
  BY <1>1, LastFront
<1>3. e.item \in Item /\ e.after \in Texts /\ Append(s.actionList[d], e) \in Seq(Edit)
  BY <1>1, <1>2, AppendProperties DEF Edit
<1>4. r = [u EXCEPT !.actionList = [@ EXCEPT ![d] = Append(s.actionList[d], e)],
                    !.redoActionList = [@ EXCEPT ![d] = Front(s.redoActionList[d])]]
  BY DEF RedoAction
<1>5. u = WithText(s, d, e.item, e.after)
  BY DEF u
<1> HIDE DEF u
<1>6. QED BY <1>2, <1>3, <1>4, <1>5, ListsActs
---------------------------------------------------------------------------
(* The edits of an item follow each other.  E holds N edits, of which the    *)
(* first n are done; x is an item and t its text.                            *)

Untouched(E, x, k, m) == \A j \in k + 1..m - 1 : E[j].item # x

Chain(E, n, N, x, t) == \A k \in 1..N : E[k].item = x =>
  /\ k <= n /\ Untouched(E, x, k, n + 1) => t = E[k].after
  /\ k > n /\ Untouched(E, x, n, k) => t = E[k].before
  /\ \A m \in k + 1..N : E[m].item = x /\ Untouched(E, x, k, m) => E[k].after = E[m].before

\* Undoing one edit: the text is the one it started from.
LEMMA ChainUndo ==
  ASSUME NEW E, NEW N \in Nat, NEW n \in 1..N, NEW x, NEW t, Chain(E, n, N, x, t),
         NEW u, u = IF E[n].item = x THEN E[n].before ELSE t
  PROVE  Chain(E, n - 1, N, x, u)
<1>1. n \in Nat /\ n - 1 \in Nat /\ n \in 1..N
  OBVIOUS
<1> SUFFICES ASSUME NEW k \in 1..N, E[k].item = x
             PROVE  /\ k <= n - 1 /\ Untouched(E, x, k, (n - 1) + 1) => u = E[k].after
                    /\ k > n - 1 /\ Untouched(E, x, n - 1, k) => u = E[k].before
                    /\ \A m \in k + 1..N :
                         E[m].item = x /\ Untouched(E, x, k, m) => E[k].after = E[m].before
  BY DEF Chain
<1>2. /\ k <= n /\ Untouched(E, x, k, n + 1) => t = E[k].after
      /\ k > n /\ Untouched(E, x, n, k) => t = E[k].before
      /\ \A m \in k + 1..N :
           E[m].item = x /\ Untouched(E, x, k, m) => E[k].after = E[m].before
  BY DEF Chain
<1>3. ASSUME k <= n - 1, Untouched(E, x, k, (n - 1) + 1)
      PROVE  u = E[k].after
  <2>1. CASE E[n].item = x
    <3>1. n \in k + 1..N /\ Untouched(E, x, k, n)
      BY <1>1, <1>3 DEF Untouched
    <3>2. QED BY <1>2, <2>1, <3>1
  <2>2. CASE E[n].item # x
    <3>1. k <= n /\ Untouched(E, x, k, n + 1)
      <4>1. \A j \in k + 1..(n + 1) - 1 : j = n \/ j \in k + 1..((n - 1) + 1) - 1
        BY <1>1, <1>3
      <4>2. k <= n
        BY <1>1, <1>3
      <4>3. QED BY <1>3, <2>2, <4>1, <4>2 DEF Untouched
    <3>2. QED BY <1>2, <2>2, <3>1
  <2>3. QED BY <2>1, <2>2
<1>4. ASSUME k > n - 1, Untouched(E, x, n - 1, k)
      PROVE  u = E[k].before
  <2>1. CASE k = n
    BY <2>1
  <2>2. CASE k # n
    <3>1. k > n /\ n \in (n - 1) + 1..k - 1
      BY <1>1, <1>4, <2>2
    <3>2. E[n].item # x
      BY <1>4, <3>1 DEF Untouched
    <3>3. Untouched(E, x, n, k)
      <4>1. \A j \in n + 1..k - 1 : j \in (n - 1) + 1..k - 1
        BY <1>1
      <4>2. QED BY <1>4, <4>1 DEF Untouched
    <3>4. QED BY <1>2, <3>1, <3>2, <3>3
  <2>3. QED BY <2>1, <2>2
<1>5. QED BY <1>2, <1>3, <1>4

\* Redoing one edit: the text is the one it ended with.
LEMMA ChainRedo ==
  ASSUME NEW E, NEW N \in Nat, NEW n \in 0..N - 1, NEW x, NEW t, Chain(E, n, N, x, t),
         NEW u, u = IF E[n + 1].item = x THEN E[n + 1].after ELSE t
  PROVE  Chain(E, n + 1, N, x, u)
<1>1. n \in Nat /\ n + 1 \in 1..N
  OBVIOUS
<1> SUFFICES ASSUME NEW k \in 1..N, E[k].item = x
             PROVE  /\ k <= n + 1 /\ Untouched(E, x, k, (n + 1) + 1) => u = E[k].after
                    /\ k > n + 1 /\ Untouched(E, x, n + 1, k) => u = E[k].before
                    /\ \A m \in k + 1..N :
                         E[m].item = x /\ Untouched(E, x, k, m) => E[k].after = E[m].before
  BY DEF Chain
<1>2. /\ k <= n /\ Untouched(E, x, k, n + 1) => t = E[k].after
      /\ k > n /\ Untouched(E, x, n, k) => t = E[k].before
      /\ \A m \in k + 1..N :
           E[m].item = x /\ Untouched(E, x, k, m) => E[k].after = E[m].before
  BY DEF Chain
<1>3. ASSUME k <= n + 1, Untouched(E, x, k, (n + 1) + 1)
      PROVE  u = E[k].after
  <2>1. CASE k = n + 1
    BY <2>1
  <2>2. CASE k # n + 1
    <3>1. k <= n /\ n + 1 \in k + 1..((n + 1) + 1) - 1
      BY <1>1, <1>3, <2>2
    <3>2. E[n + 1].item # x
      BY <1>3, <3>1 DEF Untouched
    <3>3. Untouched(E, x, k, n + 1)
      <4>1. \A j \in k + 1..(n + 1) - 1 : j \in k + 1..((n + 1) + 1) - 1
        BY <1>1
      <4>2. QED BY <1>3, <4>1 DEF Untouched
    <3>4. QED BY <1>2, <3>1, <3>2, <3>3
  <2>3. QED BY <2>1, <2>2
<1>4. ASSUME k > n + 1, Untouched(E, x, n + 1, k)
      PROVE  u = E[k].before
  <2>1. CASE E[n + 1].item = x
    <3>1. /\ E[n + 1].item = x => \A m \in (n + 1) + 1..N :
               E[m].item = x /\ Untouched(E, x, n + 1, m) => E[n + 1].after = E[m].before
      BY <1>1 DEF Chain
    <3>2. k \in (n + 1) + 1..N
      BY <1>1, <1>4
    <3>3. QED BY <1>4, <2>1, <3>1, <3>2
  <2>2. CASE E[n + 1].item # x
    <3>1. k > n /\ Untouched(E, x, n, k)
      <4>1. \A j \in n + 1..k - 1 : j = n + 1 \/ j \in (n + 1) + 1..k - 1
        BY <1>1
      <4>2. k > n
        BY <1>1, <1>4
      <4>3. QED BY <1>4, <2>2, <4>1, <4>2 DEF Untouched
    <3>2. QED BY <1>2, <2>2, <3>1
  <2>3. QED BY <2>1, <2>2
<1>5. QED BY <1>2, <1>3, <1>4

\* A new edit after those done takes the place of those undone.
LEMMA ChainEdit ==
  ASSUME NEW E, NEW N \in Nat, NEW n \in 0..N, NEW x, NEW t, Chain(E, n, N, x, t),
         NEW F, \A k \in 1..n : F[k] = E[k], F[n + 1].item = x => F[n + 1].before = t,
         NEW u, u = IF F[n + 1].item = x THEN F[n + 1].after ELSE t
  PROVE  Chain(F, n + 1, n + 1, x, u)
<1>1. n \in Nat /\ n <= N
  OBVIOUS
<1> SUFFICES ASSUME NEW k \in 1..n + 1, F[k].item = x
             PROVE  /\ Untouched(F, x, k, (n + 1) + 1) => u = F[k].after
                    /\ k > n + 1 /\ Untouched(F, x, n + 1, k) => u = F[k].before
                    /\ \A m \in k + 1..n + 1 :
                         F[m].item = x /\ Untouched(F, x, k, m) => F[k].after = F[m].before
  BY DEF Chain
<1>2. CASE k = n + 1
  BY <1>1, <1>2
<1>3. CASE k # n + 1
  <2>1. k \in 1..n /\ k \in 1..N /\ F[k] = E[k] /\ k <= n /\ ~(k > n + 1)
    BY <1>1, <1>3
  <2>2. /\ Untouched(E, x, k, n + 1) => t = E[k].after
        /\ \A m \in k + 1..N :
             E[m].item = x /\ Untouched(E, x, k, m) => E[k].after = E[m].before
    BY <2>1 DEF Chain
  <2>3. ASSUME NEW m \in k + 1..n + 1, Untouched(F, x, k, m)
        PROVE  Untouched(E, x, k, m)
    <3>1. \A j \in k + 1..m - 1 : j \in 1..n
      BY <1>1, <2>1
    <3>2. QED BY <2>3, <3>1 DEF Untouched
  <2>4. ASSUME Untouched(F, x, k, (n + 1) + 1)
        PROVE  u = F[k].after
    <3>1. n + 1 \in k + 1..((n + 1) + 1) - 1 /\ n + 1 \in k + 1..n + 1
      BY <1>1, <2>1
    <3>2. F[n + 1].item # x
      BY <2>4, <3>1 DEF Untouched
    <3>3. Untouched(F, x, k, n + 1)
      <4>1. \A j \in k + 1..(n + 1) - 1 : j \in k + 1..((n + 1) + 1) - 1
        BY <1>1
      <4>2. QED BY <2>4, <4>1 DEF Untouched
    <3>4. QED BY <2>1, <2>2, <2>3, <3>1, <3>2, <3>3
  <2>5. ASSUME NEW m \in k + 1..n + 1, F[m].item = x, Untouched(F, x, k, m)
        PROVE  F[k].after = F[m].before
    <3>1. Untouched(E, x, k, m)
      BY <2>3, <2>5
    <3>2. CASE m = n + 1
      BY <2>1, <2>2, <2>5, <3>1, <3>2
    <3>3. CASE m # n + 1
      <4>1. m \in k + 1..N /\ m \in 1..n
        BY <1>1, <2>1, <3>3
      <4>2. QED BY <2>1, <2>2, <2>5, <3>1, <4>1
    <3>4. QED BY <3>2, <3>3
  <2>6. QED BY <2>1, <2>4, <2>5
<1>4. QED BY <1>2, <1>3

---------------------------------------------------------------------------
(* The two lists of a document as one.                                     *)

All(done, undone) == done \o Reverse(undone)

\* The actions done, and after them those undone, the next to redo first.
Joined(all, done, undone, n, q) ==
  /\ all \in Seq(Edit) /\ Len(all) = n + q
  /\ \A k \in 1..n + q : all[k] = IF k <= n THEN done[k] ELSE undone[q + n + 1 - k]

\* That is what the two lists are as one.
LEMMA AllActions ==
  ASSUME NEW done \in Seq(Edit), NEW undone \in Seq(Edit), NEW n, n = Len(done),
         NEW q, q = Len(undone)
  PROVE  n \in Nat /\ q \in Nat /\ Joined(All(done, undone), done, undone, n, q)
<1>1. /\ n \in Nat /\ q \in Nat /\ DOMAIN undone = 1..q
      /\ \A k \in 1..q : undone[k] \in Edit
  BY LenProperties
<1> DEFINE back == Reverse(undone)
<1>2. back = [k \in 1..q |-> undone[(q - k) + 1]]
  BY DEF Reverse
<1>3. \A k \in 1..q : (q - k) + 1 \in 1..q
  BY <1>1
<1> HIDE DEF back
<1>4. back \in [1..q -> Edit]
  BY <1>1, <1>2, <1>3
<1>5. back \in Seq(Edit) /\ Len(back) = q
  BY <1>1, <1>4
<1>6. /\ All(done, undone) \in Seq(Edit) /\ Len(All(done, undone)) = n + q
      /\ \A k \in 1..n + q : All(done, undone)[k] = IF k <= n THEN done[k] ELSE back[k - n]
  <2>1. /\ done \o back \in Seq(Edit) /\ Len(done \o back) = Len(done) + Len(back)
        /\ \A k \in 1..Len(done) + Len(back) :
             (done \o back)[k] = IF k <= Len(done) THEN done[k] ELSE back[k - Len(done)]
    BY <1>5, ConcatProperties
  <2>2. All(done, undone) = done \o back /\ Len(done) = n /\ Len(back) = q
    BY <1>5 DEF All, back
  <2>3. QED BY <2>1, <2>2
<1>7. ASSUME NEW k \in 1..n + q, ~(k <= n)
      PROVE  back[k - n] = undone[q + n + 1 - k]
  <2>1. k - n \in 1..q /\ (q - (k - n)) + 1 = q + n + 1 - k
    BY <1>1, <1>7
  <2>2. QED BY <1>2, <2>1
<1>8. QED BY <1>1, <1>6, <1>7 DEF Joined

\* Undo does not change the two lists as one.
LEMMA AllUndo ==
  ASSUME NEW done \in Seq(Edit), NEW undone \in Seq(Edit), done # <<>>
  PROVE  All(Front(done), Append(undone, Last(done))) = All(done, undone)
<1>1. PICK n, q : n = Len(done) /\ q = Len(undone)
  OBVIOUS
<1>2. /\ n \in Nat \ {0} /\ Last(done) = done[n] /\ Last(done) \in Edit
      /\ Front(done) \in Seq(Edit) /\ Len(Front(done)) = n - 1
      /\ \A k \in 1..n - 1 : Front(done)[k] = done[k]
  BY <1>1, LastFront
<1>3. /\ q \in Nat /\ Append(undone, Last(done)) \in Seq(Edit)
      /\ Len(Append(undone, Last(done))) = q + 1
      /\ Append(undone, Last(done))[q + 1] = done[n]
      /\ \A k \in 1..q : Append(undone, Last(done))[k] = undone[k]
  BY <1>1, <1>2, AppendProperties, LenProperties
<1>4. PICK front, more : front = Front(done) /\ more = Append(undone, Last(done))
  OBVIOUS
<1>5. Joined(All(done, undone), done, undone, n, q)
  BY <1>1, AllActions
<1>6. PICK m, p : m = n - 1 /\ p = q + 1
  OBVIOUS
<1>7. front \in Seq(Edit) /\ more \in Seq(Edit) /\ m = Len(front) /\ p = Len(more)
  BY <1>2, <1>3, <1>4, <1>6
<1>8. Joined(All(front, more), front, more, m, p)
  BY <1>7, AllActions
<1>9. /\ \A k \in 1..m : front[k] = done[k]
      /\ \A k \in 1..q : more[k] = undone[k]
      /\ more[q + 1] = done[n]
  BY <1>2, <1>3, <1>4, <1>6
<1>10. /\ n \in Nat /\ q \in Nat /\ m \in Nat /\ p \in Nat
       /\ m + p = n + q /\ p + m + 1 = q + n + 1
  <2>1. n \in Nat \ {0} /\ q \in Nat
    BY <1>2, <1>3
  <2>2. QED BY ONLY <1>6, <2>1
<1>11. ASSUME NEW k \in 1..n + q
       PROVE  (IF k <= n THEN done[k] ELSE undone[q + n + 1 - k])
              = (IF k <= m THEN front[k] ELSE more[q + n + 1 - k])
  <2>1. CASE k <= m
    <3>1. k \in 1..m /\ k <= n
      BY <1>2, <1>3, <1>6, <2>1
    <3>2. QED BY <1>9, <2>1, <3>1
  <2>2. CASE k = n
    <3>1. ~(k <= m) /\ q + n + 1 - k = q + 1 /\ k <= n
      BY <1>2, <1>3, <1>6, <2>2
    <3>2. QED BY <1>9, <2>2, <3>1
  <2>3. CASE k > n
    <3>1. ~(k <= m) /\ ~(k <= n) /\ q + n + 1 - k \in 1..q
      BY <1>2, <1>3, <1>6, <2>3
    <3>2. QED BY <1>9, <3>1
  <2>4. k <= m \/ k = n \/ k > n
    BY <1>2, <1>3, <1>6
  <2>5. QED BY <2>1, <2>2, <2>3, <2>4
<1>12. All(done, undone) = All(front, more)
  <2>1. /\ All(done, undone) \in Seq(Edit) /\ Len(All(done, undone)) = n + q
        /\ \A k \in 1..n + q : All(done, undone)[k] =
             IF k <= n THEN done[k] ELSE undone[q + n + 1 - k]
    BY <1>5 DEF Joined
  <2>2. /\ All(front, more) \in Seq(Edit) /\ Len(All(front, more)) = m + p
        /\ \A k \in 1..m + p : All(front, more)[k] =
             IF k <= m THEN front[k] ELSE more[p + m + 1 - k]
    BY <1>8 DEF Joined
  <2>3. ASSUME NEW k \in 1..n + q PROVE All(front, more)[k] = All(done, undone)[k]
    <3>1. k \in 1..m + p /\ p + m + 1 - k = q + n + 1 - k
      BY <1>10
    <3>2. All(front, more)[k] = IF k <= m THEN front[k] ELSE more[p + m + 1 - k]
      BY <2>2, <3>1
    <3>3. All(done, undone)[k] = IF k <= n THEN done[k] ELSE undone[q + n + 1 - k]
      BY <2>1
    <3>4. QED BY <1>11, <3>1, <3>2, <3>3
  <2>4. QED BY <1>10, <2>1, <2>2, <2>3, SeqEqual
<1>13. QED BY <1>4, <1>12

\* Redo does not either.
LEMMA AllRedo ==
  ASSUME NEW done \in Seq(Edit), NEW undone \in Seq(Edit), undone # <<>>
  PROVE  All(Append(done, Last(undone)), Front(undone)) = All(done, undone)
<1>1. PICK n, q : n = Len(done) /\ q = Len(undone)
  OBVIOUS
<1>2. /\ q \in Nat \ {0} /\ Last(undone) = undone[q] /\ Last(undone) \in Edit
      /\ Front(undone) \in Seq(Edit) /\ Len(Front(undone)) = q - 1
      /\ \A k \in 1..q - 1 : Front(undone)[k] = undone[k]
  BY <1>1, LastFront
<1>3. /\ n \in Nat /\ Append(done, Last(undone)) \in Seq(Edit)
      /\ Len(Append(done, Last(undone))) = n + 1
      /\ Append(done, Last(undone))[n + 1] = undone[q]
      /\ \A k \in 1..n : Append(done, Last(undone))[k] = done[k]
  BY <1>1, <1>2, AppendProperties, LenProperties
<1>4. PICK front, more : front = Front(undone) /\ more = Append(done, Last(undone))
  OBVIOUS
<1>5. Joined(All(done, undone), done, undone, n, q)
  BY <1>1, AllActions
<1>6. PICK m, p : m = n + 1 /\ p = q - 1
  OBVIOUS
<1>7. front \in Seq(Edit) /\ more \in Seq(Edit) /\ m = Len(more) /\ p = Len(front)
  BY <1>2, <1>3, <1>4, <1>6
<1>8. Joined(All(more, front), more, front, m, p)
  BY <1>7, AllActions
<1>9. /\ \A k \in 1..n : more[k] = done[k]
      /\ \A k \in 1..p : front[k] = undone[k]
      /\ more[n + 1] = undone[q]
  BY <1>2, <1>3, <1>4, <1>6
<1>10. /\ n \in Nat /\ q \in Nat /\ m \in Nat /\ p \in Nat
       /\ m + p = n + q /\ p + m + 1 = q + n + 1
  <2>1. n \in Nat /\ q \in Nat \ {0}
    BY <1>2, <1>3
  <2>2. QED BY ONLY <1>6, <2>1
<1>11. ASSUME NEW k \in 1..n + q
       PROVE  (IF k <= n THEN done[k] ELSE undone[q + n + 1 - k])
              = (IF k <= m THEN more[k] ELSE front[q + n + 1 - k])
  <2>1. CASE k <= n
    <3>1. k \in 1..n /\ k <= m
      BY <1>2, <1>3, <1>6, <2>1
    <3>2. QED BY <1>9, <2>1, <3>1
  <2>2. CASE k = n + 1
    <3>1. k <= m /\ q + n + 1 - k = q /\ ~(k <= n)
      BY <1>2, <1>3, <1>6, <2>2
    <3>2. QED BY <1>9, <2>2, <3>1
  <2>3. CASE k > n + 1
    <3>1. ~(k <= m) /\ ~(k <= n) /\ q + n + 1 - k \in 1..p
      BY <1>2, <1>3, <1>6, <2>3
    <3>2. QED BY <1>9, <3>1
  <2>4. k <= n \/ k = n + 1 \/ k > n + 1
    BY <1>2, <1>3
  <2>5. QED BY <2>1, <2>2, <2>3, <2>4
<1>12. All(done, undone) = All(more, front)
  <2>1. /\ All(done, undone) \in Seq(Edit) /\ Len(All(done, undone)) = n + q
        /\ \A k \in 1..n + q : All(done, undone)[k] =
             IF k <= n THEN done[k] ELSE undone[q + n + 1 - k]
    BY <1>5 DEF Joined
  <2>2. /\ All(more, front) \in Seq(Edit) /\ Len(All(more, front)) = m + p
        /\ \A k \in 1..m + p : All(more, front)[k] =
             IF k <= m THEN more[k] ELSE front[p + m + 1 - k]
    BY <1>8 DEF Joined
  <2>3. ASSUME NEW k \in 1..n + q PROVE All(more, front)[k] = All(done, undone)[k]
    <3>1. k \in 1..m + p /\ p + m + 1 - k = q + n + 1 - k
      BY <1>10
    <3>2. All(more, front)[k] = IF k <= m THEN more[k] ELSE front[p + m + 1 - k]
      BY <2>2, <3>1
    <3>3. All(done, undone)[k] = IF k <= n THEN done[k] ELSE undone[q + n + 1 - k]
      BY <2>1
    <3>4. QED BY <1>11, <3>1, <3>2, <3>3
  <2>4. QED BY <1>10, <2>1, <2>2, <2>3, SeqEqual
<1>13. QED BY <1>4, <1>12

\* The chain of an item through the lists of its document.
ChainOf(done, undone, x, t) ==
  Chain(All(done, undone), Len(done), Len(All(done, undone)), x, t)

\* Undo, redo and an edit keep the chain of every item of the document.
LEMMA ListsChain ==
  ASSUME NEW done \in Seq(Edit), NEW undone \in Seq(Edit), NEW x, NEW t,
         ChainOf(done, undone, x, t)
  PROVE  /\ done # <<>> =>
              ChainOf(Front(done), Append(undone, Last(done)), x,
                      IF Last(done).item = x THEN Last(done).before ELSE t)
         /\ undone # <<>> =>
              ChainOf(Append(done, Last(undone)), Front(undone), x,
                      IF Last(undone).item = x THEN Last(undone).after ELSE t)
         /\ \A e \in Edit : (e.item = x => e.before = t) =>
              ChainOf(Append(done, e), <<>>, x, IF e.item = x THEN e.after ELSE t)
<1>1. PICK E, n, q : E = All(done, undone) /\ n = Len(done) /\ q = Len(undone)
  OBVIOUS
<1>2. n \in Nat /\ q \in Nat /\ Joined(All(done, undone), done, undone, n, q)
  BY <1>1, AllActions
<1>3. PICK N : N = n + q
  OBVIOUS
<1>4. /\ N \in Nat /\ Len(E) = N /\ n \in 0..N
      /\ \A k \in 1..N : E[k] = IF k <= n THEN done[k] ELSE undone[q + n + 1 - k]
  BY <1>1, <1>2, <1>3 DEF Joined
<1>5. Chain(E, n, N, x, t)
  BY <1>1, <1>4 DEF ChainOf
<1>6. ASSUME done # <<>>
      PROVE  ChainOf(Front(done), Append(undone, Last(done)), x,
                     IF Last(done).item = x THEN Last(done).before ELSE t)
  <2>1. n \in Nat \ {0} /\ Last(done) = done[n] /\ Len(Front(done)) = n - 1
    BY <1>1, <1>6, LastFront
  <2>2. n \in 1..N /\ n <= n
    BY <1>2, <1>3, <2>1
  <2>3. Last(done) = E[n]
    BY <1>4, <2>1, <2>2
  <2>4. Chain(E, n - 1, N, x, IF E[n].item = x THEN E[n].before ELSE t)
    BY <1>4, <1>5, <2>2, ChainUndo
  <2>5. All(Front(done), Append(undone, Last(done))) = E
    BY <1>1, <1>6, AllUndo
  <2>6. QED BY <1>4, <2>1, <2>3, <2>4, <2>5 DEF ChainOf
<1>7. ASSUME undone # <<>>
      PROVE  ChainOf(Append(done, Last(undone)), Front(undone), x,
                     IF Last(undone).item = x THEN Last(undone).after ELSE t)
  <2>1. q \in Nat \ {0} /\ Last(undone) = undone[q] /\ Last(undone) \in Edit
    BY <1>1, <1>7, LastFront
  <2>2. Len(Append(done, Last(undone))) = n + 1
    BY <1>1, <2>1, AppendProperties
  <2>3. n \in 0..N - 1 /\ n + 1 \in 1..N /\ ~(n + 1 <= n) /\ q + n + 1 - (n + 1) = q
    BY <1>2, <1>3, <2>1
  <2>4. Last(undone) = E[n + 1]
    BY <1>4, <2>1, <2>3
  <2>5. Chain(E, n + 1, N, x, IF E[n + 1].item = x THEN E[n + 1].after ELSE t)
    BY <1>4, <1>5, <2>3, ChainRedo
  <2>6. All(Append(done, Last(undone)), Front(undone)) = E
    BY <1>1, <1>7, AllRedo
  <2>7. QED BY <1>4, <2>2, <2>4, <2>5, <2>6 DEF ChainOf
<1>8. ASSUME NEW e \in Edit, e.item = x => e.before = t
      PROVE  ChainOf(Append(done, e), <<>>, x, IF e.item = x THEN e.after ELSE t)
  <2>1. PICK F, more, none : F = All(more, none) /\ more = Append(done, e) /\ none = <<>>
    OBVIOUS
  <2>2. /\ more \in Seq(Edit) /\ Len(more) = n + 1 /\ more[n + 1] = e
        /\ \A k \in 1..n : more[k] = done[k]
    BY <1>1, <2>1, AppendProperties
  <2>3. none \in Seq(Edit) /\ Len(none) = 0
    BY <2>1
  <2>4. PICK m : m = n + 1
    OBVIOUS
  <2>5. Joined(All(more, none), more, none, m, 0)
    BY <2>2, <2>3, <2>4, AllActions
  <2>6. Len(F) = m + 0 /\ \A k \in 1..m + 0 : k <= m => F[k] = more[k]
    BY <2>1, <2>5 DEF Joined
  <2>7. m + 0 = m /\ \A k \in 1..m : k <= m
    BY <1>2, <2>4
  <2>8. Len(F) = m /\ \A k \in 1..m : F[k] = more[k]
    BY <2>6, <2>7
  <2>9. m \in 1..m /\ \A k \in 1..n : k \in 1..m /\ k \in 1..N /\ k <= n
    BY <1>2, <1>3, <2>4
  <2>10. F[n + 1] = e /\ \A k \in 1..n : F[k] = E[k]
    BY <1>4, <2>2, <2>4, <2>8, <2>9
  <2>11. Chain(F, n + 1, n + 1, x, IF F[n + 1].item = x THEN F[n + 1].after ELSE t)
    BY <1>4, <1>5, <1>8, <2>10, ChainEdit
  <2>12. QED BY <2>1, <2>2, <2>4, <2>8, <2>10, <2>11 DEF ChainOf
<1>9. QED BY <1>6, <1>7, <1>8
---------------------------------------------------------------------------
(* The inductive invariant.                                                *)

\* The field of an item shows its text, unless its timer runs or it is x.
Settled(s, D, x) == \A i \in Item :
  i # x /\ gui.place[i] # Nowhere /\ s.typed[FieldOf(i)] # s.text[i] => FieldOf(i) \in D

\* Every action of a document is about an item of it.
Owned(s) == \A d \in Doc : /\ \A k \in DOMAIN s.actionList[d] : DocOf[s.actionList[d][k].item] = d
                           /\ \A k \in DOMAIN s.redoActionList[d] :
                                DocOf[s.redoActionList[d][k].item] = d

\* The server has the text of every item that is there, and whose text is not
\* on its way.
Stored(s, there, on) == \A i \in there : on[i] = NoText => s.stored[Key(i)] = s.text[i]

\* The edits of every item follow each other.
Chained(s) == \A i \in Item :
  ChainOf(s.actionList[DocOf[i]], s.redoActionList[DocOf[i]], i, s.text[i])

\* The documents have no other parts.
Parts(x) == x = [text |-> x.text, actionList |-> x.actionList,
                 redoActionList |-> x.redoActionList, stored |-> x.stored]

\* The inductive invariant: while no text went to another document than its
\* own, all actions are about items of their documents.
EntryInv ==
  /\ GuiInv /\ Kept /\ State \in Entry /\ Parts(docs)
  /\ due \subseteq gui.widgets
  /\ editCountSinceLastSignal \in [Widget -> 0..EditTrashold - 1] /\ keys \in 0..MaxKeys
  /\ awaited \in [Item -> Texts \cup {NoText}]
  /\ "unseen" \notin disturbed => Settled(State, due, NoItem)
  /\ "misdirected" \notin disturbed => Owned(State) /\ Stored(State, arrived, awaited)
  /\ disturbed \subseteq {"unseen"} => Chained(State)

\* What a slot of a document may do to all that.
Keeping(r, s, D, there, on) ==
  /\ r \in Entry
  /\ Settled(s, D, NoItem) => Settled(r, D, NoItem)
  /\ Owned(s) => Owned(r)
  /\ Owned(s) /\ Stored(s, there, on) => Stored(r, there, on)
  /\ Owned(s) /\ Chained(s) => Chained(r)

\* A text that is set is shown in the field of its item, and in no other.
LEMMA WritesSettle ==
  ASSUME Placed(gui), gui.widgets \subseteq Widget, NEW s \in Entry, NEW d, NEW i \in Item,
         NEW t \in Texts, NEW r, Writes(r, s, d, i, t), NEW D, NEW x \in {i, NoItem},
         Settled(s, D, x)
  PROVE  Settled(r, D, NoItem)
<1> SUFFICES ASSUME NEW j \in Item, gui.place[j] # Nowhere, r.typed[FieldOf(j)] # r.text[j]
             PROVE  FieldOf(j) \in D
  BY DEF Settled
<1>1. /\ s.text \in [Item -> Texts]
      /\ \A k \in Item : r.text[k] = IF k = i THEN t ELSE s.text[k]
      /\ \A w \in Widget : r.typed[w] = IF w = FieldOf(i) THEN t ELSE s.typed[w]
  BY DEF Entry, Writes
<1>2. FieldOf(j) \in Widget
  BY DEF Placed, FieldOf
<1>3. j # i
  BY <1>1, <1>2
<1>4. FieldOf(j) # FieldOf(i)
  BY <1>3 DEF FieldOf
<1>5. s.typed[FieldOf(j)] # s.text[j]
  BY <1>1, <1>2, <1>3, <1>4
<1>6. j # x
  BY <1>3, DocAssumption
<1>7. QED BY <1>5, <1>6 DEF Settled

\* A text told under the document of its item is what the server has, and no
\* other item of the server is overwritten.
LEMMA WritesStore ==
  ASSUME NEW s \in Entry, NEW i \in Item, NEW t \in Texts, NEW r, Writes(r, s, DocOf[i], i, t),
         NEW there, there \subseteq Item, NEW on,
         \A j \in there : j # i /\ on[j] = NoText => s.stored[Key(j)] = s.text[j]
  PROVE  Stored(r, there, on)
<1> SUFFICES ASSUME NEW j \in there, on[j] = NoText
             PROVE  r.stored[Key(j)] = r.text[j]
  BY DEF Stored
<1>1. j \in Item /\ Key(j) \in Keys
  BY DEF Keys
<1>2. /\ s.text \in [Item -> Texts]
      /\ r.text[j] = IF j = i THEN t ELSE s.text[j]
      /\ r.stored[Key(j)] =
           IF \E k \in Item : DocOf[k] = DocOf[i] /\ IdOf[k] = IdOf[i]
                              /\ Key(j) = <<DocOf[i], IdOf[k]>>
           THEN t ELSE s.stored[Key(j)]
  BY <1>1 DEF Entry, Writes
<1>3. CASE j = i
  BY <1>2, <1>3 DEF Key
<1>4. CASE j # i
  <2>1. ~(DocOf[j] = DocOf[i] /\ IdOf[j] = IdOf[i])
    BY <1>1, <1>4, EntryAssumption
  <2>2. ~\E k \in Item : DocOf[k] = DocOf[i] /\ IdOf[k] = IdOf[i]
                         /\ Key(j) = <<DocOf[i], IdOf[k]>>
    BY <2>1 DEF Key
  <2>3. QED BY <1>2, <1>4, <2>2
<1>5. QED BY <1>3, <1>4

About(list, d) == \A k \in DOMAIN list : DocOf[list[k].item] = d

\* Lists of a document that hold its own actions keep all lists so.
LEMMA ActsOwn ==
  ASSUME NEW s \in Entry, NEW d \in Doc, NEW i, NEW t, NEW done, NEW undone, NEW r,
         Acts(r, s, d, i, t, done, undone), Owned(s), About(done, d), About(undone, d)
  PROVE  Owned(r)
<1> SUFFICES ASSUME NEW e \in Doc
             PROVE  About(r.actionList[e], e) /\ About(r.redoActionList[e], e)
  BY DEF Owned, About
<1>1. /\ r.actionList[e] = IF e = d THEN done ELSE s.actionList[e]
      /\ r.redoActionList[e] = IF e = d THEN undone ELSE s.redoActionList[e]
  BY DEF Acts, Entry
<1>2. About(s.actionList[e], e) /\ About(s.redoActionList[e], e)
  BY DEF Owned, About
<1>3. QED BY <1>1, <1>2

\* The lists chain the edits of the items of d, when the text of i is set.
ChainAll(done, undone, s, d, i, t) == \A x \in Item : DocOf[x] = d =>
  ChainOf(done, undone, x, IF i = x THEN t ELSE s.text[x])

\* Lists of a document that chain the edits of its items keep all items so.
LEMMA ActsChain ==
  ASSUME NEW s \in Entry, NEW i \in Item, NEW t, NEW done, NEW undone, NEW r,
         Acts(r, s, DocOf[i], i, t, done, undone), Chained(s),
         ChainAll(done, undone, s, DocOf[i], i, t)
  PROVE  Chained(r)
<1> SUFFICES ASSUME NEW x \in Item
             PROVE  ChainOf(r.actionList[DocOf[x]], r.redoActionList[DocOf[x]], x, r.text[x])
  BY DEF Chained
<1>1. DocOf[x] \in Doc
  BY ContentsAssumption
<1>2. /\ r.actionList[DocOf[x]] = IF DocOf[x] = DocOf[i] THEN done ELSE s.actionList[DocOf[x]]
      /\ r.redoActionList[DocOf[x]] =
           IF DocOf[x] = DocOf[i] THEN undone ELSE s.redoActionList[DocOf[x]]
      /\ r.text[x] = IF x = i THEN t ELSE s.text[x]
  BY <1>1 DEF Acts, Writes, Entry
<1>3. CASE DocOf[x] = DocOf[i]
  BY <1>2, <1>3 DEF ChainAll
<1>4. CASE DocOf[x] # DocOf[i]
  BY <1>2, <1>4 DEF Chained
<1>5. QED BY <1>3, <1>4

\* A text set in the document of its item, with lists of that document's own
\* actions which chain its edits, keeps all that.
LEMMA ActsKeeps ==
  ASSUME Placed(gui), gui.widgets \subseteq Widget, NEW s \in Entry, NEW d \in Doc,
         NEW i \in Item, NEW t \in Texts, NEW done, NEW undone, NEW r,
         Acts(r, s, d, i, t, done, undone),
         Owned(s) => d = DocOf[i] /\ About(done, d) /\ About(undone, d),
         Owned(s) /\ Chained(s) => ChainAll(done, undone, s, d, i, t),
         NEW D, NEW there, there \subseteq Item, NEW on
  PROVE  Keeping(r, s, D, there, on)
<1>1. r \in Entry /\ Writes(r, s, d, i, t)
  BY DEF Acts
<1>2. Settled(s, D, NoItem) => Settled(r, D, NoItem)
  BY <1>1, WritesSettle
<1>3. Owned(s) => Owned(r)
  BY ActsOwn
<1>4. ASSUME Owned(s), Stored(s, there, on)
      PROVE  Stored(r, there, on)
  <2>1. Writes(r, s, DocOf[i], i, t)
    BY <1>1, <1>4
  <2>2. \A j \in there : j # i /\ on[j] = NoText => s.stored[Key(j)] = s.text[j]
    BY <1>4 DEF Stored
  <2>3. QED BY <2>1, <2>2, WritesStore
<1>5. ASSUME Owned(s), Chained(s)
      PROVE  Chained(r)
  <2>1. Acts(r, s, DocOf[i], i, t, done, undone) /\ ChainAll(done, undone, s, DocOf[i], i, t)
    BY <1>5
  <2>2. QED BY <1>5, <2>1, ActsChain
<1>6. QED BY <1>1, <1>2, <1>3, <1>4, <1>5 DEF Keeping

\* A list of actions of one document stays one.
LEMMA AboutLists ==
  ASSUME NEW list \in Seq(Edit), NEW d, About(list, d)
  PROVE  /\ list # <<>> => About(Front(list), d) /\ DocOf[Last(list).item] = d
         /\ \A e \in Edit : DocOf[e.item] = d => About(Append(list, e), d)
<1>1. PICK n : n = Len(list)
  OBVIOUS
<1>2. n \in Nat /\ DOMAIN list = 1..n /\ \A k \in 1..n : DocOf[list[k].item] = d
  BY <1>1, LenProperties DEF About
<1>3. ASSUME list # <<>>
      PROVE  About(Front(list), d) /\ DocOf[Last(list).item] = d
  <2>1. /\ n \in Nat \ {0} /\ Last(list) = list[n] /\ Front(list) \in Seq(Edit)
        /\ Len(Front(list)) = n - 1 /\ \A k \in 1..n - 1 : Front(list)[k] = list[k]
    BY <1>1, <1>3, LastFront
  <2>2. DOMAIN Front(list) = 1..n - 1 /\ n \in 1..n /\ \A k \in 1..n - 1 : k \in 1..n
    BY <2>1, LenProperties
  <2>3. QED BY <1>2, <2>1, <2>2 DEF About
<1>4. ASSUME NEW e \in Edit, DocOf[e.item] = d
      PROVE  About(Append(list, e), d)
  <2>1. /\ Append(list, e) \in Seq(Edit) /\ Len(Append(list, e)) = n + 1
        /\ Append(list, e)[n + 1] = e /\ \A k \in 1..n : Append(list, e)[k] = list[k]
    BY <1>1, AppendProperties
  <2>2. DOMAIN Append(list, e) = 1..n + 1 /\ \A k \in 1..n + 1 : k \in 1..n \/ k = n + 1
    BY <1>2, <2>1, LenProperties
  <2>3. QED BY <1>2, <1>4, <2>1, <2>2 DEF About
<1>5. QED BY <1>3, <1>4

\* Handing a text over to a document.
LEMMA EditKeeps ==
  ASSUME Placed(gui), gui.widgets \subseteq Widget, NEW s \in Entry, NEW d \in Doc,
         NEW i \in Item, NEW t \in Texts, NEW r, r = SetItemText(s, d, i, t),
         NEW D, NEW there, there \subseteq Item, NEW on
  PROVE  /\ r \in Entry
         /\ Settled(s, D, i) \/ Settled(s, D, NoItem) => Settled(r, D, NoItem)
         /\ d = DocOf[i] => Keeping(r, s, D, there, on)
<1>1. PICK e, done, none : /\ e = [item |-> i, before |-> s.text[i], after |-> t]
                           /\ done = Append(s.actionList[d], e) /\ none = <<>>
  OBVIOUS
<1>2. Acts(r, s, d, i, t, done, none)
  BY <1>1, EditActs
<1>3. /\ r \in Entry /\ Writes(r, s, d, i, t)
      /\ s.actionList[d] \in Seq(Edit) /\ s.redoActionList[d] \in Seq(Edit)
  BY <1>2 DEF Acts, Entry
<1>4. Settled(s, D, i) \/ Settled(s, D, NoItem) => Settled(r, D, NoItem)
  BY <1>3, WritesSettle
<1>5. e \in Edit /\ e.item = i /\ e.before = s.text[i] /\ e.after = t
  BY <1>1 DEF Edit, Entry
<1>6. ASSUME d = DocOf[i]
      PROVE  Keeping(r, s, D, there, on)
  <2>1. ASSUME Owned(s)
        PROVE  d = DocOf[i] /\ About(done, d) /\ About(none, d)
    <3>1. About(s.actionList[d], d)
      BY <2>1 DEF Owned, About
    <3>2. About(done, d)
      BY <1>1, <1>3, <1>5, <1>6, <3>1, AboutLists
    <3>3. QED BY <1>1, <1>6, <3>2 DEF About
  <2>2. ASSUME Chained(s), NEW x \in Item, DocOf[x] = d
        PROVE  ChainOf(done, none, x, IF i = x THEN t ELSE s.text[x])
    <3>1. ChainOf(s.actionList[d], s.redoActionList[d], x, s.text[x])
      BY <2>2 DEF Chained
    <3>2. e.item = x => e.before = s.text[x]
      BY <1>5
    <3>3. ChainOf(Append(s.actionList[d], e), <<>>, x, IF e.item = x THEN e.after ELSE s.text[x])
      BY <1>3, <1>5, <3>1, <3>2, ListsChain
    <3>4. QED BY <1>1, <1>5, <3>3
  <2>3. Chained(s) => ChainAll(done, none, s, d, i, t)
    BY <2>2 DEF ChainAll
  <2>4. QED BY <1>2, <2>1, <2>3, ActsKeeps
<1>7. QED BY <1>3, <1>4, <1>6

\* Undo in a document.
LEMMA UndoKeeps ==
  ASSUME Placed(gui), gui.widgets \subseteq Widget, NEW s \in Entry, NEW d \in Doc,
         NEW r, r = UndoLastAction(s, d), NEW D, NEW there, there \subseteq Item, NEW on
  PROVE  Keeping(r, s, D, there, on)
<1>1. CASE s.actionList[d] = <<>>
  <2>1. r = s
    BY <1>1 DEF UndoLastAction
  <2>2. QED BY <2>1 DEF Keeping
<1>2. CASE s.actionList[d] # <<>>
  <2>1. PICK e, i, t, done, undone :
          /\ e = Last(s.actionList[d]) /\ i = e.item /\ t = e.before
          /\ done = Front(s.actionList[d]) /\ undone = Append(s.redoActionList[d], e)
    OBVIOUS
  <2>2. e \in Edit /\ Acts(r, s, d, i, t, done, undone)
    BY <1>2, <2>1, UndoActs
  <2>3. /\ i \in Item /\ t \in Texts
        /\ s.actionList[d] \in Seq(Edit) /\ s.redoActionList[d] \in Seq(Edit)
    BY <2>1, <2>2 DEF Entry, Edit
  <2>4. ASSUME Owned(s)
        PROVE  d = DocOf[i] /\ About(done, d) /\ About(undone, d)
    <3>1. About(s.actionList[d], d) /\ About(s.redoActionList[d], d)
      BY <2>4 DEF Owned, About
    <3>2. About(done, d) /\ DocOf[e.item] = d
      BY <1>2, <2>1, <2>3, <3>1, AboutLists
    <3>3. About(undone, d)
      BY <2>1, <2>2, <2>3, <3>1, <3>2, AboutLists
    <3>4. QED BY <2>1, <3>2, <3>3
  <2>5. ASSUME Chained(s), NEW x \in Item, DocOf[x] = d
        PROVE  ChainOf(done, undone, x, IF i = x THEN t ELSE s.text[x])
    <3>1. ChainOf(s.actionList[d], s.redoActionList[d], x, s.text[x])
      BY <2>5 DEF Chained
    <3>2. ChainOf(Front(s.actionList[d]), Append(s.redoActionList[d], Last(s.actionList[d])), x,
                  IF Last(s.actionList[d]).item = x THEN Last(s.actionList[d]).before
                  ELSE s.text[x])
      BY <1>2, <2>3, <3>1, ListsChain
    <3>3. QED BY <2>1, <3>2
  <2>6. Chained(s) => ChainAll(done, undone, s, d, i, t)
    BY <2>5 DEF ChainAll
  <2>7. QED BY <2>2, <2>3, <2>4, <2>6, ActsKeeps
<1>3. QED BY <1>1, <1>2

\* Redo in a document.
LEMMA RedoKeeps ==
  ASSUME Placed(gui), gui.widgets \subseteq Widget, NEW s \in Entry, NEW d \in Doc,
         NEW r, r = RedoAction(s, d), NEW D, NEW there, there \subseteq Item, NEW on
  PROVE  Keeping(r, s, D, there, on)
<1>1. CASE s.redoActionList[d] = <<>>
  <2>1. r = s
    BY <1>1 DEF RedoAction
  <2>2. QED BY <2>1 DEF Keeping
<1>2. CASE s.redoActionList[d] # <<>>
  <2>1. PICK e, i, t, done, undone :
          /\ e = Last(s.redoActionList[d]) /\ i = e.item /\ t = e.after
          /\ done = Append(s.actionList[d], e) /\ undone = Front(s.redoActionList[d])
    OBVIOUS
  <2>2. e \in Edit /\ Acts(r, s, d, i, t, done, undone)
    BY <1>2, <2>1, RedoActs
  <2>3. /\ i \in Item /\ t \in Texts
        /\ s.actionList[d] \in Seq(Edit) /\ s.redoActionList[d] \in Seq(Edit)
    BY <2>1, <2>2 DEF Entry, Edit
  <2>4. ASSUME Owned(s)
        PROVE  d = DocOf[i] /\ About(done, d) /\ About(undone, d)
    <3>1. About(s.actionList[d], d) /\ About(s.redoActionList[d], d)
      BY <2>4 DEF Owned, About
    <3>2. About(undone, d) /\ DocOf[e.item] = d
      BY <1>2, <2>1, <2>3, <3>1, AboutLists
    <3>3. About(done, d)
      BY <2>1, <2>2, <2>3, <3>1, <3>2, AboutLists
    <3>4. QED BY <2>1, <3>2, <3>3
  <2>5. ASSUME Chained(s), NEW x \in Item, DocOf[x] = d
        PROVE  ChainOf(done, undone, x, IF i = x THEN t ELSE s.text[x])
    <3>1. ChainOf(s.actionList[d], s.redoActionList[d], x, s.text[x])
      BY <2>5 DEF Chained
    <3>2. ChainOf(Append(s.actionList[d], Last(s.redoActionList[d])),
                  Front(s.redoActionList[d]), x,
                  IF Last(s.redoActionList[d]).item = x THEN Last(s.redoActionList[d]).after
                  ELSE s.text[x])
      BY <1>2, <2>3, <3>1, ListsChain
    <3>3. QED BY <2>1, <3>2
  <2>6. Chained(s) => ChainAll(done, undone, s, d, i, t)
    BY <2>5 DEF ChainAll
  <2>7. QED BY <2>2, <2>3, <2>4, <2>6, ActsKeeps
<1>3. QED BY <1>1, <1>2
---------------------------------------------------------------------------
(* A signal goes from document to document.                                *)

Do(s, d, slot, i, t) ==
  IF slot = "edit" THEN SetItemText(s, d, i, t)
  ELSE IF slot = "undo" THEN UndoLastAction(s, d) ELSE RedoAction(s, d)

TellNext(f, list, s, slot, i, t, n) == IF n = 0 THEN s ELSE Do(f[n - 1], list[n], slot, i, t)

\* f[n] is what there is when n documents were told.
Told(f, m, list, s, slot, i, t) == f = [n \in 0..m |-> TellNext(f, list, s, slot, i, t, n)]

\* One document after the other can be told.
LEMMA ToldExists ==
  ASSUME NEW list, NEW s, NEW slot, NEW i, NEW t
  PROVE  \A m \in Nat : \E f : Told(f, m, list, s, slot, i, t)
<1> DEFINE T == {m \in Nat : \E f : Told(f, m, list, s, slot, i, t)}
<1>1. 0 \in T
  <2> DEFINE f == [n \in 0..0 |-> s]
  <2>1. f = [n \in 0..0 |-> TellNext(f, list, s, slot, i, t, n)]
    BY DEF TellNext
  <2>2. Told(f, 0, list, s, slot, i, t)
    BY <2>1 DEF Told
  <2>3. QED BY <2>2
<1>2. ASSUME NEW m \in Nat, m \in T
      PROVE  m + 1 \in T
  <2>1. PICK f : Told(f, m, list, s, slot, i, t)
    BY <1>2
  <2>2. f = [n \in 0..m |-> TellNext(f, list, s, slot, i, t, n)]
    BY <2>1 DEF Told
  <2> DEFINE g == [n \in 0..m + 1 |->
                     IF n = m + 1 THEN TellNext(f, list, s, slot, i, t, n) ELSE f[n]]
  <2>3. g = [n \in 0..m + 1 |-> TellNext(g, list, s, slot, i, t, n)]
    <3>1. ASSUME NEW n \in 0..m + 1
          PROVE  g[n] = TellNext(g, list, s, slot, i, t, n)
      <4>1. n # 0 => n - 1 \in 0..m /\ g[n - 1] = f[n - 1]
        OBVIOUS
      <4>2. TellNext(g, list, s, slot, i, t, n) = TellNext(f, list, s, slot, i, t, n)
        BY <4>1 DEF TellNext
      <4>3. CASE n = m + 1
        BY <4>2, <4>3
      <4>4. CASE n # m + 1
        <5>1. n \in 0..m /\ g[n] = f[n]
          BY <4>4
        <5>2. f[n] = TellNext(f, list, s, slot, i, t, n)
          BY <2>2, <5>1
        <5>3. QED BY <4>2, <5>1, <5>2
      <4>5. QED BY <4>3, <4>4
    <3>2. QED BY <3>1
  <2>4. Told(g, m + 1, list, s, slot, i, t)
    BY <2>3 DEF Told
  <2>5. QED BY <2>4
<1>3. Nat \subseteq T
  <2> HIDE DEF T
  <2>1. QED BY <1>1, <1>2, SetInduction
<1>4. QED BY <1>3

\* After the last document, the field is settled if any was told, and nothing
\* is lost if the text only went to its own.
LEMMA Delivered ==
  ASSUME Placed(gui), gui.widgets \subseteq Widget, NEW list \in Seq(Doc), NEW s \in Entry,
         NEW slot, NEW i \in Item, NEW t \in Texts,
         NEW f, Told(f, Len(list), list, s, slot, i, t), NEW r, r = f[Len(list)],
         NEW D, NEW there, there \subseteq Item, NEW on
  PROVE  /\ r \in Entry
         /\ slot = "edit" /\ list # <<>> /\ Settled(s, D, i) => Settled(r, D, NoItem)
         /\ slot # "edit" \/ list = <<DocOf[i]>> => Keeping(r, s, D, there, on)
<1>1. PICK l \in Nat : l = Len(list)
  BY LenProperties
<1>2. \A n \in 1..l : list[n] \in Doc
  BY <1>1
<1>3. /\ f[0] = s
      /\ \A n \in 1..l : f[n] = Do(f[n - 1], list[n], slot, i, t)
  <2>1. \A n \in 0..l : f[n] = TellNext(f, list, s, slot, i, t, n)
    BY <1>1 DEF Told
  <2>2. 0 \in 0..l /\ \A n \in 1..l : n \in 0..l /\ n # 0
    BY <1>1
  <2>3. QED BY <2>1, <2>2 DEF TellNext
<1>4. ASSUME NEW u \in Entry, NEW d \in Doc
      PROVE  /\ Do(u, d, slot, i, t) \in Entry
             /\ slot = "edit" /\ (Settled(u, D, i) \/ Settled(u, D, NoItem)) =>
                  Settled(Do(u, d, slot, i, t), D, NoItem)
             /\ slot # "edit" \/ d = DocOf[i] =>
                  Keeping(Do(u, d, slot, i, t), u, D, there, on)
  <2>1. CASE slot = "edit"
    <3>1. PICK v : v = SetItemText(u, d, i, t)
      OBVIOUS
    <3>2. /\ v \in Entry
          /\ Settled(u, D, i) \/ Settled(u, D, NoItem) => Settled(v, D, NoItem)
          /\ d = DocOf[i] => Keeping(v, u, D, there, on)
      BY <3>1, EditKeeps
    <3>3. Do(u, d, slot, i, t) = v
      BY <2>1, <3>1 DEF Do
    <3>4. QED BY <2>1, <3>2, <3>3
  <2>2. CASE slot = "undo"
    <3>1. PICK v : v = UndoLastAction(u, d)
      OBVIOUS
    <3>2. Keeping(v, u, D, there, on)
      BY <3>1, UndoKeeps
    <3>3. Do(u, d, slot, i, t) = v /\ slot # "edit"
      BY <2>2, <3>1 DEF Do
    <3>4. QED BY <3>2, <3>3 DEF Keeping
  <2>3. CASE slot # "edit" /\ slot # "undo"
    <3>1. PICK v : v = RedoAction(u, d)
      OBVIOUS
    <3>2. Keeping(v, u, D, there, on)
      BY <3>1, RedoKeeps
    <3>3. Do(u, d, slot, i, t) = v
      BY <2>3, <3>1 DEF Do
    <3>4. QED BY <2>3, <3>2, <3>3 DEF Keeping
  <2>4. QED BY <2>1, <2>2, <2>3
<1> DEFINE Fine(n) ==
             /\ f[n] \in Entry
             /\ slot = "edit" /\ n # 0 /\ Settled(s, D, i) => Settled(f[n], D, NoItem)
             /\ slot # "edit" \/ list = <<DocOf[i]>> => Keeping(f[n], s, D, there, on)
           T == {n \in Nat : n <= l => Fine(n)}
<1>5. Fine(0)
  BY <1>3 DEF Keeping
<1>6. ASSUME NEW n \in Nat, n + 1 <= l, Fine(n)
      PROVE  Fine(n + 1)
  <2>1. n + 1 \in 1..l /\ (n + 1) - 1 = n /\ n + 1 # 0
    BY <1>6
  <2>2. PICK u, d : u = f[n] /\ d = list[n + 1]
    OBVIOUS
  <2>3. u \in Entry /\ d \in Doc /\ f[n + 1] = Do(u, d, slot, i, t)
    BY <1>2, <1>3, <1>6, <2>1, <2>2
  <2>4. slot = "edit" /\ Settled(s, D, i) => Settled(u, D, i) \/ Settled(u, D, NoItem)
    <3>1. CASE n = 0
      BY <1>3, <2>2, <3>1
    <3>2. CASE n # 0
      BY <1>6, <2>2, <3>2
    <3>3. QED BY <3>1, <3>2
  <2>5. list = <<DocOf[i]>> => d = DocOf[i]
    <3>1. SUFFICES ASSUME list = <<DocOf[i]>> PROVE d = DocOf[i]
      OBVIOUS
    <3>2. l = 1 /\ list[1] = DocOf[i]
      BY <1>1, <3>1
    <3>3. QED BY <1>6, <2>2, <3>2
  <2>6. slot # "edit" \/ list = <<DocOf[i]>> => Keeping(f[n + 1], s, D, there, on)
    <3>1. SUFFICES ASSUME slot # "edit" \/ list = <<DocOf[i]>>
                   PROVE  Keeping(f[n + 1], s, D, there, on)
      OBVIOUS
    <3>2. Keeping(u, s, D, there, on)
      BY <1>6, <2>2, <3>1
    <3>3. Keeping(f[n + 1], u, D, there, on)
      BY <1>4, <2>3, <2>5, <3>1
    <3>4. QED BY <3>2, <3>3 DEF Keeping
  <2>7. slot = "edit" /\ Settled(s, D, i) => Settled(f[n + 1], D, NoItem)
    BY <1>4, <2>3, <2>4
  <2>8. QED BY <1>4, <2>3, <2>6, <2>7
<1> HIDE DEF Fine
<1>7. l \in T
  <2>1. 0 \in T /\ \A n \in Nat : n \in T => n + 1 \in T
    BY <1>5, <1>6
  <2> HIDE DEF T
  <2>2. Nat \subseteq T
    BY <2>1, SetInduction
  <2>3. QED BY <1>1, <2>2
<1>8. Fine(l)
  BY <1>1, <1>7
<1>9. list # <<>> => l # 0
  BY <1>1, EmptySeq
<1>10. QED BY <1>1, <1>8, <1>9 DEF Fine
---------------------------------------------------------------------------
(* Every step keeps the inductive invariant.                               *)

\* Nothing was typed, recorded or asked for at first.
LEMMA InitEntry == Init => EntryInv
<1> SUFFICES ASSUME Init PROVE EntryInv
  OBVIOUS
<1>1. GuiInv /\ Kept /\ gui.widgets = {} /\ arrived = {}
  BY InitGui, KeptAtFirst DEF Init, GuiInit
<1>2. EmptyText \in Texts /\ FirstText \in Texts /\ NoText \notin Texts
  BY EntryAssumption DEF EmptyText, FirstText, Texts, NoText
<1>3. /\ State.text = [i \in Item |-> EmptyText] /\ State.typed = [w \in Widget |-> EmptyText]
      /\ State.actionList = [d \in Doc |-> <<>>] /\ State.redoActionList = [d \in Doc |-> <<>>]
      /\ State.stored = [x \in Keys |-> FirstText]
  BY DEF Init, State, Keys, Key
<1>4. State \in Entry
  <2>1. <<>> \in Seq(Edit)
    OBVIOUS
  <2>2. State = [text |-> State.text, actionList |-> State.actionList,
                 redoActionList |-> State.redoActionList, stored |-> State.stored,
                 typed |-> State.typed]
    BY DEF State
  <2>3. /\ State.text \in [Item -> Texts] /\ State.typed \in [Widget -> Texts]
        /\ State.actionList \in [Doc -> Seq(Edit)] /\ State.redoActionList \in [Doc -> Seq(Edit)]
        /\ State.stored \in [Keys -> Texts]
    BY <1>2, <1>3, <2>1
  <2>4. QED BY <2>2, <2>3 DEF Entry
<1>5. Settled(State, due, NoItem)
  BY <1>1, <1>3, EntryAssumption DEF Settled, GuiInv, Placed
<1>6. Owned(State) /\ Stored(State, arrived, awaited)
  BY <1>1, <1>3 DEF Owned, Stored
<1>7. Chained(State)
  <2>1. PICK none : none = <<>>
    OBVIOUS
  <2>2. none \in Seq(Edit) /\ Len(none) = 0
    BY <2>1
  <2>3. Joined(All(none, none), none, none, 0, 0)
    BY <2>2, AllActions
  <2>4. Len(All(none, none)) = 0
    BY <2>3 DEF Joined
  <2>5. \A i \in Item : ChainOf(none, none, i, State.text[i])
    BY <2>4 DEF ChainOf, Chain
  <2>6. QED BY <1>3, <2>1, <2>5, ContentsAssumption DEF Chained
<1>8. /\ due \subseteq gui.widgets /\ keys \in 0..MaxKeys
      /\ editCountSinceLastSignal \in [Widget -> 0..EditTrashold - 1]
      /\ awaited \in [Item -> Texts \cup {NoText}]
  BY EntryAssumption DEF Init
<1>9. Parts(docs)
  BY DEF Init, Parts
<1>10. QED BY <1>1, <1>4, <1>5, <1>6, <1>7, <1>8, <1>9 DEF EntryInv

\* The fields of the window are widgets.
LEMMA WidgetsOfGui ==
  ASSUME GuiInv
  PROVE  /\ Placed(gui) /\ gui.widgets \subseteq Widget
         /\ gui.connected \in Seq(Doc) /\ arrived \subseteq Item
BY DEF GuiInv, Sound, Gui, Widget

\* While the window is left alone, what the texts become is enough.
LEMMA TextsKeep ==
  ASSUME EntryInv, UNCHANGED guiVars, NEW r \in Entry, Becomes(r),
         due' \subseteq gui.widgets, keys' \in 0..MaxKeys,
         editCountSinceLastSignal' \in [Widget -> 0..EditTrashold - 1],
         awaited' \in [Item -> Texts \cup {NoText}],
         "unseen" \notin disturbed' => Settled(r, due', NoItem),
         "misdirected" \notin disturbed' => Owned(r) /\ Stored(r, arrived, awaited'),
         disturbed' \subseteq {"unseen"} => Chained(r)
  PROVE  EntryInv'
<1>1. gui' = gui /\ arrived' = arrived
  BY DEF guiVars
<1>2. GuiInv'
  BY GuiStepKeeps DEF EntryInv
<1>3. Kept'
  BY <1>1 DEF EntryInv, Kept
<1>4. State' = r
  BY DEF State, Becomes, Entry
<1>5. "unseen" \notin disturbed' => Settled(State, due, NoItem)'
  BY <1>1, <1>4 DEF Settled, FieldOf
<1>6. Parts(docs)'
  <2>1. PICK x : x = docs'
    OBVIOUS
  <2>2. x = [text |-> r.text, actionList |-> r.actionList,
             redoActionList |-> r.redoActionList, stored |-> r.stored]
    BY <2>1 DEF Becomes
  <2>3. Parts(x)
    BY <2>2 DEF Parts
  <2>4. QED BY <2>1, <2>3
<1>7. QED BY <1>1, <1>2, <1>3, <1>4, <1>5, <1>6 DEF EntryInv

\* The documents connected are given a text for an item, one after the other.
EditTold(s, i, t) ==
  LET told[n \in 0..Len(gui.connected)] ==
        IF n = 0 THEN s ELSE SetItemText(told[n - 1], gui.connected[n], i, t)
  IN told[Len(gui.connected)]

\* What there is after that.
LEMMA EditDelivered ==
  ASSUME GuiInv, NEW s \in Entry, NEW i \in Item, NEW t \in Texts, NEW r, r = EditTold(s, i, t),
         NEW D, NEW there, there \subseteq Item, NEW on
  PROVE  /\ r \in Entry
         /\ gui.connected # <<>> /\ Settled(s, D, i) => Settled(r, D, NoItem)
         /\ gui.connected = <<DocOf[i]>> => Keeping(r, s, D, there, on)
<1> DEFINE l == Len(gui.connected)
           F == CHOOSE f : f = [n \in 0..l |->
                  IF n = 0 THEN s ELSE SetItemText(f[n - 1], gui.connected[n], i, t)]
<1>1. r = F[l]
  BY DEF EditTold
<1>2. PICK f : Told(f, l, gui.connected, s, "edit", i, t)
  <2>1. l \in Nat
    BY WidgetsOfGui, LenProperties
  <2>2. QED BY <2>1, ToldExists
<1>3. f = [n \in 0..l |-> IF n = 0 THEN s ELSE SetItemText(f[n - 1], gui.connected[n], i, t)]
  BY <1>2 DEF Told, TellNext, Do
<1>4. F = [n \in 0..l |-> IF n = 0 THEN s ELSE SetItemText(F[n - 1], gui.connected[n], i, t)]
  BY <1>3
<1> HIDE DEF F
<1>5. Told(F, l, gui.connected, s, "edit", i, t)
  BY <1>4 DEF Told, TellNext, Do
<1>6. PICK list : list = gui.connected
  OBVIOUS
<1>7. list \in Seq(Doc) /\ Placed(gui) /\ gui.widgets \subseteq Widget
  BY <1>6, WidgetsOfGui
<1>8. Told(F, Len(list), list, s, "edit", i, t) /\ r = F[Len(list)]
  BY <1>1, <1>5, <1>6
<1>9. /\ r \in Entry
      /\ "edit" = "edit" /\ list # <<>> /\ Settled(s, D, i) => Settled(r, D, NoItem)
      /\ "edit" # "edit" \/ list = <<DocOf[i]>> => Keeping(r, s, D, there, on)
  BY <1>7, <1>8, Delivered
<1>10. QED BY <1>6, <1>9

\* Undo goes to the documents connected, one after the other.
UndoTold(s) ==
  LET told[n \in 0..Len(gui.connected)] ==
        IF n = 0 THEN s ELSE UndoLastAction(told[n - 1], gui.connected[n])
  IN told[Len(gui.connected)]

\* What there is after that; items and texts play no part.
LEMMA UndoDelivered ==
  ASSUME GuiInv, NEW s \in Entry, NEW i \in Item, NEW t \in Texts, NEW r, r = UndoTold(s),
         NEW D, NEW there, there \subseteq Item, NEW on
  PROVE  Keeping(r, s, D, there, on)
<1> DEFINE l == Len(gui.connected)
           F == CHOOSE f : f = [n \in 0..l |->
                  IF n = 0 THEN s ELSE UndoLastAction(f[n - 1], gui.connected[n])]
<1>1. r = F[l]
  BY DEF UndoTold
<1>2. PICK f : Told(f, l, gui.connected, s, "undo", i, t)
  <2>1. l \in Nat
    BY WidgetsOfGui, LenProperties
  <2>2. QED BY <2>1, ToldExists
<1>3. f = [n \in 0..l |-> IF n = 0 THEN s ELSE UndoLastAction(f[n - 1], gui.connected[n])]
  BY <1>2 DEF Told, TellNext, Do
<1>4. F = [n \in 0..l |-> IF n = 0 THEN s ELSE UndoLastAction(F[n - 1], gui.connected[n])]
  BY <1>3
<1> HIDE DEF F
<1>5. Told(F, l, gui.connected, s, "undo", i, t)
  BY <1>4 DEF Told, TellNext, Do
<1>6. PICK list : list = gui.connected
  OBVIOUS
<1>7. list \in Seq(Doc) /\ Placed(gui) /\ gui.widgets \subseteq Widget
  BY <1>6, WidgetsOfGui
<1>8. Told(F, Len(list), list, s, "undo", i, t) /\ r = F[Len(list)]
  BY <1>1, <1>5, <1>6
<1>9. "undo" # "edit" \/ list = <<DocOf[i]>> => Keeping(r, s, D, there, on)
  BY <1>7, <1>8, Delivered
<1>10. QED BY <1>9

\* Redo goes to the documents connected, one after the other.
RedoTold(s) ==
  LET told[n \in 0..Len(gui.connected)] ==
        IF n = 0 THEN s ELSE RedoAction(told[n - 1], gui.connected[n])
  IN told[Len(gui.connected)]

\* What there is after that.
LEMMA RedoDelivered ==
  ASSUME GuiInv, NEW s \in Entry, NEW i \in Item, NEW t \in Texts, NEW r, r = RedoTold(s),
         NEW D, NEW there, there \subseteq Item, NEW on
  PROVE  Keeping(r, s, D, there, on)
<1> DEFINE l == Len(gui.connected)
           F == CHOOSE f : f = [n \in 0..l |->
                  IF n = 0 THEN s ELSE RedoAction(f[n - 1], gui.connected[n])]
<1>1. r = F[l]
  BY DEF RedoTold
<1>2. PICK f : Told(f, l, gui.connected, s, "redo", i, t)
  <2>1. l \in Nat
    BY WidgetsOfGui, LenProperties
  <2>2. QED BY <2>1, ToldExists
<1>3. f = [n \in 0..l |-> IF n = 0 THEN s ELSE RedoAction(f[n - 1], gui.connected[n])]
  BY <1>2 DEF Told, TellNext, Do
<1>4. F = [n \in 0..l |-> IF n = 0 THEN s ELSE RedoAction(F[n - 1], gui.connected[n])]
  BY <1>3
<1> HIDE DEF F
<1>5. Told(F, l, gui.connected, s, "redo", i, t)
  BY <1>4 DEF Told, TellNext, Do
<1>6. PICK list : list = gui.connected
  OBVIOUS
<1>7. list \in Seq(Doc) /\ Placed(gui) /\ gui.widgets \subseteq Widget
  BY <1>6, WidgetsOfGui
<1>8. Told(F, Len(list), list, s, "redo", i, t) /\ r = F[Len(list)]
  BY <1>1, <1>5, <1>6
<1>9. "redo" # "edit" \/ list = <<DocOf[i]>> => Keeping(r, s, D, there, on)
  BY <1>7, <1>8, Delivered
<1>10. QED BY <1>9

\* A text handed over by a field of i, while the window is left alone.
LEMMA HandedOver ==
  ASSUME EntryInv, UNCHANGED <<guiVars, awaited>>, NEW i \in Item, NEW t \in Texts,
         NEW s \in Entry, s.text = State.text, s.actionList = State.actionList,
         s.redoActionList = State.redoActionList, s.stored = State.stored,
         gui.connected # <<>>, "unseen" \notin disturbed => Settled(s, due', i),
         Becomes(EditTold(s, i, t)), Misdirect(i),
         due' \subseteq gui.widgets, keys' \in 0..MaxKeys,
         editCountSinceLastSignal' \in [Widget -> 0..EditTrashold - 1]
  PROVE  EntryInv'
<1>1. /\ GuiInv /\ State \in Entry /\ arrived \subseteq Item
      /\ awaited \in [Item -> Texts \cup {NoText}]
  BY WidgetsOfGui DEF EntryInv
<1>2. PICK r : r = EditTold(s, i, t)
  OBVIOUS
<1>3. PICK D, there, on : D = due' /\ there = arrived /\ on = awaited
  OBVIOUS
<1>4. /\ r \in Entry
      /\ gui.connected # <<>> /\ Settled(s, D, i) => Settled(r, D, NoItem)
      /\ gui.connected = <<DocOf[i]>> => Keeping(r, s, D, there, on)
  BY <1>1, <1>2, <1>3, EditDelivered
<1>5. /\ "unseen" \notin disturbed' => "unseen" \notin disturbed
      /\ "misdirected" \notin disturbed' =>
           "misdirected" \notin disturbed /\ gui.connected = <<DocOf[i]>>
      /\ disturbed' \subseteq {"unseen"} =>
           "misdirected" \notin disturbed' /\ disturbed \subseteq {"unseen"}
  BY DEF Misdirect
<1>6. "unseen" \notin disturbed' => Settled(r, D, NoItem)
  BY <1>3, <1>4, <1>5
<1>7. /\ Owned(State) => Owned(s)
      /\ Stored(State, there, on) => Stored(s, there, on)
      /\ Chained(State) => Chained(s)
  BY DEF Owned, Stored, Chained
<1>8. "misdirected" \notin disturbed' => Owned(s) /\ Owned(r) /\ Stored(r, there, on)
  BY <1>3, <1>4, <1>5, <1>7 DEF EntryInv, Keeping
<1>9. disturbed' \subseteq {"unseen"} => Chained(r)
  BY <1>4, <1>5, <1>7, <1>8 DEF EntryInv, Keeping
<1>10. QED BY <1>1, <1>2, <1>3, <1>4, <1>6, <1>8, <1>9, TextsKeep

\* A field of the window is of an item, and then some document is connected.
LEMMA FieldOfWindow ==
  ASSUME EntryInv, NEW w \in gui.widgets
  PROVE  w \in Widget /\ w[2] \in Item /\ gui.connected # <<>>
BY WidgetsOfGui DEF EntryInv, Kept, Widget

\* The timer of a field fires.
LEMMA TimerKeeps ==
  ASSUME EntryInv, NEW w \in Widget, TimerFires(w)
  PROVE  EntryInv'
<1>1. w \in gui.widgets
  BY DEF EntryInv, TimerFires
<1>2. w[2] \in Item /\ gui.connected # <<>>
  BY <1>1, FieldOfWindow
<1>3. PICK i, t, s : i = w[2] /\ t = typed[w] /\ s = State
  OBVIOUS
<1>4. s \in Entry /\ t \in Texts
  BY <1>3 DEF EntryInv, Entry, State
<1>5. /\ UNCHANGED <<guiVars, awaited>> /\ Misdirect(i)
      /\ due' = due \ {w} /\ keys' = keys
      /\ editCountSinceLastSignal' = editCountSinceLastSignal
  BY <1>3 DEF TimerFires
<1>6. Becomes(EditTold(s, i, t))
  BY <1>3 DEF TimerFires, Deliver, EditTold
<1>7. "unseen" \notin disturbed => Settled(s, due', i)
  <2>1. SUFFICES ASSUME "unseen" \notin disturbed, NEW j \in Item, j # i,
                        gui.place[j] # Nowhere, s.typed[FieldOf(j)] # s.text[j]
                 PROVE  FieldOf(j) \in due'
    BY DEF Settled
  <2>2. FieldOf(j) \in due
    <3>1. Settled(State, due, NoItem) /\ j # NoItem
      BY <2>1, DocAssumption DEF EntryInv
    <3>2. QED BY <1>3, <2>1, <3>1 DEF Settled
  <2>3. FieldOf(j) # w
    BY <1>3, <2>1 DEF FieldOf
  <2>4. QED BY <1>5, <2>2, <2>3
<1>8. due' \subseteq gui.widgets /\ keys' \in 0..MaxKeys
      /\ editCountSinceLastSignal' \in [Widget -> 0..EditTrashold - 1]
  BY <1>5 DEF EntryInv
<1>9. QED BY <1>2, <1>3, <1>4, <1>5, <1>6, <1>7, <1>8, HandedOver

\* A key goes into a field.
LEMMA KeyKeeps ==
  ASSUME EntryInv, NEW w \in Widget, OnTextChanged(w)
  PROVE  EntryInv'
<1>1. w \in gui.widgets /\ keys < MaxKeys /\ keys' = keys + 1 /\ UNCHANGED <<guiVars, awaited>>
  BY DEF OnTextChanged, Visible
<1>2. w[2] \in Item /\ gui.connected # <<>>
  BY <1>1, FieldOfWindow
<1>3. PICK i, t, c : i = w[2] /\ t = keys + 2 /\ c = editCountSinceLastSignal[w]
  OBVIOUS
<1>4. PICK new, s : new = [typed EXCEPT ![w] = t] /\ s = [State EXCEPT !.typed = new]
  OBVIOUS
<1>5. /\ State \in Entry /\ typed \in [Widget -> Texts] /\ keys \in Nat /\ keys' \in 0..MaxKeys
      /\ t \in Texts /\ c \in 0..EditTrashold - 1
  BY <1>1, <1>3, EntryAssumption DEF EntryInv, Entry, State, Texts
<1>6. new \in [Widget -> Texts] /\ \A x \in Widget : new[x] = IF x = w THEN t ELSE typed[x]
  BY <1>4, <1>5
<1>7. /\ s \in Entry /\ s.text = State.text /\ s.actionList = State.actionList
      /\ s.redoActionList = State.redoActionList /\ s.stored = State.stored /\ s.typed = new
  BY <1>4, <1>5, <1>6 DEF Entry
<1>8. ASSUME NEW j \in Item, gui.place[j] # Nowhere, FieldOf(j) # w, "unseen" \notin disturbed,
             s.typed[FieldOf(j)] # s.text[j]
      PROVE  FieldOf(j) \in due
  <2>1. FieldOf(j) \in Widget
    BY <1>8, WidgetsOfGui DEF EntryInv, Placed, FieldOf
  <2>2. State.typed[FieldOf(j)] # State.text[j]
    BY <1>6, <1>7, <1>8, <2>1 DEF State
  <2>3. Settled(State, due, NoItem) /\ j # NoItem
    BY <1>8, DocAssumption DEF EntryInv
  <2>4. QED BY <1>8, <2>2, <2>3 DEF Settled
<1>9. CASE c + 1 >= EditTrashold
  <2>1. /\ editCountSinceLastSignal' = [editCountSinceLastSignal EXCEPT ![w] = 0]
        /\ due' = due \ {w} /\ Misdirect(i)
    BY <1>3, <1>9 DEF OnTextChanged
  <2>2. Becomes(EditTold(s, i, t))
    BY <1>3, <1>4, <1>9 DEF OnTextChanged, Deliver, EditTold
  <2>3. "unseen" \notin disturbed => Settled(s, due', i)
    <3>1. SUFFICES ASSUME "unseen" \notin disturbed, NEW j \in Item, j # i,
                          gui.place[j] # Nowhere, s.typed[FieldOf(j)] # s.text[j]
                   PROVE  FieldOf(j) \in due'
      BY DEF Settled
    <3>2. FieldOf(j) # w
      BY <1>3, <3>1 DEF FieldOf
    <3>3. FieldOf(j) \in due
      BY <1>8, <3>1, <3>2
    <3>4. QED BY <2>1, <3>2, <3>3
  <2>4. /\ due' \subseteq gui.widgets
        /\ editCountSinceLastSignal' \in [Widget -> 0..EditTrashold - 1]
    BY <2>1, EntryAssumption DEF EntryInv
  <2>5. QED BY <1>1, <1>2, <1>3, <1>5, <1>7, <2>1, <2>2, <2>3, <2>4, HandedOver
<1>10. CASE ~(c + 1 >= EditTrashold)
  <2>1. /\ editCountSinceLastSignal' = [editCountSinceLastSignal EXCEPT ![w] = @ + 1]
        /\ due' = due \cup {w} /\ typed' = new /\ UNCHANGED <<docs, disturbed>>
    BY <1>3, <1>4, <1>10 DEF OnTextChanged
  <2>2. Becomes(s)
    <3>1. /\ s.text = docs.text /\ s.actionList = docs.actionList
          /\ s.redoActionList = docs.redoActionList /\ s.stored = docs.stored
      BY <1>7 DEF State
    <3>2. Parts(docs)
      BY DEF EntryInv
    <3>3. QED BY <1>7, <2>1, <3>1, <3>2 DEF Becomes, Parts
  <2>3. "unseen" \notin disturbed' => Settled(s, due', NoItem)
    BY <1>8, <2>1 DEF Settled
  <2>4. /\ due' \subseteq gui.widgets
        /\ editCountSinceLastSignal' \in [Widget -> 0..EditTrashold - 1]
    <3>1. c + 1 \in 0..EditTrashold - 1
      BY <1>5, <1>10, EntryAssumption
    <3>2. QED BY <1>1, <1>3, <2>1, <3>1 DEF EntryInv
  <2>5. /\ "misdirected" \notin disturbed' => Owned(s) /\ Stored(s, arrived, awaited')
        /\ disturbed' \subseteq {"unseen"} => Chained(s)
    BY <1>1, <1>7, <2>1 DEF EntryInv, Owned, Stored, Chained
  <2>6. awaited' \in [Item -> Texts \cup {NoText}]
    BY <1>1 DEF EntryInv
  <2>7. QED BY <1>1, <1>5, <1>7, <2>2, <2>3, <2>4, <2>5, <2>6, TextsKeep
<1>11. QED BY <1>9, <1>10

\* Undo and redo, from any field.
LEMMA UndoRedoKeeps ==
  ASSUME EntryInv, Undo \/ Redo
  PROVE  EntryInv'
<1>1. /\ UNCHANGED <<guiVars, due, editCountSinceLastSignal, keys, awaited, disturbed>>
      /\ Visible # {} /\ (Becomes(UndoTold(State)) \/ Becomes(RedoTold(State)))
  BY DEF Undo, Redo, Deliver, UndoTold, RedoTold
<1>2. PICK w \in gui.widgets : TRUE
  BY <1>1 DEF Visible
<1>3. PICK i \in Item : i = w[2]
  BY <1>2, FieldOfWindow
<1>4. PICK s \in Entry : s = State
  BY DEF EntryInv
<1>5. PICK t \in Texts : TRUE
  BY EntryAssumption DEF Texts
<1>6. PICK D, there, on : D = due /\ there = arrived /\ on = awaited
  OBVIOUS
<1>7. GuiInv /\ there \subseteq Item
  BY <1>6, WidgetsOfGui DEF EntryInv
<1>8. PICK r : Becomes(r) /\ Keeping(r, s, D, there, on)
  <2>1. PICK u, v : u = UndoTold(s) /\ v = RedoTold(s)
    OBVIOUS
  <2>2. Keeping(u, s, D, there, on) /\ Keeping(v, s, D, there, on)
    BY <1>7, <2>1, UndoDelivered, RedoDelivered
  <2>3. Becomes(u) \/ Becomes(v)
    BY <1>1, <1>4, <2>1
  <2>4. QED BY <2>2, <2>3
<1>9. /\ r \in Entry
      /\ "unseen" \notin disturbed => Settled(r, due, NoItem)
      /\ "misdirected" \notin disturbed => Owned(s) /\ Owned(r) /\ Stored(r, arrived, awaited)
  BY <1>4, <1>6, <1>8 DEF EntryInv, Keeping
<1>10. disturbed \subseteq {"unseen"} => Chained(r)
  BY <1>4, <1>8, <1>9 DEF EntryInv, Keeping
<1>11. /\ due' = due /\ disturbed' = disturbed /\ awaited' = awaited /\ keys' = keys
       /\ editCountSinceLastSignal' = editCountSinceLastSignal /\ UNCHANGED guiVars
  BY <1>1
<1>12. /\ due' \subseteq gui.widgets /\ keys' \in 0..MaxKeys
       /\ editCountSinceLastSignal' \in [Widget -> 0..EditTrashold - 1]
       /\ awaited' \in [Item -> Texts \cup {NoText}]
  BY <1>11 DEF EntryInv
<1>13. /\ "unseen" \notin disturbed' => Settled(r, due', NoItem)
       /\ "misdirected" \notin disturbed' => Owned(r) /\ Stored(r, arrived, awaited')
       /\ disturbed' \subseteq {"unseen"} => Chained(r)
  BY <1>9, <1>10, <1>11
<1>14. QED BY <1>8, <1>9, <1>11, <1>12, <1>13, TextsKeep

\* An item of which nothing was recorded has no edits to follow each other.
LEMMA UneditedChain ==
  ASSUME NEW done \in Seq(Edit), NEW undone \in Seq(Edit), NEW x, NEW t,
         \A k \in DOMAIN done : done[k].item # x, \A k \in DOMAIN undone : undone[k].item # x
  PROVE  ChainOf(done, undone, x, t)
<1>1. PICK n, q : n = Len(done) /\ q = Len(undone)
  OBVIOUS
<1>2. /\ n \in Nat /\ q \in Nat /\ Joined(All(done, undone), done, undone, n, q)
      /\ DOMAIN done = 1..n /\ DOMAIN undone = 1..q
  BY <1>1, AllActions, LenProperties
<1>3. ASSUME NEW k \in 1..n + q
      PROVE  All(done, undone)[k].item # x
  <2>1. All(done, undone)[k] = IF k <= n THEN done[k] ELSE undone[q + n + 1 - k]
    BY <1>2 DEF Joined
  <2>2. k <= n => k \in 1..n
    BY <1>2
  <2>3. ~(k <= n) => q + n + 1 - k \in 1..q
    BY <1>2
  <2>4. QED BY <1>2, <2>1, <2>2, <2>3
<1>4. Len(All(done, undone)) = n + q
  BY <1>2 DEF Joined
<1>5. QED BY <1>3, <1>4 DEF ChainOf, Chain

\* The text of an item arrives.
LEMMA TextKeeps ==
  ASSUME EntryInv, NEW i \in Item, TextArrives(i)
  PROVE  EntryInv'
<1>1. PICK s, t, d, seen :
        /\ s = WithText(State, d, i, t) /\ t = awaited[i] /\ d = DocOf[i]
        /\ seen = Contains(gui.connected, d)
  OBVIOUS
<1>2. PICK r : r = IF seen THEN s ELSE [s EXCEPT !.typed = typed]
  OBVIOUS
<1>3. /\ awaited[i] # NoText /\ awaited' = [awaited EXCEPT ![i] = NoText] /\ Becomes(r)
      /\ UNCHANGED <<guiVars, due, editCountSinceLastSignal, keys>>
  BY <1>1, <1>2 DEF TextArrives
<1>4. disturbed' = disturbed \cup {x \in {"edited before"} : Edited(i)}
                             \cup {x \in {"unseen"} : ~seen /\ gui.place[i] # Nowhere}
  BY <1>1 DEF TextArrives
<1>5. /\ GuiInv /\ State \in Entry /\ arrived \subseteq Item
      /\ Placed(gui) /\ gui.widgets \subseteq Widget
      /\ awaited \in [Item -> Texts \cup {NoText}] /\ t \in Texts /\ d \in Doc
  BY <1>1, <1>3, WidgetsOfGui, ContentsAssumption DEF EntryInv
<1>6. /\ s \in Entry /\ Writes(s, State, d, i, t)
      /\ s.actionList = State.actionList /\ s.redoActionList = State.redoActionList
  BY <1>1, <1>5, WithTextWrites
<1>7. /\ r \in Entry /\ r.text = s.text /\ r.stored = s.stored
      /\ r.actionList = s.actionList /\ r.redoActionList = s.redoActionList
      /\ r.typed = IF seen THEN s.typed ELSE typed
  <2>1. typed \in [Widget -> Texts]
    BY <1>5 DEF Entry, State
  <2>2. QED BY <1>2, <1>6, <2>1 DEF Entry
<1>8. ASSUME "unseen" \notin disturbed'
      PROVE  Settled(r, due, NoItem)
  <2>1. "unseen" \notin disturbed /\ (seen \/ gui.place[i] = Nowhere)
    BY <1>4, <1>8
  <2>2. Settled(State, due, NoItem)
    BY <2>1 DEF EntryInv
  <2>3. CASE seen
    <3>1. Settled(s, due, NoItem)
      BY <1>5, <1>6, <2>2, WritesSettle
    <3>2. QED BY <1>7, <2>3, <3>1 DEF Settled
  <2>4. CASE ~seen
    <3>1. r.typed = State.typed
      BY <1>7, <2>4 DEF State
    <3>2. \A j \in Item : j # i => r.text[j] = State.text[j]
      BY <1>5, <1>6, <1>7 DEF Writes, Entry
    <3>3. QED BY <2>1, <2>2, <2>4, <3>1, <3>2 DEF Settled
  <2>5. QED BY <2>3, <2>4
<1>9. "misdirected" \notin disturbed' => "misdirected" \notin disturbed
  BY <1>4
<1>10. ASSUME "misdirected" \notin disturbed'
       PROVE  Owned(r) /\ Stored(r, arrived, awaited')
  <2>1. Owned(State) /\ Stored(State, arrived, awaited)
    BY <1>9, <1>10 DEF EntryInv
  <2>2. Owned(r)
    BY <1>6, <1>7, <2>1 DEF Owned
  <2>3. PICK there, on : there = arrived /\ on = awaited'
    OBVIOUS
  <2>4. \A j \in there : j # i /\ on[j] = NoText => State.stored[Key(j)] = State.text[j]
    BY <1>3, <1>5, <2>1, <2>3 DEF Stored
  <2>5. PICK u \in Entry : u = State
    BY <1>5
  <2>6. Writes(s, u, DocOf[i], i, t) /\ there \subseteq Item
    BY <1>1, <1>5, <1>6, <2>3, <2>5
  <2>7. Stored(s, there, on)
    BY <1>5, <2>4, <2>5, <2>6, WritesStore
  <2>8. QED BY <1>7, <2>2, <2>3, <2>7 DEF Stored
<1>11. ASSUME disturbed' \subseteq {"unseen"}
       PROVE  Chained(r)
  <2>1. ~Edited(i) /\ disturbed \subseteq {"unseen"}
    <3>1. Edited(i) => "edited before" \in disturbed'
      BY <1>4
    <3>2. "edited before" \notin {"unseen"}
      OBVIOUS
    <3>3. disturbed \subseteq disturbed'
      BY <1>4
    <3>4. QED BY <1>11, <3>1, <3>2, <3>3
  <2>2. Chained(State)
    BY <2>1 DEF EntryInv
  <2>3. SUFFICES ASSUME NEW x \in Item
                 PROVE  ChainOf(r.actionList[DocOf[x]], r.redoActionList[DocOf[x]], x, r.text[x])
    BY DEF Chained
  <2>4. PICK done, undone : /\ done = docs.actionList[DocOf[x]]
                            /\ undone = docs.redoActionList[DocOf[x]]
    OBVIOUS
  <2>5. /\ r.actionList[DocOf[x]] = done /\ r.redoActionList[DocOf[x]] = undone
        /\ State.actionList[DocOf[x]] = done /\ State.redoActionList[DocOf[x]] = undone
    BY <1>6, <1>7, <2>4 DEF State
  <2>6. CASE x = i
    <3>1. DocOf[x] \in Doc
      BY ContentsAssumption
    <3>2. done \in Seq(Edit) /\ undone \in Seq(Edit)
      BY <1>5, <2>5, <3>1 DEF Entry
    <3>3. /\ \A k \in DOMAIN done : done[k].item # x
          /\ \A k \in DOMAIN undone : undone[k].item # x
      BY <2>1, <2>4, <2>6, <3>1 DEF Edited, ToSet
    <3>4. ChainOf(done, undone, x, r.text[x])
      BY <3>2, <3>3, UneditedChain
    <3>5. QED BY <2>5, <3>4
  <2>7. CASE x # i
    <3>1. r.text[x] = State.text[x]
      BY <1>5, <1>6, <1>7, <2>7 DEF Writes, Entry
    <3>2. QED BY <2>2, <2>5, <3>1 DEF Chained
  <2>8. QED BY <2>6, <2>7
<1>12. /\ due' \subseteq gui.widgets /\ keys' \in 0..MaxKeys /\ UNCHANGED guiVars
       /\ editCountSinceLastSignal' \in [Widget -> 0..EditTrashold - 1] /\ due' = due
       /\ awaited' \in [Item -> Texts \cup {NoText}]
  BY <1>3 DEF EntryInv
<1>13. QED BY <1>3, <1>7, <1>8, <1>10, <1>11, <1>12, TextsKeep

\* The window does something: fields of new items show their texts.
LEMMA WindowKeeps ==
  ASSUME EntryInv, GuiStep
  PROVE  EntryInv'
<1>1. GuiInv' /\ Kept' /\ Moves /\ GuiInv
  BY GuiMoves, GuiStepKeeps DEF EntryInv, GuiStep
<1>2. /\ docs' = docs /\ due' = due /\ editCountSinceLastSignal' = editCountSinceLastSignal
      /\ keys' = keys /\ disturbed' = disturbed
      /\ typed' = [w \in Widget |-> IF w \in gui'.widgets \ gui.widgets
                                    THEN docs.text[w[2]] ELSE typed[w]]
      /\ awaited' = [i \in Item |-> IF i \in arrived' \ arrived
                                    THEN docs.stored[<<DocOf[i], IdOf[i]>>] ELSE awaited[i]]
  BY DEF GuiStep
<1>3. /\ State \in Entry /\ docs.text \in [Item -> Texts] /\ typed \in [Widget -> Texts]
      /\ docs.stored \in [Keys -> Texts] /\ awaited \in [Item -> Texts \cup {NoText}]
  BY DEF EntryInv, Entry, State
<1>4. typed' \in [Widget -> Texts]
  BY <1>2, <1>3 DEF Widget
<1>5. \A i \in Item : <<DocOf[i], IdOf[i]>> \in Keys
  BY DEF Keys, Key
<1>6. awaited' \in [Item -> Texts \cup {NoText}]
  BY <1>2, <1>3, <1>5
<1>7. State' \in Entry
  <2>1. State' = [State EXCEPT !.typed = typed']
    BY <1>2 DEF State
  <2>2. QED BY <1>3, <1>4, <2>1 DEF Entry
<1>8. due' \subseteq gui'.widgets
  BY <1>1, <1>2 DEF EntryInv, Moves
<1>9. ASSUME "unseen" \notin disturbed', NEW i \in Item, gui'.place[i] # Nowhere,
             typed'[<<gui'.place[i].page, i>>] # docs.text[i]
      PROVE  <<gui'.place[i].page, i>> \in due
  <2>1. PICK w : w = <<gui'.place[i].page, i>>
    OBVIOUS
  <2>2. w \in gui'.widgets /\ gui'.widgets \subseteq Widget
    BY <1>1, <1>9, <2>1 DEF GuiInv, Placed, Sound, Gui, Widget
  <2>3. typed'[w] = IF w \in gui'.widgets \ gui.widgets THEN docs.text[i] ELSE typed[w]
    BY <1>2, <2>1, <2>2
  <2>4. w \notin gui'.widgets \ gui.widgets /\ typed[w] # docs.text[i]
    BY <1>9, <2>1, <2>3
  <2>5. gui'.place[i] = gui.place[i]
    BY <1>1, <2>1, <2>4 DEF Moves
  <2>6. Settled(State, due, NoItem) /\ i # NoItem
    BY <1>2, <1>9, DocAssumption DEF EntryInv
  <2>7. gui.place[i] # Nowhere /\ w = FieldOf(i)
    BY <1>9, <2>1, <2>5 DEF FieldOf
  <2>8. QED BY <2>1, <2>4, <2>6, <2>7 DEF Settled, State
<1>10. "unseen" \notin disturbed' => Settled(State, due, NoItem)'
  BY <1>2, <1>9 DEF Settled, FieldOf, State
<1>11. ASSUME "misdirected" \notin disturbed'
       PROVE  Owned(State)' /\ Stored(State, arrived, awaited)'
  <2>1. Owned(State) /\ Stored(State, arrived, awaited)
    BY <1>2, <1>11 DEF EntryInv
  <2>2. Owned(State)'
    BY <1>2, <2>1 DEF Owned, State
  <2>3. NoText \notin Texts
    BY EntryAssumption DEF Texts, NoText
  <2>4. arrived' \subseteq Item
    BY <1>1 DEF GuiInv
  <2>5. ASSUME NEW i \in arrived', awaited'[i] = NoText
        PROVE  docs.stored[Key(i)] = docs.text[i]
    <3>1. i \in arrived /\ awaited[i] = NoText
      BY <1>2, <1>3, <1>5, <2>3, <2>4, <2>5
    <3>2. QED BY <2>1, <3>1 DEF Stored, State
  <2>6. QED BY <1>2, <2>2, <2>5 DEF Stored, State
<1>12. disturbed' \subseteq {"unseen"} => Chained(State)'
  BY <1>2 DEF EntryInv, Chained, State
<1>13. QED BY <1>1, <1>2, <1>6, <1>7, <1>8, <1>10, <1>11, <1>12 DEF EntryInv

\* Every step keeps the inductive invariant.
LEMMA EntryStepKeeps == EntryInv /\ [Next]_vars => EntryInv'
<1> SUFFICES ASSUME EntryInv, [Next]_vars PROVE EntryInv'
  OBVIOUS
<1>1. CASE GuiStep
  BY <1>1, WindowKeeps
<1>2. ASSUME NEW w \in Widget, OnTextChanged(w) PROVE EntryInv'
  BY <1>2, KeyKeeps
<1>3. ASSUME NEW w \in Widget, TimerFires(w) PROVE EntryInv'
  BY <1>3, TimerKeeps
<1>4. CASE Undo \/ Redo
  BY <1>4, UndoRedoKeeps
<1>5. ASSUME NEW i \in Item, TextArrives(i) PROVE EntryInv'
  BY <1>5, TextKeeps
<1>6. CASE UNCHANGED vars
  <2>1. UNCHANGED guiVars /\ UNCHANGED entryVars
    BY <1>6 DEF vars
  <2>2. GuiInv'
    BY <2>1, GuiStepKeeps DEF EntryInv
  <2>3. PICK r \in Entry : r = State
    BY DEF EntryInv
  <2>4. Becomes(r)
    BY <2>1, <2>3 DEF EntryInv, Parts, Becomes, State, entryVars
  <2>5. /\ due' = due /\ keys' = keys /\ awaited' = awaited /\ disturbed' = disturbed
        /\ editCountSinceLastSignal' = editCountSinceLastSignal
    BY <2>1 DEF entryVars
  <2>6. QED BY <2>1, <2>3, <2>4, <2>5, TextsKeep DEF EntryInv
<1>7. QED BY <1>1, <1>2, <1>3, <1>4, <1>5, <1>6 DEF Next

\* The inductive invariant of what is typed holds in every behaviour.
THEOREM EntryInvHolds == Spec => []EntryInv
<1>1. QED BY InitEntry, EntryStepKeeps, PTL DEF Spec

\* Texts, actions, timers and counters keep their types: a counter never
\* reaches the number of keys after which the text is handed over.
THEOREM EntryTypeHolds == Spec => []EntryType
<1>1. EntryInv => EntryType
  <2> SUFFICES ASSUME EntryInv PROVE EntryType
    OBVIOUS
  <2>1. GuiType
    BY DEF EntryInv, GuiInv, Sound, Gui, GuiType
  <2>2. /\ docs.text \in [Item -> Texts] /\ docs.stored \in [Keys -> Texts]
        /\ docs.actionList \in [Doc -> Seq(Edit)] /\ docs.redoActionList \in [Doc -> Seq(Edit)]
        /\ typed \in [Widget -> Texts]
    BY DEF EntryInv, Entry, State
  <2>3. docs.stored \in [DOMAIN docs.stored -> Texts]
    BY <2>2
  <2>4. due \subseteq Widget
    BY WidgetsOfGui DEF EntryInv
  <2>5. QED BY <2>1, <2>2, <2>3, <2>4 DEF EntryInv, EntryType, Edit
<1>2. QED BY <1>1, EntryInvHolds, PTL

\* A field shows the text of its item, unless its timer runs: undo, redo and
\* what arrives reach it, whatever tabs were used meanwhile.
THEOREM FieldsAlwaysSettle == Spec => []FieldSettles
<1>1. EntryInv => FieldSettles
  <2> SUFFICES ASSUME EntryInv, "unseen" \notin disturbed, NEW i \in Item,
                      gui.place[i] # Nowhere, typed[FieldOf(i)] # docs.text[i]
               PROVE  FieldOf(i) \in due
    BY DEF FieldSettles
  <2>1. Settled(State, due, NoItem) /\ i # NoItem
    BY DocAssumption DEF EntryInv
  <2>2. QED BY <2>1 DEF Settled, State
<1>2. QED BY <1>1, EntryInvHolds, PTL

\* The server has the text of every item that arrived, as long as no text was
\* handed over to another document than its own.
THEOREM ServerAlwaysHasText == Spec => []ServerHasText
<1>1. EntryInv => ServerHasText
  BY DEF EntryInv, ServerHasText, Stored, Key, State
<1>2. QED BY <1>1, EntryInvHolds, PTL

\* The edits of an item can be undone one by one, each back to the text the one
\* before it left.
THEOREM EditsAlwaysChain == Spec => []EditsChain
<1>1. EntryInv => EditsChain
  <2> SUFFICES ASSUME EntryInv, disturbed \subseteq {"unseen"} PROVE EditsChain
    BY DEF EditsChain
  <2>1. ASSUME NEW i \in Item
        PROVE  Chain(docs.actionList[DocOf[i]] \o Reverse(docs.redoActionList[DocOf[i]]),
                     Len(docs.actionList[DocOf[i]]),
                     Len(docs.actionList[DocOf[i]] \o Reverse(docs.redoActionList[DocOf[i]])),
                     i, docs.text[i])
    <3>1. Chained(State)
      BY DEF EntryInv
    <3>2. ChainOf(docs.actionList[DocOf[i]], docs.redoActionList[DocOf[i]], i, docs.text[i])
      BY <3>1 DEF Chained, State
    <3>3. QED BY <3>2 DEF ChainOf, All
  <2>2. QED BY <2>1, Zenon DEF EditsChain, Chain, Untouched
<1>2. QED BY <1>1, EntryInvHolds, PTL
=============================================================================
