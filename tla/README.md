# A TLA+ model of ToDoApp

ToDoApp is a desktop outliner (Qt, C++): a document is a tree of items, edited in
the client and kept by a server that runs in a thread of the same process or
elsewhere. This directory models what can go wrong without anybody pressing a
wrong key: undo and redo over raw pointers, a document that loads while it is
edited, texts handed over by timers, tabs whose indices shift, a connection that
comes and goes, packets that arrive in pieces, a server that stops while it saves
and numbers its documents anew when it starts.

All paths below are relative to `src/`.

## 1. The system

| part | code | state | operations | talks to |
|---|---|---|---|---|
| item tree | `client/core.cpp` (`ClientItem`), `server/servercore.cpp` (`LogItem`) | parent, next, prev, firstChild, id, text, done, folded of each item; the static counter `nextId` | `addAsChild`, `detachFromTree`, `addAsLastChild`, `findItem`, `getLastChild` | used by both documents |
| `ClientDocument` | `client/core.cpp`, `core.h` | `rootItem`, `actionList`, `redoActionList`, `modified` | `createNewItem`, `removeItem`, `moveItem`, `setItemText`, `undoLastAction`, `redoAction`, `save`, `addItem`, `setItemDone`, `setItemFold`, `switchFocusTo` | emits signals to `GuiControl` and `RemoteDB` |
| `GuiControl`, `ItemWidget` | `client/guicontrol.cpp`, `itemwidget.cpp` | `guiItemsMap`, `docToTab`, the children and layout of each widget | slots for the signals of the current document, slots for the widgets | direct calls in the GUI thread (one queued: `itemFocused`) |
| `LogTextEdit` | `client/logtextedit.cpp` | the text being typed, a one-second timer, an edit counter | keys to commands, debounced `itemTextChanged` | `GuiControl` |
| `RemoteDB` | `client/logappserver.cpp` | `pendingRequests` | turns signals into packets, answers into items | `ClientDocument`, `LogAppServer` |
| `LogAppServer` | `client/logappserver.cpp` | the socket, `status`, `requests`, `request_id` | `connectToServer`, `readData`, one send slot per packet | the server over TLS; `ApplicationControl` |
| `ApplicationControl` | `client/applicationcontrol.cpp` | `connectionState`, a five-second timer, `remoteDocs` | `serverPooling`, `onServerConnected`, `onServerDisconnected`, `onDocListReceived`, search | `LogAppServer`, `MainWindow` |
| `TodoServer`, `ServerDocument` | `server/server.cpp`, `servercore.cpp` | `docs`, the tree of each | one handler per packet type in `incomingMessage` | the client; `XmlDB` |
| `XmlDB` | `server/storage.cpp` | one file per document | `saveDocument`, `loadTree` | `ServerDocument` |
| the rest | `mainwindow`, `settings`, `main` | lists of documents, settings | wiring, I/O | |

Commands run to completion on the GUI thread. Concurrency is between the client
and the server's thread, which share nothing but the connection: two FIFO byte
streams.

### What is hard, and what makes each part correct

`PROJECT.json` lists every hazard at its line. In short:

* **Tree and commands.** Actions hold raw pointers captured long before they are
  used; `DeleteAction::revert` links an item without detaching it, and
  `CreateAction::make` makes another item each time. Correct: links always agree,
  no cycle, an undo finds its place, undo and redo are inverse, the screen shows
  the document.
* **Loading.** Items arrive one by one, with ids that the client's own counter may
  reach first, while the user edits, deletes and moves. Correct: requests and
  answers match, ids are unique, loading ends and changes nothing, and when all is
  quiet both sides have the same document.
* **Connection and documents.** Two slots react to one loss, one inside the other;
  the polling stops by itself; the server numbers its files at every start, in the order
  of random names. Correct: the application knows whether it is connected, the list
  of documents arrives once and is complete, an id keeps naming one document.
* **Byte stream.** TCP cuts where it likes. Correct: the two reading loops know what they
  handle, and a loop that lost the beat finds back.
* **Window.** A text is handed over up to a second after it was typed, to whichever
  document is current by then; tab indices are kept in a map beside the tab bar. Correct:
  what is typed becomes the text of its item and can be undone, the page shown is
  the page of the current document, with everything on it.
* **View.** Folds and searches hide widgets while commands, undo and redo move them.
  Correct: the walks of focus and search meet what is unfolded, in order; nothing stays
  hidden for good.
* **File.** Written in place, read with no recovery. Correct: what was saved comes
  back; a cut file yields a part of the document in which all but the last item are in
  their places, and the server starts on it; what is not `modified` survives a restart.

## 2. Modules

```
ItemTree ─┬─ ClientDocument ─┬─ ClientDocumentHistory ··implements·· EditHistory
          │                  ├─ ItemView
          │                  └─┐
          └─ ServerDocument ─┬─ DocumentSync ── DocumentSession
                             └─ ServerStorage

Connection ── Documents        GuiControl ── TextEntry        PacketStream
```

`X ── Y`: Y extends X. `MC*` modules give instances for TLC. `XProofs` proves theorems
about `X`: there is one for `ItemTree`, `ClientDocument`, `DocumentSync`, `ServerStorage`,
`Documents` (with `Connection`) and `PacketStream`; `ScreenProofs` is about
`ClientDocumentHistory` and `ItemView`, `WindowProofs` about `GuiControl` and `TextEntry`.

**ItemTree.** The pointer structure both sides share: a record of four functions
over `Node`. `DetachFromTree`, `InsertAfter`, `AddAsChild` and `ServerAddAsChild`
are the methods assignment by assignment; the two `addAsChild` differ when the item
to go after has another parent (the client puts the item first, the server leaves
it out). Objects are never freed by the code, so a detached one keeps its fields
and `Node` only shrinks. `LinksAgree`, `ChainsEnd` and `EnteredOnce` say what a sound
structure is. `InTree` and `Chain` are written as least fixed points instead of
recursions, so that the module can be proved about.

**ClientDocument.** `DoAction`, `Make`, `Revert`, `UndoLastAction` and `RedoAction` are
the functions of these names, with a `Make…` per class of action. The commands are the
slots with the keys that reach them: which item they name is what the widgets allow.
`plugged` says whether the newest widget of an item sits in its parent's, and
`OnScreen` follows from it: only an item on the screen gets a command. `SetItemText` is
the exception: the timer of a text field may fire when its item is gone, so it takes
any item ever allocated. `signals` is what a step emits, in order; `DocumentSync` makes
packets of it, `ItemView` changes the screen. `modified` is the flag of this name, which
`setModified` and `getModified` keep.

**EditHistory** is what undo and redo promise: a stack of views behind, one ahead.
**ClientDocumentHistory** adds history variables (the view each entry was made or undone
in) and maps the document to it: `ImplementsEditHistory`. It ends where a creation is
redone: the code makes a new, empty item, and the abstract specification says so
(`RedoCreation`, `broken`).

**ServerDocument.** The handlers of `TodoServer` as operators on a copy (a record of the
tree, texts, allocated objects and ids), and its replies.

**DocumentSync.** One document on both sides: `UserStep` is a command, undo or redo with
the slots of `RemoteDB`, `SetItemDone` and `SaveDocument` the two that are no actions;
`ServerReads` is one turn of `incomingMessage`; `ClientReadsAnswer` and
`ClientReadsResponse` are one turn of `readData` with the slot of `RemoteDB` it calls.
`LoseConnection` takes what is under way with it, `ConnectAgain` asks for nothing again, and
what is written in between is dropped (`sendPacket`). Channels are sequences of packets.
`doubts` is a history variable: it collects what happened that the code promises nothing
after, so that `Mirror` and others can say exactly when they hold:

| doubt | what happened | why nothing is promised |
|---|---|---|
| `edited early` | a command before everything was loaded | ids collide, late answers overwrite, deletions take more than was shown |
| `deletion undone` | undo of a deletion | `DeleteAction::revert` emits only `itemAdded`, which is not announced |
| `creation redone` | redo of a creation | a later redo works on items out of the tree |
| `answer misread` | an answer was in the buffer behind a `PT_RESPONSE` | its two bytes of payload are not read |
| `edited off line` | a command, a mark or a save without a connection | `sendPacket` drops what the socket refuses |
| `packets lost` | the connection was lost with packets under way | nothing is sent or asked for again |
| `not saved` | the server restarted with edits that were not in the file | it comes back with the older document, and nobody is told |

**DocumentSession.** `DocumentSync` from where loading is over, with the file the server
writes when a save arrives and reads when it starts: editing, marking, saving, lost
connections and restarts of the server in one specification. That reading a file gives
back what was written is taken from `ServerStorage`.

**ServerStorage.** The server's document, its file and its end: `Save`, `StopWhileSaving`
(any first part of the file), `Stop`, `Start`, and packets in between, those that create, move,
remove and change items (`Packets`). `LoadTree` is the loop of the same name with its map of
items, the flags it reads and the two places it throws. A file that ends in the number of a
parent is read as the code reads it: `toUInt` makes 0 of nothing and a shorter number of a
prefix (`Prefixes`), and the item is linked below whatever has that id, the root having 0.

**Connection.** The polling timer, the slots of the socket and `connectionState`. Slots
that run inside one another (`abort()` emits `disconnected()`) are one action with the
state the last leaves.

**Documents.** `Connection` with what goes over it: the folder of the server in the order of
the file names, `docs`, `maxId`, the list of documents and the creations. The steps of
`Connection` are conjoined with what happens to the packets (`Disconnect`, `Encrypted`), so
that its properties are checked on the composition. An id is carried together with the
document it meant when the server sent it, which is what `IdsNameDocuments` compares.
Handlers that find no document put a null pointer into `docs` (`UseDocument`); the list
then crashes on it (`SendDocumentList`). `story` records what the promises except.

**GuiControl.** `docToTab` beside a `QTabWidget`: `SetCurrentDocument` with the signals
`addTab` and `setCurrentIndex` emit from within it (`OnDocumentTabChanged` is a nested call,
so it is an operator on the same record), `OnDocumentTabClosePressed`, the two shortcuts, the
list of documents, and items that arrive for documents that are current or not. The
`QTabWidget` is Qt's, modelled from the signals the code relies on.

**TextEntry** extends it with the text fields: `OnTextChanged` counts keys and starts the
timer, `TimerFires` hands the text over to the documents that are connected at that
moment, undo and redo write into fields, texts arrive from the server. The two documents
have items with equal ids, as real ones do.

**PacketStream.** `sendPacket`, `readData` and `incomingMessage` over bytes known by their place
in the stream: packets of several sizes, pieces of any length. A header read from any
other place than the start of a packet may mean anything (`ReadGarbage`). Both readers are
in one module, chosen in the initial state.

**ItemView.** `ClientDocument` with what is visible: `folded`, the widgets hidden by a fold,
the fields hidden by a search, `children` of each widget with the entry a move leaves
behind in the old parent. The walks (`GetNextItemInTree`, `GetPrevItemInTree`) and
`SwitchFocusTo` are recursive functions on the tree.

Operators with a comment "The bug of …" are plausible mistakes next to the definition
they would replace. No specification uses them; they show that a property depends on
the code (`mutants` in `PROJECT.json`).

## 3. What the runs check

| run | module | shows | states |
|---|---|---|---|
| `undo_redo` | MCClientDocument | `IndInv`, `LinksConsistent`, `PlaceKept`, `TreeWellFormed` for a new document | 156,236 |
| `history` | MCClientDocumentHistory | undo and redo implement `EditHistory`; the screen is the document | 25,905 |
| `sync` | MCDocumentSync | `RequestsMatched`, `IdsUnique`, `Mirror` while loading and editing overlap | 436,060 |
| `loading` | MCDocumentSync | loading ends (`LoadingEnds`), mirrors (`Mirror`) and is read only (`LoadingReadOnly`), over a connection that may be lost | 1,957 |
| `session` | MCDocumentSession | what is not `modified` is on disk (`ModifiedTells`) and survives a restart (`RestartHarmless`); marks are mirrored (`Mirror`) | about 484,000 |
| `documents` | Documents | ids keep their meaning (`IdsNameDocuments`), `NoDocumentTwice`, `ListComplete`, `ServerSurvives`; the slots of the socket (`IndInv`, `StateFollowsSocket`, `PollingStops`, `ListAskedOnce`, `ListArrives`) | about 970,000 |
| `storage` | ServerStorage | what was saved comes back (`SavedComesBack`), so does what was written of it (`PartComesBack`); the tree stays sound (`CopyWellFormed`); the server starts on every file (`StartsAgain`) | 377,327 |
| `stream` | PacketStream | when the server stays in step (`ServerInStep`), when the client finds back (`ClientFindsBack`) | about 239,000 |
| `tabs` | MCGuiControl | map and tab bar agree (`TabsMatch`), pages are complete (`ShownComplete`), a choice shows (`SelectShows`) | about 333,000 |
| `window` | MCTextEntry | `FieldSettles`, `EditsChain`, `ServerHasText`, `TypedArrives` for what is typed | about 502,000 |
| `view` | MCItemView | walks and searches meet what is unfolded (`WalksMeetUnfolded`), folds hide what is below them (`FoldHides`) | 574,414 |

One run ends in a violation, of a line of the repository (`findings`): in `item_twice` the
"ERROR: item already exists" of `onItemListReceived` does occur, when the user creates an
item while the document loads.

Many properties hold up to an exception that they name. The exceptions are how the
code behaves, found with TLC and kept in the statement, because they are what a user
meets:

* `IdsNameDocuments`, `ServerSurvives`: not over a restart of the server after a
  document was created. The ids are given anew in the order of random file names.
* `NoDocumentTwice`, `ListComplete`: not when a document is created before the list was
  asked for, or the answer to a creation is lost.
* `TabsMatch`, `ShownComplete`, `SelectShows`: not once a tab was closed that had tabs after
  it. And a document whose items arrive while another is current never shows them;
  the current document whose tab was closed cannot be reopened at once.
* `EditsChain`, `ServerHasText`: not once a text was handed over under another document.
* `WalksMeetUnfolded`: UP, PAGE_UP and TO_END may land inside a nested fold.
* `FoldHides`, and `WalksMeetUnfolded` as for searches: not for a widget that had several
  parents, nor for a search during which something was folded or moved. Nor for an item that
  a redone move brings back: redoing its creation made another item, so it was out of the tree
  while its parent was unfolded, or the search ended, and stays hidden.
* `ModifiedTells`, `RestartHarmless`: done marks never set `modified`.
* `PartComesBack`: an item that was cut in the number of its parent comes back below another
  item, or below the root.
* `ListArrives`: not when the connection is lost once the list was asked for, nor when it is lost
  after the timer has been stopped: nothing starts the timer again.
* `ServerInStep` is an equivalence: the server is in step exactly as long as no piece ends
  inside a packet.

One more thing the code does not do was met while modelling. `getNameForDoc`
(`client/mainwindow.cpp:36-42`) puts a star behind the name of a modified document, but it is
called only when the document is listed, before any edit; `onDocModifiedChanged`
(`client/mainwindow.cpp:150-162`), which is connected so that the name follows the flag, has its
body commented out. The star therefore never appears after an edit, and `ModifiedTells` and
`RestartHarmless` are about the flag, not about what the user is shown.

### Bounds

* `Node`: the objects that can ever be allocated, the root included. Four items
  let `undo_redo` nest to depth four, and detach an item between two others; a
  creation that is redone takes one more object each time.
* `MaxActions`: entries of the undo and redo lists (guard of `DoAction`). Three commands are
  enough for every pair of neighbours in the lists to be undone and redone after a
  third has moved what they name. The seeded bugs are found with two.
  `history`, `sync` and `view` have two, `session` one, `loading` none: there other steps are
  interleaved.
* `Text`: one in `undo_redo` and `view`, which say nothing of texts; two elsewhere.
* `MaxInFlight`: packets under way when a command is given; what the answers to
  them add is not bounded. Two let a command cross an answer and another command.
* `MaxExtras`: marks and saves; two in `session` let one be on its way when the other is given, one
  in `loading` comes at any moment of it.
  `MaxLosses`: connections lost, restarts included. One loss at any moment, and everything
  that can follow it.
* `FirstId` = 2: below one id of the stored documents and equal to or above others,
  so that the counter must be moved, or is past it already.
* Stored documents: `SmallCopies` for `sync`, `session` and `item_twice` (two items in a row, or
  nested; ids out of order), `LargeCopies` for `loading` (three items in every nesting).
* `MCSpec` of `session` stops behind a doubt: every property there promises nothing after one.
* `Ids` in `storage`: ids a client may send; two and three items make creations collide, and of
  the two, 2 and 20, the one is what a cut leaves of the other.
  `MaxChanges` = 1: packets between two saves; any number of them comes over time, and each
  tree that several packets make is reached with saves in between.
  `MaxLabels` = 1: texts and marks at a time. `StopWhileSaving` is not
  taken once `loadData` has given an id above `Ids`. No move goes to a place below the item itself
  (`Astray`): the client offers none, and the server meets one only when an id is in use twice.
* `MaxFiles` = 3, `MaxPackets` = 2, `MaxTurns` = 2 in `documents`: two files and one created in
  between; a request, and a creation behind it; a start of the server after the creation,
  and a restart of the client or another client. The polling goes on without a bound.
* `MaxPages` = 4 in `tabs` (three documents, and one opened again), 2 in `window` (two documents).
  `MaxKeys` = 2 with `EditTrashold` = 2 in `window`: one key waits for the timer, two fill the
  counter; keys in two documents, or in one before and after a switch.
* `stream`: three packets; headers of 3 bytes, responses of 1, other payloads of 0, 2 and 5: none,
  shorter and longer than a header, which is what the two loops tell apart.
* `MaxSize` = 4 in `view`: two commands from a document of one item, so that a creation and a move
  are undone and redone, and one from a document of three.
* `PageStep` = 2 (5 in the code) and `MaxFolded` = 2 in `view`: a page is shorter than the document,
  which has up to four items, and a fold can be nested in a fold.
* Creations are not delivered to a server, and lists not to a client, whose objects are
  all allocated (guards of `ServerReads`, `OnItemListReceived`, `Receive`).

Deadlock is not checked where the lists, the heap, the keys, the pages or the packets come
to an end. `storage` and `documents` never stop.

### Fairness

* `FairSpec` of `DocumentSync`: weak fairness of reading, on both sides. Both run an event
  loop, and `readyRead` stays due while bytes are waiting. No fairness for the user.
* `DocumentsFairness`: weak fairness of the timer and of each event with which the operating
  system reports the fate of a connection attempt, and of both event loops. The server
  process need never start, and the user need do nothing: `ListArrives` assumes the server
  is up from some time on.
* `TextEntry`: weak fairness of each timer (`Timers`): a single-shot timer that is not started
  again fires. Keys are bounded by `MaxKeys`, so that it is not started again for ever.

## 4. What is proved

TLAPS proves the following for every value of the constants that satisfies their named
assumptions: the root is a node, `Nil` is not; `EmptyText` is a text; the memory of a computer
is finite (`HeapFinite`); a loaded document has consistent links, finite chains, and unused
nodes with no links; the client starts `DocumentSync` without a document (`NothingLoaded`), and
one in store has each of its items in its tree, under an id of its own, and an object not made
yet has neither text nor mark (`ServerCopiesAssumption`); a server that starts has memory for one
item (`ItemAssumption`); bounds are numbers. TLC evaluates these on every run. In each module the argument is an inductive invariant, which
is stronger than what it is for; `PROJECT.json` lists the theorems.

| module | inductive invariant | properties that follow |
|---|---|---|
| ClientDocumentProofs | `IndInv`, `PlacesKnown` | `IndInv`, `LinksConsistent`, `TreeWellFormed`, `PlaceKept` |
| ScreenProofs | these, `Held` and `HistoryKnown` | `ImplementsEditHistory`, `ScreenIsDocument` |
| ScreenProofs | `IndInv`, `FoldInv` | `FoldHides` |
| DocumentSyncProofs | `SyncInv` | `RequestsMatched` |
| DocumentSyncProofs | `SyncInv`, `ReadOnlyInv` | `LoadingReadOnly` |
| DocumentSyncProofs | `SyncInv`, `PartInv` | `IdsUnique` |
| DocumentSyncProofs | these and `CompleteInv` | `Mirror` (of `DocumentSync`, loading included) |
| DocumentSyncProofs | `SessionInv` | `Mirror`, `ModifiedTells`, `RestartHarmless` (all of `DocumentSession`) |
| ServerStorageProofs | `CopyInv`, `StartInv`, `SavedInv`, `PartInv` | `CopyWellFormed`, `StartsAgain`, `SavedComesBack`, `PartComesBack` |
| DocumentsProofs | `DocumentsInv` | `IndInv`, `StateFollowsSocket`, `PollingStops`, `ListAskedOnce`, `IdsNameDocuments`, `NoDocumentTwice`, `ListComplete`, `ServerSurvives` |
| PacketStreamProofs | `StreamInv` | `ServerInStep`, `ClientFindsBack` |
| WindowProofs | `GuiInv` | `TabsMatch`, `ShownComplete`, `SelectShows` |
| WindowProofs | `EntryInv` | `EntryType`, `FieldSettles`, `EditsChain`, `ServerHasText` |

**The tree** (`ItemTreeProofs`). What linking and taking out do to the pointers. Both keep
the links consistent and the chains finite (`AddAsChildKeeps`), and they are inverse to each
other: linking an item again at the parent and the sibling captured before gives back the same
tree (`AddUndoesDetach`), and the other way round (`DetachUndoesAdd`). From consistent
links alone, a walk from the root enters nothing twice (`AgreeingEnteredOnce`). `Grounded`
(every set of nodes has one with neither its first child nor its next sibling in it) says
that there is no cycle along both pointers together, and makes recursion along them sound:
`FoldExists` gives a function to every recursion of the kind `findItem` and `saveNode` use,
and `FindItemThere` says what the first finds. Links that lead back as they lead on and chains
that end are enough for this of what is in the tree (`TreeGrounded`), whatever the objects out of
it point to.

**Commands, undo and redo** (`ClientDocumentProofs`). Linking keeps the links consistent if the
item is detached. A new item is; a moved item is detached first; but
`DeleteAction::revert` links an item as it finds it. It is still detached because

* `DeletedDetached`: what an entry of the undo list deleted is out of the tree, and
* `NoUseAfterDelete`: no entry that comes after a deletion, in the order in which undo and
  redo run through the two lists, links anything to the deleted item.

The second is what makes the first inductive: making or reverting an entry disturbs only
items the entry *uses* (`Keeps(Uses(x))`). A command keeps it because it names items on
the screen, which are not detached (`OnScreenFacts`), and their siblings and parents,
which are not either (`LinkedFacts`). An edit uses no links, so it may come late.
`FreshUnlinked` and `ListsAllocated` keep objects that do not exist yet out of all this.
`LinksConsistent` alone is not inductive: a state with consistent links and a deletion in
the undo list whose item is linked goes wrong at the next undo.

`PlaceKept` is about the next undo or redo only, and says nothing of the one after it.
`PlacesKnown` does: there is a column of parent pointers for every entry of both lists, which
was there when the entry was made, and each entry captured its place in its column. The top
columns are the present.

**Undo shows what was there** (`ClientDocumentProofs`, `ScreenProofs`). The views that `EditHistory`
remembers do not determine what an undo does: the pointers do, of items out of the tree as
well. `HistoryKnown` therefore keeps whole documents, one behind each entry and one ahead of
each undone one. Neighbours in this row are related by the action between them (`Did`), and
`AddUndoesDetach` makes each undo meet the document before it, pointer by pointer, except
that an item that is taken out keeps the parent pointer it got. Each step then is a step of
`EditHistory` or leaves it alone: `HistoryImplemented`. Beside it, a widget is plugged into
its parent's exactly as long as the item is linked (`Screened`), and nothing hangs below a
sibling chain that starts nowhere (`Whole`); on a finite heap the walks of the screen and of
the document meet the same items: `ScreenAlwaysDocument`. Both end where a creation is redone.

**Both sides** (`DocumentSyncProofs`). `SyncInv` holds whatever is done, edits during loading
included, so little can be said of the server's copy: a move of an item that was taken out on
one side can leave a pointer there that no one points back to, and a cycle among objects out of
the tree. What stays is that each pointer the tree is entered by leads back (`Coherent`), and
that is enough for every lookup to end and to find what is there. Of the client more
is known: its parent pointers, and the columns of them that `PlacesKnown` keeps for each entry of the
lists, have no cycle, in the tree or out of it (`Sane`, `PlacesSane`), so that `findItem` and
`setItemDone` end in each state. Packets are well formed (`Packet`, `Answer`), and the numbers
of the requests and answers under way are different from each other, below `request_id`, and have an
owner (`Matched`): `RequestsMatched` follows, and a list of children that arrives is linked
item by item below the parent it was asked for (`Fetched`).

That reading a document does not change it is about the texts, since each is sent back as it
arrives. `ReadOnlyInv`: until the first command every packet under way to the server is a request
or brings a text the server has already (`OldNews`), and every text under way to the client is the
server's (`OldAnswer`). Both speak of the server's copy, which no such packet changes
(`OldNewsIdle`), and a lost or misread packet takes away from what is under way only.

**A session** (`DocumentSyncProofs`). `SessionInv` says what holds until a doubt is raised, in three
parts. First, the server's copy *when it has handled what is under way* (`Handled`) mirrors the
document (`Mirrored`): there is a one-to-one choice of objects of the copy for the objects
of the client, those in the tree and some that are not, with the same ids, and with all
pointers alike (`Pair`), texts and marks in the tree as well. The choice is needed because both
sides allocate for themselves; objects out of the tree are in it since an undone creation, or what
a deletion takes along, keeps pointers that a later packet walks over. A packet is appended where
`Handled` ends, so each step of the user is one handler on a mirroring copy
(`MirrorCreates`, `MirrorDeletes`, `MirrorMoves`, `MirrorEdits`, `MirrorMarks`): what the packet
names is found (`MirrorFinds`), in the place the client has it (`MirrorPlaces`), because ids are
unique (`Named`) and nothing hangs outside the tree (`Held`, without which an item that was moved
below one that is out of the tree would be announced there). What the undos and redos of
`ClientDocument` emit is told by one packet each (`CommandTold`, `UndoTold`, `RedoTold`), but for the
two that are doubts. That the server reads its packets changes `Handled` not at all
(`HandleFirst`). Second, the file is a sound copy (`Sound`). Third, while the document is not
`modified` there is a packet k that is the last save under way, and what the server would write
when it gets there is what the client has now, or k = 0 and the file is (`SavedTo`): reading a packet makes it k - 1. A restart
without loss puts in place another copy that reads the same, and a sound copy that reads the same
mirrors (`SoundMirrors`): from equal outlines, a choice of objects is rebuilt.

**Loading** (`DocumentSyncProofs`). `PartInv`: until the user is too early, the client's ids differ and
are below `nextId` (`Named`), and while anything is pending the client's document is a part of the
server's copy (`PartialHeld`): each of its objects stands for one of the copy with the same id, and of
the children of an item it has all, in the same order, or none. Reading a list of children keeps
this, item by item, since the list was made by the same copy and each entry is put after the one
before it; that the ids of the list are new is what `IdsUnique` needs. `CompleteInv` adds, while
there are no doubts, that all that is lacking is asked for or on its way (`Complete`): an item
without children has none on the server or a request or answer out for them, a text is the
server's or is asked for, and the packets under way to the server bring marks, and texts it has
already. When `pendingRequests` reaches 0 nothing is asked for any more, so all of the copy is there
(`AllLoaded`), and from then on the invariant is that of a session (`LiveHeld`): `Mirror`.

**The server's document** (`ServerStorageProofs`). `CopyInv`: the file is a sequence of items,
whatever part of a document was written, and a document that is there has consistent links,
no cycle (`Grounded`), no link to an object that was not allocated, and the root's id at
the root only. `LoadTree` keeps the first three for whatever it reads, ids in use twice, parents
that are missing and files that were cut included; that every file can be read rests on
`FoldExists`, which says that the walk of `saveNode` ends. `StartInv`: until an item is created
with an id in use, the ids in the tree differ, and those in the file do. `saveNode` writes no item
twice because what is below an item and what follows it are apart (`ReachedApart`,
`EntriesDiffer`); any first part of such a file is read without an exception
(`LoadTreeReads`), into a heap of objects with different ids (`Numbered`), linked or not: the
item that a document without items is given has an id beyond all of them. The ids of objects
that were taken out are not in this invariant, since `createItem` only finds those in the tree.

What comes back is about the order of the file. The walk of `saveNode` is a sequence of nodes
(`Walking`): each tree node is on it once, each after the node it is the first child or the next
sibling of (`Preorder`), and the file has their items in this order (`SavedAlong`). `loadTree`
then simulates the walk: after k items (`Reading`) the document is a copy of the first k nodes,
with some one-to-one choice of objects for them (`Matches`), and all but the last are in the map,
so that the parent of the next is found in it, and `addAsLastChild` puts it after all the siblings
that came before it (`AddLastFields`, `CopyGrows`). A copy of all the nodes reads the same as
what was saved (`LoadedIsSaved`). `SavedInv` and `PartInv` say of the file that it is that of
some sound document, whole or up to some item. When the writing did not end, what is read is a
copy of a first part of the walk in its shape only (`Shaped`: the last item may lack its text
and flag), and what would be written of such a copy are the first items of the file
(`CopyWritten`). The last item may also have been cut in the number of its parent. Then it is
linked last below whatever item of the map has the id that is left, or nowhere, and the walk of
the tree is the old one with this item put in somewhere (`PutIn`, `AddLastWalk`); all others are
written as before, each below its own parent (`LastCutRead`). None of this needs the ids to be free
of collisions: a map in which two items have
one id throws, and then no document comes back. `SavedInv` and `PartInv` speak of some document
of any contents and are not evaluated by TLC; the properties they carry are.

**The connection and the documents** (`DocumentsProofs`). `IndInv` of the connection adds to its
properties that a status of connected has a socket behind it (`StatusHasSocket`) and that
leaving `JUST_STARTED` and asking for the list are one step (`AskedWhenStarted`). The first makes
`PollingStops` a property of the socket: `serverPooling` asks the status, and leaves the timer
stopped only while there is a connection. Every step
of `Documents` is a step of `Connection` or leaves it alone (`StepsOfConnection`). Then `IdsInv`:
no id was given above `maxId` (`IdsGiven`); a server that is up has every file open
(`FilesOpen`); as long as no document was created, the ids are those of the next start
(`AsNumbered`), which is why a restart does no harm; ids that are held agree
(`NamesAgree`). And `ListInv`: the one request for the list, or the list, is
nowhere twice (`ListUnderWay`) and before anything else (`ListComesFirst`), each answer under way
brings ids nothing before it brought (`AnswersFresh`), and from the list on every file is known
or under way (`Complete`).

**The byte stream** (`PacketStreamProofs`). `Laid`: the packets lie on the stream end to end.
The server is at the start of a packet and has handled those before it (`InStep`) as long
as no piece ended inside a packet, and from then on about to fall out of step, or has
(`OutOfStep`): `ServerInStep` is this equivalence. Of the client, whatever happened
before, it has read all that arrived whenever it returns, so that a piece which starts with
a packet (`CameWhole`) is read from there, packet by packet (`ClientReads`).

**Folds** (`ScreenProofs`). Every step of `ItemView` is a step of the document or leaves it
alone (`ViewKeepsDocument`). An item that is plugged in, has stayed with its parent and is not
its own is in the list of that parent's widget and of no other, and is hidden as the parent's fold
says (`FoldInv`). `FoldHides` alone is not inductive: what a fold hides is the list, not the tree.

**The window** (`WindowProofs`). `GuiInv`: every tab has a page that was
made; each item is on the page recorded for it (`Placed`); and until a tab before others is
closed, the map, the tab bar, the current document and its connections agree (`Match`), and
items are on their document's page (`Complete`). The connections belong to it: what selecting a
tab does depends on which documents listen. `EntryInv` adds what is typed, each part
under the disturbance the code does not survive: a field that shows something else than its
item has its timer running (`Settled`); while no text went to another document than its own,
every action is about an item of its document (`Owned`) and the server has each text that is
not on its way (`Stored`), and the edits of an item, done and undone, follow each other
(`Chained`). After closed tabs any number of documents may listen, and a signal goes to each in
turn: that the parts survive this is an induction over the documents told so far (`Told`).

*Inductions.* The provers cannot instantiate theorems that take an operator, so
inductions are done without: a set of counterexamples has a least number, or an element that is
grounded (`SetInduction`, `Grounded`), and that is a contradiction. This is how the documents a signal goes
to, the items of a file and the walks over trees are handled.

*Only model-checked*, and why:

* `WalksMeetUnfolded`: the walks of `ItemView` recurse over focus, page step
  and tree at once.
* `LoadingEnds`, `ListArrives`, `TypedArrives`: liveness under fairness is out of reach of TLAPS.

## 5. Abstractions

* A text is one of two values, an id a number, the XML of a document the sequence of its
  items. A cut of the file falls between elements or in the number of a parent. An item without
  its id, or with half of it, counts as not written: it is linked nowhere, and no other item
  follows it. A text cut in the middle is left out.
* In `DocumentSync`, after a `PT_RESPONSE` either nothing more was in the buffer, or everything
  in it is lost; that packets arrive whole is what `ClientFindsBack` and `ServerInStep` are
  about. In `PacketStream` a garbage header is handled or not, with any payload; what its
  handler would do is left out.
* The codes the server responds with are never read by the client, so a response has none.
* A client sends packets about documents of its list only; other clients appear in `Documents`
  as what they do to the server's one connection, not with creations of their own.
* In `DocumentSync` the document of a packet is always open on the server, and is the current
  one on the client; several are in `Documents`, `GuiControl` and `TextEntry`.
* `ServerStorage` has packets as a client would send them, without the client: about items of
  the tree, and a move to a place that is there when the item has been taken out.
* In `ClientDocument` focus, folding and hiding do not keep an item from being given a
  command: keys go to the focused field, and any item on the screen may be it. In `ItemView`
  only a field the user sees gives one.
* Items arrive one by one in `GuiControl`: every list of children there has one item.
* In `TextEntry` the structure of the documents does not change; texts of items that are
  deleted meanwhile are in `ClientDocument`.
* `ItemView` keeps which widgets a widget counts as its children, not their order in the layout.

### Not modelled

* Settings, forms and program entry: I/O and wiring.
* Dragging: `onItemStartDragging` and its slots draw, and a drop changes nothing.
* The commands of `ServerDocument` that nothing calls (`createNewSibling`, the shifts, the focus
  walks), `setItemFold` of the server, which nothing calls either, and the empty
  `removeDocument`. Folds are never announced: `PT_ITEM_FOLD_CHANGED` is read and ignored.
* `sender()` cast to `LogTextEdit` in three slots of `GuiControl`: undefined behaviour that the
  layout of the classes makes harmless.
* Fields of a header that are not set before it is sent (`docId` of the request for the
  list): the receiver does not read them.
* `canExit`: it asks a list of local documents that is always empty.
* A cut of the file inside a text: whether the XML reader hands over what it has not seen the
  end of is outside the repository, and the text is the only thing that could differ.
* The slots that run inside one another when a connection is refused or lost are one action each
  (`Abort`, `Disconnect`): nothing else runs in between on the same thread.
* What Qt's socket keeps of packets that are written while it connects: the model drops it, and
  a doubt is raised then.

## 6. Plan

Done: all modules, and the proofs of section 4.

Left: `WalksMeetUnfolded` of `ItemView`, along the order of the items that `ServerStorageProofs`
has.
