--------------------------- MODULE DocumentSession ---------------------------
(***************************************************************************)
(* A loaded document that is worked on, marked and saved, over lost        *)
(* connections and restarts of the server: DocumentSync with the file the  *)
(* server writes when a save arrives (TodoServer::saveDocument) and reads  *)
(* when it starts (ServerDocument::loadData).  That reading gives back     *)
(* what was written is shown in ServerStorage.                             *)
(***************************************************************************)
EXTENDS DocumentSync

\* There is memory for an item.
ASSUME ItemAssumption == Item # {}

VARIABLE file  \* the copy that the server would read

sessionVars == <<syncVars, file>>

\* What is out of the tree is not written, and is allocated anew.
Stored(s) ==
  LET kept == InTree(s.tree)
      Links(f) == [x \in Node |-> IF x \in kept THEN f[x] ELSE Nil]
      Values(f, default) == [x \in DOMAIN f |-> IF x \in kept THEN f[x] ELSE default]
  IN [tree |-> [parent |-> Links(s.tree.parent), firstChild |-> Links(s.tree.firstChild),
                next |-> Links(s.tree.next), prev |-> Links(s.tree.prev)],
      text |-> Values(s.text, EmptyText), done |-> Values(s.done, FALSE),
      id |-> Values(s.id, NoId), heap |-> kept]

OutlineOf(s) == Outline(s.tree, s.id, Labels(s.text, s.done))

\* TodoServer::saveDocument, when its packet is handled; every other packet
\* leaves the file alone.
SaveFile(packet) == file' = IF packet.type = "PT_DOC_SAVE" THEN Stored(server) ELSE file

\* The bug of giving every document a new item.
LoadFileAlwaysNew == CreateNewChild(file)

\* ServerDocument::loadData: a document without items gets a new one.
LoadFile == IF file.tree.firstChild[Root] = Nil THEN CreateNewChild(file) ELSE file

\* The server process ends and is started again.  What it had not written is
\* gone, and the client is not told.
RestartServer ==
  /\ CutConnection(Doubt("not saved", OutlineOf(server) # OutlineOf(LoadFile)))
  /\ server' = LoadFile
  /\ UNCHANGED file

\* The document was loaded, as DocumentSync shows, and nothing is under way.
SessionInit ==
  /\ server \in ServerCopies
  /\ file = Stored(server)
  /\ tree = server.tree /\ heap = InTree(tree)
  /\ text = server.text /\ itemId = server.id
  /\ done = [x \in Node |-> x # Root /\ server.done[x]]
  /\ plugged = [x \in Item |-> x \in heap]
  /\ nextId = Max({FirstId} \cup {itemId[x] + 1 : x \in heap})
  /\ actionList = <<>> /\ redoActionList = <<>> /\ signals = <<>>
  /\ modified = FALSE
  /\ pendingRequests = 0 /\ requests = {} /\ requestId = 0
  /\ toServer = <<>> /\ toClient = <<>>
  /\ connected = TRUE /\ losses = 0 /\ extras = 0
  /\ doubts = {}

SessionNext ==
  \/ RestartServer
  \/ ServerReads /\ SaveFile(Head(toServer))
  \/ /\ UNCHANGED file
     /\ \/ UserStep \/ SetItemDone \/ SaveDocument
        \/ LoseConnection \/ ConnectAgain \/ ClientReadsResponse

SessionSpec == SessionInit /\ [][SessionNext]_sessionVars

---------------------------------------------------------------------------
(* Properties.                                                             *)

\* A document whose flag `modified` is not set (save, doAction, undoLastAction) is
\* on disk as the client has it, items, order, nesting and texts, as soon as the
\* save has been handled: no command slips between the signal docSaved and the
\* flag, and what is sent before the save is in the file.  Marking an item done
\* never sets the flag, so marks are left out.  The flag is what getModified
\* answers; the window does not follow it, the slot for it is commented out.
ModifiedTells ==
  /\ ~modified /\ doubts = {}
  /\ \A k \in DOMAIN toServer : toServer[k].type # "PT_DOC_SAVE"
  => Outline(tree, itemId, text) = Outline(file.tree, file.id, file.text)

\* A restart of the server costs nothing of a document that is not modified: with
\* the flag not set and nothing under way, the server comes back with the document
\* the client has, under the same ids (saveDocument, loadData).  Only a document
\* without items comes back with one more.  Again marks are left out.
RestartHarmless ==
  [][/\ RestartServer
     /\ ~modified /\ doubts = {} /\ toServer = <<>> /\ tree.firstChild[Root] # Nil
     => Outline(tree, itemId, text) = Outline(server'.tree, server'.id, server'.text)]_sessionVars
=============================================================================
