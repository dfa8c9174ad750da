------------------------------ MODULE Documents ------------------------------
(***************************************************************************)
(* Which document an id stands for.  The server (server/server.cpp) numbers *)
(* the files of its folder when it starts and counts on from there; the     *)
(* client (applicationcontrol.cpp, mainwindow.cpp) learns the ids from the  *)
(* list it asks for once and from the answers to the documents it creates,  *)
(* and keeps them over every lost connection and restart of the server.     *)
(*                                                                         *)
(* A file stands for its document and is known by the order of creation;   *)
(* its name is random, so it may stand anywhere among the others.          *)
(***************************************************************************)
EXTENDS Connection, Sequences, SequencesExt, FiniteSets

CONSTANTS FirstDocId,   \* 1000, the first id of a server that starts
          MaxFiles,     \* bound: files
          MaxPackets,   \* bound: packets under way when the user sends one
          MaxTurns      \* bound: starts of the server, other clients, restarts of the client

ASSUME DocumentsAssumption ==
  {FirstDocId, MaxFiles, MaxPackets, MaxTurns} \subseteq Nat \ {0}

VARIABLES files,      \* the folder, in the order of the file names
          docs,       \* TodoServer::docs
          maxId,      \* ServerDocument::maxId
          toServer,   \* packets written by the client, also before the handshake
          toClient,
          idsToDocs,  \* the list of the window, with what each id meant when it was sent
          turns,
          story       \* history: what happened, see Events

documentVars == <<files, docs, maxId, toServer, toClient, idsToDocs, turns, story>>
allVars == <<vars, documentVars>>

NoFile == 0
NoDocs == [id \in {} |-> NoFile]
\* grown: a document was created since the server started; stale: the server
\* started again after that, under a running client; regrown: or under any;
\* early: a creation was written before the list was asked for; twice: an id
\* came that the window has; lost: the answer to a creation was.
Events == {"grown", "stale", "regrown", "early", "twice", "lost", "crashed"}

Named(ids, map) == {[id |-> i, meant |-> map[i]] : i \in ids}
Ask == [type |-> "list", docs |-> {}]
Create == [type |-> "create", docs |-> {}]
Use(d) == [type |-> "use", docs |-> {d}]

---------------------------------------------------------------------------
(* The server.                                                             *)

\* TodoServer::TodoServer
Numbered(fs) == [id \in FirstDocId..FirstDocId + Len(fs) - 1 |-> fs[id - FirstDocId + 1]]

\* ServerDocument::ServerDocument raises maxId, which starts at 0.
MaxIdOf(fs) == IF fs = <<>> THEN 0 ELSE FirstDocId + Len(fs) - 1

\* The bug of counting on after the id was taken.
GetNextDocIdLate == maxId

\* ServerDocument::getNextDocId
GetNextDocId == maxId + 1

Start ==
  /\ turns < MaxTurns /\ turns' = turns + 1
  /\ ServerStarts
  /\ docs' = Numbered(files)
  /\ maxId' = MaxIdOf(files)
  /\ story' = (story \ {"grown"}) \cup (IF "grown" \in story THEN {"stale", "regrown"} ELSE {})
  /\ UNCHANGED <<files, toServer, toClient, idsToDocs>>

Stop ==
  /\ ServerStops
  /\ docs' = NoDocs /\ maxId' = 0
  /\ UNCHANGED <<files, toServer, toClient, idsToDocs, turns, story>>

Reads(type) == /\ serverUp /\ socket = "encrypted" /\ ~hungUp
               /\ toServer # <<>> /\ Head(toServer).type = type
               /\ toServer' = Tail(toServer)

\* sendDocumentList, which takes every entry of docs for a document.
SendDocumentList ==
  /\ Reads("list")
  /\ IF NoFile \in {docs[id] : id \in DOMAIN docs}
     THEN /\ ServerStops
          /\ docs' = NoDocs /\ maxId' = 0
          /\ story' = story \cup {"crashed"}
          /\ UNCHANGED toClient
     ELSE /\ toClient' = Append(toClient, [type |-> "list", docs |-> Named(DOMAIN docs, docs)])
          /\ UNCHANGED <<vars, docs, maxId, story>>
  /\ UNCHANGED <<files, idsToDocs, turns>>

\* The bug of answering with the id of the next document.
CreateDocumentAnsweringNext ==
  /\ Reads("create")
  /\ Len(files) < MaxFiles
  /\ \E k \in 1..Len(files) + 1 : LET new == Len(files) + 1 IN
       /\ files' = InsertAt(files, k, new)
       /\ docs' = [id \in DOMAIN docs \cup {GetNextDocId} |->
                     IF id = GetNextDocId THEN new ELSE docs[id]]
       /\ toClient' = Append(toClient, [type |-> "create",
                        docs |-> {[id |-> GetNextDocId + 1, meant |-> new]}])
  /\ maxId' = GetNextDocId
  /\ story' = story \cup {"grown"}
  /\ UNCHANGED <<vars, idsToDocs, turns>>

\* createDocument, which makes a file and answers with the id.
CreateDocument ==
  /\ Reads("create")
  /\ Len(files) < MaxFiles
  /\ \E k \in 1..Len(files) + 1 : LET new == Len(files) + 1 IN
       /\ files' = InsertAt(files, k, new)
       /\ docs' = [id \in DOMAIN docs \cup {GetNextDocId} |->
                     IF id = GetNextDocId THEN new ELSE docs[id]]
       /\ toClient' = Append(toClient, [type |-> "create",
                        docs |-> {[id |-> GetNextDocId, meant |-> new]}])
  /\ maxId' = GetNextDocId
  /\ story' = story \cup {"grown"}
  /\ UNCHANGED <<vars, idsToDocs, turns>>

\* The random name is taken, or the file cannot be opened: the client ignores
\* the response.
CreateDocumentFails ==
  /\ Reads("create")
  /\ UNCHANGED <<vars, files, docs, maxId, toClient, idsToDocs, turns, story>>

\* Any other packet looks its document up as docs[id], which puts a null
\* pointer there if the id is unknown.
UseDocument ==
  /\ Reads("use")
  /\ LET asked == {d.id : d \in Head(toServer).docs} IN
     docs' = [id \in DOMAIN docs \cup asked |-> IF id \in DOMAIN docs THEN docs[id] ELSE NoFile]
  /\ UNCHANGED <<vars, files, maxId, toClient, idsToDocs, turns, story>>

---------------------------------------------------------------------------
(* The client.                                                             *)

\* sendPacket: QSslSocket keeps what is written before the handshake is over,
\* and refuses it while it is unconnected.
Write(packets) ==
  toServer' = IF socket = "unconnected" THEN toServer ELSE toServer \o packets

\* ApplicationControl::createNewDocument
CreateNewDocument ==
  /\ Len(toServer) < MaxPackets
  /\ Write(<<Create>>)
  /\ story' = story \cup {x \in {"early"} : docList = "not asked"}
  /\ UNCHANGED <<vars, files, docs, maxId, toClient, idsToDocs, turns>>

\* A command, a save or a request of a document of the list.
UseListed ==
  /\ Len(toServer) < MaxPackets
  /\ \E d \in idsToDocs : Write(<<Use(d)>>)
  /\ UNCHANGED <<vars, files, docs, maxId, toClient, idsToDocs, turns, story>>

\* onDocListReceived, onNewDocumentOnServer: the root of each document is asked
\* for, in the order of the ids; onNewDocument and addDocumentToList leave an id
\* alone that is there.
DocumentAdded ==
  /\ socket = "encrypted" /\ toClient # <<>>
  /\ toClient' = Tail(toClient)
  /\ LET come == Head(toClient).docs
         known == {d \in come : \E old \in idsToDocs : old.id = d.id}
     IN /\ idsToDocs' = idsToDocs \cup (come \ known)
        /\ story' = story \cup {x \in {"twice"} : known # {}}
        /\ \E sorted \in [1..Cardinality(come) -> come] :
             /\ \A j, k \in DOMAIN sorted : j < k => sorted[j].id < sorted[k].id
             /\ Write([k \in DOMAIN sorted |-> Use(sorted[k])])
  /\ IF Head(toClient).type = "list" THEN DocListReceived ELSE UNCHANGED vars
  /\ UNCHANGED <<files, docs, maxId, turns>>

\* What is under way goes with the socket.
Disconnect ==
  /\ ConnectionRefused \/ SslErrors \/ ConnectionLost
  /\ toServer' = <<>> /\ toClient' = <<>>
  /\ story' = story \cup {x \in {"lost"} : \E p \in ToSet(toClient) : p.type = "create"}
  /\ UNCHANGED <<files, docs, maxId, idsToDocs, turns>>

\* onServerConnected may write the request for the list.
Encrypted ==
  /\ ConnectionEstablished
  /\ toServer' = toServer \o (IF docList' = "asked" /\ docList # "asked" THEN <<Ask>> ELSE <<>>)
  /\ UNCHANGED <<files, docs, maxId, toClient, idsToDocs, turns, story>>

Pooling == ServerPooling /\ UNCHANGED documentVars

OpenSocket == TcpConnected /\ UNCHANGED documentVars

OtherClient ==
  /\ turns < MaxTurns /\ turns' = turns + 1
  /\ AnotherClient
  /\ UNCHANGED <<files, docs, maxId, toServer, toClient, idsToDocs, story>>

RestartClient ==
  /\ turns < MaxTurns /\ turns' = turns + 1
  /\ ClientRestarts
  /\ toServer' = <<>> /\ toClient' = <<>> /\ idsToDocs' = {}
  /\ story' = story \ {"stale", "early", "twice", "lost"}
  /\ UNCHANGED <<files, docs, maxId>>

---------------------------------------------------------------------------
DocumentsInit ==
  /\ Init
  /\ files \in {[k \in 1..n |-> k] : n \in 0..MaxFiles - 1}
  /\ docs = IF serverUp THEN Numbered(files) ELSE NoDocs
  /\ maxId = IF serverUp THEN MaxIdOf(files) ELSE 0
  /\ toServer = <<>> /\ toClient = <<>>
  /\ idsToDocs = {}
  /\ turns = 0
  /\ story = {}

DocumentsNext ==
  \/ Start \/ Stop \/ SendDocumentList \/ CreateDocument \/ CreateDocumentFails \/ UseDocument
  \/ CreateNewDocument \/ UseListed \/ DocumentAdded
  \/ Disconnect \/ Encrypted \/ Pooling \/ OpenSocket
  \/ OtherClient \/ RestartClient

\* The timer and the socket of Connection, and both event loops read what has
\* come.
DocumentsFairness ==
  /\ WF_allVars(Pooling) /\ WF_allVars(OpenSocket)
  /\ WF_allVars(Disconnect) /\ WF_allVars(Encrypted) /\ WF_allVars(DocumentAdded)
  /\ WF_allVars(SendDocumentList \/ CreateDocument \/ CreateDocumentFails \/ UseDocument)

DocumentsSpec == DocumentsInit /\ [][DocumentsNext]_allVars /\ DocumentsFairness

---------------------------------------------------------------------------
(* Properties.                                                             *)

Carried(packets) == UNION {p.docs : p \in ToSet(packets)}

\* Every id the client holds or has under way names, on the server, the
\* document it named when the server sent it (docs, getNextDocId), whatever is
\* created, lost and started again, unless the server started again after a
\* document was created: the files are numbered anew, in the order of their
\* random names.
IdsNameDocuments == serverUp /\ "stale" \notin story =>
  \A d \in idsToDocs \cup Carried(toServer) \cup Carried(toClient) :
    d.id \in DOMAIN docs /\ docs[d.id] = d.meant

\* No document is opened twice (onNewDocument), unless its creation was written
\* before the list was asked for: then the answer and the list both bring it.
NoDocumentTwice == "twice" \in story => "early" \in story

\* Once the list is there it is complete while the connection lasts: each
\* document was in the list, or the answer to its creation has come or is under
\* way, unless such an answer was lost or an id was taken for another document.
ListComplete ==
  socket = "encrypted" /\ docList = "received" /\ story \cap {"lost", "stale"} = {} =>
    \A f \in ToSet(files) : \E d \in idsToDocs \cup Carried(toClient) : d.meant = f

\* The server meets a null document (sendDocumentList) only if it started again
\* after a document was created, so that a client may use an id it never gave.
ServerSurvives == "crashed" \in story => "regrown" \in story
=============================================================================
