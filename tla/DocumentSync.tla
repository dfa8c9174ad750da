---------------------------- MODULE DocumentSync ----------------------------
(***************************************************************************)
(* One document on both sides of a connection: RemoteDB and LogAppServer   *)
(* (client/logappserver.cpp) load it item by item from the server, and     *)
(* tell the server of every command (ClientDocument emits a signal, a slot *)
(* of RemoteDB turns it into a packet).  The user can work on the document *)
(* while it loads.  Each direction of the connection is a FIFO queue.      *)
(*                                                                         *)
(* Pointers are the nodes of ItemTree, as in ClientDocument; here an item  *)
(* has an id as well, and the two sides know each other's items by id only.*)
(***************************************************************************)
EXTENDS ClientDocument, ServerDocument

CONSTANTS ServerCopies, \* the documents the server may have in store
          FirstId,      \* ClientItem::nextId when loading starts
          MaxInFlight,  \* bound: packets under way when a command is given
          MaxExtras,    \* bound: marks and saves
          MaxLosses     \* bound: lost connections

ASSUME FirstIdAssumption == FirstId \in Nat \ {NoId}

\* The client's document is empty until its items arrive.
ASSUME NothingLoaded == InitialTrees = {EmptyTree}

\* A document in store has every item in its tree, under an id of its own; an
\* object not made yet has no text and no mark.
ASSUME ServerCopiesAssumption == \A s \in ServerCopies :
  /\ s \in [tree : Tree, text : [Item -> Text], done : [Item -> BOOLEAN],
            heap : SUBSET Node, id : [Node -> Nat]]
  /\ LinksAgree(s.tree) /\ ChainsEnd(s.tree) /\ s.tree.parent[Root] = Nil
  /\ s.heap = InTree(s.tree) /\ \A x \in Node \ s.heap : Unlinked(s.tree, x)
  /\ \A x \in Item \ s.heap : s.text[x] = EmptyText /\ ~s.done[x]
  /\ s.id[Root] = NoId /\ \A x, y \in s.heap : s.id[x] = s.id[y] => x = y

ASSUME MaxInFlightAssumption == {MaxInFlight, MaxExtras, MaxLosses} \subseteq Nat

VARIABLES itemId,           \* ClientItem::id of each object
          nextId,           \* ClientItem::nextId
          done,             \* ClientItem::done of each object
          extras,           \* marks and saves so far
          connected,        \* packets reach the other side
          losses,           \* connections lost so far
          pendingRequests,  \* RemoteDB::pendingRequests
          requests,         \* keys of LogAppServer::requests
          requestId,        \* LogAppServer::request_id
          toServer,         \* packets the server has not read
          toClient,         \* packets the client has not read
          server,           \* the server's copy
          doubts            \* history: what happened that nothing is promised after

idVars == <<itemId, nextId>>
linkVars == <<connected, losses>>
netVars == <<idVars, done, extras, linkVars, pendingRequests, requests, requestId, toServer, toClient, server>>
syncVars == <<vars, netVars, doubts>>

---------------------------------------------------------------------------
(* Commands, undo and redo, with the slots of RemoteDB.                    *)

\* fillItemDescriptor, run when the slot runs: after the change.
Descriptor(type, i) ==
  [type |-> type, item |-> itemId'[i], parent |-> itemId'[tree'.parent[i]],
   prev |-> IF tree'.prev[i] = Nil THEN NoId ELSE itemId'[tree'.prev[i]]]

\* RemoteDB is not connected to itemAdded.
PacketOf(signal) ==
  CASE signal.name = "itemCreated" -> <<Descriptor("PT_ITEM_CREATED", signal.item)>>
    [] signal.name = "itemDeleted" -> <<Descriptor("PT_ITEM_DELETED", signal.item)>>
    [] signal.name = "itemModified" -> <<Descriptor("PT_ITEM_MOVED", signal.item)>>
    [] signal.name = "itemTextChanged" ->
         <<[type |-> "PT_ITEM_CHANGED", item |-> itemId'[signal.item],
            text |-> text'[signal.item]]>>
    [] OTHER -> <<>>

\* What is written to a socket that is not connected is dropped.  One that is
\* about to be connected would keep it; that is left to the doubt "edited off line".
Write(packets) == toServer' = IF connected THEN toServer \o packets ELSE toServer

\* Of the signals of a step only the last can be one RemoteDB listens to.
Announce == Write(PacketOf(signals'[Len(signals')]))

\* The constructor of ClientItem hands out ids in the order of creation.
NumberNewItem ==
  /\ itemId' = [x \in Node |-> IF x \in heap' \ heap THEN nextId ELSE itemId[x]]
  /\ nextId' = nextId + Cardinality(heap' \ heap)

Doubt(d, condition) == {x \in {d} : condition}
Edited == Doubt("edited early", pendingRequests # 0) \cup Doubt("edited off line", ~connected)

UserStep ==
  /\ Len(toServer) + Len(toClient) < MaxInFlight
  /\ \/ Command /\ doubts' = doubts \cup Edited
     \/ /\ UndoLastAction
        /\ doubts' = doubts \cup Edited \cup Doubt("deletion undone", Last(actionList).kind = "delete")
     \/ /\ RedoAction
        /\ doubts' = doubts \cup Edited \cup Doubt("creation redone", Last(redoActionList).kind = "create")
  /\ heap' \ heap \subseteq {NextFree(heap)}
  /\ NumberNewItem
  /\ Announce
  /\ UNCHANGED <<done, extras, linkVars, pendingRequests, requests, requestId, toClient, server>>

Extra ==
  /\ Len(toServer) + Len(toClient) < MaxInFlight
  /\ extras < MaxExtras /\ extras' = extras + 1
  /\ doubts' = doubts \cup Doubt("edited off line", ~connected)
  /\ UNCHANGED <<idVars, linkVars, pendingRequests, requests, requestId, toClient, server>>

\* The items setItemDone marks with i, in its order: not what is below an item
\* that is done already.
Marked(i) ==
  LET from[x \in NodeOrNil] ==
        IF x = Nil THEN <<>>
        ELSE (IF done[x] THEN <<>> ELSE <<x>> \o from[tree.firstChild[x]]) \o from[tree.next[x]]
  IN <<i>> \o from[tree.firstChild[i]]

DonePackets(items, state) ==
  [k \in DOMAIN items |-> [type |-> "PT_ITEM_DONE_CHANGED", item |-> itemId[items[k]],
                           done |-> state]]

\* setItemDone, from the box or the key of an item on screen: no action, so it
\* is not undone, and modified stays.
SetItemDone ==
  /\ \E i \in OnScreen :
       LET items == IF done[i] THEN <<i>> ELSE Marked(i) IN
       /\ done' = [x \in Node |-> IF \E k \in DOMAIN items : items[k] = x THEN ~done[i]
                                  ELSE done[x]]
       /\ Write(DonePackets(items, ~done[i]))
       /\ signals' = [k \in DOMAIN items |-> Sig("itemDoneChanged", items[k])]
  /\ UNCHANGED <<docVars, plugged>>
  /\ Extra

\* save and onDocumentSaved.
SaveDocument ==
  /\ Save
  /\ Write(<<[type |-> "PT_DOC_SAVE"]>>)
  /\ UNCHANGED done
  /\ Extra

---------------------------------------------------------------------------
(* LogAppServer::readData and the answers RemoteDB waits for.              *)

ClientFinds(i) == FindItem(tree, itemId, i)

\* The bug of not moving nextId past the ids the server sends.
LoadChildKeepingNextId(s, parent, child) ==
  LET new == NextFree(s.heap)
      prev == IF child.prev = NoId THEN Nil ELSE FindItem(s.tree, s.id, child.prev)
  IN [s EXCEPT !.tree = AddAsChild(@, parent, new, prev), !.heap = @ \cup {new},
               !.id = [@ EXCEPT ![new] = child.id], !.done = [@ EXCEPT ![new] = child.done],
               !.added = Append(@, Sig("itemAdded", new))]

\* The bug of ignoring the place the server gives.
LoadChildFirst(s, parent, child) ==
  LET new == NextFree(s.heap) IN
  [s EXCEPT !.tree = AddAsChild(@, parent, new, Nil), !.heap = @ \cup {new},
            !.id = [@ EXCEPT ![new] = child.id], !.done = [@ EXCEPT ![new] = child.done],
            !.nextId = IF child.id >= @ THEN child.id + 1 ELSE @,
            !.added = Append(@, Sig("itemAdded", new))]

\* One round of the loop in onItemListReceived: a new object for every entry,
\* linked after the item with the id the server saw before it.
LoadChild(s, parent, child) ==
  LET new == NextFree(s.heap)
      prev == IF child.prev = NoId THEN Nil ELSE FindItem(s.tree, s.id, child.prev)
  IN [tree |-> AddAsChild(s.tree, parent, new, prev),
      heap |-> s.heap \cup {new},
      id |-> [s.id EXCEPT ![new] = child.id],
      done |-> [s.done EXCEPT ![new] = child.done],
      nextId |-> IF child.id >= s.nextId THEN child.id + 1 ELSE s.nextId,
      added |-> Append(s.added, Sig("itemAdded", new))]

LoadChildren(parent, children) ==
  LET after[k \in 0..Len(children)] ==
        IF k = 0
        THEN [tree |-> tree, heap |-> heap, id |-> itemId, nextId |-> nextId, done |-> done,
              added |-> <<>>]
        ELSE LoadChild(after[k - 1], parent, children[k])
  IN after[Len(children)]

\* The bug of using one request_id for all of them.
RequestsForWithOneId(children) ==
  [k \in 1..2 * Len(children) |->
     [type |-> IF k % 2 = 1 THEN "PT_GET_CHILDREN" ELSE "PT_GET_ITEM",
      item |-> children[(k + 1) \div 2].id, request |-> requestId]]

\* The children and the data of every item received are asked for in turn.
RequestsFor(children) ==
  [k \in 1..2 * Len(children) |->
     [type |-> IF k % 2 = 1 THEN "PT_GET_CHILDREN" ELSE "PT_GET_ITEM",
      item |-> children[(k + 1) \div 2].id, request |-> requestId + k - 1]]

\* onItemListReceived: without the parent the whole list is dropped.
OnItemListReceived(answer) ==
  LET parent == ClientFinds(answer.item)
      children == IF parent = Nil THEN <<>> ELSE answer.children
      loaded == LoadChildren(parent, children)
      asked == RequestsFor(children)
  IN /\ Cardinality(Node \ heap) >= Len(children)
     /\ tree' = loaded.tree /\ heap' = loaded.heap
     /\ itemId' = loaded.id /\ nextId' = loaded.nextId /\ done' = loaded.done
     /\ signals' = loaded.added
     /\ plugged' = [x \in Item |-> plugged[x] \/ x \in heap' \ heap]
     /\ pendingRequests' = pendingRequests - 1 + Len(asked)
     /\ requests' = (requests \cup {asked[k].request : k \in DOMAIN asked}) \ {answer.request}
     /\ requestId' = requestId + Len(asked)
     /\ toServer' = toServer \o asked
     /\ UNCHANGED text

\* The bug of emitting itemTextChanged before the text is set.
OnItemReceivedEarlyEmit(answer) ==
  LET i == ClientFinds(answer.item) IN
  /\ UNCHANGED <<tree, heap, plugged, idVars, done, requestId>>
  /\ pendingRequests' = pendingRequests - 1
  /\ requests' = requests \ {answer.request}
  /\ IF i = Nil
     THEN UNCHANGED <<text, signals, toServer>>
     ELSE /\ text' = [text EXCEPT ![i] = answer.text]
          /\ signals' = <<Sig("itemTextChanged", i)>>
          /\ toServer' = Append(toServer, [type |-> "PT_ITEM_CHANGED", item |-> itemId[i],
                                           text |-> text[i]])

\* onItemReceived: the text is set, and itemTextChanged sends it back.
OnItemReceived(answer) ==
  LET i == ClientFinds(answer.item) IN
  /\ UNCHANGED <<tree, heap, plugged, idVars, done, requestId>>
  /\ pendingRequests' = pendingRequests - 1
  /\ requests' = requests \ {answer.request}
  /\ IF i = Nil
     THEN UNCHANGED <<text, signals, toServer>>
     ELSE /\ text' = [text EXCEPT ![i] = answer.text]
          /\ signals' = <<Sig("itemTextChanged", i)>>
          /\ toServer' = toServer \o PacketOf(signals'[1])

\* An answer goes to the RemoteDB that asked for it, once.  There always is one:
\* see RequestsMatched.
ClientReadsAnswer ==
  /\ toClient # <<>>
  /\ LET answer == Head(toClient) IN
     /\ answer.type # "PT_RESPONSE"
     /\ answer.request \in requests
     /\ \/ answer.type = "PT_GET_CHILDREN" /\ OnItemListReceived(answer)
        \/ answer.type = "PT_GET_ITEM" /\ OnItemReceived(answer)
  /\ toClient' = Tail(toClient)
  /\ UNCHANGED <<actionList, redoActionList, modified, extras, linkVars, server, doubts>>

\* The header of a PT_RESPONSE is read but not the two bytes that follow.
\* Alone they are thrown away by the next read.  When more packets are in the
\* buffer already, those are read two bytes off, as headers of no known type,
\* until the buffer is empty.
ClientReadsResponse ==
  /\ toClient # <<>> /\ Head(toClient).type = "PT_RESPONSE"
  /\ \E n \in 1..Len(toClient) :
       /\ toClient' = SubSeq(toClient, n + 1, Len(toClient))
       /\ doubts' = doubts \cup
            Doubt("answer misread", \E k \in 1..n : toClient[k].type # "PT_RESPONSE")
  /\ signals' = <<>>
  /\ UNCHANGED <<docVars, plugged, idVars, done, extras, linkVars, pendingRequests, requests, requestId,
                 toServer, server>>

\* TodoServer::incomingMessage, in the server's thread.
ServerReads ==
  /\ toServer # <<>>
  /\ LET packet == Head(toServer) IN
     /\ packet.type = "PT_ITEM_CREATED" => server.heap # Node  \* bound: objects
     /\ server' = Handle(server, packet)
     /\ toClient' = toClient \o Reply(server, packet)
  /\ toServer' = Tail(toServer)
  /\ signals' = <<>>
  /\ UNCHANGED <<docVars, plugged, idVars, done, extras, linkVars, pendingRequests, requests, requestId,
                 doubts>>

\* The connection is lost with what is under way, and made again later.  The
\* client asks for nothing again.
CutConnection(harm) ==
  /\ connected /\ losses < MaxLosses
  /\ connected' = FALSE /\ losses' = losses + 1
  /\ toServer' = <<>> /\ toClient' = <<>>
  /\ doubts' = doubts \cup harm \cup Doubt("packets lost",
       toServer # <<>> \/ \E k \in DOMAIN toClient : toClient[k].type # "PT_RESPONSE")
  /\ signals' = <<>>
  /\ UNCHANGED <<docVars, plugged, idVars, done, extras, pendingRequests, requests, requestId>>

LoseConnection == CutConnection({}) /\ UNCHANGED server

ConnectAgain ==
  /\ ~connected /\ connected' = TRUE
  /\ signals' = <<>>
  /\ UNCHANGED <<docVars, plugged, idVars, done, extras, losses, pendingRequests, requests,
                 requestId, toServer, toClient, server, doubts>>

---------------------------------------------------------------------------
\* ClientDocument::loadData and RemoteDB::start.
SyncInit ==
  /\ Init
  /\ itemId = [x \in Node |-> NoId]
  /\ nextId = FirstId
  /\ done = [x \in Node |-> FALSE]
  /\ extras = 0
  /\ connected = TRUE
  /\ losses = 0
  /\ pendingRequests = 1
  /\ requests = {0}
  /\ requestId = 1
  /\ toServer = <<[type |-> "PT_GET_CHILDREN", item |-> NoId, request |-> 0]>>
  /\ toClient = <<>>
  /\ server \in ServerCopies
  /\ doubts = {}

SyncNext == UserStep \/ SetItemDone \/ SaveDocument
            \/ LoseConnection \/ ConnectAgain
            \/ ClientReadsAnswer \/ ClientReadsResponse \/ ServerReads

SyncSpec == SyncInit /\ [][SyncNext]_syncVars

\* Both sides run an event loop: a packet that has arrived is read.
Reading == WF_syncVars(ClientReadsAnswer) /\ WF_syncVars(ClientReadsResponse)
           /\ WF_syncVars(ServerReads)

FairSpec == SyncSpec /\ Reading

---------------------------------------------------------------------------
(* Properties.                                                             *)

\* Requests and answers under way, by number.
Asked == {k \in DOMAIN toServer : toServer[k].type \in {"PT_GET_ITEM", "PT_GET_CHILDREN"}}
Answered == {k \in DOMAIN toClient : toClient[k].type # "PT_RESPONSE"}
UnderWay == {toServer[k].request : k \in Asked} \cup {toClient[k].request : k \in Answered}

\* pendingRequests counts the requests LogAppServer still has an owner for,
\* each is answered at most once, and no answer comes for a request nobody
\* owns ("error: no db for this request!").
RequestsMatched ==
  /\ pendingRequests = Cardinality(requests)
  /\ UnderWay \subseteq requests
  /\ Cardinality(UnderWay) = Cardinality(Asked) + Cardinality(Answered)

\* Unless a command was given before everything was loaded, no two objects of
\* the client ever have the same id, the detached ones included.
IdsUnique == "edited early" \notin doubts =>
  \A x, y \in heap : x # y => itemId[x] # itemId[y]

Labels(texts, flags) == [x \in Item |-> <<texts[x], flags[x]>>]

\* Once loaded, the client's document is what the server's copy will be when
\* it has handled what is under way: same items, order, nesting, texts and
\* done flags.
\* A deletion that was undone is not announced, a creation redone after an item
\* that is out of the tree ends up elsewhere on the server, and what is done
\* off line is never sent.  A connection lost between packets does no harm.
Mirror == pendingRequests = 0 /\ doubts = {} =>
  LET reached == HandleAll(server, toServer) IN
  Outline(tree, itemId, Labels(text, done)) =
    Outline(reached.tree, reached.id, Labels(reached.text, reached.done))

\* Reading a document does not change it: until the first command the server's
\* copy stays as it was, although every text is sent back as it arrives.
LoadingReadOnly == [][/\ actionList = <<>> /\ redoActionList = <<>> /\ extras = 0
                      /\ doubts \subseteq {"answer misread", "packets lost"}
                      => server' = server]_syncVars

\* Loading ends: every request is answered, down to the last item, unless an
\* answer was misread or lost or an item was taken out while it loaded.
LoadingEnds == <>(pendingRequests = 0 \/ doubts # {})

\* What the log of the client calls an error when a list arrives:
\* "ERROR: item already exists".
NoItemTwice == [][ClientReadsAnswer /\ Head(toClient).type = "PT_GET_CHILDREN" =>
  \A k \in DOMAIN Head(toClient).children :
    FindItem(tree, itemId, Head(toClient).children[k].id) = Nil]_syncVars
=============================================================================
