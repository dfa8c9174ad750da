-------------------------- MODULE DocumentsProofs --------------------------
(* First the connection by itself: its states agree, the polling stops only  *)
(* on a connection, and the documents are listed once.  Documents adds       *)
(* packets and files to Connection and changes nothing of it: each of its    *)
(* steps is a step of Connection or leaves it alone, so that what is proved  *)
(* of the connection holds on the composition.  Then, that an id names one   *)
(* document: by what the server has given of ids (IdsInv), and by where the  *)
(* one list and the answers to creations are (ListInv).                      *)
EXTENDS Documents, TLAPS, SequenceTheorems, FiniteSetTheorems

---------------------------------------------------------------------------
(* The slots of the connection, by themselves.                             *)

\* The constructors leave everything in order.
LEMMA InitInv == Init => IndInv
BY DEF Init, IndInv, TypeOK, StateFollowsSocket, StatusHasSocket,
       AskedWhenStarted, HungUpHasSocket

\* A socket that is aborted, from whichever slot.
LEMMA AbortKeeps ==
  ASSUME IndInv, NEW reason \in {"lost", "error"}, Abort(reason)
  PROVE  IndInv'
BY DEF IndInv, TypeOK, StateFollowsSocket, StatusHasSocket, AskedWhenStarted,
       HungUpHasSocket, Abort, OnServerDisconnected

\* Every event keeps the invariant.
LEMMA NextKeeps ==
  ASSUME IndInv, [Next]_vars
  PROVE  IndInv'
<1> USE DEF IndInv, TypeOK, StateFollowsSocket, StatusHasSocket,
            AskedWhenStarted, HungUpHasSocket
<1>1. CASE ServerPooling
  BY <1>1 DEF ServerPooling, ConnectToServer
<1>2. CASE ConnectionEstablished
  BY <1>2 DEF ConnectionEstablished, OnServerConnected
<1>3. CASE ConnectionRefused \/ SslErrors \/ ConnectionLost
  BY <1>3, AbortKeeps DEF ConnectionRefused, SslErrors, ConnectionLost
<1>4. CASE TcpConnected
  BY <1>4 DEF TcpConnected, clientVars
<1>5. CASE DocListReceived
  BY <1>5 DEF DocListReceived, clientVars
<1>6. CASE ServerStarts
  BY <1>6 DEF ServerStarts, clientVars
<1>7. CASE ServerStops \/ AnotherClient
  BY <1>7 DEF ServerStops, AnotherClient, HangUp, clientVars
<1>8. CASE ClientRestarts
  BY <1>8 DEF ClientRestarts
<1>9. CASE UNCHANGED vars
  BY <1>9 DEF vars, clientVars
<1>10. QED
  BY <1>1, <1>2, <1>3, <1>4, <1>5, <1>6, <1>7, <1>8, <1>9 DEF Next

\* The inductive invariant of the slots of LogAppServer and ApplicationControl.
THEOREM IndInvHolds == Spec => []IndInv
<1>1. Init => IndInv
  BY InitInv
<1>2. IndInv /\ [Next]_vars => IndInv'
  BY NextKeeps
<1>3. QED BY <1>1, <1>2, PTL DEF Spec

\* connectionState is CONNECTED exactly while the socket is encrypted
\* (onServerConnected, onServerDisconnected).
THEOREM StateAlwaysFollowsSocket == Spec => []StateFollowsSocket
<1>1. IndInv => StateFollowsSocket
  BY DEF IndInv
<1>2. QED BY <1>1, IndInvHolds, PTL

\* The timer is left only with a status of SS_CONNECTED, which has a socket
\* behind it.
LEMMA StopsOnSocket ==
  ASSUME IndInv, [Next]_vars
  PROVE  [timerActive /\ ~timerActive' => socket \in {"connected", "encrypted"}]_vars
<1>1. SUFFICES ASSUME Next, timerActive, ~timerActive'
               PROVE  socket \in {"connected", "encrypted"}
  OBVIOUS
<1>2. CASE ServerPooling
  BY <1>1, <1>2 DEF ServerPooling, IndInv, StatusHasSocket
<1>3. CASE ConnectionRefused \/ SslErrors \/ ConnectionLost
  BY <1>1, <1>3 DEF ConnectionRefused, SslErrors, ConnectionLost, Abort
<1>4. CASE \/ ConnectionEstablished \/ TcpConnected \/ DocListReceived
           \/ ServerStarts \/ ServerStops \/ AnotherClient \/ ClientRestarts
  BY <1>1, <1>4 DEF ConnectionEstablished, TcpConnected, DocListReceived, ServerStarts,
     ServerStops, AnotherClient, ClientRestarts, clientVars
<1>5. QED BY <1>1, <1>2, <1>3, <1>4 DEF Next

\* serverPooling stops only while the socket has a connection.
THEOREM PollingStopsOnlyConnected == Spec => PollingStops
<1>1. IndInv /\ [Next]_vars
      => [timerActive /\ ~timerActive' => socket \in {"connected", "encrypted"}]_vars
  BY StopsOnSocket
<1>2. QED BY <1>1, IndInvHolds, PTL DEF Spec, PollingStops

\* The list is asked for on leaving JUST_STARTED, and that state is left once.
LEMMA NeverAsksAgain ==
  ASSUME IndInv, [Next]_vars
  PROVE  [docList' = "asked" => docList \in {"not asked", "asked"}]_vars
<1>1. SUFFICES ASSUME Next, docList' = "asked"
               PROVE  docList \in {"not asked", "asked"}
  OBVIOUS
<1>2. CASE ConnectionEstablished
  BY <1>1, <1>2
     DEF ConnectionEstablished, OnServerConnected, IndInv, AskedWhenStarted, TypeOK
<1>3. CASE ConnectionRefused \/ SslErrors \/ ConnectionLost
  BY <1>1, <1>3 DEF ConnectionRefused, SslErrors, ConnectionLost, Abort
<1>4. CASE \/ ServerPooling \/ TcpConnected \/ DocListReceived
           \/ ServerStarts \/ ServerStops \/ AnotherClient \/ ClientRestarts
  BY <1>1, <1>4 DEF ServerPooling, TcpConnected, DocListReceived, ServerStarts,
     ServerStops, AnotherClient, ClientRestarts
<1>5. QED BY <1>1, <1>2, <1>3, <1>4 DEF Next

\* No step asks for the list of documents a second time.
THEOREM ListIsAskedOnce == Spec => ListAskedOnce
<1>1. IndInv /\ [Next]_vars => [docList' = "asked" => docList \in {"not asked", "asked"}]_vars
  BY NeverAsksAgain
<1>2. QED BY <1>1, IndInvHolds, PTL DEF Spec, ListAskedOnce

---------------------------------------------------------------------------
(* The connection among packets and files.                                 *)

\* The steps of the composition are steps of the connection: a server that
\* crashes stops, and reading a list is DocListReceived.
LEMMA StepsOfConnection ==
  ASSUME [DocumentsNext]_allVars
  PROVE  [Next]_vars
<1>1. CASE Start
  BY <1>1 DEF Start, Next
<1>2. CASE Stop
  BY <1>2 DEF Stop, Next
<1>3. CASE SendDocumentList
  BY <1>3 DEF SendDocumentList, Next
<1>4. CASE CreateDocument \/ CreateDocumentFails \/ UseDocument
  BY <1>4 DEF CreateDocument, CreateDocumentFails, UseDocument
<1>5. CASE CreateNewDocument \/ UseListed
  BY <1>5 DEF CreateNewDocument, UseListed
<1>6. CASE DocumentAdded
  BY <1>6 DEF DocumentAdded, Next
<1>7. CASE Disconnect
  BY <1>7 DEF Disconnect, Next
<1>8. CASE Encrypted
  BY <1>8 DEF Encrypted, Next
<1>9. CASE Pooling \/ OpenSocket
  BY <1>9 DEF Pooling, OpenSocket, Next
<1>10. CASE OtherClient \/ RestartClient
  BY <1>10 DEF OtherClient, RestartClient, Next
<1>11. CASE UNCHANGED allVars
  BY <1>11 DEF allVars
<1>12. QED
  BY <1>1, <1>2, <1>3, <1>4, <1>5, <1>6, <1>7, <1>8, <1>9, <1>10, <1>11 DEF DocumentsNext

\* The composition starts where the connection does.
LEMMA StartsAsConnection == DocumentsInit => Init
BY DEF DocumentsInit

\* The slots of LogAppServer and ApplicationControl keep their invariant with
\* packets, files and other clients around them.
THEOREM DocumentsKeepConnection == DocumentsSpec => []IndInv
<1>1. DocumentsInit => IndInv
  BY StartsAsConnection, InitInv
<1>2. IndInv /\ [DocumentsNext]_allVars => IndInv'
  BY StepsOfConnection, NextKeeps
<1>3. QED BY <1>1, <1>2, PTL DEF DocumentsSpec

\* While documents are listed, created and used, connectionState is CONNECTED
\* exactly while the socket is encrypted (onServerConnected,
\* onServerDisconnected).
THEOREM DocumentsFollowSocket == DocumentsSpec => []StateFollowsSocket
<1>1. IndInv => StateFollowsSocket
  BY DEF IndInv
<1>2. QED BY <1>1, DocumentsKeepConnection, PTL

\* And the polling stops only while the socket has a connection, whatever else
\* is under way (serverPooling).
THEOREM DocumentsPollingStops == DocumentsSpec => PollingStops
<1>1. IndInv /\ [Next]_vars
      => [timerActive /\ ~timerActive' => socket \in {"connected", "encrypted"}]_vars
  BY StopsOnSocket
<1>2. QED BY <1>1, StepsOfConnection, DocumentsKeepConnection, PTL DEF DocumentsSpec, PollingStops

\* A connection that is lost and made again, among all else, never has the
\* list of documents asked for a second time (onServerConnected).
THEOREM DocumentsAskListOnce == DocumentsSpec => ListAskedOnce
<1>1. IndInv /\ [Next]_vars => [docList' = "asked" => docList \in {"not asked", "asked"}]_vars
  BY NeverAsksAgain
<1>2. QED BY <1>1, StepsOfConnection, DocumentsKeepConnection, PTL DEF DocumentsSpec, ListAskedOnce

---------------------------------------------------------------------------
(* Packets and files.                                                      *)

\* What is sent: an id with the document it means, and packets of them.
NamedDoc == [id : Nat, meant : Nat \ {NoFile}]
NamedDocs == {ds \in SUBSET NamedDoc : IsFiniteSet(ds)}
Request == [type : {"list", "create", "use"}, docs : NamedDocs]
Answer == [type : {"list", "create"}, docs : NamedDocs]
\* The documents that the client has or that are under way.
Held == idsToDocs \cup Carried(toServer) \cup Carried(toClient)

\* The type of every variable that Documents adds to Connection.
DocumentsType ==
  /\ files \in Seq(Nat \ {NoFile})
  /\ docs \in [DOMAIN docs -> Nat] /\ DOMAIN docs \subseteq Nat /\ IsFiniteSet(DOMAIN docs)
  /\ maxId \in Nat
  /\ toServer \in Seq(Request) /\ toClient \in Seq(Answer)
  /\ idsToDocs \subseteq NamedDoc
  /\ story \subseteq Events

\* Where the request for the list, or the list, is among packets.
NoList(packets) == \A k \in DOMAIN packets : packets[k].type # "list"

\* What packets carry, one by one.
LEMMA CarriedOf ==
  ASSUME NEW s, NEW d
  PROVE  d \in Carried(s) <=> \E k \in DOMAIN s : d \in s[k].docs
BY DEF Carried, ToSet

\* No packets carry nothing.
LEMMA CarriedEmpty == Carried(<<>>) = {}
BY CarriedOf

\* A packet more carries what it carries.
LEMMA CarriedAppend ==
  ASSUME NEW S, NEW s \in Seq(S), NEW p \in S
  PROVE  Carried(Append(s, p)) = Carried(s) \cup p.docs
<1>1. /\ DOMAIN Append(s, p) = 1..Len(s) + 1
      /\ DOMAIN s = 1..Len(s) /\ Len(s) \in Nat
      /\ \A k \in 1..Len(s) : Append(s, p)[k] = s[k]
      /\ Append(s, p)[Len(s) + 1] = p
  BY AppendProperties, LenProperties
<1>2. 1..Len(s) + 1 = 1..Len(s) \cup {Len(s) + 1}
  BY <1>1
<1>3. ASSUME NEW d
      PROVE  d \in Carried(Append(s, p)) <=> d \in Carried(s) \cup p.docs
  BY <1>1, <1>2, CarriedOf
<1>4. QED BY <1>3

\* And so do packets written after others.
LEMMA CarriedConcat ==
  ASSUME NEW S, NEW s \in Seq(S), NEW t \in Seq(S)
  PROVE  Carried(s \o t) = Carried(s) \cup Carried(t)
<1>1. /\ DOMAIN (s \o t) = 1..Len(s) + Len(t)
      /\ DOMAIN s = 1..Len(s) /\ Len(s) \in Nat
      /\ DOMAIN t = 1..Len(t) /\ Len(t) \in Nat
      /\ \A k \in 1..Len(s) + Len(t) : (s \o t)[k] = IF k <= Len(s) THEN s[k] ELSE t[k - Len(s)]
  BY ConcatProperties, LenProperties
<1>2. ASSUME NEW d \in Carried(s \o t)
      PROVE  d \in Carried(s) \cup Carried(t)
  <2>1. PICK k \in 1..Len(s) + Len(t) : d \in (s \o t)[k].docs
    BY <1>1, CarriedOf
  <2>2. CASE k <= Len(s)
    BY <1>1, <2>1, <2>2, CarriedOf
  <2>3. CASE ~(k <= Len(s))
    <3>1. k - Len(s) \in DOMAIN t /\ (s \o t)[k] = t[k - Len(s)]
      BY <1>1, <2>3
    <3>2. QED BY <2>1, <3>1, CarriedOf
  <2>4. QED BY <2>2, <2>3
<1>3. ASSUME NEW d \in Carried(s)
      PROVE  d \in Carried(s \o t)
  <2>1. PICK k \in 1..Len(s) : d \in s[k].docs
    BY <1>1, CarriedOf
  <2>2. k \in DOMAIN (s \o t) /\ (s \o t)[k] = s[k]
    BY <1>1
  <2>3. QED BY <2>1, <2>2, CarriedOf
<1>4. ASSUME NEW d \in Carried(t)
      PROVE  d \in Carried(s \o t)
  <2>1. PICK k \in 1..Len(t) : d \in t[k].docs
    BY <1>1, CarriedOf
  <2>2. k + Len(s) \in DOMAIN (s \o t) /\ (s \o t)[k + Len(s)] = t[k]
    BY <1>1
  <2>3. QED BY <2>1, <2>2, CarriedOf
<1>5. QED BY <1>2, <1>3, <1>4

\* The packet that is read carried what the rest does not bring.
LEMMA CarriedTail ==
  ASSUME NEW S, NEW s \in Seq(S), s # <<>>
  PROVE  Carried(s) = Head(s).docs \cup Carried(Tail(s))
<1>1. /\ DOMAIN s = 1..Len(s) /\ Len(s) \in Nat \ {0}
      /\ DOMAIN Tail(s) = 1..Len(s) - 1
      /\ \A k \in 1..Len(s) - 1 : Tail(s)[k] = s[k + 1]
      /\ Head(s) = s[1]
  BY HeadTailProperties, LenProperties, EmptySeq
<1>2. ASSUME NEW d \in Carried(s)
      PROVE  d \in Head(s).docs \cup Carried(Tail(s))
  <2>1. PICK k \in 1..Len(s) : d \in s[k].docs
    BY <1>1, CarriedOf
  <2>2. CASE k = 1
    BY <1>1, <2>1, <2>2
  <2>3. CASE k # 1
    <3>1. k - 1 \in DOMAIN Tail(s) /\ Tail(s)[k - 1] = s[k]
      BY <1>1, <2>3
    <3>2. QED BY <2>1, <3>1, CarriedOf
  <2>4. QED BY <2>2, <2>3
<1>3. ASSUME NEW d \in Carried(Tail(s))
      PROVE  d \in Carried(s)
  <2>1. PICK k \in DOMAIN Tail(s) : d \in Tail(s)[k].docs
    BY CarriedOf
  <2>2. k + 1 \in DOMAIN s /\ Tail(s)[k] = s[k + 1]
    BY <1>1
  <2>3. QED BY <2>1, <2>2, CarriedOf
<1>4. Head(s).docs \subseteq Carried(s)
  BY <1>1, CarriedOf
<1>5. QED BY <1>2, <1>3, <1>4

\* A file that is put among the others is one more.
LEMMA FileInserted ==
  ASSUME NEW S, NEW s \in Seq(S), NEW k \in 1..Len(s) + 1, NEW e \in S
  PROVE  /\ InsertAt(s, k, e) \in Seq(S)
         /\ Len(InsertAt(s, k, e)) = Len(s) + 1
         /\ ToSet(InsertAt(s, k, e)) = ToSet(s) \cup {e}
<1> DEFINE a == SubSeq(s, 1, k - 1)
           b == SubSeq(s, k, Len(s))
<1>1. /\ a \in Seq(S) /\ Len(a) = k - 1
      /\ DOMAIN a = 1..k - 1
      /\ \A i \in 1..k - 1 : a[i] = s[i]
  BY SubSeqProperties, LenProperties
<1>2. /\ b \in Seq(S) /\ Len(b) = Len(s) - k + 1
      /\ DOMAIN b = 1..Len(s) - k + 1
      /\ \A i \in 1..Len(s) - k + 1 : b[i] = s[i + k - 1]
  BY SubSeqProperties, LenProperties
<1>3. /\ DOMAIN s = 1..Len(s) /\ Len(s) \in Nat
  BY LenProperties
<1> DEFINE c == a \o <<e>>
<1> HIDE DEF a, b
<1>4. /\ c \in Seq(S) /\ Len(c) = k
      /\ \A i \in 1..k : c[i] = IF i < k THEN a[i] ELSE e
  BY <1>1
<1>5. InsertAt(s, k, e) = c \o b
  BY DEF InsertAt, a, b
<1> HIDE DEF c
<1>6. /\ c \o b \in Seq(S) /\ Len(c \o b) = Len(s) + 1
      /\ \A i \in 1..Len(c) + Len(b) : (c \o b)[i] = IF i <= Len(c) THEN c[i] ELSE b[i - Len(c)]
  <2>1. c \in Seq(S) /\ b \in Seq(S)
    BY <1>2, <1>4
  <2>2. /\ c \o b \in Seq(S) /\ Len(c \o b) = Len(c) + Len(b)
        /\ \A i \in 1..Len(c) + Len(b) : (c \o b)[i] = IF i <= Len(c) THEN c[i] ELSE b[i - Len(c)]
    BY <2>1, ConcatProperties
  <2>3. Len(c) + Len(b) = Len(s) + 1
    BY <1>2, <1>3, <1>4
  <2>4. QED BY <2>2, <2>3
<1> DEFINE t == c \o b
<1>7. DOMAIN t = 1..Len(s) + 1
  BY <1>6, LenProperties
<1>8. t[k] = e /\ k \in DOMAIN t
  BY <1>2, <1>3, <1>4, <1>6, <1>7
<1>9. ASSUME NEW i \in 1..Len(s)
      PROVE  \E j \in DOMAIN t : t[j] = s[i]
  <2>1. CASE i < k
    <3>1. i \in 1..Len(c) + Len(b) /\ i \in 1..k - 1 /\ i <= Len(c)
      BY <1>2, <1>3, <1>4, <2>1
    <3>2. t[i] = c[i] /\ c[i] = a[i] /\ a[i] = s[i]
      BY <1>1, <1>4, <1>6, <2>1, <3>1
    <3>3. QED BY <1>7, <3>2
  <2>2. CASE ~(i < k)
    <3>1. /\ i + 1 \in 1..Len(c) + Len(b) /\ ~(i + 1 <= Len(c))
          /\ i + 1 - Len(c) \in 1..Len(s) - k + 1
          /\ (i + 1 - Len(c)) + k - 1 = i
      BY <1>2, <1>3, <1>4, <2>2
    <3>2. t[i + 1] = b[i + 1 - Len(c)]
      BY <1>6, <3>1
    <3>3. b[i + 1 - Len(c)] = s[i]
      BY <1>2, <3>1
    <3>4. i + 1 \in DOMAIN t
      BY <1>3, <1>7
    <3>5. QED BY <3>2, <3>3, <3>4
  <2>3. QED BY <2>1, <2>2
<1>10. ASSUME NEW j \in 1..Len(s) + 1, j # k
       PROVE  \E i \in DOMAIN s : t[j] = s[i]
  <2>1. CASE j < k
    <3>1. j \in 1..Len(c) + Len(b) /\ j \in 1..k - 1 /\ j <= Len(c) /\ j \in DOMAIN s
      BY <1>2, <1>3, <1>4, <2>1
    <3>2. t[j] = c[j] /\ c[j] = a[j] /\ a[j] = s[j]
      BY <1>1, <1>4, <1>6, <2>1, <3>1
    <3>3. QED BY <3>1, <3>2
  <2>2. CASE ~(j < k)
    <3>1. /\ j \in 1..Len(c) + Len(b) /\ ~(j <= Len(c))
          /\ j - Len(c) \in 1..Len(s) - k + 1
          /\ (j - Len(c)) + k - 1 = j - 1
          /\ j - 1 \in DOMAIN s
      BY <1>2, <1>3, <1>4, <1>10, <2>2
    <3>2. t[j] = b[j - Len(c)]
      BY <1>6, <3>1
    <3>3. b[j - Len(c)] = s[j - 1]
      BY <1>2, <3>1
    <3>4. QED BY <3>1, <3>2, <3>3
  <2>3. QED BY <2>1, <2>2
<1> HIDE DEF t
<1>11. ASSUME NEW f
       PROVE  f \in ToSet(t) <=> f \in ToSet(s) \/ f = e
  BY <1>3, <1>7, <1>8, <1>9, <1>10 DEF ToSet
<1>12. ToSet(t) = ToSet(s) \cup {e}
  BY <1>11
<1>13. QED BY <1>5, <1>6, <1>12 DEF t

\* The requests of the client are well formed.
LEMMA PacketsMade ==
  /\ Ask \in Request /\ Create \in Request
  /\ \A d \in NamedDoc : {d} \in NamedDocs /\ Use(d) \in Request
<1>1. {} \in NamedDocs
  BY FS_EmptySet DEF NamedDocs
<1>2. \A d \in NamedDoc : {d} \in NamedDocs
  BY FS_Singleton DEF NamedDocs
<1>3. QED BY <1>1, <1>2 DEF Ask, Create, Use, Request

\* What a finite set is mapped onto is finite.
LEMMA ImageIsFinite ==
  ASSUME NEW S, IsFiniteSet(S), NEW T, NEW f \in [S -> T], \A t \in T : \E x \in S : f[x] = t
  PROVE  IsFiniteSet(T)
<1>1. f \in Surjection(S, T)
  BY DEF Surjection
<1>2. QED BY <1>1, FS_Surjection

\* What sendDocumentList sends of its documents.
LEMMA NamedIsFinite ==
  ASSUME NEW map, DOMAIN map \subseteq Nat, IsFiniteSet(DOMAIN map),
         \A id \in DOMAIN map : map[id] \in Nat \ {NoFile}
  PROVE  Named(DOMAIN map, map) \in NamedDocs
<1>1. IsFiniteSet(Named(DOMAIN map, map))
  <2> DEFINE f == [i \in DOMAIN map |-> [id |-> i, meant |-> map[i]]]
  <2>1. f \in [DOMAIN map -> Named(DOMAIN map, map)]
    BY DEF Named
  <2>2. \A d \in Named(DOMAIN map, map) : \E i \in DOMAIN map : f[i] = d
    BY DEF Named
  <2> HIDE DEF f
  <2>3. QED BY <2>1, <2>2, ImageIsFinite
<1>2. QED BY <1>1 DEF Named, NamedDocs, NamedDoc

\* The server numbers every file it has, up to MaxIdOf (TodoServer::TodoServer).
LEMMA NumberedType ==
  ASSUME NEW fs \in Seq(Nat \ {NoFile})
  PROVE  /\ DOMAIN Numbered(fs) \subseteq Nat /\ IsFiniteSet(DOMAIN Numbered(fs))
         /\ \A id \in DOMAIN Numbered(fs) :
              /\ Numbered(fs)[id] \in Nat \ {NoFile} 
              /\ id <= MaxIdOf(fs)
         /\ Numbered(fs) \in [DOMAIN Numbered(fs) -> Nat]
         /\ MaxIdOf(fs) \in Nat
         /\ \A f \in ToSet(fs) : \E id \in DOMAIN Numbered(fs) : Numbered(fs)[id] = f
<1>1. Len(fs) \in Nat /\ FirstDocId \in Nat \ {0} /\ DOMAIN fs = 1..Len(fs)
  BY LenProperties, DocumentsAssumption
<1>2. DOMAIN Numbered(fs) = FirstDocId..FirstDocId + Len(fs) - 1
  BY DEF Numbered
<1>3. IsFiniteSet(DOMAIN Numbered(fs))
  BY <1>1, <1>2, FS_Interval
<1>4. ASSUME NEW id \in DOMAIN Numbered(fs)
      PROVE  /\ id \in Nat /\ id - FirstDocId + 1 \in DOMAIN fs /\ fs # <<>>
             /\ Numbered(fs)[id] = fs[id - FirstDocId + 1]
             /\ id <= FirstDocId + Len(fs) - 1
  BY <1>1, <1>2 DEF Numbered
<1>5. ASSUME NEW f \in ToSet(fs)
      PROVE  \E id \in DOMAIN Numbered(fs) : Numbered(fs)[id] = f
  <2>1. PICK k \in 1..Len(fs) : f = fs[k]
    BY <1>1 DEF ToSet
  <2>2. PICK id \in DOMAIN Numbered(fs) : id - FirstDocId + 1 = k
    <3>1. FirstDocId + k - 1 \in DOMAIN Numbered(fs) /\ FirstDocId + k - 1 - FirstDocId + 1 = k
      BY <1>1, <1>2
    <3>2. QED BY <1>1, <3>1
  <2>3. QED BY <1>4, <2>1, <2>2
<1>6. MaxIdOf(fs) \in Nat
  <2>1. CASE fs = <<>>
    BY <2>1 DEF MaxIdOf
  <2>2. CASE fs # <<>>
    BY <1>1, <2>2, EmptySeq DEF MaxIdOf
  <2>3. QED BY <2>1, <2>2
<1>7. Numbered(fs) = [id \in DOMAIN Numbered(fs) |-> Numbered(fs)[id]]
  BY DEF Numbered
<1>8. \A id \in DOMAIN Numbered(fs) : Numbered(fs)[id] \in Nat \ {NoFile} /\ id <= MaxIdOf(fs)
  BY <1>1, <1>4, ElementOfSeq DEF MaxIdOf
<1>9. QED BY <1>3, <1>4, <1>5, <1>6, <1>7, <1>8

\* The ids a packet asks for.
LEMMA AskedIsFinite ==
  ASSUME NEW ds \in NamedDocs
  PROVE  IsFiniteSet({d.id : d \in ds}) /\ {d.id : d \in ds} \subseteq Nat
<1> DEFINE f == [d \in ds |-> d.id]
<1>1. f \in [ds -> {d.id : d \in ds}]
  OBVIOUS
<1>2. \A i \in {d.id : d \in ds} : \E d \in ds : f[d] = i
  OBVIOUS
<1>3. IsFiniteSet(ds) /\ ds \subseteq NamedDoc
  BY DEF NamedDocs
<1>4. {d.id : d \in ds} \subseteq Nat
  BY <1>3 DEF NamedDoc
<1> HIDE DEF f
<1>5. QED BY <1>1, <1>2, <1>3, <1>4, ImageIsFinite

\* What the window asks for when documents have come.
LEMMA UsesAsked ==
  ASSUME NEW come \in NamedDocs, NEW sorted \in [1..Cardinality(come) -> come],
         NEW uses, uses = [k \in DOMAIN sorted |-> Use(sorted[k])]
  PROVE  /\ uses \in Seq(Request)
         /\ Carried(uses) \subseteq come
         /\ \A k \in DOMAIN uses : uses[k].type # "list"
<1>1. Cardinality(come) \in Nat
  BY FS_CardinalityType DEF NamedDocs
<1>2. come \subseteq NamedDoc
  BY DEF NamedDocs
<1>3. uses \in [1..Cardinality(come) -> Request]
  BY <1>2, PacketsMade
<1>4. uses \in Seq(Request)
  BY <1>1, <1>3
<1>5. ASSUME NEW d \in Carried(uses)
      PROVE  d \in come
  <2>1. PICK k \in DOMAIN uses : d \in uses[k].docs
    BY CarriedOf
  <2>2. uses[k].docs = {sorted[k]}
    BY DEF Use
  <2>3. QED BY <2>1, <2>2
<1>6. QED BY <1>4, <1>5 DEF Use

\* A packet that is read.
LEMMA PacketRead ==
  ASSUME NEW S, NEW s \in Seq(S), s # <<>>
  PROVE  Head(s) \in S /\ Tail(s) \in Seq(S)
BY HeadTailProperties

\* Every step keeps the types: what is sent and stored is well formed.
LEMMA TypeKept ==
  ASSUME DocumentsType, [DocumentsNext]_allVars
  PROVE  DocumentsType'
<1> USE DEF DocumentsType
<1>1. CASE Start
  <2>1. story' \subseteq Events
    BY <1>1 DEF Start, Events
  <2>2. QED BY <1>1, <2>1, NumberedType DEF Start
<1>2. CASE Stop
  <2>1. IsFiniteSet({}) /\ DOMAIN NoDocs = {} /\ NoDocs = [id \in DOMAIN NoDocs |-> NoDocs[id]]
    BY FS_EmptySet DEF NoDocs
  <2>2. QED BY <1>2, <2>1 DEF Stop, NoDocs
<1>3. CASE SendDocumentList
  <2>1. Tail(toServer) \in Seq(Request)
    BY <1>3, PacketRead DEF SendDocumentList, Reads
  <2>2. CASE NoFile \in {docs[id] : id \in DOMAIN docs}
    <3>1. IsFiniteSet({}) /\ DOMAIN NoDocs = {} /\ NoDocs = [id \in DOMAIN NoDocs |-> NoDocs[id]]
      BY FS_EmptySet DEF NoDocs
    <3>2. story' \subseteq Events
      BY <1>3, <2>2 DEF SendDocumentList, Events
    <3>3. QED BY <1>3, <2>1, <2>2, <3>1, <3>2 DEF SendDocumentList, Reads, NoDocs
  <2>3. CASE NoFile \notin {docs[id] : id \in DOMAIN docs}
    <3>1. Named(DOMAIN docs, docs) \in NamedDocs
      BY <2>3, NamedIsFinite
    <3>2. [type |-> "list", docs |-> Named(DOMAIN docs, docs)] \in Answer
      BY <3>1 DEF Answer
    <3>3. toClient' = Append(toClient, [type |-> "list", docs |-> Named(DOMAIN docs, docs)])
      BY <1>3, <2>3 DEF SendDocumentList
    <3>4. toClient' \in Seq(Answer)
      BY <3>2, <3>3, AppendProperties
    <3>5. QED BY <1>3, <2>1, <2>3, <3>4 DEF SendDocumentList, Reads
  <2>4. QED BY <2>2, <2>3
<1>4. CASE CreateDocument
  <2>1. Tail(toServer) \in Seq(Request)
    BY <1>4, PacketRead DEF CreateDocument, Reads
  <2>2. PICK k \in 1..Len(files) + 1 :
          /\ files' = InsertAt(files, k, Len(files) + 1)
          /\ docs' = [id \in DOMAIN docs \cup {GetNextDocId} |->
                        IF id = GetNextDocId THEN Len(files) + 1 ELSE docs[id]]
          /\ toClient' = Append(toClient, [type |-> "create",
                           docs |-> {[id |-> GetNextDocId, meant |-> Len(files) + 1]}])
    BY <1>4 DEF CreateDocument
  <2>3. GetNextDocId \in Nat /\ Len(files) + 1 \in Nat \ {NoFile}
    BY LenProperties DEF GetNextDocId, NoFile
  <2>4. files' \in Seq(Nat \ {NoFile})
    BY <2>2, <2>3, FileInserted
  <2>5. [type |-> "create", docs |-> {[id |-> GetNextDocId, meant |-> Len(files) + 1]}] \in Answer
    BY <2>3, PacketsMade DEF NamedDoc, Answer
  <2>6. toClient' \in Seq(Answer)
    BY <2>2, <2>5, AppendProperties
  <2>7. IsFiniteSet(DOMAIN docs')
    BY <2>2, FS_AddElement
  <2>8. story' \subseteq Events
    BY <1>4 DEF CreateDocument, Events
  <2>9. docs' \in [DOMAIN docs' -> Nat] /\ DOMAIN docs' \subseteq Nat
    BY <2>2, <2>3
  <2>10. maxId' \in Nat
    BY <1>4, <2>3 DEF CreateDocument
  <2>11. QED BY <1>4, <2>1, <2>4, <2>6, <2>7, <2>8, <2>9, <2>10 DEF CreateDocument, Reads
<1>5. CASE CreateDocumentFails
  BY <1>5, PacketRead DEF CreateDocumentFails, Reads
<1>6. CASE UseDocument
  <2> DEFINE asked == {d.id : d \in Head(toServer).docs}
  <2>1. Head(toServer) \in Request /\ toServer' \in Seq(Request)
    BY <1>6, PacketRead DEF UseDocument, Reads
  <2>2. IsFiniteSet(asked) /\ asked \subseteq Nat
    <3>1. Head(toServer).docs \in NamedDocs
      BY <2>1 DEF Request
    <3>2. QED BY <3>1, AskedIsFinite
  <2>3. docs' = [id \in DOMAIN docs \cup asked |-> IF id \in DOMAIN docs THEN docs[id] ELSE NoFile]
    BY <1>6 DEF UseDocument
  <2> HIDE DEF asked
  <2>4. IsFiniteSet(DOMAIN docs')
    BY <2>2, <2>3, FS_Union
  <2>5. docs' \in [DOMAIN docs' -> Nat] /\ DOMAIN docs' \subseteq Nat
    BY <2>2, <2>3 DEF NoFile
  <2>6. QED BY <1>6, <2>1, <2>4, <2>5 DEF UseDocument
<1>7. CASE CreateNewDocument
  <2>1. <<Create>> \in Seq(Request)
    BY PacketsMade
  <2>2. toServer' \in Seq(Request)
    BY <1>7, <2>1, ConcatProperties DEF CreateNewDocument, Write
  <2>3. story' \subseteq Events
    BY <1>7 DEF CreateNewDocument, Events
  <2>4. QED BY <1>7, <2>2, <2>3 DEF CreateNewDocument
<1>8. CASE UseListed
  <2>1. PICK d \in idsToDocs : Write(<<Use(d)>>)
    BY <1>8 DEF UseListed
  <2>2. Use(d) \in Request
    BY PacketsMade
  <2>3. <<Use(d)>> \in Seq(Request)
    BY <2>2
  <2>4. toServer' \in Seq(Request)
    BY <2>1, <2>3, ConcatProperties DEF Write
  <2>5. QED BY <1>8, <2>4 DEF UseListed
<1>9. CASE DocumentAdded
  <2> DEFINE come == Head(toClient).docs
  <2>1. Head(toClient) \in Answer /\ Tail(toClient) \in Seq(Answer)
    BY <1>9, PacketRead DEF DocumentAdded
  <2>2. come \in NamedDocs /\ come \subseteq NamedDoc
    BY <2>1 DEF Answer, NamedDocs
  <2>3. PICK sorted \in [1..Cardinality(come) -> come] :
          Write([k \in DOMAIN sorted |-> Use(sorted[k])])
    BY <1>9 DEF DocumentAdded
  <2> DEFINE uses == [k \in DOMAIN sorted |-> Use(sorted[k])]
  <2> HIDE DEF come
  <2>4. uses \in Seq(Request)
    BY <2>2, UsesAsked
  <2>5. toServer' \in Seq(Request)
    BY <2>3, <2>4, ConcatProperties DEF Write
  <2>6. idsToDocs' \subseteq NamedDoc /\ story' \subseteq Events
    BY <1>9, <2>2 DEF DocumentAdded, Events, come
  <2>7. QED BY <1>9, <2>1, <2>5, <2>6 DEF DocumentAdded, come
<1>10. CASE Disconnect
  <2>1. story' \subseteq Events
    BY <1>10 DEF Disconnect, Events
  <2>2. QED BY <1>10, <2>1, EmptySeq DEF Disconnect
<1>11. CASE Encrypted
  <2>1. toServer' \in Seq(Request)
    BY <1>11, PacketsMade, ConcatProperties DEF Encrypted
  <2>2. QED BY <1>11, <2>1 DEF Encrypted
<1>12. CASE Pooling \/ OpenSocket \/ OtherClient \/ UNCHANGED allVars
  BY <1>12 DEF Pooling, OpenSocket, OtherClient, documentVars, allVars
<1>13. CASE RestartClient
  <2>1. story' \subseteq Events
    BY <1>13 DEF RestartClient, Events
  <2>2. QED BY <1>13, <2>1, EmptySeq DEF RestartClient
<1>14. QED
  BY <1>1, <1>2, <1>3, <1>4, <1>5, <1>6, <1>7, <1>8, <1>9, <1>10, <1>11, <1>12, <1>13 DEF DocumentsNext

\* What DocumentAdded writes are requests of the documents that came.
LEMMA DocumentAddedWrites ==
  ASSUME DocumentsType, DocumentAdded
  PROVE  \E uses \in Seq(Request) :
           /\ toServer' = toServer \o uses
           /\ Carried(uses) \subseteq Head(toClient).docs
           /\ NoList(uses)
<1> DEFINE come == Head(toClient).docs
<1>1. Head(toClient) \in Answer
  BY PacketRead DEF DocumentAdded, DocumentsType
<1>2. come \in NamedDocs
  BY <1>1 DEF Answer
<1>3. PICK sorted \in [1..Cardinality(come) -> come] :
        Write([k \in DOMAIN sorted |-> Use(sorted[k])])
  BY DEF DocumentAdded
<1> DEFINE uses == [k \in DOMAIN sorted |-> Use(sorted[k])]
<1> HIDE DEF come
<1>4. uses \in Seq(Request) /\ Carried(uses) \subseteq come /\ NoList(uses)
  BY <1>2, UsesAsked DEF NoList
<1>5. toServer' = toServer \o uses
  BY <1>3 DEF Write, DocumentAdded
<1>6. QED BY <1>4, <1>5 DEF come

\* One packet more on the wire.
LEMMA CarriedWritten ==
  ASSUME NEW S, NEW s \in Seq(S), NEW p \in S
  PROVE  Carried(s \o <<p>>) = Carried(s) \cup p.docs
<1>1. s \o <<p>> = Append(s, p)
  BY AppendIsConcat
<1>2. QED BY <1>1, CarriedAppend

\* What the client and the wires have of documents comes from the two answers
\* of the server.
LEMMA HeldSteps ==
  ASSUME DocumentsType, [DocumentsNext]_allVars
  PROVE  \/ Held' \subseteq Held
         \/ /\ SendDocumentList
            /\ NoFile \notin {docs[id] : id \in DOMAIN docs}
            /\ Held' \subseteq Held \cup Named(DOMAIN docs, docs)
         \/ /\ CreateDocument
            /\ Held' \subseteq Held \cup {[id |-> GetNextDocId, meant |-> Len(files) + 1]}
<1> USE DEF DocumentsType, Held
<1>1. CASE Start \/ Stop \/ Pooling \/ OpenSocket \/ OtherClient \/ UNCHANGED allVars
  BY <1>1 DEF Start, Stop, Pooling, OpenSocket, OtherClient, documentVars, allVars
<1>2. CASE SendDocumentList
  <2>1. toServer # <<>> /\ toServer' = Tail(toServer)
    BY <1>2 DEF SendDocumentList, Reads
  <2>2. Carried(toServer') \subseteq Carried(toServer)
    BY <2>1, CarriedTail
  <2>3. CASE NoFile \in {docs[id] : id \in DOMAIN docs}
    BY <1>2, <2>2, <2>3 DEF SendDocumentList
  <2>4. CASE NoFile \notin {docs[id] : id \in DOMAIN docs}
    <3>1. toClient' = Append(toClient, [type |-> "list", docs |-> Named(DOMAIN docs, docs)])
      BY <1>2, <2>4 DEF SendDocumentList
    <3>2. [type |-> "list", docs |-> Named(DOMAIN docs, docs)] \in Answer
      <4>1. Named(DOMAIN docs, docs) \in NamedDocs
        BY <2>4, NamedIsFinite
      <4>2. QED BY <4>1 DEF Answer
    <3>3. Carried(toClient') = Carried(toClient) \cup Named(DOMAIN docs, docs)
      BY <3>1, <3>2, CarriedAppend
    <3>4. idsToDocs' = idsToDocs
      BY <1>2 DEF SendDocumentList
    <3>5. QED BY <1>2, <2>2, <2>4, <3>3, <3>4
  <2>5. QED BY <2>3, <2>4
<1>3. CASE CreateDocument
  <2> DEFINE answer == [type |-> "create",
                        docs |-> {[id |-> GetNextDocId, meant |-> Len(files) + 1]}]
  <2>1. toServer # <<>> /\ toServer' = Tail(toServer) /\ toClient' = Append(toClient, answer)
    BY <1>3 DEF CreateDocument, Reads
  <2>2. Carried(toServer') \subseteq Carried(toServer)
    BY <2>1, CarriedTail
  <2>3. answer \in Answer
    <3>1. GetNextDocId \in Nat /\ Len(files) + 1 \in Nat \ {NoFile}
      BY LenProperties DEF GetNextDocId, NoFile
    <3>2. QED BY <3>1, PacketsMade DEF NamedDoc, Answer
  <2>4. Carried(toClient') = Carried(toClient) \cup answer.docs
    BY <2>1, <2>3, CarriedAppend
  <2>5. idsToDocs' = idsToDocs
    BY <1>3 DEF CreateDocument
  <2>6. QED BY <1>3, <2>2, <2>4, <2>5
<1>4. CASE CreateDocumentFails \/ UseDocument
  <2>1. toServer # <<>> /\ toServer' = Tail(toServer) /\ UNCHANGED <<toClient, idsToDocs>>
    BY <1>4 DEF CreateDocumentFails, UseDocument, Reads
  <2>2. Carried(toServer') \subseteq Carried(toServer)
    BY <2>1, CarriedTail
  <2>3. QED BY <2>1, <2>2
<1>5. CASE CreateNewDocument
  <2>1. Carried(toServer \o <<Create>>) = Carried(toServer) \cup Create.docs
    BY PacketsMade, CarriedWritten
  <2>2. Carried(toServer') \subseteq Carried(toServer)
    BY <1>5, <2>1 DEF CreateNewDocument, Write, Create
  <2>3. QED BY <1>5, <2>2 DEF CreateNewDocument
<1>6. CASE UseListed
  <2>1. PICK d \in idsToDocs : Write(<<Use(d)>>)
    BY <1>6 DEF UseListed
  <2>2. Use(d) \in Request
    BY PacketsMade
  <2>3. Carried(toServer \o <<Use(d)>>) = Carried(toServer) \cup Use(d).docs
    BY <2>2, CarriedWritten
  <2>4. Carried(toServer') \subseteq Carried(toServer) \cup {d}
    BY <2>1, <2>3 DEF Write, Use
  <2>5. QED BY <1>6, <2>4 DEF UseListed
<1>7. CASE DocumentAdded
  <2>1. PICK uses \in Seq(Request) :
          toServer' = toServer \o uses /\ Carried(uses) \subseteq Head(toClient).docs
    BY <1>7, DocumentAddedWrites
  <2>2. Carried(toServer') = Carried(toServer) \cup Carried(uses)
    BY <2>1, CarriedConcat
  <2>3. Carried(toClient) = Head(toClient).docs \cup Carried(toClient')
    BY <1>7, CarriedTail DEF DocumentAdded
  <2>4. idsToDocs' \subseteq idsToDocs \cup Head(toClient).docs
    BY <1>7 DEF DocumentAdded
  <2>5. QED BY <2>1, <2>2, <2>3, <2>4
<1>8. CASE Disconnect \/ RestartClient
  <2>1. Carried(toServer') = {} /\ Carried(toClient') = {} /\ idsToDocs' \subseteq idsToDocs
    BY <1>8, CarriedEmpty DEF Disconnect, RestartClient
  <2>2. QED BY <2>1
<1>9. CASE Encrypted
  <2>1. toServer' = toServer \o <<Ask>> \/ toServer' = toServer
    BY <1>9 DEF Encrypted
  <2>2. Carried(toServer \o <<Ask>>) = Carried(toServer) \cup Ask.docs
    BY PacketsMade, CarriedWritten
  <2>3. Carried(toServer') \subseteq Carried(toServer)
    BY <2>1, <2>2 DEF Ask
  <2>4. QED BY <1>9, <2>3 DEF Encrypted
<1>10. QED
  BY <1>1, <1>2, <1>3, <1>4, <1>5, <1>6, <1>7, <1>8, <1>9 DEF DocumentsNext

\* The next start gives the id to this file.
InFiles(id, f) == id \in DOMAIN Numbered(files) /\ Numbered(files)[id] = f

\* No id was given that is above maxId, so that the next one is new.
IdsGiven ==
  /\ serverUp => /\ maxId <= MaxIdOf(files)
                 /\ \A id \in DOMAIN docs : docs[id] # NoFile => id <= maxId
  /\ \A d \in Held : d.id <= IF serverUp THEN maxId ELSE MaxIdOf(files)

\* A server that is up has every file under some id.
FilesOpen == serverUp => \A f \in ToSet(files) : \E id \in DOMAIN docs : docs[id] = f

\* Until a document is created the ids are those of the next start.
AsNumbered == "grown" \notin story =>
  /\ serverUp => \A id \in DOMAIN docs : docs[id] # NoFile => InFiles(id, docs[id])
  /\ "stale" \notin story => \A d \in Held : InFiles(d.id, d.meant)

\* Of one id there is one meaning.
NamesAgree == "stale" \notin story => \A d, e \in Held : d.id = e.id => d.meant = e.meant

\* A server that was never started again after a creation has no null document.
NoNullDocument ==
  /\ "stale" \in story => "regrown" \in story
  /\ serverUp /\ "regrown" \notin story => \A id \in DOMAIN docs : docs[id] # NoFile

\* What the server has given of ids, together.
IdsInv == /\ IdsGiven /\ FilesOpen /\ AsNumbered /\ NamesAgree /\ IdsNameDocuments
          /\ NoNullDocument /\ ServerSurvives

\* What the answer to a creation brings.
Created == [id |-> GetNextDocId, meant |-> Len(files) + 1]
\* These events happened or not as before.
SameStory(events) == \A x \in events : x \in story' <=> x \in story

\* The kinds of step, by what becomes of the server and of the ids held.
ServerComes == /\ Start /\ ~serverUp /\ serverUp' /\ files' = files
               /\ docs' = Numbered(files) /\ maxId' = MaxIdOf(files)
               /\ Held' \subseteq Held
ServerGoes == /\ serverUp /\ ~serverUp' /\ files' = files /\ Held' \subseteq Held
              /\ SameStory({"grown", "stale", "regrown"})
              /\ "crashed" \in story' =>
                   "crashed" \in story \/ NoFile \in {docs[id] : id \in DOMAIN docs}
FileCreated == /\ CreateDocument /\ serverUp /\ serverUp' /\ Held' \subseteq Held \cup {Created}
               /\ SameStory({"stale", "regrown", "crashed"})
DocumentUsed == UseDocument /\ serverUp /\ serverUp' /\ Held' \subseteq Held /\ story' = story
ListSent == /\ UNCHANGED <<serverUp, files, docs, maxId>>
            /\ SameStory({"grown", "stale", "regrown", "crashed"})
            /\ serverUp /\ NoFile \notin {docs[id] : id \in DOMAIN docs}
            /\ Held' \subseteq Held \cup Named(DOMAIN docs, docs)
ServerIdle == /\ UNCHANGED <<serverUp, files, docs, maxId>>
              /\ SameStory({"grown", "stale", "regrown", "crashed"})
              /\ Held' \subseteq Held
ClientForgets == /\ UNCHANGED <<serverUp, files, docs, maxId>>
                 /\ SameStory({"grown", "regrown", "crashed"})
                 /\ Held' = {} /\ "stale" \notin story'

\* Every step is of one of them.
LEMMA ServerSteps ==
  ASSUME DocumentsType, [DocumentsNext]_allVars
  PROVE  \/ ServerComes \/ ServerGoes \/ FileCreated \/ DocumentUsed
         \/ ListSent \/ ServerIdle \/ ClientForgets
<1> USE DEF SameStory, ServerComes, ServerGoes, FileCreated, DocumentUsed, ListSent, ServerIdle,
            ClientForgets
<1>1. CASE Start
  BY <1>1, HeldSteps DEF Start, ServerStarts, SendDocumentList, CreateDocument, Reads
<1>2. CASE Stop
  BY <1>2, HeldSteps DEF Stop, ServerStops, SendDocumentList, CreateDocument, vars
<1>3. CASE SendDocumentList
  <2>1. ~CreateDocument /\ serverUp
    BY <1>3 DEF SendDocumentList, CreateDocument, Reads
  <2>2. CASE NoFile \in {docs[id] : id \in DOMAIN docs}
    BY <1>3, <2>1, <2>2, HeldSteps DEF SendDocumentList, ServerStops
  <2>3. CASE NoFile \notin {docs[id] : id \in DOMAIN docs}
    BY <1>3, <2>1, <2>3, HeldSteps DEF SendDocumentList, vars
  <2>4. QED BY <2>2, <2>3
<1>4. CASE CreateDocument
  <2>1. ~SendDocumentList /\ serverUp /\ serverUp'
    BY <1>4 DEF SendDocumentList, CreateDocument, Reads, vars
  <2>2. SameStory({"stale", "regrown", "crashed"})
    BY <1>4 DEF CreateDocument
  <2>3. Held' \subseteq Held \cup {Created}
    BY <2>1, HeldSteps DEF Created
  <2>4. QED BY <1>4, <2>1, <2>2, <2>3
<1>5. CASE UseDocument
  BY <1>5, HeldSteps DEF UseDocument, SendDocumentList, CreateDocument, Reads, vars
<1>6. CASE CreateDocumentFails
  BY <1>6, HeldSteps DEF CreateDocumentFails, SendDocumentList, CreateDocument, Reads, vars
<1>7. CASE \/ CreateNewDocument \/ UseListed \/ DocumentAdded \/ Disconnect \/ Encrypted
           \/ Pooling \/ OpenSocket \/ OtherClient \/ UNCHANGED allVars
  <2>1. UNCHANGED <<serverUp, files, docs, maxId>>
    BY <1>7 DEF CreateNewDocument, UseListed, DocumentAdded, Disconnect, Encrypted, Pooling,
       OpenSocket, OtherClient, allVars, documentVars, vars, DocListReceived, ConnectionRefused,
       SslErrors, ConnectionLost, Abort, ConnectionEstablished, ServerPooling, TcpConnected,
       AnotherClient
  <2>2. SameStory({"grown", "stale", "regrown", "crashed"})
    BY <1>7 DEF CreateNewDocument, UseListed, DocumentAdded, Disconnect, Encrypted, Pooling,
       OpenSocket, OtherClient, allVars, documentVars
  <2>3. ~CreateDocument
    BY <2>1 DEF CreateDocument, GetNextDocId, DocumentsType
  <2>4. SendDocumentList => serverUp
    BY DEF SendDocumentList, Reads
  <2>5. QED BY <2>1, <2>2, <2>3, <2>4, HeldSteps
<1>8. CASE RestartClient
  <2>1. Held' = {}
    BY <1>8, CarriedEmpty DEF RestartClient, Held
  <2>2. QED BY <1>8, <2>1 DEF RestartClient, ClientRestarts
<1>9. QED
  BY <1>1, <1>2, <1>3, <1>4, <1>5, <1>6, <1>7, <1>8 DEF DocumentsNext

\* Packets carry documents.
LEMMA CarriedType ==
  ASSUME NEW s, s \in Seq(Request) \/ s \in Seq(Answer)
  PROVE  Carried(s) \subseteq NamedDoc
<1>1. ASSUME NEW d \in Carried(s)
      PROVE  d \in NamedDoc
  <2>1. PICK k \in DOMAIN s : d \in s[k].docs
    BY CarriedOf
  <2>2. s[k] \in Request \/ s[k] \in Answer
    OBVIOUS
  <2>3. s[k].docs \in NamedDocs
    BY <2>2 DEF Request, Answer
  <2>4. QED BY <2>1, <2>3 DEF NamedDocs
<1>2. QED BY <1>1

\* A file more raises the id that the next start ends with.
LEMMA MaxIdGrows ==
  ASSUME NEW fs \in Seq(Nat \ {NoFile}), NEW gs \in Seq(Nat \ {NoFile}), Len(gs) = Len(fs) + 1
  PROVE  MaxIdOf(gs) >= MaxIdOf(fs) + 1
<1>1. Len(fs) \in Nat /\ FirstDocId \in Nat \ {0} /\ gs # <<>>
  BY LenProperties, DocumentsAssumption, EmptySeq
<1>2. MaxIdOf(gs) = FirstDocId + Len(fs)
  BY <1>1 DEF MaxIdOf
<1>3. CASE fs = <<>>
  BY <1>1, <1>2, <1>3 DEF MaxIdOf
<1>4. CASE fs # <<>>
  BY <1>1, <1>2, <1>4 DEF MaxIdOf
<1>5. QED BY <1>3, <1>4

\* What createDocument makes of the files and the ids.
LEMMA CreateSteps ==
  ASSUME DocumentsType, CreateDocument
  PROVE  /\ files' \in Seq(Nat \ {NoFile}) /\ Len(files') = Len(files) + 1
         /\ ToSet(files') = ToSet(files) \cup {Len(files) + 1}
         /\ MaxIdOf(files') >= MaxIdOf(files) + 1
         /\ docs' = [id \in DOMAIN docs \cup {maxId + 1} |->
                       IF id = maxId + 1 THEN Len(files) + 1 ELSE docs[id]]
         /\ maxId' = maxId + 1
         /\ "grown" \in story'
         /\ Created = [id |-> maxId + 1, meant |-> Len(files) + 1]
         /\ Len(files) + 1 \in Nat \ {NoFile}
<1> USE DEF DocumentsType
<1>1. Len(files) + 1 \in Nat \ {NoFile}
  BY LenProperties DEF NoFile
<1>2. PICK k \in 1..Len(files) + 1 :
          /\ files' = InsertAt(files, k, Len(files) + 1)
          /\ docs' = [id \in DOMAIN docs \cup {GetNextDocId} |->
                        IF id = GetNextDocId THEN Len(files) + 1 ELSE docs[id]]
  BY DEF CreateDocument
<1>3. /\ files' \in Seq(Nat \ {NoFile}) /\ Len(files') = Len(files) + 1
      /\ ToSet(files') = ToSet(files) \cup {Len(files) + 1}
  <2> DEFINE S == Nat \ {NoFile}
             new == Len(files) + 1
  <2>1. files \in Seq(S) /\ new \in S /\ k \in 1..Len(files) + 1
    BY <1>1
  <2> HIDE DEF DocumentsType, S, new
  <2>2. /\ InsertAt(files, k, new) \in Seq(S) /\ Len(InsertAt(files, k, new)) = Len(files) + 1
        /\ ToSet(InsertAt(files, k, new)) = ToSet(files) \cup {new}
    BY <2>1, FileInserted
  <2>3. QED BY <1>2, <2>2 DEF S, new
<1>4. MaxIdOf(files') >= MaxIdOf(files) + 1
  BY <1>3, MaxIdGrows
<1>5. maxId' = maxId + 1 /\ "grown" \in story'
  BY DEF CreateDocument, GetNextDocId
<1>6. QED BY <1>1, <1>2, <1>3, <1>4, <1>5 DEF GetNextDocId, Created

\* A creation takes the next id, and a start numbers past all ids that were given.
LEMMA IdsGivenKept ==
  ASSUME DocumentsType, IdsInv, [DocumentsNext]_allVars
  PROVE  IdsGiven'
<1>1. /\ Held \subseteq NamedDoc /\ Held' \subseteq NamedDoc
      /\ maxId \in Nat /\ MaxIdOf(files) \in Nat /\ MaxIdOf(files') \in Nat
      /\ DOMAIN docs \subseteq Nat
  BY TypeKept, CarriedType, NumberedType DEF DocumentsType, Held
<1>2. CASE ServerComes
  <2>1. \A id \in DOMAIN docs' : id <= maxId'
    BY <1>2, NumberedType DEF DocumentsType, ServerComes
  <2>2. QED BY <1>1, <1>2, <2>1 DEF IdsInv, IdsGiven, ServerComes
<1>3. CASE ServerGoes
  <2>1. \A d \in Held : d.id <= MaxIdOf(files)
    BY <1>1, <1>3 DEF IdsInv, IdsGiven, NamedDoc, ServerGoes
  <2>2. QED BY <1>3, <2>1 DEF IdsGiven, ServerGoes
<1>4. CASE FileCreated
  <2>1. maxId' <= MaxIdOf(files')
    BY <1>1, <1>4, CreateSteps DEF IdsInv, IdsGiven, FileCreated
  <2>2. \A id \in DOMAIN docs' : docs'[id] # NoFile => id <= maxId'
    BY <1>1, <1>4, CreateSteps DEF IdsInv, IdsGiven, FileCreated
  <2>3. \A d \in Held' : d.id <= maxId'
    BY <1>1, <1>4, CreateSteps DEF IdsInv, IdsGiven, NamedDoc, FileCreated
  <2>4. QED BY <1>4, <2>1, <2>2, <2>3 DEF IdsGiven, FileCreated
<1>5. CASE DocumentUsed
  <2>1. \A id \in DOMAIN docs' : docs'[id] # NoFile => id \in DOMAIN docs /\ docs'[id] = docs[id]
    BY <1>5 DEF UseDocument, DocumentUsed
  <2>2. files' = files /\ maxId' = maxId
    BY <1>5 DEF UseDocument, DocumentUsed
  <2>3. QED BY <1>5, <2>1, <2>2 DEF IdsInv, IdsGiven, DocumentUsed
<1>6. CASE ListSent
  <2>1. \A d \in Named(DOMAIN docs, docs) : d.id <= maxId
    BY <1>6 DEF IdsInv, IdsGiven, Named, ListSent
  <2>2. QED BY <1>6, <2>1 DEF IdsInv, IdsGiven, ListSent
<1>7. CASE ServerIdle \/ ClientForgets
  BY <1>7 DEF IdsInv, IdsGiven, ServerIdle, ClientForgets
<1>8. QED
  BY <1>2, <1>3, <1>4, <1>5, <1>6, <1>7, ServerSteps

\* A start opens every file, and a creation overwrites no other (GetNextDocId).
LEMMA FilesOpenKept ==
  ASSUME DocumentsType, IdsInv, [DocumentsNext]_allVars
  PROVE  FilesOpen'
<1>1. CASE ServerComes
  BY <1>1, NumberedType DEF FilesOpen, ServerComes, DocumentsType
<1>2. CASE FileCreated
  <2>1. ASSUME NEW f \in ToSet(files)
        PROVE  \E id \in DOMAIN docs' : docs'[id] = f
    <3>1. PICK id \in DOMAIN docs : docs[id] = f
      BY <1>2 DEF IdsInv, FilesOpen, FileCreated
    <3>2. f # NoFile
      BY <2>1 DEF DocumentsType, ToSet
    <3>3. id # maxId + 1
      BY <1>2, <3>1, <3>2 DEF IdsInv, IdsGiven, FileCreated, DocumentsType
    <3>4. QED BY <1>2, <3>1, <3>3, CreateSteps DEF FileCreated
  <2>2. maxId + 1 \in DOMAIN docs' /\ docs'[maxId + 1] = Len(files) + 1
    BY <1>2, CreateSteps DEF FileCreated
  <2>3. ToSet(files') = ToSet(files) \cup {Len(files) + 1}
    BY <1>2, CreateSteps DEF FileCreated
  <2>4. QED BY <2>1, <2>2, <2>3 DEF FilesOpen
<1>3. CASE DocumentUsed
  <2>1. \A id \in DOMAIN docs : id \in DOMAIN docs' /\ docs'[id] = docs[id]
    BY <1>3 DEF UseDocument, DocumentUsed
  <2>2. QED BY <1>3, <2>1 DEF IdsInv, FilesOpen, DocumentUsed, UseDocument
<1>4. CASE ServerGoes \/ ListSent \/ ServerIdle \/ ClientForgets
  BY <1>4 DEF IdsInv, FilesOpen, ServerGoes, ListSent, ServerIdle, ClientForgets
<1>5. QED BY <1>1, <1>2, <1>3, <1>4, ServerSteps

\* Only a creation makes the ids differ from those of the next start.
LEMMA AsNumberedKept ==
  ASSUME DocumentsType, IdsInv, [DocumentsNext]_allVars
  PROVE  AsNumbered'
<1>1. CASE ServerComes
  <2>1. "stale" \notin story' => "grown" \notin story /\ "stale" \notin story
    BY <1>1 DEF ServerComes, Start
  <2>2. QED BY <1>1, <2>1 DEF IdsInv, AsNumbered, InFiles, ServerComes
<1>2. CASE ServerGoes
  BY <1>2 DEF IdsInv, AsNumbered, InFiles, ServerGoes, SameStory
<1>3. CASE FileCreated
  BY <1>3, CreateSteps DEF AsNumbered, FileCreated
<1>4. CASE DocumentUsed
  <2>1. \A id \in DOMAIN docs' : docs'[id] # NoFile => id \in DOMAIN docs /\ docs'[id] = docs[id]
    BY <1>4 DEF UseDocument, DocumentUsed
  <2>2. files' = files
    BY <1>4 DEF DocumentUsed, UseDocument
  <2>3. QED BY <1>4, <2>1, <2>2 DEF IdsInv, AsNumbered, InFiles, DocumentUsed
<1>5. CASE ListSent
  <2>1. ASSUME "grown" \notin story, NEW d \in Named(DOMAIN docs, docs)
        PROVE  InFiles(d.id, d.meant)
    BY <1>5, <2>1 DEF Named, IdsInv, AsNumbered, ListSent
  <2>2. QED BY <1>5, <2>1 DEF IdsInv, AsNumbered, InFiles, ListSent, SameStory
<1>6. CASE ServerIdle \/ ClientForgets
  BY <1>6 DEF IdsInv, AsNumbered, InFiles, ServerIdle, ClientForgets, SameStory
<1>7. QED BY <1>1, <1>2, <1>3, <1>4, <1>5, <1>6, ServerSteps

\* The documents that are held, on a server that is up.
LEMMA IdsNameDocumentsKept ==
  ASSUME DocumentsType, IdsInv, [DocumentsNext]_allVars
  PROVE  IdsNameDocuments'
<1>1. IdsNameDocuments' <=>
        (serverUp' /\ "stale" \notin story' =>
           \A d \in Held' : d.id \in DOMAIN docs' /\ docs'[d.id] = d.meant)
  BY DEF IdsNameDocuments, Held
<1>2. serverUp /\ "stale" \notin story =>
        \A d \in Held : d.id \in DOMAIN docs /\ docs[d.id] = d.meant
  BY DEF IdsInv, IdsNameDocuments, Held
<1>3. CASE ServerComes
  <2>1. "stale" \notin story' => "grown" \notin story /\ "stale" \notin story
    BY <1>3 DEF ServerComes, Start
  <2>2. QED BY <1>1, <1>3, <2>1 DEF IdsInv, AsNumbered, InFiles, ServerComes
<1>4. CASE FileCreated
  <2>1. \A d \in Held : d.id # maxId + 1
    BY <1>4, CarriedType DEF IdsInv, IdsGiven, FileCreated, DocumentsType, Held, NamedDoc
  <2>2. QED BY <1>1, <1>2, <1>4, <2>1, CreateSteps DEF FileCreated, SameStory
<1>5. CASE DocumentUsed
  <2>1. \A id \in DOMAIN docs : id \in DOMAIN docs' /\ docs'[id] = docs[id]
    BY <1>5 DEF UseDocument, DocumentUsed
  <2>2. QED BY <1>1, <1>2, <1>5, <2>1 DEF DocumentUsed
<1>6. CASE ListSent
  BY <1>1, <1>2, <1>6 DEF ListSent, SameStory, Named
<1>7. CASE ServerGoes \/ ServerIdle \/ ClientForgets
  BY <1>1, <1>2, <1>7 DEF ServerGoes, ServerIdle, ClientForgets, SameStory
<1>8. QED BY <1>3, <1>4, <1>5, <1>6, <1>7, ServerSteps

\* A list that is sent again, or an answer, contradicts no id that is held.
LEMMA NamesAgreeKept ==
  ASSUME DocumentsType, IdsInv, [DocumentsNext]_allVars
  PROVE  NamesAgree'
<1>1. serverUp /\ "stale" \notin story =>
        \A d \in Held : d.id \in DOMAIN docs /\ docs[d.id] = d.meant
  BY DEF IdsInv, IdsNameDocuments, Held
<1>2. CASE ServerComes
  <2>1. "stale" \notin story' => "stale" \notin story
    BY <1>2 DEF ServerComes, Start
  <2>2. QED BY <1>2, <2>1 DEF IdsInv, NamesAgree, ServerComes
<1>3. CASE FileCreated
  <2>1. \A d \in Held : d.id # maxId + 1
    BY <1>3, CarriedType DEF IdsInv, IdsGiven, FileCreated, DocumentsType, Held, NamedDoc
  <2>2. QED BY <1>3, <2>1, CreateSteps DEF IdsInv, NamesAgree, FileCreated, SameStory
<1>4. CASE ListSent
  BY <1>1, <1>4 DEF IdsInv, NamesAgree, ListSent, SameStory, Named
<1>5. CASE ServerGoes \/ DocumentUsed \/ ServerIdle \/ ClientForgets
  BY <1>5 DEF IdsInv, NamesAgree, ServerGoes, DocumentUsed, ServerIdle, ClientForgets, SameStory
<1>6. QED BY <1>2, <1>3, <1>4, <1>5, ServerSteps

\* Only an id that was never given puts a null document into docs.
LEMMA NoNullDocumentKept ==
  ASSUME DocumentsType, IdsInv, [DocumentsNext]_allVars
  PROVE  NoNullDocument' /\ ServerSurvives'
<1> USE DEF IdsInv, NoNullDocument, ServerSurvives, SameStory
<1>1. CASE ServerComes
  <2>1. \A id \in DOMAIN docs' : docs'[id] # NoFile
    BY <1>1, NumberedType DEF ServerComes, DocumentsType
  <2>2. QED BY <1>1, <2>1 DEF ServerComes, Start
<1>2. CASE ServerGoes
  BY <1>2 DEF ServerGoes
<1>3. CASE FileCreated
  BY <1>3, CreateSteps DEF FileCreated
<1>4. CASE DocumentUsed
  <2>1. ASSUME "regrown" \notin story, NEW d \in Head(toServer).docs
        PROVE  d.id \in DOMAIN docs
    <3>1. d \in Held
      BY <1>4, CarriedTail DEF Held, DocumentUsed, UseDocument, Reads, DocumentsType
    <3>2. QED BY <1>4, <2>1, <3>1 DEF DocumentUsed, IdsNameDocuments, Held
  <2>2. "regrown" \notin story => docs' = docs
    BY <1>4, <2>1 DEF DocumentUsed, UseDocument, DocumentsType
  <2>3. QED BY <1>4, <2>2 DEF DocumentUsed
<1>5. CASE ListSent \/ ServerIdle \/ ClientForgets
  BY <1>5 DEF ListSent, ServerIdle, ClientForgets
<1>6. QED BY <1>1, <1>2, <1>3, <1>4, <1>5, ServerSteps

\* The list is there once at most, and nothing is before it.
AtMostOneList(packets) ==
  \A j, k \in DOMAIN packets : packets[j].type = "list" /\ packets[k].type = "list" => j = k
ListFirst(packets) == \A k \in DOMAIN packets : k # 1 => packets[k].type # "list"

\* What reading a packet does to the place of the list.
LEMMA ListsRead ==
  ASSUME NEW S, NEW s \in Seq(S), s # <<>>
  PROVE  /\ NoList(s) => NoList(Tail(s))
         /\ AtMostOneList(s) => /\ AtMostOneList(Tail(s))
                                /\ Head(s).type = "list" => NoList(Tail(s))
         /\ ListFirst(s) => /\ NoList(Tail(s))
                            /\ Head(s).type # "list" => NoList(s)
         /\ Head(s).type = "list" => ~NoList(s)
         /\ Head(s) = s[1]
<1>1. /\ DOMAIN s = 1..Len(s) /\ Len(s) \in Nat \ {0}
      /\ DOMAIN Tail(s) = 1..Len(s) - 1
      /\ \A k \in 1..Len(s) - 1 : Tail(s)[k] = s[k + 1]
      /\ Head(s) = s[1]
  BY HeadTailProperties, LenProperties, EmptySeq
<1>2. \A k \in DOMAIN Tail(s) : k + 1 \in DOMAIN s /\ Tail(s)[k] = s[k + 1] /\ k + 1 # 1
  BY <1>1
<1>3. 1 \in DOMAIN s /\ s[1] = Head(s)
  BY <1>1
<1>4. NoList(s) => NoList(Tail(s))
  BY <1>2 DEF NoList
<1>5. ASSUME AtMostOneList(s)
      PROVE  AtMostOneList(Tail(s)) /\ (Head(s).type = "list" => NoList(Tail(s)))
  <2>1. ASSUME NEW j \in DOMAIN Tail(s), NEW k \in DOMAIN Tail(s),
               Tail(s)[j].type = "list", Tail(s)[k].type = "list"
        PROVE  j = k
    <3>1. j + 1 = k + 1
      BY <1>2, <1>5, <2>1 DEF AtMostOneList
    <3>2. QED BY <1>1, <3>1
  <2>2. QED BY <1>2, <1>3, <1>5, <2>1 DEF AtMostOneList, NoList
<1>6. ListFirst(s) => NoList(Tail(s))
  BY <1>2 DEF ListFirst, NoList
<1>7. ListFirst(s) /\ Head(s).type # "list" => NoList(s)
  BY <1>3 DEF ListFirst, NoList
<1>8. Head(s).type = "list" => ~NoList(s)
  BY <1>3 DEF NoList
<1>9. QED BY <1>3, <1>4, <1>5, <1>6, <1>7, <1>8

\* Packets that are no list leave its place alone.
LEMMA ListsWritten ==
  ASSUME NEW S, NEW s \in Seq(S), NEW t \in Seq(S), NoList(t)
  PROVE  /\ NoList(s) <=> NoList(s \o t)
         /\ AtMostOneList(s) => AtMostOneList(s \o t)
         /\ ListFirst(s) => ListFirst(s \o t)
<1>1. /\ DOMAIN (s \o t) = 1..Len(s) + Len(t)
      /\ DOMAIN s = 1..Len(s) /\ Len(s) \in Nat
      /\ DOMAIN t = 1..Len(t) /\ Len(t) \in Nat
      /\ \A k \in 1..Len(s) + Len(t) : (s \o t)[k] = IF k <= Len(s) THEN s[k] ELSE t[k - Len(s)]
  BY ConcatProperties, LenProperties
<1>2. ASSUME NEW k \in DOMAIN (s \o t), (s \o t)[k].type = "list"
      PROVE  k \in DOMAIN s /\ s[k].type = "list"
  <2>1. CASE k <= Len(s)
    BY <1>1, <1>2, <2>1
  <2>2. CASE ~(k <= Len(s))
    <3>1. k - Len(s) \in DOMAIN t /\ (s \o t)[k] = t[k - Len(s)]
      BY <1>1, <2>2
    <3>2. QED BY <1>2, <3>1 DEF NoList
  <2>3. QED BY <2>1, <2>2
<1>3. \A k \in DOMAIN s : k \in DOMAIN (s \o t) /\ (s \o t)[k] = s[k]
  BY <1>1
<1>4. NoList(s) <=> NoList(s \o t)
  BY <1>2, <1>3 DEF NoList
<1>5. AtMostOneList(s) => AtMostOneList(s \o t)
  BY <1>2 DEF AtMostOneList
<1>6. ListFirst(s) => ListFirst(s \o t)
  BY <1>2 DEF ListFirst
<1>7. QED BY <1>4, <1>5, <1>6

\* A list written after packets that are none.
LEMMA ListWritten ==
  ASSUME NEW S, NEW s \in Seq(S), NEW p \in S, NoList(s)
  PROVE  /\ AtMostOneList(Append(s, p))
         /\ s = <<>> => ListFirst(Append(s, p)) /\ Append(s, p)[1] = p
<1>1. /\ DOMAIN Append(s, p) = 1..Len(s) + 1
      /\ DOMAIN s = 1..Len(s) /\ Len(s) \in Nat
      /\ \A k \in 1..Len(s) : Append(s, p)[k] = s[k]
      /\ Append(s, p)[Len(s) + 1] = p
  BY AppendProperties, LenProperties
<1>2. \A k \in DOMAIN Append(s, p) : k # Len(s) + 1 => k \in DOMAIN s /\ Append(s, p)[k] = s[k]
  BY <1>1
<1>3. \A k \in DOMAIN Append(s, p) : Append(s, p)[k].type = "list" => k = Len(s) + 1
  BY <1>2 DEF NoList
<1>4. AtMostOneList(Append(s, p))
  BY <1>3 DEF AtMostOneList
<1>5. s = <<>> => Len(s) + 1 = 1
  BY <1>1
<1>6. QED BY <1>1, <1>3, <1>4, <1>5 DEF ListFirst

\* A packet that is none, by itself or as the last.
LEMMA NoListWritten ==
  ASSUME NEW S, NEW s \in Seq(S), NEW p \in S, p.type # "list"
  PROVE  /\ NoList(<<p>>) /\ <<p>> \in Seq(S) /\ Append(s, p) = s \o <<p>>
         /\ NoList(s) <=> NoList(Append(s, p))
         /\ AtMostOneList(s) => AtMostOneList(Append(s, p))
         /\ ListFirst(s) => ListFirst(Append(s, p))
<1>1. <<p>> \in Seq(S) /\ NoList(<<p>>)
  BY DEF NoList
<1>2. Append(s, p) = s \o <<p>>
  BY AppendIsConcat
<1>3. QED BY <1>1, <1>2, ListsWritten

\* The one request for the list, or the list, is nowhere twice.
ListUnderWay ==
  /\ docList # "asked" => NoList(toServer) /\ NoList(toClient)
  /\ NoList(toServer) \/ NoList(toClient)
  /\ AtMostOneList(toServer) /\ AtMostOneList(toClient)

\* Unless a creation was written before it, it is before all else, and on its
\* way while the connection is there.
ListComesFirst == "early" \notin story =>
  /\ docList = "not asked" => idsToDocs = {} /\ toServer = <<>> /\ toClient = <<>>
  /\ docList = "asked" =>
     /\ idsToDocs = {} /\ ListFirst(toServer) /\ ListFirst(toClient)
     /\ toClient = <<>> \/ (NoList(toServer) /\ toClient[1].type = "list")
     /\ toClient # <<>> \/ hungUp \/ ~NoList(toServer)

\* Every answer under way brings ids that nothing before it brought.
AnswersFresh == "early" \notin story =>
  /\ \A d \in Carried(toClient) : \A e \in idsToDocs : d.id # e.id
  /\ \A j, k \in DOMAIN toClient : j # k =>
       \A d \in toClient[j].docs : \A e \in toClient[k].docs : d.id # e.id

\* From the list on, every file is known or under way.
Complete ==
  "lost" \notin story /\ "stale" \notin story /\ (docList = "received" \/ ~NoList(toClient)) =>
    \A f \in ToSet(files) : \E d \in idsToDocs \cup Carried(toClient) : d.meant = f

\* Where the list and the answers are, together.
ListInv == ListUnderWay /\ ListComesFirst /\ AnswersFresh /\ NoDocumentTwice /\ Complete

\* The kinds of step, by what becomes of the packets.
SocketKept == (hungUp => hungUp') /\ docList' = docList
WiresIdle == /\ UNCHANGED <<toServer, toClient, idsToDocs, files>>
             /\ SocketKept
             /\ SameStory({"early", "twice", "lost"}) /\ ("stale" \in story => "stale" \in story')
RequestRead == /\ toServer # <<>> /\ toServer' = Tail(toServer)
               /\ UNCHANGED <<toClient, idsToDocs, files>>
               /\ SocketKept /\ ~hungUp /\ (Head(toServer).type = "list" => hungUp')
               /\ SameStory({"early", "twice", "lost", "stale"})
ListAnswered == /\ SendDocumentList /\ toServer # <<>> /\ Head(toServer).type = "list"
                /\ toServer' = Tail(toServer)
                /\ toClient' = Append(toClient, [type |-> "list", docs |-> Named(DOMAIN docs, docs)])
                /\ [type |-> "list", docs |-> Named(DOMAIN docs, docs)] \in Answer
                /\ UNCHANGED <<idsToDocs, files, hungUp, docList, story>>
CreationAnswered == /\ CreateDocument /\ toServer # <<>> /\ Head(toServer).type = "create"
                    /\ toServer' = Tail(toServer)
                    /\ toClient' = Append(toClient, [type |-> "create", docs |-> {Created}])
                    /\ [type |-> "create", docs |-> {Created}] \in Answer
                    /\ UNCHANGED <<idsToDocs, hungUp, docList>> /\ ~hungUp
                    /\ SameStory({"early", "twice", "lost", "stale"})
ClientAsks == /\ UNCHANGED <<toClient, idsToDocs, files, hungUp, docList>>
              /\ \E packets \in Seq(Request) :
                   /\ NoList(packets) /\ toServer' \in {toServer, toServer \o packets}
                   /\ \/ docList = "not asked" /\ "early" \in story'
                      \/ docList # "not asked"
                      \/ idsToDocs # {}
              /\ SameStory({"twice", "lost", "stale"}) /\ ("early" \in story => "early" \in story')
WiresCut == /\ toServer' = <<>> /\ toClient' = <<>> /\ UNCHANGED <<idsToDocs, files>>
            /\ docList' = IF docList = "asked" THEN "dropped" ELSE docList
            /\ SameStory({"early", "twice", "stale"})
            /\ \/ "lost" \in story'
               \/ "lost" \notin story /\ \A p \in ToSet(toClient) : p.type # "create"
ListRequested == /\ UNCHANGED <<toClient, idsToDocs, files, hungUp, story>>
                 /\ \/ toServer' = toServer /\ docList' = docList
                    \/ /\ toServer' = toServer \o <<Ask>> /\ docList = "not asked" /\ docList' = "asked"
AllForgotten == /\ toServer' = <<>> /\ toClient' = <<>> /\ idsToDocs' = {}
                /\ docList' = "not asked" /\ "twice" \notin story' /\ files' = files

\* Every step is of one of them, or reads an answer.
LEMMA WireSteps ==
  ASSUME IndInv, DocumentsType, [DocumentsNext]_allVars
  PROVE  \/ WiresIdle \/ RequestRead \/ ListAnswered \/ CreationAnswered \/ ClientAsks
         \/ DocumentAdded \/ WiresCut \/ ListRequested \/ AllForgotten
<1> USE DEF SameStory, SocketKept
<1>1. CASE Start \/ Stop \/ Pooling \/ OpenSocket \/ OtherClient \/ UNCHANGED allVars
  BY <1>1 DEF WiresIdle, Start, ServerStarts, Stop, ServerStops, Pooling, ServerPooling, OpenSocket,
     TcpConnected, OtherClient, AnotherClient, HangUp, allVars, documentVars, vars
<1>2. CASE SendDocumentList
  <2>1. CASE NoFile \in {docs[id] : id \in DOMAIN docs}
    BY <1>2, <2>1 DEF SendDocumentList, Reads, ServerStops, HangUp, RequestRead
  <2>2. CASE NoFile \notin {docs[id] : id \in DOMAIN docs}
    <3>1. Named(DOMAIN docs, docs) \in NamedDocs
      BY <2>2, NamedIsFinite DEF DocumentsType
    <3>2. [type |-> "list", docs |-> Named(DOMAIN docs, docs)] \in Answer
      BY <3>1 DEF Answer
    <3>3. QED BY <1>2, <2>2, <3>2 DEF SendDocumentList, Reads, ListAnswered, vars
  <2>3. QED BY <2>1, <2>2
<1>3. CASE CreateDocument
  <2>1. [type |-> "create", docs |-> {Created}] \in Answer
    <3>1. Created \in NamedDoc
      BY <1>3, CreateSteps DEF NamedDoc, DocumentsType
    <3>2. {Created} \in NamedDocs
      BY <3>1, PacketsMade
    <3>3. QED BY <3>2 DEF Answer
  <2>2. QED BY <1>3, <2>1 DEF CreateDocument, Reads, CreationAnswered, Created, vars
<1>4. CASE CreateDocumentFails \/ UseDocument
  BY <1>4 DEF CreateDocumentFails, UseDocument, Reads, RequestRead, vars
<1>5. CASE CreateNewDocument
  <2>1. Create \in Request /\ Create.type # "list"
    BY PacketsMade DEF Create
  <2>2. <<Create>> \in Seq(Request) /\ NoList(<<Create>>)
    BY <2>1, NoListWritten, EmptySeq
  <2>3. QED BY <1>5, <2>2 DEF CreateNewDocument, Write, ClientAsks, vars
<1>6. CASE UseListed
  <2>1. PICK d \in idsToDocs : Write(<<Use(d)>>)
    BY <1>6 DEF UseListed
  <2>2. Use(d) \in Request /\ Use(d).type # "list"
    BY PacketsMade DEF Use, DocumentsType
  <2>3. <<Use(d)>> \in Seq(Request) /\ NoList(<<Use(d)>>)
    BY <2>2, NoListWritten, EmptySeq
  <2>4. QED BY <1>6, <2>1, <2>3 DEF UseListed, Write, ClientAsks, vars
<1>7. CASE Disconnect
  <2>1. docList' = IF docList = "asked" THEN "dropped" ELSE docList
    BY <1>7 DEF Disconnect, ConnectionRefused, SslErrors, ConnectionLost, Abort
  <2>2. \/ "lost" \in story'
        \/ "lost" \notin story /\ \A p \in ToSet(toClient) : p.type # "create"
    BY <1>7 DEF Disconnect
  <2>3. QED BY <1>7, <2>1, <2>2 DEF Disconnect, WiresCut
<1>8. CASE Encrypted
  <2>1. toServer' = toServer \o (IF docList' = "asked" /\ docList # "asked" THEN <<Ask>> ELSE <<>>)
    BY <1>8 DEF Encrypted
  <2>2. docList' = docList \/ (docList = "not asked" /\ docList' = "asked")
    BY <1>8 DEF Encrypted, ConnectionEstablished, OnServerConnected, IndInv, AskedWhenStarted, TypeOK
  <2>3. toServer \o <<>> = toServer
    BY DEF DocumentsType
  <2>4. QED BY <1>8, <2>1, <2>2, <2>3 DEF Encrypted, ConnectionEstablished, ListRequested
<1>9. CASE RestartClient
  BY <1>9 DEF RestartClient, ClientRestarts, AllForgotten
<1>10. QED
  BY <1>1, <1>2, <1>3, <1>4, <1>5, <1>6, <1>7, <1>8, <1>9 DEF DocumentsNext

\* What DocumentAdded does to the list.
LEMMA AnswerRead ==
  ASSUME DocumentsType, DocumentAdded
  PROVE  /\ toClient # <<>> /\ toClient' = Tail(toClient) /\ Head(toClient) = toClient[1]
         /\ 1 \in DOMAIN toClient
         /\ \A k \in DOMAIN toClient' : k + 1 \in DOMAIN toClient /\ toClient'[k] = toClient[k + 1] /\ k \in Nat
         /\ IF Head(toClient).type = "list"
            THEN docList = "asked" /\ docList' = "received"
            ELSE docList' = docList
         /\ hungUp' = hungUp /\ files' = files
         /\ SameStory({"early", "lost", "stale"})
         /\ Carried(toClient) = Head(toClient).docs \cup Carried(toClient')
<1>1. toClient # <<>> /\ toClient' = Tail(toClient) /\ toClient \in Seq(Answer)
  BY DEF DocumentAdded, DocumentsType
<1>2. /\ DOMAIN toClient = 1..Len(toClient) /\ Len(toClient) \in Nat \ {0}
      /\ DOMAIN Tail(toClient) = 1..Len(toClient) - 1
      /\ \A k \in 1..Len(toClient) - 1 : Tail(toClient)[k] = toClient[k + 1]
      /\ Head(toClient) = toClient[1]
  BY <1>1, HeadTailProperties, LenProperties, EmptySeq
<1>3. Carried(toClient) = Head(toClient).docs \cup Carried(toClient')
  BY <1>1, CarriedTail
<1>4. /\ IF Head(toClient).type = "list"
         THEN docList = "asked" /\ docList' = "received"
         ELSE docList' = docList
      /\ hungUp' = hungUp /\ files' = files
      /\ SameStory({"early", "lost", "stale"})
  BY DEF DocumentAdded, DocListReceived, vars, SameStory
<1>5. \A k \in DOMAIN toClient' : k + 1 \in DOMAIN toClient /\ toClient'[k] = toClient[k + 1] /\ k \in Nat
  BY <1>1, <1>2
<1>6. QED BY <1>1, <1>2, <1>3, <1>4, <1>5

\* The list is asked for once, answered once and read once.
LEMMA ListUnderWayKept ==
  ASSUME IndInv, DocumentsType, ListInv, [DocumentsNext]_allVars
  PROVE  ListUnderWay'
<1> USE DEF ListUnderWay, ListInv, SocketKept
<1>0. NoList(<<>>) /\ AtMostOneList(<<>>) /\ toServer \in Seq(Request) /\ toClient \in Seq(Answer)
  BY DEF NoList, AtMostOneList, DocumentsType
<1>1. CASE WiresIdle
  BY <1>1 DEF WiresIdle
<1>2. CASE RequestRead
  BY <1>0, <1>2, ListsRead DEF RequestRead
<1>3. CASE ListAnswered
  <2>1. /\ NoList(toServer') /\ AtMostOneList(toServer') /\ NoList(toClient) /\ docList' = "asked"
    BY <1>0, <1>3, ListsRead DEF ListAnswered
  <2>2. AtMostOneList(toClient')
    BY <1>0, <1>3, <2>1, ListWritten DEF ListAnswered
  <2>3. QED BY <2>1, <2>2
<1>4. CASE CreationAnswered
  <2>1. AtMostOneList(toServer') /\ (NoList(toServer) => NoList(toServer'))
    BY <1>0, <1>4, ListsRead DEF CreationAnswered
  <2>2. AtMostOneList(toClient') /\ (NoList(toClient) => NoList(toClient'))
    BY <1>0, <1>4, NoListWritten DEF CreationAnswered
  <2>3. QED BY <1>4, <2>1, <2>2 DEF CreationAnswered
<1>5. CASE ClientAsks
  <2>1. AtMostOneList(toServer') /\ (NoList(toServer) => NoList(toServer'))
    BY <1>0, <1>5, ListsWritten DEF ClientAsks
  <2>2. QED BY <1>5, <2>1 DEF ClientAsks
<1>6. CASE DocumentAdded
  <2>1. PICK uses \in Seq(Request) : toServer' = toServer \o uses /\ NoList(uses)
    BY <1>6, DocumentAddedWrites
  <2>2. AtMostOneList(toServer') /\ (NoList(toServer) <=> NoList(toServer'))
    BY <1>0, <2>1, ListsWritten
  <2>3. /\ AtMostOneList(toClient') /\ (NoList(toClient) => NoList(toClient'))
        /\ Head(toClient).type = "list" => NoList(toClient') /\ ~NoList(toClient)
    BY <1>0, <1>6, AnswerRead, ListsRead
  <2>4. QED BY <1>6, <2>2, <2>3, AnswerRead
<1>7. CASE WiresCut \/ AllForgotten
  BY <1>0, <1>7 DEF WiresCut, AllForgotten
<1>8. CASE ListRequested
  <2>1. CASE toServer' = toServer /\ docList' = docList
    BY <1>8, <2>1 DEF ListRequested
  <2>2. CASE toServer' = toServer \o <<Ask>> /\ docList = "not asked" /\ docList' = "asked"
    <3>1. toServer' = Append(toServer, Ask) /\ Ask \in Request
      BY <1>0, <2>2, PacketsMade, AppendIsConcat
    <3>2. AtMostOneList(toServer')
      BY <1>0, <2>2, <3>1, ListWritten
    <3>3. QED BY <1>8, <2>2, <3>2 DEF ListRequested
  <2>3. QED BY <1>8, <2>1, <2>2 DEF ListRequested
<1>9. QED
  BY <1>1, <1>2, <1>3, <1>4, <1>5, <1>6, <1>7, <1>8, WireSteps

\* And nothing overtakes it.
LEMMA ListComesFirstKept ==
  ASSUME IndInv, DocumentsType, ListInv, [DocumentsNext]_allVars
  PROVE  ListComesFirst'
<1> USE DEF SocketKept
<1>0. NoList(<<>>) /\ ListFirst(<<>>) /\ toServer \in Seq(Request) /\ toClient \in Seq(Answer)
  BY DEF NoList, ListFirst, DocumentsType
<1>1. CASE WiresIdle
  BY <1>1 DEF WiresIdle, ListInv, ListComesFirst, SameStory
<1>2. CASE RequestRead
  <2>1. ASSUME "early" \notin story, docList = "asked"
        PROVE  /\ NoList(toServer') /\ ListFirst(toServer')
               /\ toClient # <<>> \/ hungUp'
    <3>1. NoList(toServer') /\ ListFirst(toServer) /\ (Head(toServer).type # "list" => NoList(toServer))
      BY <1>0, <1>2, <2>1, ListsRead DEF RequestRead, ListInv, ListComesFirst
    <3>2. ListFirst(toServer')
      BY <3>1 DEF NoList, ListFirst
    <3>3. QED BY <1>2, <2>1, <3>1, <3>2 DEF RequestRead, ListInv, ListComesFirst
  <2>2. QED BY <1>2, <2>1 DEF RequestRead, ListInv, ListComesFirst, SameStory
<1>3. CASE ListAnswered
  <2>1. docList = "asked" /\ ~NoList(toServer)
    BY <1>0, <1>3, ListsRead DEF ListAnswered, ListInv, ListUnderWay
  <2>2. ASSUME "early" \notin story
        PROVE  /\ NoList(toServer') /\ ListFirst(toServer')
               /\ ListFirst(toClient') /\ toClient'[1].type = "list"
    <3>1. toClient = <<>> /\ ListFirst(toServer)
      BY <2>1, <2>2 DEF ListInv, ListComesFirst
    <3>2. NoList(toServer')
      BY <1>0, <1>3, <3>1, ListsRead DEF ListAnswered
    <3>3. ListFirst(toServer')
      BY <3>2 DEF NoList, ListFirst
    <3>4. PICK answer \in Answer : toClient' = Append(toClient, answer) /\ answer.type = "list"
      BY <1>3 DEF ListAnswered
    <3>5. ListFirst(toClient') /\ toClient'[1] = answer
      BY <1>0, <3>1, <3>4, ListWritten
    <3>6. QED BY <3>2, <3>3, <3>4, <3>5
  <2>3. toClient' # <<>>
    BY <1>0, <1>3, AppendProperties DEF ListAnswered
  <2>4. QED BY <1>3, <2>1, <2>2, <2>3 DEF ListAnswered, ListInv, ListComesFirst
<1>4. CASE CreationAnswered
  <2>1. ASSUME "early" \notin story, docList = "asked"
        PROVE  /\ NoList(toServer') /\ ListFirst(toServer')
               /\ ListFirst(toClient') /\ toClient'[1].type = "list" /\ toClient' # <<>>
    <3>1. ListFirst(toServer) /\ ListFirst(toClient)
      BY <2>1 DEF ListInv, ListComesFirst
    <3>2. NoList(toServer) /\ NoList(toServer')
      BY <1>0, <1>4, <3>1, ListsRead DEF CreationAnswered
    <3>3. ListFirst(toServer')
      BY <3>2 DEF NoList, ListFirst
    <3>4. toClient # <<>> /\ toClient[1].type = "list"
      BY <1>4, <2>1, <3>2 DEF CreationAnswered, ListInv, ListComesFirst
    <3>5. ListFirst(toClient')
      BY <1>0, <1>4, <3>1, NoListWritten DEF CreationAnswered
    <3>6. toClient'[1] = toClient[1] /\ toClient' # <<>>
      BY <1>0, <1>4, <3>4, AppendProperties, LenProperties, EmptySeq DEF CreationAnswered
    <3>7. QED BY <3>2, <3>3, <3>4, <3>5, <3>6
  <2>2. docList # "not asked" \/ "early" \in story
    BY <1>4 DEF CreationAnswered, ListInv, ListComesFirst
  <2>3. QED BY <1>4, <2>1, <2>2 DEF CreationAnswered, ListInv, ListComesFirst, SameStory
<1>5. CASE ClientAsks
  <2>1. (NoList(toServer) <=> NoList(toServer')) /\ (ListFirst(toServer) => ListFirst(toServer'))
    BY <1>0, <1>5, ListsWritten DEF ClientAsks
  <2>2. QED BY <1>5, <2>1 DEF ClientAsks, ListInv, ListComesFirst
<1>6. CASE DocumentAdded
  <2>1. docList' = "asked" => docList = "asked" /\ Head(toClient).type # "list"
    BY <1>6, AnswerRead
  <2>2. docList' = "not asked" => docList = "not asked"
    BY <1>6, AnswerRead
  <2>3. QED BY <1>6, <2>1, <2>2, AnswerRead DEF ListInv, ListComesFirst, SameStory
<1>7. CASE WiresCut \/ AllForgotten
  BY <1>0, <1>7 DEF WiresCut, AllForgotten, ListInv, ListComesFirst, SameStory
<1>8. CASE ListRequested
  <2>1. CASE toServer' = toServer /\ docList' = docList
    BY <1>8, <2>1 DEF ListRequested, ListInv, ListComesFirst
  <2>2. CASE toServer' = toServer \o <<Ask>> /\ docList = "not asked" /\ docList' = "asked"
    <3>1. toServer' = Append(toServer, Ask) /\ Ask \in Request /\ Ask.type = "list"
      BY <1>0, <2>2, PacketsMade, AppendIsConcat DEF Ask
    <3>2. toServer = <<>> => ListFirst(toServer') /\ toServer'[1] = Ask
      BY <1>0, <3>1, ListWritten
    <3>3. toServer = <<>> => ~NoList(toServer')
      BY <1>0, <3>1, <3>2, AppendProperties, LenProperties DEF NoList
    <3>4. QED BY <1>0, <1>8, <2>2, <3>2, <3>3 DEF ListRequested, ListInv, ListComesFirst
  <2>3. QED BY <1>8, <2>1, <2>2 DEF ListRequested
<1>9. QED
  BY <1>1, <1>2, <1>3, <1>4, <1>5, <1>6, <1>7, <1>8, WireSteps

\* An answer to a creation brings an id above all that are held.
LEMMA AnswersFreshKept ==
  ASSUME IndInv, DocumentsType, IdsInv, ListInv, [DocumentsNext]_allVars
  PROVE  AnswersFresh'
<1>0. toServer \in Seq(Request) /\ toClient \in Seq(Answer) /\ maxId \in Nat
  BY DEF DocumentsType
<1>1. CASE WiresIdle \/ RequestRead \/ ListRequested
  BY <1>1 DEF WiresIdle, RequestRead, ListRequested, ListInv, AnswersFresh, SameStory
<1>2. CASE ListAnswered
  <2>1. docList = "asked" /\ ~NoList(toServer)
    BY <1>0, <1>2, ListsRead DEF ListAnswered, ListInv, ListUnderWay
  <2>2. ASSUME "early" \notin story
        PROVE  AnswersFresh'
    <3>1. toClient = <<>> /\ idsToDocs' = {}
      BY <1>2, <2>1, <2>2 DEF ListAnswered, ListInv, ListComesFirst
    <3>2. DOMAIN toClient' = 1..1
      BY <1>0, <1>2, <3>1, AppendProperties, LenProperties DEF ListAnswered
    <3>3. QED BY <3>1, <3>2 DEF AnswersFresh
  <2>3. QED BY <1>2, <2>2 DEF ListAnswered, AnswersFresh
<1>3. CASE CreationAnswered
  <2> DEFINE answer == [type |-> "create", docs |-> {Created}]
  <2>1. answer \in Answer /\ toClient' = Append(toClient, answer) /\ idsToDocs' = idsToDocs
    BY <1>3 DEF CreationAnswered
  <2>2. /\ DOMAIN toClient' = 1..Len(toClient) + 1
        /\ DOMAIN toClient = 1..Len(toClient) /\ Len(toClient) \in Nat
        /\ \A k \in 1..Len(toClient) : toClient'[k] = toClient[k]
        /\ toClient'[Len(toClient) + 1] = answer
    BY <1>0, <2>1, AppendProperties, LenProperties
  <2>3. Carried(toClient') = Carried(toClient) \cup {Created}
    BY <1>0, <2>1, CarriedAppend
  <2>4. \A d \in Held : d.id # Created.id
    <3>1. Created.id = maxId + 1 /\ serverUp
      BY <1>3, CreateSteps DEF CreationAnswered, CreateDocument, Reads
    <3>2. \A d \in Held : d.id \in Nat /\ d.id <= maxId
      BY <3>1, CarriedType DEF IdsInv, IdsGiven, DocumentsType, Held, NamedDoc
    <3>3. QED BY <1>0, <3>1, <3>2
  <2>5. \A k \in DOMAIN toClient : toClient[k].docs \subseteq Held
    BY CarriedOf DEF Held
  <2>6. \A k \in DOMAIN toClient' : k # Len(toClient) + 1 => k \in DOMAIN toClient /\ toClient'[k] = toClient[k]
    BY <2>2
  <2>7. "early" \in story' <=> "early" \in story
    BY <1>3 DEF CreationAnswered, SameStory
  <2>8. ASSUME "early" \notin story
        PROVE  \A d \in Carried(toClient') : \A e \in idsToDocs' : d.id # e.id
    BY <2>1, <2>3, <2>4, <2>8 DEF Held, ListInv, AnswersFresh
  <2>9. ASSUME "early" \notin story, NEW j \in DOMAIN toClient', NEW k \in DOMAIN toClient', j # k,
               NEW d \in toClient'[j].docs, NEW e \in toClient'[k].docs
        PROVE  d.id # e.id
    <3>1. CASE j = Len(toClient) + 1
      BY <2>2, <2>4, <2>5, <2>6, <2>9, <3>1
    <3>2. CASE k = Len(toClient) + 1
      BY <2>2, <2>4, <2>5, <2>6, <2>9, <3>2
    <3>3. CASE j # Len(toClient) + 1 /\ k # Len(toClient) + 1
      BY <2>6, <2>9, <3>3 DEF ListInv, AnswersFresh
    <3>4. QED BY <3>1, <3>2, <3>3
  <2>10. QED BY <2>7, <2>8, <2>9 DEF AnswersFresh
<1>4. CASE ClientAsks
  <2>1. UNCHANGED <<toClient, idsToDocs>> /\ ("early" \in story => "early" \in story')
    BY <1>4 DEF ClientAsks
  <2>2. QED BY <2>1 DEF ListInv, AnswersFresh
<1>5. CASE DocumentAdded
  <2>1. idsToDocs' \subseteq idsToDocs \cup Head(toClient).docs
    BY <1>5 DEF DocumentAdded
  <2>2. ASSUME "early" \notin story, NEW d \in Carried(toClient'), NEW e \in idsToDocs'
        PROVE  d.id # e.id
    <3>1. PICK k \in DOMAIN toClient' : d \in toClient'[k].docs
      BY CarriedOf
    <3>2. CASE e \in idsToDocs
      BY <1>5, <2>2, <3>2, AnswerRead DEF ListInv, AnswersFresh
    <3>3. CASE e \in Head(toClient).docs
      <4>1. /\ 1 \in DOMAIN toClient /\ k + 1 \in DOMAIN toClient /\ k + 1 # 1
            /\ d \in toClient[k + 1].docs /\ e \in toClient[1].docs
        <5>1. k \in DOMAIN Tail(toClient) /\ k \in 1..Len(toClient) - 1 /\ Len(toClient) \in Nat
          BY <1>0, <1>5, AnswerRead, HeadTailProperties, LenProperties
        <5>2. QED BY <1>5, <3>1, <3>3, <5>1, AnswerRead
      <4>2. QED BY <2>2, <4>1 DEF ListInv, AnswersFresh
    <3>4. QED BY <2>1, <3>2, <3>3
  <2>3. ASSUME "early" \notin story, NEW j \in DOMAIN toClient', NEW k \in DOMAIN toClient', j # k,
               NEW d \in toClient'[j].docs, NEW e \in toClient'[k].docs
        PROVE  d.id # e.id
    <3>1. /\ j + 1 \in DOMAIN toClient /\ toClient'[j] = toClient[j + 1]
          /\ k + 1 \in DOMAIN toClient /\ toClient'[k] = toClient[k + 1]
          /\ j \in Nat /\ k \in Nat
      BY <1>5, AnswerRead
    <3>2. j + 1 # k + 1
      BY <2>3, <3>1
    <3>3. QED BY <2>3, <3>1, <3>2 DEF ListInv, AnswersFresh
  <2>4. QED BY <1>5, <2>2, <2>3, AnswerRead DEF AnswersFresh, SameStory
<1>6. CASE WiresCut \/ AllForgotten
  <2>1. toClient' = <<>>
    BY <1>6 DEF WiresCut, AllForgotten
  <2>2. DOMAIN toClient' = {} /\ Carried(toClient') = {}
    BY <2>1, CarriedEmpty
  <2>3. QED BY <2>2 DEF AnswersFresh
<1>7. QED BY <1>1, <1>2, <1>3, <1>4, <1>5, <1>6, WireSteps

\* So that no answer brings an id that the window has.
LEMMA NoDocumentTwiceKept ==
  ASSUME IndInv, DocumentsType, ListInv, [DocumentsNext]_allVars
  PROVE  NoDocumentTwice'
<1>1. CASE DocumentAdded
  <2>1. ASSUME "early" \notin story
        PROVE  story' = story
    <3>1. Head(toClient).docs \subseteq Carried(toClient)
      BY <1>1, AnswerRead
    <3>2. {d \in Head(toClient).docs : \E old \in idsToDocs : old.id = d.id} = {}
      BY <2>1, <3>1 DEF ListInv, AnswersFresh
    <3>3. QED BY <1>1, <3>2 DEF DocumentAdded
  <2>2. QED BY <1>1, <2>1, AnswerRead DEF ListInv, NoDocumentTwice, SameStory
<1>2. CASE \/ WiresIdle \/ RequestRead \/ ListAnswered \/ CreationAnswered \/ ClientAsks
           \/ WiresCut \/ ListRequested \/ AllForgotten
  BY <1>2 DEF WiresIdle, RequestRead, ListAnswered, CreationAnswered, ClientAsks, WiresCut,
     ListRequested, AllForgotten, ListInv, NoDocumentTwice, SameStory
<1>3. QED BY <1>1, <1>2, WireSteps

\* A file that is made after the list was sent comes in an answer of its own.
LEMMA CompleteKept ==
  ASSUME IndInv, DocumentsType, IdsInv, ListInv, [DocumentsNext]_allVars
  PROVE  Complete'
<1>0. toServer \in Seq(Request) /\ toClient \in Seq(Answer)
  BY DEF DocumentsType
<1>1. CASE WiresIdle \/ RequestRead \/ ClientAsks
  BY <1>1 DEF WiresIdle, RequestRead, ClientAsks, ListInv, Complete, SameStory, SocketKept
<1>2. CASE ListAnswered
  <2>1. Carried(toClient') = Carried(toClient) \cup Named(DOMAIN docs, docs)
    BY <1>0, <1>2, CarriedAppend DEF ListAnswered
  <2>2. \A f \in ToSet(files) : \E d \in Named(DOMAIN docs, docs) : d.meant = f
    <3>1. \A f \in ToSet(files) : \E id \in DOMAIN docs : docs[id] = f
      BY <1>2 DEF ListAnswered, SendDocumentList, Reads, IdsInv, FilesOpen
    <3>2. ASSUME NEW id \in DOMAIN docs
          PROVE  \E d \in Named(DOMAIN docs, docs) : d.meant = docs[id]
      <4>1. [id |-> id, meant |-> docs[id]] \in Named(DOMAIN docs, docs)
        BY DEF Named
      <4>2. QED BY <4>1
    <3>3. QED BY <3>1, <3>2
  <2>3. QED BY <1>2, <2>1, <2>2 DEF ListAnswered, Complete
<1>3. CASE CreationAnswered
  <2>1. Carried(toClient') = Carried(toClient) \cup {Created} /\ (NoList(toClient) => NoList(toClient'))
    <3> DEFINE answer == [type |-> "create", docs |-> {Created}]
    <3>1. /\ answer \in Answer /\ toClient' = Append(toClient, answer)
          /\ answer.type # "list" /\ answer.docs = {Created}
      BY <1>3 DEF CreationAnswered
    <3> HIDE DEF answer
    <3>2. Carried(Append(toClient, answer)) = Carried(toClient) \cup answer.docs
      BY <1>0, <3>1, CarriedAppend
    <3>3. NoList(toClient) => NoList(Append(toClient, answer))
      BY <1>0, <3>1, NoListWritten
    <3>4. QED BY <3>1, <3>2, <3>3
  <2>2. ToSet(files') = ToSet(files) \cup {Created.meant}
    BY <1>3, CreateSteps DEF CreationAnswered
  <2>3. QED BY <1>3, <2>1, <2>2 DEF CreationAnswered, ListInv, Complete, SameStory
<1>4. CASE DocumentAdded
  <2>1. ASSUME "lost" \notin story', "stale" \notin story', docList' = "received" \/ ~NoList(toClient'),
               NEW f \in ToSet(files')
        PROVE  \E d \in idsToDocs' \cup Carried(toClient') : d.meant = f
    <3>1. docList = "received" \/ ~NoList(toClient)
      BY <1>0, <1>4, <2>1, AnswerRead, ListsRead
    <3>2. PICK d \in idsToDocs \cup Carried(toClient) : d.meant = f
      BY <1>4, <2>1, <3>1, AnswerRead DEF ListInv, Complete, SameStory
    <3>3. CASE d \in idsToDocs \cup Carried(toClient')
      BY <1>4, <3>2, <3>3 DEF DocumentAdded
    <3>4. CASE d \in Head(toClient).docs
      <4>1. CASE \E old \in idsToDocs : old.id = d.id
        <5>1. PICK old \in idsToDocs : old.id = d.id
          BY <4>1
        <5>2. old.meant = d.meant
          BY <1>4, <2>1, <3>2, <5>1, AnswerRead DEF IdsInv, NamesAgree, Held, SameStory
        <5>3. QED BY <1>4, <3>2, <5>1, <5>2 DEF DocumentAdded
      <4>2. CASE ~ \E old \in idsToDocs : old.id = d.id
        BY <1>4, <3>2, <3>4, <4>2 DEF DocumentAdded
      <4>3. QED BY <4>1, <4>2
    <3>5. QED BY <1>4, <3>2, <3>3, <3>4, AnswerRead
  <2>2. QED BY <2>1 DEF Complete
<1>5. CASE WiresCut
  <2>1. ASSUME "lost" \notin story', docList' = "received"
        PROVE  Carried(toClient) = {} /\ docList = "received"
    <3>1. docList = "received"
      BY <1>5, <2>1 DEF WiresCut
    <3>2. \A k \in DOMAIN toClient : toClient[k].type # "create" /\ toClient[k].type # "list"
      BY <1>5, <2>1, <3>1 DEF WiresCut, ToSet, ListInv, ListUnderWay, NoList
    <3>3. \A k \in DOMAIN toClient : toClient[k] \in Answer
      BY <1>0
    <3>4. DOMAIN toClient = {}
      BY <3>2, <3>3 DEF Answer
    <3>5. QED BY <3>1, <3>4, CarriedOf
  <2>2. NoList(toClient') /\ Carried(toClient') = {}
    BY <1>5, CarriedEmpty DEF WiresCut, NoList
  <2>3. QED BY <1>5, <2>1, <2>2 DEF WiresCut, ListInv, Complete, SameStory
<1>6. CASE ListRequested
  BY <1>6 DEF ListRequested, ListInv, Complete
<1>7. CASE AllForgotten
  <2>1. docList' # "received" /\ toClient' = <<>>
    BY <1>7 DEF AllForgotten
  <2>2. NoList(<<>>)
    BY DEF NoList
  <2>3. QED BY <2>1, <2>2 DEF Complete
<1>8. QED BY <1>1, <1>2, <1>3, <1>4, <1>5, <1>6, <1>7, WireSteps

\* The inductive invariant.
DocumentsInv == IndInv /\ DocumentsType /\ IdsInv /\ ListInv

\* The server starts with its folder, the client with nothing.
LEMMA DocumentsInitInv == DocumentsInit => DocumentsInv
<1> SUFFICES ASSUME DocumentsInit PROVE DocumentsInv
  OBVIOUS
<1>1. IndInv /\ docList = "not asked"
  BY StartsAsConnection, InitInv DEF Init
<1>2. PICK n \in 0..MaxFiles - 1 : files = [k \in 1..n |-> k]
  BY DEF DocumentsInit
<1>3. files \in Seq(Nat \ {NoFile})
  <2>1. n \in Nat
    BY DocumentsAssumption
  <2>2. \A k \in 1..n : k \in Nat \ {NoFile}
    BY <2>1 DEF NoFile
  <2>3. QED BY <1>2, <2>1, <2>2
<1>4. /\ toServer = <<>> /\ toClient = <<>> /\ idsToDocs = {} /\ story = {}
      /\ docs = IF serverUp THEN Numbered(files) ELSE NoDocs
      /\ maxId = IF serverUp THEN MaxIdOf(files) ELSE 0
  BY DEF DocumentsInit
<1>5. IsFiniteSet({}) /\ DOMAIN NoDocs = {} /\ NoDocs \in [DOMAIN NoDocs -> Nat]
  BY FS_EmptySet DEF NoDocs
<1>6. DocumentsType
  BY <1>3, <1>4, <1>5, NumberedType DEF DocumentsType
<1>7. Held = {} /\ Carried(toClient) = {}
  BY <1>4, CarriedEmpty DEF Held
<1>8. IdsInv
  <2>1. IdsGiven /\ FilesOpen /\ AsNumbered
    BY <1>3, <1>4, <1>7, NumberedType DEF IdsGiven, FilesOpen, AsNumbered, InFiles
  <2>2. NamesAgree /\ IdsNameDocuments
    BY <1>7 DEF NamesAgree, IdsNameDocuments, Held
  <2>3. NoNullDocument /\ ServerSurvives
    BY <1>3, <1>4, NumberedType DEF NoNullDocument, ServerSurvives
  <2>4. QED BY <2>1, <2>2, <2>3 DEF IdsInv
<1>9. ListInv
  <2>1. NoList(<<>>) /\ AtMostOneList(<<>>)
    BY DEF NoList, AtMostOneList
  <2>2. DOMAIN toClient = {}
    BY <1>4
  <2>3. QED
    BY <1>1, <1>4, <1>7, <2>1, <2>2 DEF ListInv, ListUnderWay, ListComesFirst, AnswersFresh,
       NoDocumentTwice, Complete
<1>10. QED BY <1>1, <1>6, <1>8, <1>9 DEF DocumentsInv

\* Every step keeps it.
LEMMA DocumentsNextInv ==
  ASSUME DocumentsInv, [DocumentsNext]_allVars
  PROVE  DocumentsInv'
<1> USE DEF DocumentsInv
<1>1. IndInv'
  BY StepsOfConnection, NextKeeps
<1>2. DocumentsType'
  BY TypeKept
<1>3. IdsInv'
  BY IdsGivenKept, FilesOpenKept, AsNumberedKept, NamesAgreeKept, IdsNameDocumentsKept,
     NoNullDocumentKept DEF IdsInv
<1>4. ListInv'
  BY ListUnderWayKept, ListComesFirstKept, AnswersFreshKept, NoDocumentTwiceKept, CompleteKept
     DEF ListInv
<1>5. QED BY <1>1, <1>2, <1>3, <1>4

---------------------------------------------------------------------------
(* The theorems.                                                           *)

\* The inductive invariant of the server's documents, the packets under way and
\* the list of the window.
THEOREM DocumentsInvHolds == DocumentsSpec => []DocumentsInv
<1>1. DocumentsInit => DocumentsInv
  BY DocumentsInitInv
<1>2. DocumentsInv /\ [DocumentsNext]_allVars => DocumentsInv'
  BY DocumentsNextInv
<1>3. QED BY <1>1, <1>2, PTL DEF DocumentsSpec

\* Whatever is listed, created, lost and started again, an id names on the
\* server the document it named when it was sent, unless the server started
\* again after a document was created (getNextDocId, TodoServer::TodoServer).
THEOREM IdsAlwaysNameDocuments == DocumentsSpec => []IdsNameDocuments
<1>1. DocumentsInv => IdsNameDocuments
  BY DEF DocumentsInv, IdsInv
<1>2. QED BY <1>1, DocumentsInvHolds, PTL

\* No id comes a second time, unless a document was created before the list was
\* asked for (onDocListReceived, onNewDocumentOnServer).
THEOREM NeverDocumentTwice == DocumentsSpec => []NoDocumentTwice
<1>1. DocumentsInv => NoDocumentTwice
  BY DEF DocumentsInv, ListInv
<1>2. QED BY <1>1, DocumentsInvHolds, PTL

\* While the connection lasts the list of the window, with what is under way,
\* has every file of the server (sendDocumentList, createDocument).
THEOREM ListAlwaysComplete == DocumentsSpec => []ListComplete
<1>1. DocumentsInv => ListComplete
  BY DEF DocumentsInv, ListInv, Complete, ListComplete
<1>2. QED BY <1>1, DocumentsInvHolds, PTL

\* The server does not meet a null document unless it was started again after a
\* document was created (sendDocumentList).
THEOREM ServerAlwaysSurvives == DocumentsSpec => []ServerSurvives
<1>1. DocumentsInv => ServerSurvives
  BY DEF DocumentsInv, IdsInv
<1>2. QED BY <1>1, DocumentsInvHolds, PTL
=============================================================================
