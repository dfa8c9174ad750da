----------------------------- MODULE Connection -----------------------------
(***************************************************************************)
(* How the client gets and keeps its connection: LogAppServer              *)
(* (client/logappserver.cpp) wraps a QSslSocket, ApplicationControl        *)
(* (client/applicationcontrol.cpp) starts connecting, looks every five     *)
(* seconds whether it worked, and asks for the list of documents once.     *)
(* The socket and the server process are modelled by the events that the   *)
(* slots of the client react to.                                           *)
(***************************************************************************)
EXTENDS Naturals

VARIABLES socket,           \* QSslSocket: "connected" is before the handshake is over
          status,           \* LogAppServer::status
          connectionState,  \* ApplicationControl::connectionState
          timerActive,      \* connectionTimer, single shot
          label,            \* the last setConnectionStatus
          docList,          \* the request for the list of documents and its answer
          serverUp,         \* the server process listens
          hungUp,           \* its end of the connection is gone
          certTrusted       \* the handshake accepts the server's certificate

clientVars == <<status, connectionState, timerActive, label>>
vars == <<socket, clientVars, docList, serverUp, hungUp, certTrusted>>

---------------------------------------------------------------------------
(* Slots of the client.  Each reads the values of the variables before the *)
(* step and says what they become.                                         *)

\* The bug of not trying again after an error.
ConnectToServerUnlessFailed ==
  CASE socket = "unconnected" /\ status # "SS_DISCONNECTED" ->
         socket' = "connecting" /\ status' = "SS_CONNECTING"
    [] socket \in {"connected", "encrypted"} -> status' = "SS_CONNECTED" /\ UNCHANGED socket
    [] OTHER -> UNCHANGED <<socket, status>>

\* LogAppServer::connectToServer
ConnectToServer ==
  CASE socket = "unconnected" -> socket' = "connecting" /\ status' = "SS_CONNECTING"
    [] socket \in {"connected", "encrypted"} -> status' = "SS_CONNECTED" /\ UNCHANGED socket
    [] OTHER -> UNCHANGED <<socket, status>>

\* The bug of stopping once a connection is being made.
ServerPoolingOnce ==
  /\ timerActive
  /\ IF status = "SS_CONNECTED"
     THEN label' = "connected" /\ timerActive' = FALSE /\ UNCHANGED <<socket, status>>
     ELSE ConnectToServer /\ timerActive' = (socket = "unconnected") /\ UNCHANGED label
  /\ UNCHANGED <<connectionState, docList, serverUp, hungUp, certTrusted>>

\* serverPooling, when connectionTimer fires.  Once the status is connected
\* nothing starts the timer again.
ServerPooling ==
  /\ timerActive
  /\ IF status = "SS_CONNECTED"
     THEN label' = "connected" /\ timerActive' = FALSE /\ UNCHANGED <<socket, status>>
     ELSE ConnectToServer /\ UNCHANGED <<timerActive, label>>
  /\ UNCHANGED <<connectionState, docList, serverUp, hungUp, certTrusted>>

\* The bug of asking for the list again on every connection.
OnServerConnectedAlways ==
  connectionState' = "CONNECTED" /\ docList' = "asked"

\* onServerConnected: after a lost connection nothing is asked for again.
OnServerConnected ==
  /\ connectionState' = "CONNECTED"
  /\ docList' = IF connectionState \in {"JUST_STARTED", "CONNECTION_ERROR"}
                THEN "asked" ELSE docList

\* onConnectionEstablished, when the handshake is over.
ConnectionEstablished ==
  /\ socket = "connected" /\ ~hungUp /\ certTrusted
  /\ socket' = "encrypted"
  /\ status' = "SS_CONNECTED"
  /\ OnServerConnected
  /\ UNCHANGED <<timerActive, label, serverUp, hungUp, certTrusted>>

\* The bug of forgetting that the connection was there.
OnServerDisconnectedKeepingState(reason) ==
  /\ label' = reason
  /\ UNCHANGED connectionState

OnServerDisconnected(reason) ==
  /\ connectionState' = IF connectionState = "CONNECTED" THEN "CONNECTION_LOST"
                        ELSE connectionState
  /\ label' = reason

\* The slots onConnectionLost, onConnectionError and onConnectionSslError abort
\* the socket, and abort() of a connected socket emits disconnected(): all end
\* in the same state, only the text shown differs.  The answer that was under
\* way is gone with the socket.
Abort(reason) ==
  /\ socket' = "unconnected"
  /\ hungUp' = FALSE
  /\ status' = "SS_DISCONNECTED"
  /\ OnServerDisconnected(reason)
  /\ docList' = IF docList = "asked" THEN "dropped" ELSE docList
  /\ UNCHANGED <<timerActive, serverUp, certTrusted>>

\* error() before there is a connection: nobody listens, or went away again.
ConnectionRefused == socket = "connecting" /\ ~serverUp /\ Abort("error")

\* sslErrors()
SslErrors == socket = "connected" /\ ~hungUp /\ ~certTrusted /\ Abort("lost")

\* disconnected(), or error() with the remote host closing: both slots run.
ConnectionLost ==
  /\ hungUp
  /\ \E reason \in {"lost", "error"} : Abort(reason)

---------------------------------------------------------------------------
(* What happens outside the client.  A server that stops, or that accepts  *)
(* another client (TodoServer::incomingConnection deletes the socket it    *)
(* has), closes the connection; the client is told some time later.        *)

HangUp == IF socket \in {"connected", "encrypted"} THEN hungUp' = TRUE ELSE UNCHANGED hungUp

TcpConnected ==
  /\ socket = "connecting" /\ serverUp
  /\ socket' = "connected"
  /\ UNCHANGED <<clientVars, docList, serverUp, hungUp, certTrusted>>

\* The answer to getDocList is read; it may have come before a hang-up.
DocListReceived ==
  /\ socket = "encrypted" /\ docList = "asked"
  /\ docList' = "received"
  /\ UNCHANGED <<socket, clientVars, serverUp, hungUp, certTrusted>>

ServerStarts ==
  /\ ~serverUp /\ serverUp' = TRUE
  /\ UNCHANGED <<socket, clientVars, docList, hungUp, certTrusted>>

ServerStops ==
  /\ serverUp /\ serverUp' = FALSE
  /\ HangUp
  /\ UNCHANGED <<socket, clientVars, docList, certTrusted>>

AnotherClient ==
  /\ serverUp
  /\ HangUp
  /\ UNCHANGED <<socket, clientVars, docList, serverUp, certTrusted>>

\* The program ends and is started again.
ClientRestarts ==
  /\ socket' = "connecting"
  /\ status' = "SS_CONNECTING"
  /\ connectionState' = "JUST_STARTED"
  /\ timerActive' = TRUE
  /\ label' = ""
  /\ docList' = "not asked"
  /\ hungUp' = FALSE
  /\ UNCHANGED <<serverUp, certTrusted>>

\* The constructor of ApplicationControl has run.
Init ==
  /\ socket = "connecting"
  /\ status = "SS_CONNECTING"
  /\ connectionState = "JUST_STARTED"
  /\ timerActive = TRUE
  /\ label = ""
  /\ docList = "not asked"
  /\ hungUp = FALSE
  /\ serverUp \in BOOLEAN
  /\ certTrusted \in BOOLEAN

Next == \/ ServerPooling \/ ConnectionEstablished \/ ConnectionRefused \/ SslErrors
        \/ ConnectionLost \/ TcpConnected \/ DocListReceived
        \/ ServerStarts \/ ServerStops \/ AnotherClient \/ ClientRestarts

\* The timer fires, and the operating system reports what becomes of a
\* connection attempt; whether the server is ever started is left open.
Fairness ==
  /\ WF_vars(ServerPooling) /\ WF_vars(ConnectionEstablished) /\ WF_vars(ConnectionRefused)
  /\ WF_vars(SslErrors) /\ WF_vars(ConnectionLost) /\ WF_vars(TcpConnected)
  /\ WF_vars(DocListReceived)

Spec == Init /\ [][Next]_vars /\ Fairness

---------------------------------------------------------------------------
(* Properties.                                                             *)

\* Every variable has its type; CONNECTION_ERROR is never assigned.
TypeOK ==
  /\ socket \in {"unconnected", "connecting", "connected", "encrypted"}
  /\ status \in {"SS_CONNECTING", "SS_CONNECTED", "SS_DISCONNECTED"}
  /\ connectionState \in {"CONNECTED", "CONNECTION_LOST", "JUST_STARTED"}
  /\ timerActive \in BOOLEAN
  /\ label \in {"", "connected", "lost", "error"}
  /\ docList \in {"not asked", "asked", "received", "dropped"}
  /\ serverUp \in BOOLEAN /\ hungUp \in BOOLEAN /\ certTrusted \in BOOLEAN

\* The application knows whether its connection is up, however the socket, the
\* two slots that report a loss and the polling follow each other: packets of
\* the document go out exactly while connectionState is CONNECTED.
StateFollowsSocket == connectionState = "CONNECTED" <=> socket = "encrypted"

\* The list of documents is asked for once in the life of the program, so no
\* document is ever opened twice, and no reconnection brings a lost list back.
ListAskedOnce == [][docList' = "asked" => docList \in {"not asked", "asked"}]_vars

\* The polling (serverPooling) stops only while the socket has a connection,
\* never after an attempt that was refused or one that is under way: the status
\* it goes by is set and reset by other slots, and must not outlive the socket.
\* That the handshake is over is not promised.
PollingStops ==
  [][timerActive /\ ~timerActive' => socket \in {"connected", "encrypted"}]_vars

\* The strengthening that makes these inductive: a status of SS_CONNECTED has a
\* socket behind it, a hang-up a connection, and the list is asked for when
\* JUST_STARTED is left.
HungUpHasSocket == hungUp => socket \in {"connected", "encrypted"}
StatusHasSocket == status = "SS_CONNECTED" => socket \in {"connected", "encrypted"}
AskedWhenStarted == connectionState = "JUST_STARTED" <=> docList = "not asked"

\* What the slots of the two classes rely on in each other, together.
IndInv == TypeOK /\ StateFollowsSocket /\ StatusHasSocket
          /\ HungUpHasSocket /\ AskedWhenStarted

\* If from some time on the server is up and keeps the connection, its
\* certificate is good, and the program runs on, the list of documents arrives,
\* unless the one request for it was lost with a connection, or the connection
\* was lost after the polling had stopped: then it is never made again
\* (serverPooling, onServerConnected).
ListArrives ==
  certTrusted /\ <>[](serverUp /\ ~hungUp) /\ <>[][~ClientRestarts]_vars
  => <>(docList \in {"received", "dropped"} \/ (~timerActive /\ socket = "unconnected"))
=============================================================================
