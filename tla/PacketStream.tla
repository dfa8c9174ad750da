----------------------------- MODULE PacketStream -----------------------------
(***************************************************************************)
(* How the two programs cut the bytes of the connection into packets:      *)
(* sendPacket writes a header and then its payload, the bytes arrive in    *)
(* pieces of any length, and the slots LogAppServer::readData and          *)
(* TodoServer::incomingMessage read what has come each time.               *)
(*                                                                         *)
(* Bytes are known by their place in the stream.  A header read from any   *)
(* other place than the start of a packet is garbage: it may name any      *)
(* payload, and be taken for a packet.  One direction is followed.         *)
(***************************************************************************)
EXTENDS Naturals, Sequences, FiniteSets

CONSTANTS HeaderSize,    \* sizeof(NetworkHeader)
          ResponseSize,  \* sizeof(uint16_t)
          Payloads,      \* sizes of the payloads of the other packets
          MaxPackets     \* bound: packets sent

ASSUME StreamAssumption ==
  /\ HeaderSize \in Nat \ {0} /\ ResponseSize \in 1..HeaderSize - 1
  /\ Payloads \subseteq Nat /\ MaxPackets \in Nat

VARIABLES reader,   \* the program that reads
          packets,  \* sent by the other program, with the place of each in the stream
          arrived,  \* bytes that have come
          pos,      \* bytes taken out of the buffer
          pc,       \* idle: in the event loop; header: in the slot; stuck: in a loop for ever
          handled,  \* the packets handled, by their number in the stream
          begin,    \* history: bytes that had come before the last ones
          split     \* history: the slot was once called with part of a packet

vars == <<reader, packets, arrived, pos, pc, handled, begin, split>>

Garbage == 0

End(p) == p.start + HeaderSize + p.dataSize
Size == IF packets = <<>> THEN 0 ELSE End(packets[Len(packets)])
Start(k) == IF k \in DOMAIN packets THEN packets[k].start ELSE Size
Boundaries == {Start(k) : k \in 1..Len(packets) + 1}
Available == arrived - pos
\* The packet that starts at pos.
At(k) == k \in DOMAIN packets /\ Start(k) = pos

---------------------------------------------------------------------------
\* sendPacket; only the server sends PT_RESPONSE.
SendPacket ==
  /\ Len(packets) < MaxPackets
  /\ \/ \E n \in Payloads :
          packets' = Append(packets, [type |-> "data", dataSize |-> n, start |-> Size])
     \/ /\ reader = "client"
        /\ packets' = Append(packets, [type |-> "PT_RESPONSE", dataSize |-> ResponseSize,
                                      start |-> Size])
  /\ UNCHANGED <<reader, arrived, pos, pc, handled, begin, split>>

\* readyRead().  In the slot nothing more comes.
Arrive(n) ==
  /\ pc = "idle" /\ arrived + n <= Size
  /\ arrived' = arrived + n
  /\ begin' = arrived
  /\ pc' = "header"
  /\ split' = (split \/ arrived' \notin Boundaries)
  /\ UNCHANGED <<reader, packets, pos, handled>>

Takes(p) == pos' = p /\ UNCHANGED <<reader, packets, arrived, begin, split>>

\* A header that is none: its payload may be anything, or missing.
ReadGarbage ==
  /\ pc = "header" /\ pos \notin Boundaries /\ Available >= HeaderSize
  /\ handled' \in {handled, Append(handled, Garbage)}
  /\ \/ pc' = "header" /\ \E p \in pos + HeaderSize..arrived : Takes(p)
     \/ pc' = (IF reader = "client" THEN "idle" ELSE "stuck") /\ Takes(arrived)

---------------------------------------------------------------------------
(* LogAppServer::readData                                                  *)

\* A part of a header is taken out of the buffer, and the slot returns.
ClientReturns ==
  /\ reader = "client" /\ pc = "header" /\ Available < HeaderSize
  /\ Takes(arrived)
  /\ pc' = "idle"
  /\ UNCHANGED handled

\* The bug of waiting for the next signal after each packet.
ReadDataOnce(k) ==
  /\ reader = "client" /\ pc = "header" /\ At(k) /\ Available >= HeaderSize
  /\ pc' = "idle"
  /\ IF packets[k].type = "PT_RESPONSE" THEN Takes(pos + HeaderSize) /\ UNCHANGED handled
     ELSE IF Available >= HeaderSize + packets[k].dataSize
     THEN Takes(pos + HeaderSize + packets[k].dataSize) /\ handled' = Append(handled, k)
     ELSE Takes(arrived) /\ UNCHANGED handled

\* The payload of a response is left where it is; an answer whose payload is
\* not all there is dropped, and the slot returns.
ReadData(k) ==
  /\ reader = "client" /\ pc = "header" /\ At(k) /\ Available >= HeaderSize
  /\ \/ /\ packets[k].type = "PT_RESPONSE"
        /\ Takes(pos + HeaderSize)
        /\ UNCHANGED <<pc, handled>>
     \/ /\ packets[k].type = "data" /\ Available >= HeaderSize + packets[k].dataSize
        /\ Takes(pos + HeaderSize + packets[k].dataSize)
        /\ handled' = Append(handled, k)
        /\ UNCHANGED pc
     \/ /\ packets[k].type = "data" /\ Available < HeaderSize + packets[k].dataSize
        /\ Takes(arrived)
        /\ pc' = "idle"
        /\ UNCHANGED handled

---------------------------------------------------------------------------
(* TodoServer::incomingMessage                                             *)

ServerReturns ==
  /\ reader = "server" /\ pc = "header" /\ Available = 0
  /\ pc' = "idle"
  /\ UNCHANGED <<reader, packets, arrived, pos, handled, begin, split>>

\* The loop for the rest of a header ends when the rest has come, but it comes
\* only after the slot has returned.
ServerWaitsForHeader ==
  /\ reader = "server" /\ pc = "header" /\ Available \in 1..HeaderSize - 1
  /\ Takes(arrived)
  /\ pc' = "stuck"
  /\ UNCHANGED handled

\* The bug of leaving the payload where it is.
IncomingMessageLeavingPayload(k) ==
  /\ reader = "server" /\ pc = "header" /\ At(k) /\ Available >= HeaderSize
  /\ Takes(pos + HeaderSize)
  /\ handled' = Append(handled, k)
  /\ UNCHANGED pc

\* A payload that is not all there: nothing and a part longer than a header are
\* handled as if it were, of a shorter part the rest is waited for.
IncomingMessage(k) ==
  /\ reader = "server" /\ pc = "header" /\ At(k) /\ Available >= HeaderSize
  /\ LET need == packets[k].dataSize
         rest == Available - HeaderSize
     IN \/ /\ rest >= need
           /\ Takes(pos + HeaderSize + need)
           /\ handled' = Append(handled, k)
           /\ UNCHANGED pc
        \/ /\ rest < need /\ rest \notin 1..HeaderSize - 1
           /\ Takes(arrived)
           /\ handled' = Append(handled, Garbage)
           /\ UNCHANGED pc
        \/ /\ rest < need /\ rest \in 1..HeaderSize - 1
           /\ Takes(arrived)
           /\ pc' = "stuck"
           /\ UNCHANGED handled

---------------------------------------------------------------------------
Init ==
  /\ reader \in {"client", "server"}
  /\ packets = <<>> /\ handled = <<>>
  /\ arrived = 0 /\ pos = 0 /\ begin = 0
  /\ pc = "idle"
  /\ split = FALSE

Next == \/ SendPacket \/ ReadGarbage
        \/ \E n \in 1..Size : Arrive(n)
        \/ ClientReturns \/ ServerReturns \/ ServerWaitsForHeader
        \/ \E k \in DOMAIN packets : ReadData(k) \/ IncomingMessage(k)

Spec == Init /\ [][Next]_vars

---------------------------------------------------------------------------
(* Properties.                                                             *)

\* The server (incomingMessage) handles every packet, each once and in order,
\* exactly as long as the pieces that come end where packets end; once one ends
\* inside a packet it has handled something that was never sent, or waits for
\* ever in the slot, for all clients.
ServerInStep == reader = "server" /\ pc \in {"idle", "stuck"} =>
  (~split <=> /\ pc = "idle"
              /\ handled = [k \in 1..Cardinality({e \in DOMAIN packets : Start(e + 1) <= arrived}) |-> k])

\* Whatever the client misread or lost before (readData), when whole packets
\* come together, and no response but the last of them, it handles them all:
\* every return leaves the buffer empty, so that it finds back to the start of
\* a packet.
ClientFindsBack == reader = "client" /\ pc = "idle" =>
  \A first, last \in DOMAIN packets :
    LET answers == {k \in first..last : packets[k].type = "data"}
        before == Len(handled) - Cardinality(answers)
    IN Start(first) = begin /\ Start(last + 1) = arrived /\ first..last - 1 \subseteq answers
       => before >= 0 /\ \A k \in answers : handled[before + k - first + 1] = k
=============================================================================
