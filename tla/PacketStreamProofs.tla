------------------------- MODULE PacketStreamProofs -------------------------
(* The two slots that read keep the place they have reached in step with the *)
(* packets: the server until a piece ends inside a packet, the client from   *)
(* every piece that starts with a packet to its end.                         *)
EXTENDS PacketStream, SequenceTheorems, FiniteSetTheorems, TLAPS

Packet == [type : {"data", "PT_RESPONSE"}, dataSize : Nat, start : Nat]

\* The type of every variable, and how far each place is.
StreamType ==
  /\ reader \in {"client", "server"}
  /\ packets \in Seq(Packet)
  /\ arrived \in Nat /\ pos \in Nat /\ begin \in Nat
  /\ pos <= arrived /\ arrived <= Size
  /\ pc \in {"idle", "header", "stuck"}
  /\ handled \in Seq(Nat)
  /\ split \in BOOLEAN

\* The packets lie one behind the other, and only the server answers.
Laid ==
  /\ \A k \in DOMAIN packets : packets[k].start = IF k = 1 THEN 0 ELSE End(packets[k - 1])
  /\ \A j, k \in DOMAIN packets : j < k => End(packets[j]) <= packets[k].start
  /\ \A k \in DOMAIN packets : packets[k].type = "PT_RESPONSE" =>
       reader = "client" /\ packets[k].dataSize = ResponseSize

\* As long as the pieces end where packets end the server is at the start of a
\* packet and has handled those before it.
InStep ==
  /\ pc # "stuck"
  /\ Len(handled) <= Len(packets) /\ pos = Start(Len(handled) + 1)
  /\ \A k \in DOMAIN handled : handled[k] = k
  /\ arrived \in Boundaries
  /\ pc = "idle" => pos = arrived

\* Else it is about to fall out of step, or has.
OutOfStep ==
  \/ pc = "stuck"
  \/ \E k \in DOMAIN handled : handled[k] = Garbage
  \/ pc = "header" /\ pos \in Boundaries /\ arrived \notin Boundaries

ServerInv == reader = "server" => IF split THEN OutOfStep ELSE InStep

\* The last packets that were handled are first..last.
JustHandled(first, last) ==
  /\ last - first + 1 <= Len(handled)
  /\ \A k \in first..last : handled[Len(handled) - last + k] = k

\* Whole packets came, and no response but the last of them.
CameWhole(first, last) ==
  /\ first <= last /\ Start(first) = begin /\ Start(last + 1) = arrived
  /\ \A k \in first..last - 1 : packets[k].type = "data"

\* The client has read some of them, or left the payload of the response.
ClientReads(first, last) ==
  \/ \E k \in first..last + 1 :
       /\ pos = Start(k) /\ JustHandled(first, k - 1)
       /\ k = last + 1 => packets[last].type = "data"
  \/ /\ pos = Start(last) + HeaderSize /\ packets[last].type = "PT_RESPONSE"
     /\ JustHandled(first, last - 1)

\* The client has returned, and has handled all but the response.
ClientRead(first, last) ==
  IF packets[last].type = "data" THEN JustHandled(first, last) ELSE JustHandled(first, last - 1)

ClientInv == reader = "client" =>
  /\ pc # "stuck"
  /\ pc = "idle" => pos = arrived
  /\ \A first, last \in DOMAIN packets : CameWhole(first, last) =>
       IF pc = "header" THEN ClientReads(first, last) ELSE ClientRead(first, last)

StreamInv == StreamType /\ Laid /\ ServerInv /\ ClientInv

---------------------------------------------------------------------------
(* Places in the stream.                                                   *)

\* A packet ends where the next one starts, and each takes a header at least.
LEMMA Places ==
  ASSUME StreamType, Laid
  PROVE  /\ DOMAIN packets = 1..Len(packets) /\ Len(packets) \in Nat
         /\ Size \in Nat
         /\ \A k \in 1..Len(packets) + 1 : Start(k) \in Nat /\ Start(k) <= Size
         /\ \A k \in DOMAIN packets :
              /\ packets[k].dataSize \in Nat /\ packets[k].type \in {"data", "PT_RESPONSE"}
              /\ Start(k + 1) = Start(k) + HeaderSize + packets[k].dataSize
         /\ \A j, k \in 1..Len(packets) + 1 : j < k => Start(j) + HeaderSize <= Start(k)
         /\ Start(1) = 0 /\ Start(Len(packets) + 1) = Size
<1>1. DOMAIN packets = 1..Len(packets) /\ Len(packets) \in Nat /\ HeaderSize \in Nat \ {0}
  BY LenProperties, StreamAssumption DEF StreamType
<1>2. ASSUME NEW k \in DOMAIN packets
      PROVE  packets[k] \in Packet
  BY DEF StreamType
<1>3. ASSUME NEW k \in DOMAIN packets
      PROVE  /\ packets[k].start \in Nat /\ packets[k].dataSize \in Nat
             /\ packets[k].type \in {"data", "PT_RESPONSE"}
             /\ End(packets[k]) = packets[k].start + HeaderSize + packets[k].dataSize
             /\ End(packets[k]) \in Nat
  BY <1>1, <1>2 DEF Packet, End
<1>4. packets # <<>> => Len(packets) \in DOMAIN packets /\ Size = End(packets[Len(packets)])
  BY <1>1, EmptySeq DEF Size, StreamType
<1>5. Size \in Nat
  BY <1>3, <1>4 DEF Size
<1>6. ASSUME NEW k \in 1..Len(packets) + 1, k \notin DOMAIN packets
      PROVE  k = Len(packets) + 1 /\ Start(k) = Size
  BY <1>1, <1>6 DEF Start
<1>7. ASSUME NEW k \in DOMAIN packets
      PROVE  Start(k) = packets[k].start
  BY DEF Start
<1>8. ASSUME NEW k \in DOMAIN packets
      PROVE  End(packets[k]) <= Size
  <2>1. packets # <<>>
    BY <1>1
  <2>2. CASE k = Len(packets)
    BY <1>3, <1>4, <2>1, <2>2
  <2>3. CASE k # Len(packets)
    <3>1. k < Len(packets) /\ Len(packets) \in DOMAIN packets
      BY <1>1, <2>3
    <3>2. End(packets[k]) <= packets[Len(packets)].start
      BY <3>1 DEF Laid
    <3>3. PICK last \in DOMAIN packets : last = Len(packets) /\ Size = End(packets[last])
      BY <1>4, <2>1
    <3>4. packets[last].start <= End(packets[last])
      BY <1>1, <1>3
    <3>5. End(packets[k]) \in Nat /\ packets[last].start \in Nat /\ Size \in Nat
      BY <1>3, <1>5
    <3>6. QED BY <3>2, <3>3, <3>4, <3>5
  <2>4. QED BY <2>2, <2>3
<1>9. ASSUME NEW k \in 1..Len(packets) + 1
      PROVE  Start(k) \in Nat /\ Start(k) <= Size
  <2>1. CASE k \in DOMAIN packets
    <3>1. Start(k) \in Nat /\ Start(k) <= End(packets[k])
      BY <1>1, <1>3, <1>7, <2>1
    <3>2. QED BY <1>3, <1>5, <1>8, <2>1, <3>1
  <2>2. CASE k \notin DOMAIN packets
    BY <1>5, <1>6, <2>2
  <2>3. QED BY <2>1, <2>2
<1>10. ASSUME NEW k \in DOMAIN packets
       PROVE  Start(k + 1) = End(packets[k])
  <2>1. CASE k + 1 \in DOMAIN packets
    <3>1. k + 1 # 1 /\ (k + 1) - 1 = k
      BY <1>1
    <3>2. packets[k + 1].start = End(packets[(k + 1) - 1])
      BY <2>1, <3>1 DEF Laid
    <3>3. QED BY <1>7, <2>1, <3>1, <3>2
  <2>2. CASE k + 1 \notin DOMAIN packets
    <3>1. k = Len(packets) /\ k + 1 \in 1..Len(packets) + 1 /\ packets # <<>>
      BY <1>1, <2>2
    <3>2. QED BY <1>4, <1>6, <2>2, <3>1
  <2>3. QED BY <2>1, <2>2
<1>11. ASSUME NEW j \in 1..Len(packets) + 1, NEW k \in 1..Len(packets) + 1, j < k
       PROVE  Start(j) + HeaderSize <= Start(k)
  <2>1. j \in DOMAIN packets
    BY <1>1, <1>11
  <2>2. Start(j) + HeaderSize <= End(packets[j])
    BY <1>1, <1>3, <1>7, <2>1
  <2>3. End(packets[j]) <= Start(k)
    <3>1. CASE k \in DOMAIN packets
      BY <1>7, <1>11, <2>1, <3>1 DEF Laid
    <3>2. CASE k \notin DOMAIN packets
      BY <1>6, <1>8, <2>1, <3>2
    <3>3. QED BY <3>1, <3>2
  <2>4. Start(j) \in Nat /\ Start(k) \in Nat /\ End(packets[j]) \in Nat
    BY <1>3, <1>9, <2>1
  <2>5. QED BY <1>1, <2>2, <2>3, <2>4
<1>12. Start(1) = 0 /\ Start(Len(packets) + 1) = Size
  <2>1. CASE packets = <<>>
    BY <1>1, <2>1 DEF Start, Size
  <2>2. CASE packets # <<>>
    <3>1. 1 \in DOMAIN packets /\ Len(packets) + 1 \notin DOMAIN packets
      BY <1>1, <1>4, <2>2
    <3>2. QED BY <1>7, <3>1 DEF Laid, Start
  <2>3. QED BY <2>1, <2>2
<1>13. ASSUME NEW k \in DOMAIN packets
       PROVE  Start(k + 1) = Start(k) + HeaderSize + packets[k].dataSize
  BY <1>3, <1>7, <1>10
<1>14. QED BY <1>1, <1>3, <1>5, <1>9, <1>11, <1>12, <1>13

\* What is sent lies behind all there is, and moves none of it.
LEMMA SendSteps ==
  ASSUME StreamType, Laid, SendPacket
  PROVE  /\ packets' \in Seq(Packet) /\ Len(packets') = Len(packets) + 1
         /\ \A k \in DOMAIN packets : k \in DOMAIN packets' /\ packets'[k] = packets[k]
         /\ \A k \in 1..Len(packets) + 1 : Start(k)' = Start(k)
         /\ \A k : k = Len(packets) + 2 => Start(k)' = Size'
         /\ Size' \in Nat /\ Size' >= Size + HeaderSize
         /\ Laid'
<1>1. PICK p \in Packet :
        /\ packets' = Append(packets, p) /\ p.start = Size
        /\ p.type = "PT_RESPONSE" => reader = "client" /\ p.dataSize = ResponseSize
  <2>1. Size \in Nat
    BY Places
  <2>2. CASE \E n \in Payloads :
               packets' = Append(packets, [type |-> "data", dataSize |-> n, start |-> Size])
    <3>1. PICK n \in Payloads :
            packets' = Append(packets, [type |-> "data", dataSize |-> n, start |-> Size])
      BY <2>2
    <3>2. n \in Nat
      BY StreamAssumption
    <3>3. [type |-> "data", dataSize |-> n, start |-> Size] \in Packet
      BY <2>1, <3>2 DEF Packet
    <3>4. QED BY <3>1, <3>3
  <2>3. CASE /\ reader = "client"
             /\ packets' = Append(packets, [type |-> "PT_RESPONSE", dataSize |-> ResponseSize,
                                           start |-> Size])
    <3>1. ResponseSize \in Nat
      BY StreamAssumption
    <3>2. [type |-> "PT_RESPONSE", dataSize |-> ResponseSize, start |-> Size] \in Packet
      BY <2>1, <3>1 DEF Packet
    <3>3. QED BY <2>3, <3>2
  <2>4. QED BY <2>2, <2>3 DEF SendPacket
<1> DEFINE N == Len(packets)
<1>2. /\ N \in Nat /\ DOMAIN packets = 1..N /\ HeaderSize \in Nat \ {0} /\ Size \in Nat
      /\ packets \in Seq(Packet)
  BY Places, StreamAssumption DEF StreamType
<1>3. /\ packets' \in Seq(Packet) /\ Len(packets') = N + 1 /\ DOMAIN packets' = 1..N + 1
      /\ \A k \in 1..N : packets'[k] = packets[k]
      /\ packets'[N + 1] = p
  BY <1>1, <1>2, AppendProperties, LenProperties
<1>4. p.start \in Nat /\ p.dataSize \in Nat /\ End(p) = Size + HeaderSize + p.dataSize
  BY <1>1 DEF Packet, End
<1>5. packets' # <<>>
  BY <1>2, <1>3
<1>6. Size' = End(p)
  BY <1>3, <1>5 DEF Size, End
<1>7. ASSUME NEW k \in 1..N + 1
      PROVE  Start(k)' = Start(k)
  <2>1. k \in DOMAIN packets' /\ Start(k)' = packets'[k].start
    BY <1>3 DEF Start
  <2>2. CASE k \in DOMAIN packets
    BY <1>2, <1>3, <2>1, <2>2 DEF Start
  <2>3. CASE k \notin DOMAIN packets
    <3>1. k = N + 1
      BY <1>2, <2>3
    <3>2. QED BY <1>1, <1>3, <2>1, <2>3, <3>1 DEF Start
  <2>4. QED BY <2>2, <2>3
<1>8. ASSUME NEW k, k = N + 2
      PROVE  Start(k)' = Size'
  <2>1. k \notin DOMAIN packets'
    BY <1>2, <1>3, <1>8
  <2>2. QED BY <2>1 DEF Start
<1>9. Size' \in Nat /\ Size' >= Size + HeaderSize
  BY <1>2, <1>4, <1>6
<1>10. Laid'
  <2>1. ASSUME NEW k \in DOMAIN packets'
        PROVE  packets'[k].start = IF k = 1 THEN 0 ELSE End(packets'[k - 1])
    <3>1. CASE k \in DOMAIN packets
      <4>1. packets'[k] = packets[k] /\ (k # 1 => k - 1 \in 1..N /\ packets'[k - 1] = packets[k - 1])
        BY <1>2, <1>3, <3>1
      <4>2. QED BY <3>1, <4>1 DEF Laid
    <3>2. CASE k \notin DOMAIN packets
      <4>1. k = N + 1 /\ packets'[k] = p
        BY <1>2, <1>3, <3>2
      <4>2. CASE N = 0
        BY <1>1, <1>2, <4>1, <4>2, EmptySeq DEF Size
      <4>3. CASE N # 0
        <5>1. packets # <<>> /\ k # 1 /\ k - 1 = N /\ packets'[k - 1] = packets[N]
          BY <1>2, <1>3, <4>1, <4>3
        <5>2. Size = End(packets[N])
          BY <5>1 DEF Size
        <5>3. QED BY <1>1, <4>1, <5>1, <5>2
      <4>4. QED BY <4>2, <4>3
    <3>3. QED BY <3>1, <3>2
  <2>2. ASSUME NEW j \in DOMAIN packets', NEW k \in DOMAIN packets', j < k
        PROVE  End(packets'[j]) <= packets'[k].start
    <3>1. j \in 1..N /\ packets'[j] = packets[j]
      BY <1>2, <1>3, <2>2
    <3>2. CASE k \in 1..N
      BY <1>2, <1>3, <2>2, <3>1, <3>2 DEF Laid
    <3>3. CASE k \notin 1..N
      <4>1. packets'[k].start = Size
        BY <1>1, <1>2, <1>3, <3>3
      <4>2. End(packets[j]) = Start(j + 1) /\ Start(j + 1) <= Size
        <5>1. j \in DOMAIN packets /\ j + 1 \in 1..N + 1
          BY <1>2, <3>1
        <5>2. Start(j) = packets[j].start
          BY <5>1 DEF Start
        <5>3. QED BY <5>1, <5>2, Places DEF End
      <4>3. QED BY <3>1, <4>1, <4>2
    <3>4. QED BY <3>2, <3>3
  <2>3. ASSUME NEW k \in DOMAIN packets', packets'[k].type = "PT_RESPONSE"
        PROVE  reader' = "client" /\ packets'[k].dataSize = ResponseSize
    <3>1. reader' = reader
      BY DEF SendPacket
    <3>2. CASE k \in 1..N
      BY <1>2, <1>3, <2>3, <3>1, <3>2 DEF Laid
    <3>3. CASE k \notin 1..N
      BY <1>1, <1>2, <1>3, <2>3, <3>1, <3>3
    <3>4. QED BY <3>2, <3>3
  <2>4. QED BY <2>1, <2>2, <2>3 DEF Laid, End
<1>11. QED BY <1>2, <1>3, <1>7, <1>8, <1>9, <1>10

\* Every other step leaves the stream as it is.
LEMMA PlacesStay ==
  ASSUME UNCHANGED packets
  PROVE  /\ Size' = Size /\ Boundaries' = Boundaries
         /\ \A k : Start(k)' = Start(k)
         /\ Laid /\ reader' = reader => Laid'
<1>1. Size' = Size
  BY DEF Size, End
<1>2. \A k : Start(k)' = Start(k)
  BY <1>1 DEF Start
<1>3. Boundaries' = Boundaries
  BY <1>2 DEF Boundaries
<1>4. Laid /\ reader' = reader => Laid'
  BY DEF Laid, End
<1>5. QED BY <1>1, <1>2, <1>3, <1>4

\* The slots, by what they take and what they handle.
Slot ==
  /\ pc = "header" /\ UNCHANGED <<reader, packets, arrived, begin, split>>
  /\ pos' \in Nat /\ pos <= pos' /\ pos' <= arrived
  /\ pc' \in {"idle", "header", "stuck"}
  /\ \/ handled' = handled
     \/ \E k \in Nat : handled' = Append(handled, k)

\* A step sends a packet, brings bytes, or runs a slot.
LEMMA Slots ==
  ASSUME StreamType, Laid, Next
  PROVE  \/ SendPacket
         \/ \E n \in 1..Size : Arrive(n)
         \/ Slot
<1> USE DEF Takes, Available
<1>1. HeaderSize \in Nat /\ pos \in Nat /\ arrived \in Nat /\ pos <= arrived
  BY StreamAssumption DEF StreamType
<1>2. arrived \in Nat /\ pos <= arrived /\ arrived <= arrived
  BY <1>1
<1>3. CASE ReadGarbage
  <2>1. handled' = handled \/ \E k \in Nat : handled' = Append(handled, k)
    BY <1>3 DEF ReadGarbage, Garbage
  <2>2. pc' \in {"idle", "header", "stuck"}
    BY <1>3 DEF ReadGarbage
  <2>3. \E p \in Nat : pos <= p /\ p <= arrived /\ Takes(p)
    BY <1>1, <1>3 DEF ReadGarbage
  <2>4. QED BY <1>3, <2>1, <2>2, <2>3 DEF ReadGarbage, Slot
<1>4. CASE ClientReturns \/ ServerReturns \/ ServerWaitsForHeader
  BY <1>1, <1>4 DEF ClientReturns, ServerReturns, ServerWaitsForHeader, Slot
<1>5. CASE \E k \in DOMAIN packets : ReadData(k)
  <2>1. PICK k \in DOMAIN packets : ReadData(k)
    BY <1>5
  <2>2. k \in Nat /\ packets[k].dataSize \in Nat
    BY Places
  <2>3. pc = "header" /\ Available >= HeaderSize
    BY <2>1 DEF ReadData
  <2>4. CASE Takes(pos + HeaderSize) /\ UNCHANGED <<pc, handled>>
    BY <1>1, <2>3, <2>4 DEF Slot
  <2>5. CASE /\ Available >= HeaderSize + packets[k].dataSize
             /\ Takes(pos + HeaderSize + packets[k].dataSize)
             /\ handled' = Append(handled, k) /\ UNCHANGED pc
    BY <1>1, <2>2, <2>3, <2>5 DEF Slot
  <2>6. CASE Takes(arrived) /\ pc' = "idle" /\ UNCHANGED handled
    BY <1>1, <2>3, <2>6 DEF Slot
  <2>7. QED BY <2>1, <2>4, <2>5, <2>6 DEF ReadData
<1>6. CASE \E k \in DOMAIN packets : IncomingMessage(k)
  <2>1. PICK k \in DOMAIN packets : IncomingMessage(k)
    BY <1>6
  <2>2. k \in Nat /\ packets[k].dataSize \in Nat /\ Garbage \in Nat
    BY Places DEF Garbage
  <2>3. pc = "header" /\ Available >= HeaderSize
    BY <2>1 DEF IncomingMessage
  <2>4. CASE /\ Available - HeaderSize >= packets[k].dataSize
             /\ Takes(pos + HeaderSize + packets[k].dataSize)
             /\ handled' = Append(handled, k) /\ UNCHANGED pc
    BY <1>1, <2>2, <2>3, <2>4 DEF Slot
  <2>5. CASE Takes(arrived) /\ handled' = Append(handled, Garbage) /\ UNCHANGED pc
    BY <1>1, <2>2, <2>3, <2>5 DEF Slot
  <2>6. CASE Takes(arrived) /\ pc' = "stuck" /\ UNCHANGED handled
    BY <1>1, <2>3, <2>6 DEF Slot
  <2>7. QED BY <2>1, <2>4, <2>5, <2>6 DEF IncomingMessage
<1>7. QED BY <1>3, <1>4, <1>5, <1>6 DEF Next

\* The types are kept.
LEMMA TypeKept ==
  ASSUME StreamType, Laid, [Next]_vars
  PROVE  StreamType' /\ Laid'
<1>0. HeaderSize \in Nat \ {0} /\ Size \in Nat
  BY StreamAssumption, Places
<1>1. CASE SendPacket
  <2>1. /\ packets' \in Seq(Packet) /\ Laid'
        /\ Size' \in Nat /\ Size' >= Size + HeaderSize
    BY <1>1, SendSteps
  <2>2. UNCHANGED <<reader, arrived, pos, pc, handled, begin, split>>
    BY <1>1 DEF SendPacket
  <2>4. arrived \in Nat /\ arrived <= Size
    BY DEF StreamType
  <2>5. arrived' <= Size'
    BY <1>0, <2>1, <2>2, <2>4
  <2>6. QED BY <2>1, <2>2, <2>5 DEF StreamType
<1>2. CASE \E n \in 1..Size : Arrive(n)
  <2>1. PICK n \in 1..Size : Arrive(n)
    BY <1>2
  <2>2. UNCHANGED <<reader, packets, pos, handled>>
    BY <2>1 DEF Arrive
  <2>3. Size' = Size /\ Laid'
    BY <2>2, PlacesStay
  <2>4. /\ arrived' = arrived + n /\ arrived + n <= Size /\ n \in Nat /\ begin' = arrived
        /\ pc' = "header" /\ split' \in BOOLEAN
    BY <1>0, <2>1 DEF Arrive
  <2>5. QED BY <1>0, <2>2, <2>3, <2>4 DEF StreamType
<1>3. CASE Slot
  <2>1. Size' = Size /\ Laid'
    BY <1>3, PlacesStay DEF Slot
  <2>2. handled' \in Seq(Nat)
    BY <1>3, AppendProperties DEF Slot, StreamType
  <2>3. QED BY <1>3, <2>1, <2>2 DEF Slot, StreamType
<1>4. CASE UNCHANGED vars
  BY <1>4, PlacesStay DEF vars, StreamType
<1>5. QED BY <1>1, <1>2, <1>3, <1>4, Slots

\* A packet is known by its place, and one that starts before another ends by then.
LEMMA InOrder ==
  ASSUME StreamType, Laid, NEW j \in 1..Len(packets) + 1, NEW k \in 1..Len(packets) + 1
  PROVE  /\ Start(j) = Start(k) => j = k
         /\ Start(j) < Start(k) => j \in DOMAIN packets /\ j < k /\ Start(j + 1) <= Start(k)
         /\ Start(j) + HeaderSize > Start(k) => k <= j
<1>1. Len(packets) \in Nat /\ DOMAIN packets = 1..Len(packets) /\ HeaderSize \in Nat \ {0}
  BY Places, StreamAssumption
<1>2. Start(j) \in Nat /\ Start(k) \in Nat
  BY Places
<1>3. /\ j < k => Start(j) + HeaderSize <= Start(k)
      /\ k < j => Start(k) + HeaderSize <= Start(j)
  BY Places
<1>4. Start(j) < Start(k) => j < k /\ j \in DOMAIN packets
  BY <1>1, <1>2, <1>3
<1>5. ASSUME Start(j) < Start(k)
      PROVE  Start(j + 1) <= Start(k)
  <2>1. j < k /\ j + 1 \in 1..Len(packets) + 1
    BY <1>1, <1>4, <1>5
  <2>2. CASE j + 1 = k
    BY <1>2, <2>2
  <2>3. CASE j + 1 < k
    <3>1. Start(j + 1) + HeaderSize <= Start(k) /\ Start(j + 1) \in Nat
      BY <2>1, <2>3, Places
    <3>2. QED BY <1>1, <1>2, <3>1
  <2>4. QED BY <2>1, <2>2, <2>3
<1>6. QED BY <1>1, <1>2, <1>3, <1>4, <1>5

\* Where packets end is no place inside what is sent later.
LEMMA BoundariesGrow ==
  ASSUME StreamType, Laid, SendPacket
  PROVE  \A p \in Nat : p <= Size => (p \in Boundaries' <=> p \in Boundaries)
<1>1. /\ Len(packets) \in Nat /\ Len(packets') = Len(packets) + 1
      /\ Size \in Nat /\ HeaderSize \in Nat \ {0}
  BY Places, SendSteps, StreamAssumption
<1>2. \A k \in 1..Len(packets) + 1 : Start(k)' = Start(k)
  BY SendSteps
<1>3. /\ \A k : k = Len(packets) + 2 => Start(k)' = Size'
      /\ Size' \in Nat /\ Size' >= Size + HeaderSize
  BY SendSteps
<1>5. Boundaries \subseteq Boundaries'
  BY <1>1, <1>2 DEF Boundaries
<1>6. ASSUME NEW p \in Boundaries', p \in Nat, p <= Size
      PROVE  p \in Boundaries
  <2>1. PICK k \in 1..Len(packets) + 2 : p = Start(k)'
    BY <1>1 DEF Boundaries
  <2>2. k # Len(packets) + 2
    BY <1>1, <1>3, <1>6, <2>1
  <2>3. QED BY <1>1, <1>2, <2>1, <2>2 DEF Boundaries
<1>7. QED BY <1>5, <1>6

---------------------------------------------------------------------------
(* incomingMessage.                                                        *)

\* What was misread stays among what was handled.
LEMMA MisreadStays ==
  ASSUME StreamType, Laid, Next, \E k \in DOMAIN handled : handled[k] = Garbage
  PROVE  \E k \in DOMAIN handled' : handled'[k] = Garbage
<1>1. PICK k \in DOMAIN handled : handled[k] = Garbage
  OBVIOUS
<1>2. CASE handled' = handled
  BY <1>1, <1>2
<1>3. CASE \E j \in Nat : handled' = Append(handled, j)
  <2>1. PICK j \in Nat : handled' = Append(handled, j)
    BY <1>3
  <2>2. handled \in Seq(Nat)
    BY DEF StreamType
  <2>3. QED BY <1>1, <2>1, <2>2, AppendProperties, LenProperties
<1>4. QED BY <1>2, <1>3, Slots DEF SendPacket, Arrive, Slot

\* Nothing is read but in the slot.
LEMMA StuckStays ==
  ASSUME Next, pc = "stuck"
  PROVE  pc' = "stuck"
BY DEF Next, SendPacket, ReadGarbage, Arrive, ClientReturns, ServerReturns,
       ServerWaitsForHeader, ReadData, IncomingMessage

\* The steps of the slot that reads.
LEMMA ServerSlot ==
  ASSUME StreamType, Laid, Next, Slot, reader = "server"
  PROVE  \/ ReadGarbage \/ ServerReturns \/ ServerWaitsForHeader
         \/ \E k \in DOMAIN packets : IncomingMessage(k)
<1>1. ~SendPacket
  <2>1. Len(packets) \in Nat /\ Len(packets') = Len(packets)
    BY Places DEF Slot
  <2>2. SendPacket => Len(packets') = Len(packets) + 1
    BY SendSteps
  <2>3. QED BY <2>1, <2>2
<1>2. \A n : ~Arrive(n)
  BY DEF Slot, Arrive
<1>3. ~ClientReturns /\ \A k : ~ReadData(k)
  BY DEF ClientReturns, ReadData
<1>4. QED BY <1>1, <1>2, <1>3 DEF Next

\* What a slot of the client does: garbage, nothing, or a packet.
LEMMA ClientSlot ==
  ASSUME StreamType, Laid, Next, Slot, reader = "client"
  PROVE  ReadGarbage \/ ClientReturns \/ \E k \in DOMAIN packets : ReadData(k)
<1>1. ~SendPacket
  <2>1. Len(packets) \in Nat /\ Len(packets') = Len(packets)
    BY Places DEF Slot
  <2>2. SendPacket => Len(packets') = Len(packets) + 1
    BY SendSteps
  <2>3. QED BY <2>1, <2>2
<1>2. \A n : ~Arrive(n)
  BY DEF Slot, Arrive
<1>3. ~ServerReturns /\ ~ServerWaitsForHeader /\ \A k : ~IncomingMessage(k)
  BY DEF ServerReturns, ServerWaitsForHeader, IncomingMessage
<1>4. QED BY <1>1, <1>2, <1>3 DEF Next

\* The server keeps in step, or falls out of it for ever.
LEMMA ServerKept ==
  ASSUME StreamType, Laid, ServerInv, Next
  PROVE  ServerInv'
<1> SUFFICES ASSUME reader' = "server" PROVE IF split' THEN OutOfStep' ELSE InStep'
  BY DEF ServerInv
<1>0. HeaderSize \in Nat \ {0}
  BY StreamAssumption
<1>1. reader = "server"
  BY Slots DEF SendPacket, Arrive, Slot
<1>2. /\ HeaderSize \in Nat \ {0} /\ Size \in Nat /\ Len(packets) \in Nat
      /\ DOMAIN packets = 1..Len(packets)
      /\ \A k \in 1..Len(packets) + 1 : Start(k) \in Nat
      /\ \A k \in DOMAIN packets : packets[k].dataSize \in Nat
                                   /\ Start(k + 1) = Start(k) + HeaderSize + packets[k].dataSize
  BY StreamAssumption, Places
<1>3. /\ arrived \in Nat /\ pos \in Nat /\ pos <= arrived /\ arrived <= Size
      /\ handled \in Seq(Nat) /\ split \in BOOLEAN
  BY DEF StreamType
<1>4. /\ Len(handled) \in Nat /\ DOMAIN handled = 1..Len(handled)
      /\ \A k : /\ Len(Append(handled, k)) = Len(handled) + 1
                /\ k \in Nat => Append(handled, k)[Len(handled) + 1] = k
                /\ \A i \in 1..Len(handled) : k \in Nat => Append(handled, k)[i] = handled[i]
  BY <1>3, AppendProperties, LenProperties
<1>5. CASE pc = "stuck" \/ \E k \in DOMAIN handled : handled[k] = Garbage
  <2>1. OutOfStep'
    BY <1>5, StuckStays, MisreadStays DEF OutOfStep
  <2>2. split
    <3>1. ASSUME ~split, NEW k \in DOMAIN handled, handled[k] = Garbage
          PROVE  FALSE
      BY <1>1, <1>4, <3>1 DEF ServerInv, InStep, Garbage
    <3>2. QED BY <1>1, <1>5, <3>1 DEF ServerInv, InStep
  <2>3. split'
    BY <2>2, Slots DEF SendPacket, Arrive, Slot
  <2>4. QED BY <2>1, <2>3
<1>6. CASE ~(pc = "stuck" \/ \E k \in DOMAIN handled : handled[k] = Garbage)
  <2>1. split => pc = "header" /\ pos \in Boundaries /\ arrived \notin Boundaries
    BY <1>1, <1>6 DEF ServerInv, OutOfStep
  <2>2. ~split => InStep
    BY <1>1 DEF ServerInv
  <2>3. pos \in Boundaries
    <3>1. ~split => Len(handled) + 1 \in 1..Len(packets) + 1 /\ pos = Start(Len(handled) + 1)
      BY <1>2, <1>4, <2>2 DEF InStep
    <3>2. QED BY <1>3, <2>1, <3>1 DEF Boundaries
  <2>4. CASE SendPacket
    <3>1. UNCHANGED <<reader, arrived, pos, pc, handled, begin, split>>
      BY <2>4 DEF SendPacket
    <3>2. /\ arrived \in Boundaries' <=> arrived \in Boundaries
          /\ pos \in Boundaries' <=> pos \in Boundaries
      <4>1. pos <= Size
        BY <1>2, <1>3
      <4>2. QED BY <1>3, <2>4, <4>1, BoundariesGrow
    <3>3. CASE split
      BY <2>1, <3>1, <3>2, <3>3 DEF OutOfStep, Boundaries
    <3>4. CASE ~split
      <4>1. InStep
        BY <2>2, <3>4
      <4>2. PICK m \in 1..Len(packets) + 1 : m = Len(handled) + 1 /\ pos = Start(m)
        BY <1>2, <1>4, <4>1 DEF InStep
      <4>3. Len(packets') = Len(packets) + 1 /\ Start(m)' = Start(m)
        BY <2>4, SendSteps
      <4>4. Len(handled') + 1 = m /\ pos' = Start(m)'
        BY <3>1, <4>2, <4>3
      <4>5. Len(handled') <= Len(packets')
        BY <1>2, <1>4, <3>1, <4>1, <4>3 DEF InStep
      <4>6. pos' = Start(Len(handled) + 1)'
        BY <4>4 DEF Start
      <4>7. QED BY <3>1, <3>2, <3>4, <4>1, <4>5, <4>6 DEF InStep
    <3>5. QED BY <1>3, <3>3, <3>4
  <2>5. CASE \E n \in 1..Size : Arrive(n)
    <3>1. PICK n \in 1..Size : Arrive(n)
      BY <2>5
    <3>2. pc = "idle" /\ ~split /\ InStep
      BY <1>3, <2>1, <2>2, <3>1 DEF Arrive
    <3>3. UNCHANGED <<reader, packets, pos, handled>> /\ pc' = "header"
      BY <3>1 DEF Arrive
    <3>4. Boundaries' = Boundaries /\ \A k : Start(k)' = Start(k)
      BY <3>3, PlacesStay
    <3>5. split' <=> arrived' \notin Boundaries
      BY <3>1, <3>2 DEF Arrive
    <3>6. CASE split'
      BY <2>3, <3>3, <3>4, <3>5, <3>6 DEF OutOfStep
    <3>7. CASE ~split'
      BY <3>2, <3>3, <3>4, <3>5, <3>7 DEF InStep
    <3>8. QED BY <3>6, <3>7
  <2>6. CASE Slot
    <3>1. UNCHANGED <<reader, packets, arrived, begin, split>> /\ pc = "header"
      BY <2>6 DEF Slot
    <3>2. Boundaries' = Boundaries /\ \A k : Start(k)' = Start(k)
      BY <3>1, PlacesStay
    <3>3. PICK m \in 1..Len(packets) + 1 : pos = Start(m)
      BY <2>3 DEF Boundaries
    <3>4. CASE split
      <4>1. arrived # pos
        BY <2>1, <2>3, <3>4
      <4>2. ~ReadGarbage /\ ~ServerReturns
        BY <1>3, <2>3, <4>1 DEF ReadGarbage, ServerReturns, Available
      <4>3. CASE ServerWaitsForHeader
        BY <3>1, <3>4, <4>3 DEF ServerWaitsForHeader, OutOfStep
      <4>4. ASSUME NEW k \in DOMAIN packets, IncomingMessage(k)
            PROVE  OutOfStep'
        <5>1. CASE Takes(pos + HeaderSize + packets[k].dataSize) /\ UNCHANGED pc
          <6>1. pos' = Start(k + 1) /\ k + 1 \in 1..Len(packets) + 1
            BY <1>2, <4>4, <5>1 DEF Takes, IncomingMessage, At
          <6>2. QED BY <2>1, <3>1, <3>2, <3>4, <5>1, <6>1 DEF OutOfStep, Boundaries
        <5>2. CASE handled' = Append(handled, Garbage)
          <6>1. Len(handled) + 1 \in DOMAIN handled' /\ handled'[Len(handled) + 1] = Garbage
            BY <1>3, <1>4, <5>2, AppendProperties, LenProperties DEF Garbage
          <6>2. QED BY <6>1 DEF OutOfStep
        <5>3. CASE pc' = "stuck"
          BY <5>3 DEF OutOfStep
        <5>4. QED BY <4>4, <5>1, <5>2, <5>3 DEF IncomingMessage
      <4>5. ServerWaitsForHeader \/ \E k \in DOMAIN packets : IncomingMessage(k)
        BY <1>1, <2>6, <4>2, ServerSlot
      <4>6. QED BY <3>1, <3>4, <4>3, <4>4, <4>5
    <3>5. CASE ~split
      <4>1. InStep /\ m = Len(handled) + 1
        <5>1. InStep /\ Start(m) = Start(Len(handled) + 1) /\ Len(handled) + 1 \in 1..Len(packets) + 1
          BY <1>2, <1>4, <2>2, <3>3, <3>5 DEF InStep
        <5>2. QED BY <5>1, InOrder
      <4>2. PICK a \in 1..Len(packets) + 1 : arrived = Start(a)
        BY <4>1 DEF InStep, Boundaries
      <4>3. CASE arrived = pos
        <5>1. \A k : ~IncomingMessage(k)
          BY <1>2, <1>3, <4>3 DEF IncomingMessage, Available
        <5>2. ~ReadGarbage /\ ~ServerWaitsForHeader
          BY <2>3, <1>3, <4>3 DEF ReadGarbage, ServerWaitsForHeader, Available
        <5>4. ServerReturns
          BY <1>1, <2>6, <5>1, <5>2, ServerSlot
        <5>5. pc' = "idle" /\ pos' = pos /\ handled' = handled
          BY <5>4 DEF ServerReturns
        <5>6. QED BY <3>1, <3>2, <3>5, <4>1, <4>3, <5>5 DEF InStep
      <4>4. CASE arrived # pos
        <5>1. /\ m \in DOMAIN packets /\ Start(m + 1) <= arrived /\ Start(m + 1) \in Nat
              /\ Start(m + 1) = pos + HeaderSize + packets[m].dataSize
              /\ packets[m].dataSize \in Nat
          <6>1. Start(m) < Start(a)
            BY <1>3, <3>3, <4>2, <4>4
          <6>2. m \in DOMAIN packets /\ Start(m + 1) <= Start(a)
            BY <6>1, InOrder
          <6>3. m + 1 \in 1..Len(packets) + 1
            BY <1>2, <6>2
          <6>4. QED BY <1>2, <3>3, <4>2, <6>2, <6>3
        <5>2. PICK need \in Nat : need = packets[m].dataSize
          BY <5>1
        <5>3. Available \in Int /\ Available - HeaderSize >= need /\ Available >= HeaderSize
          BY <1>0, <1>3, <5>1, <5>2 DEF Available
        <5>4. ~ServerReturns /\ ~ServerWaitsForHeader /\ ~ReadGarbage
          BY <1>2, <2>3, <5>3 DEF ServerReturns, ServerWaitsForHeader, ReadGarbage
        <5>5. PICK k \in DOMAIN packets : IncomingMessage(k)
          BY <1>1, <2>6, <5>4, ServerSlot
        <5>6. k = m
          <6>1. Start(k) = Start(m) /\ k \in 1..Len(packets) + 1
            BY <1>2, <3>3, <5>5 DEF IncomingMessage, At
          <6>2. QED BY <6>1, InOrder
        <5>8. ~(Available - HeaderSize < need)
          BY <1>2, <5>2, <5>3
        <5>9. /\ pos' = Start(m + 1) /\ handled' = Append(handled, m) /\ pc' = "header"
          BY <1>2, <3>1, <5>1, <5>2, <5>3, <5>5, <5>6, <5>8 DEF IncomingMessage, Takes
        <5>10. Len(handled') = Len(handled) + 1 /\ DOMAIN handled' = 1..Len(handled) + 1
          BY <1>3, <1>4, <4>1, <5>9, AppendProperties, LenProperties
        <5>11. \A k_1 \in DOMAIN handled' : handled'[k_1] = k_1
          BY <1>4, <4>1, <5>9, <5>10 DEF InStep
        <5>12. QED BY <1>2, <1>4, <3>1, <3>2, <3>5, <4>1, <5>1, <5>9, <5>10, <5>11 DEF InStep
      <4>5. QED BY <4>3, <4>4
    <3>6. QED BY <1>3, <3>4, <3>5
  <2>7. QED BY <2>4, <2>5, <2>6, Slots
<1>7. QED BY <1>5, <1>6

---------------------------------------------------------------------------
(* readData.                                                               *)

\* A packet that is handled follows those handled just before.
LEMMA HandlesNext ==
  ASSUME StreamType, NEW first \in Nat, NEW k \in Nat, first <= k,
         JustHandled(first, k - 1), handled' = Append(handled, k)
  PROVE  JustHandled(first, k)'
<1>1. /\ handled \in Seq(Nat) /\ Len(handled) \in Nat /\ DOMAIN handled = 1..Len(handled)
  BY LenProperties DEF StreamType
<1>2. /\ Len(handled') = Len(handled) + 1 /\ handled'[Len(handled) + 1] = k
      /\ \A i \in 1..Len(handled) : handled'[i] = handled[i]
  BY <1>1, AppendProperties
<1>3. PICK n \in Nat : n = Len(handled)
  BY <1>1
<1>4. k - first <= n /\ \A i \in first..k - 1 : handled[n - (k - 1) + i] = i
  BY <1>3 DEF JustHandled
<1>5. ASSUME NEW i \in first..k
      PROVE  handled'[(n + 1) - k + i] = i
  <2>1. CASE i = k
    <3>1. (n + 1) - k + i = n + 1
      BY <2>1
    <3>2. QED BY <1>2, <1>3, <2>1, <3>1
  <2>2. CASE i # k
    <3>1. /\ i \in first..k - 1 /\ (n + 1) - k + i \in 1..n
          /\ (n + 1) - k + i = n - (k - 1) + i
      BY <1>4, <2>2
    <3>2. handled[(n + 1) - k + i] = i
      BY <1>4, <3>1
    <3>3. QED BY <1>2, <1>3, <3>1, <3>2
  <2>3. QED BY <2>1, <2>2
<1>6. k - first + 1 <= n + 1
  BY <1>4
<1>7. Len(handled') = n + 1
  BY <1>2, <1>3
<1>8. QED BY <1>5, <1>6, <1>7 DEF JustHandled

\* What was handled before a piece that starts now does not matter.
LEMMA HandlesNone ==
  ASSUME StreamType, NEW first \in Nat
  PROVE  JustHandled(first, first - 1)
<1>1. Len(handled) \in Nat
  BY LenProperties DEF StreamType
<1>2. (first - 1) - first + 1 <= Len(handled) /\ first..first - 1 = {}
  BY <1>1
<1>3. QED BY <1>2 DEF JustHandled

\* The client does not stop in the slot, and leaves nothing in the buffer.
LEMMA ClientEmpties ==
  ASSUME StreamType, Laid, Next, reader = "client",
         pc # "stuck", pc = "idle" => pos = arrived
  PROVE  pc' # "stuck" /\ (pc' = "idle" => pos' = arrived')
<1>1. CASE SendPacket
  BY <1>1 DEF SendPacket
<1>2. CASE \E n \in 1..Size : Arrive(n)
  BY <1>2 DEF Arrive
<1>3. CASE Slot
  <2>1. CASE ReadGarbage
    BY <2>1 DEF ReadGarbage, Takes
  <2>2. CASE ClientReturns
    BY <2>2 DEF ClientReturns, Takes
  <2>3. CASE \E k \in DOMAIN packets : ReadData(k)
    BY <2>3 DEF ReadData, Takes
  <2>4. QED BY <1>3, <2>1, <2>2, <2>3, ClientSlot
<1>4. QED BY <1>1, <1>2, <1>3, Slots

\* Of whole packets the slot reads one after the other, and returns at the end
\* or behind the header of the response.
LEMMA ClientReadsOn ==
  ASSUME StreamType, Laid, Next, Slot, reader = "client",
         NEW first \in DOMAIN packets, NEW last \in DOMAIN packets,
         CameWhole(first, last), ClientReads(first, last)
  PROVE  IF pc' = "header" THEN ClientReads(first, last)'
         ELSE ClientRead(first, last)'
<1>1. /\ DOMAIN packets = 1..Len(packets) /\ Len(packets) \in Nat
      /\ HeaderSize \in Nat \ {0} /\ ResponseSize \in Nat /\ ResponseSize < HeaderSize
      /\ arrived \in Nat /\ pos \in Nat /\ first \in Nat /\ last \in Nat
      /\ first <= last /\ Start(last + 1) = arrived /\ Start(last) \in Nat
  <2>1. DOMAIN packets = 1..Len(packets) /\ Len(packets) \in Nat
    BY Places
  <2>2. HeaderSize \in Nat \ {0} /\ ResponseSize \in Nat /\ ResponseSize < HeaderSize
    BY StreamAssumption
  <2>3. arrived \in Nat /\ pos \in Nat
    BY DEF StreamType
  <2>4. first <= last /\ Start(last + 1) = arrived
    BY DEF CameWhole
  <2>5. last \in 1..Len(packets) + 1 /\ first \in Nat /\ last \in Nat
    BY <2>1
  <2>6. Start(last) \in Nat
    BY <2>5, Places
  <2>7. QED BY <2>1, <2>2, <2>3, <2>4, <2>5, <2>6
<1>2. last + 1 \in 1..Len(packets) + 1 /\ last \in 1..Len(packets) + 1
  BY <1>1
<1>3. UNCHANGED <<reader, packets, arrived, begin>> /\ pc = "header" /\ \A k : Start(k)' = Start(k)
  BY PlacesStay DEF Slot
<1>4. CASE /\ pos = Start(last) + HeaderSize /\ packets[last].type = "PT_RESPONSE"
           /\ JustHandled(first, last - 1)
  <2>1. Available < HeaderSize /\ Available >= 0
    <3>1. packets[last].dataSize = ResponseSize
      BY <1>4 DEF Laid
    <3>2. arrived = Start(last) + HeaderSize + ResponseSize
      BY <1>1, <3>1, Places
    <3>3. PICK p \in Nat : p = Start(last) /\ pos = p + HeaderSize /\ arrived = p + HeaderSize + ResponseSize
      BY <1>1, <1>4, <3>2
    <3>4. Available = ResponseSize
      BY <1>1, <3>3 DEF Available
    <3>5. QED BY <1>1, <3>4
  <2>2. ~ReadGarbage /\ \A k : ~ReadData(k)
    <3>1. ~(Available >= HeaderSize)
      BY <1>1, <2>1 DEF Available
    <3>2. QED BY <3>1 DEF ReadGarbage, ReadData
  <2>3. ClientReturns
    BY <2>2, ClientSlot
  <2>4. pc' = "idle" /\ handled' = handled
    BY <2>3 DEF ClientReturns
  <2>5. packets[last].type # "data"
    BY <1>4
  <2>6. QED BY <1>3, <1>4, <2>4, <2>5 DEF ClientRead, JustHandled
<1>5. ASSUME NEW k \in first..last + 1, pos = Start(k), JustHandled(first, k - 1),
             k = last + 1 => packets[last].type = "data"
      PROVE  IF pc' = "header" THEN ClientReads(first, last)'
             ELSE ClientRead(first, last)'
  <2>1. k \in 1..Len(packets) + 1 /\ k \in Nat
    BY <1>1
  <2>2. ~ReadGarbage
    BY <1>5, <2>1 DEF ReadGarbage, Boundaries
  <2>3. CASE ClientReturns
    <3>1. pc' = "idle" /\ handled' = handled /\ ~(Available >= HeaderSize)
      BY <1>1, <2>3 DEF ClientReturns, Available
    <3>2. k = last + 1
      <4>1. ASSUME k # last + 1
            PROVE  FALSE
        <5>1. Start(k) + HeaderSize <= Start(last + 1)
          BY <1>1, <1>2, <2>1, <4>1, Places
        <5>2. Available >= HeaderSize
          BY <1>1, <1>5, <5>1 DEF Available
        <5>3. QED BY <3>1, <5>2
      <4>2. QED BY <4>1
    <3>3. k - 1 = last /\ packets[last].type = "data"
      BY <1>1, <1>5, <3>2
    <3>4. QED BY <1>3, <1>5, <3>1, <3>3 DEF ClientRead, JustHandled
  <2>4. ASSUME NEW j \in DOMAIN packets, ReadData(j)
        PROVE  IF pc' = "header" THEN ClientReads(first, last)'
               ELSE ClientRead(first, last)'
    <3>1. j = k /\ k \in DOMAIN packets
      <4>1. Start(j) = Start(k) /\ j \in 1..Len(packets) + 1
        BY <1>1, <1>5, <2>4 DEF ReadData, At
      <4>2. QED BY <2>1, <2>4, <4>1, InOrder
    <3>2. PICK size \in Nat : size = packets[k].dataSize /\ Start(k + 1) = pos + HeaderSize + size
      BY <1>5, <3>1, Places
    <3>3. k <= last
      <4>1. pos < arrived
        BY <1>1, <2>4 DEF ReadData, Available
      <4>2. Start(k) < Start(last + 1)
        BY <1>1, <1>5, <4>1
      <4>3. k < last + 1
        BY <1>2, <2>1, <4>2, InOrder
      <4>4. QED BY <1>1, <4>3
    <3>4. ~(Available < HeaderSize + size)
      <4>1. Start(k) < Start(last + 1)
        <5>1. Start(k) + HeaderSize <= Start(last + 1)
          BY <1>1, <1>2, <2>1, <3>3, Places
        <5>2. QED BY <1>1, <1>5, <5>1
      <4>2. Start(k + 1) <= Start(last + 1)
        BY <1>2, <2>1, <4>1, InOrder
      <4>3. pos + HeaderSize + size <= arrived
        BY <1>1, <3>2, <4>2
      <4>4. QED BY <1>1, <4>3 DEF Available
    <3>5. CASE packets[k].type = "PT_RESPONSE"
      <4>1. k = last
        <5>1. ASSUME k # last
              PROVE  packets[k].type = "data"
          BY <1>1, <3>3, <5>1 DEF CameWhole
        <5>2. QED BY <3>5, <5>1
      <4>2. pos' = pos + HeaderSize /\ pc' = "header" /\ handled' = handled
        BY <1>3, <2>4, <3>1, <3>5 DEF ReadData, Takes
      <4>3. pos' = Start(last)' + HeaderSize
        BY <1>3, <1>5, <4>1, <4>2
      <4>4. JustHandled(first, last - 1)'
        BY <1>5, <4>1, <4>2 DEF JustHandled
      <4>5. QED BY <1>3, <3>5, <4>1, <4>2, <4>3, <4>4 DEF ClientReads
    <3>6. CASE packets[k].type # "PT_RESPONSE"
      <4>1. pos' = pos + HeaderSize + size /\ pc' = "header" /\ handled' = Append(handled, k)
        BY <1>3, <2>4, <3>1, <3>2, <3>4, <3>6 DEF ReadData, Takes
      <4>2. JustHandled(first, k)'
        <5>1. k \in Nat /\ first <= k
          BY <1>1
        <5>2. QED BY <1>1, <1>5, <4>1, <5>1, HandlesNext
      <4>3. PICK n \in first..last + 1 : n = k + 1 /\ n - 1 = k
        BY <1>1, <2>1, <3>3
      <4>4. pos' = Start(n)' /\ JustHandled(first, n - 1)'
        BY <1>3, <3>2, <4>1, <4>2, <4>3
      <4>5. n = last + 1 => packets'[last].type = "data"
        <5>1. n = last + 1 => k = last
          BY <1>1, <2>1, <4>3
        <5>2. packets[k].type \in {"data", "PT_RESPONSE"}
          BY <3>1, Places
        <5>3. QED BY <1>3, <3>6, <5>1, <5>2
      <4>6. QED BY <4>1, <4>4, <4>5 DEF ClientReads
    <3>7. QED BY <3>5, <3>6
  <2>5. QED BY <2>2, <2>3, <2>4, ClientSlot
<1>6. QED BY <1>4, <1>5 DEF ClientReads

\* A step keeps what the client has read of whole packets.
LEMMA ClientKept ==
  ASSUME StreamType, Laid, ClientInv, Next
  PROVE  ClientInv'
<1> SUFFICES ASSUME reader' = "client" PROVE ClientInv'
  BY DEF ClientInv
<1>1. reader = "client"
  BY Slots DEF SendPacket, Arrive, Slot
<1>2. pc' # "stuck" /\ (pc' = "idle" => pos' = arrived')
  BY <1>1, ClientEmpties DEF ClientInv
<1> SUFFICES ASSUME NEW first \in DOMAIN packets', NEW last \in DOMAIN packets',
                    CameWhole(first, last)'
             PROVE  IF pc' = "header" THEN ClientReads(first, last)'
                    ELSE ClientRead(first, last)'
  BY <1>2 DEF ClientInv
<1>3. /\ DOMAIN packets = 1..Len(packets) /\ Len(packets) \in Nat
      /\ HeaderSize \in Nat \ {0} /\ Size \in Nat
      /\ arrived \in Nat /\ pos \in Nat /\ arrived <= Size
  BY Places, StreamAssumption DEF StreamType
<1>4. CASE SendPacket
  <2>1. /\ Len(packets') = Len(packets) + 1 /\ DOMAIN packets' = 1..Len(packets')
        /\ \A k \in DOMAIN packets : packets'[k] = packets[k]
        /\ \A k \in 1..Len(packets) + 1 : Start(k)' = Start(k)
        /\ \A k : k = Len(packets) + 2 => Start(k)' = Size'
        /\ Size' \in Nat /\ Size' >= Size + HeaderSize
    BY <1>4, SendSteps, LenProperties
  <2>2. UNCHANGED <<reader, arrived, pos, pc, handled, begin, split>>
    BY <1>4 DEF SendPacket
  <2>3. first <= last /\ first \in Nat /\ last \in Nat /\ Start(last + 1)' = arrived
    BY <1>3, <2>1, <2>2 DEF CameWhole
  <2>4. last + 1 # Len(packets) + 2
    BY <1>3, <2>1, <2>3
  <2>5. first \in DOMAIN packets /\ last \in DOMAIN packets
    BY <1>3, <2>1, <2>3, <2>4
  <2>6. \A k \in first..last + 1 : Start(k)' = Start(k)
    BY <1>3, <2>1, <2>5
  <2>7. Start(first)' = Start(first) /\ Start(last)' = Start(last) /\ Start(last + 1)' = Start(last + 1)
    BY <1>3, <2>3, <2>6
  <2>8. \A k \in first..last - 1 : packets[k].type = "data"
    <3>1. \A k \in first..last - 1 : k \in DOMAIN packets /\ packets'[k].type = "data"
      BY <1>3, <2>5 DEF CameWhole
    <3>2. QED BY <2>1, <3>1
  <2>9. CameWhole(first, last)
    BY <2>2, <2>3, <2>7, <2>8 DEF CameWhole
  <2>10. IF pc = "header" THEN ClientReads(first, last) ELSE ClientRead(first, last)
    BY <1>1, <2>5, <2>9 DEF ClientInv
  <2>11. packets'[last] = packets[last]
    BY <2>1, <2>5
  <2>12. \A k : JustHandled(first, k)' <=> JustHandled(first, k)
    BY <2>2 DEF JustHandled
  <2>13. CASE pc = "header"
    <3>1. ClientReads(first, last)
      BY <2>10, <2>13
    <3>2. ClientReads(first, last)'
      BY <2>2, <2>6, <2>7, <2>11, <2>12, <3>1 DEF ClientReads
    <3>3. QED BY <2>2, <2>13, <3>2
  <2>14. CASE pc # "header"
    BY <2>2, <2>10, <2>11, <2>12, <2>14 DEF ClientRead
  <2>15. QED BY <2>13, <2>14
<1>5. CASE \E n \in 1..Size : Arrive(n)
  <2>1. PICK n \in 1..Size : Arrive(n)
    BY <1>5
  <2>2. UNCHANGED <<reader, packets, pos, handled>> /\ pc' = "header" /\ pc = "idle" /\ begin' = arrived
    BY <2>1 DEF Arrive
  <2>3. \A k : Start(k)' = Start(k)
    BY <2>2, PlacesStay
  <2>4. pos' = Start(first)'
    BY <1>1, <2>2 DEF ClientInv, CameWhole
  <2>5. first \in Nat /\ last \in Nat /\ first <= last
    BY <1>3, <2>2 DEF CameWhole
  <2>6. JustHandled(first, first - 1)'
    BY <2>2, <2>5, HandlesNone DEF JustHandled
  <2>7. first \in first..last + 1 /\ first # last + 1
    BY <2>5
  <2>8. QED BY <2>2, <2>4, <2>6, <2>7 DEF ClientReads
<1>6. CASE Slot
  <2>1. UNCHANGED <<reader, packets, arrived, begin>> /\ pc = "header"
    BY <1>6 DEF Slot
  <2>2. \A k : Start(k)' = Start(k)
    BY <2>1, PlacesStay
  <2>3. CameWhole(first, last) /\ first \in DOMAIN packets /\ last \in DOMAIN packets
    BY <2>1, <2>2 DEF CameWhole
  <2>4. ClientReads(first, last)
    BY <1>1, <2>1, <2>3 DEF ClientInv
  <2>5. QED BY <1>1, <1>6, <2>3, <2>4, ClientReadsOn
<1>7. QED BY <1>4, <1>5, <1>6, Slots

---------------------------------------------------------------------------
(* The theorems.                                                           *)

\* The invariant holds before anything is sent.
LEMMA InitInv == Init => StreamInv
<1> SUFFICES ASSUME Init PROVE StreamInv
  OBVIOUS
<1>1. packets = <<>> /\ handled = <<>> /\ Size = 0 /\ Start(1) = 0
  BY DEF Init, Size, Start
<1>2. Len(packets) = 0 /\ Len(handled) = 0 /\ DOMAIN packets = {} /\ DOMAIN handled = {}
  BY <1>1
<1>3. packets \in Seq(Packet) /\ handled \in Seq(Nat)
  BY <1>1
<1>4. StreamType
  <2>1. arrived \in Nat /\ pos \in Nat /\ begin \in Nat /\ pos <= arrived /\ arrived <= Size
    BY <1>1 DEF Init
  <2>2. QED BY <1>3, <2>1 DEF Init, StreamType
<1>5. Laid
  BY <1>2 DEF Laid
<1>6. 0 \in Boundaries
  BY <1>1, <1>2 DEF Boundaries
<1>7. ServerInv
  BY <1>1, <1>2, <1>6 DEF Init, ServerInv, InStep
<1>8. ClientInv
  BY <1>2 DEF Init, ClientInv
<1>9. QED BY <1>4, <1>5, <1>7, <1>8 DEF StreamInv

\* Every step keeps it.
LEMMA InvKept == StreamInv /\ [Next]_vars => StreamInv'
<1> SUFFICES ASSUME StreamInv, [Next]_vars PROVE StreamInv'
  OBVIOUS
<1>1. StreamType /\ Laid /\ ServerInv /\ ClientInv
  BY DEF StreamInv
<1>2. StreamType' /\ Laid'
  BY <1>1, TypeKept
<1>3. CASE Next
  BY <1>1, <1>2, <1>3, ServerKept, ClientKept DEF StreamInv
<1>4. CASE UNCHANGED vars
  <2>1. Boundaries' = Boundaries /\ \A k : Start(k)' = Start(k)
    BY <1>4, PlacesStay DEF vars
  <2>2. ServerInv'
    BY <1>1, <1>4, <2>1 DEF vars, ServerInv, InStep, OutOfStep
  <2>3. ClientInv'
    BY <1>1, <1>4, <2>1 DEF vars, ClientInv, CameWhole, ClientReads, ClientRead, JustHandled
  <2>4. QED BY <1>2, <2>2, <2>3 DEF StreamInv
<1>5. QED BY <1>3, <1>4

\* The places reached by the two slots agree with the packets, whatever is sent
\* and however it comes.
THEOREM StreamInvHolds == Spec => []StreamInv
BY InitInv, InvKept, PTL DEF Spec

\* The numbers from one to another are as many as one more than their difference.
LEMMA IntervalSize ==
  ASSUME NEW a \in Int, NEW b \in Int, a - 1 <= b
  PROVE  Cardinality(a..b) = b - a + 1
<1>1. Cardinality(a..b) = IF a > b THEN 0 ELSE b - a + 1
  BY FS_Interval
<1>2. CASE a > b
  <2>1. b - a + 1 = 0
    BY <1>2
  <2>2. QED BY <1>1, <1>2, <2>1
<1>3. CASE ~(a > b)
  BY <1>1, <1>3
<1>4. QED BY <1>2, <1>3

\* The server handles every packet, each once and in order, exactly as long as
\* what comes ends where packets end (incomingMessage).
THEOREM ServerHandlesAllOrNone == Spec => []ServerInStep
<1>1. ASSUME StreamInv
      PROVE  ServerInStep
  <2> SUFFICES ASSUME reader = "server", pc \in {"idle", "stuck"}
               PROVE  ~split <=>
                        /\ pc = "idle"
                        /\ handled = [k \in 1..Cardinality({e \in DOMAIN packets : Start(e + 1) <= arrived})
                                        |-> k]
    BY DEF ServerInStep
  <2>1. StreamType /\ Laid /\ ServerInv
    BY <1>1 DEF StreamInv
  <2>2. /\ Len(handled) \in Nat /\ DOMAIN handled = 1..Len(handled)
        /\ handled \in [1..Len(handled) -> Nat]
        /\ Len(packets) \in Nat /\ DOMAIN packets = 1..Len(packets)
        /\ HeaderSize \in Nat \ {0} /\ arrived \in Nat
    BY <2>1, LenProperties, Places, StreamAssumption DEF StreamType
  <2>3. CASE split
    <3>1. pc = "stuck" \/ \E k \in DOMAIN handled : handled[k] = Garbage
      BY <2>1, <2>3 DEF ServerInv, OutOfStep
    <3>2. ASSUME NEW n, handled = [k \in 1..n |-> k], NEW k \in DOMAIN handled, handled[k] = Garbage
          PROVE  FALSE
      <4>1. DOMAIN handled = 1..n /\ \A i \in 1..n : handled[i] = i
        BY <3>2
      <4>2. handled[k] = k
        BY <4>1
      <4>3. k # 0
        BY <2>2
      <4>4. QED BY <3>2, <4>2, <4>3 DEF Garbage
    <3>3. QED BY <2>3, <3>1, <3>2
  <2>4. CASE ~split
    <3>1. PICK n \in Nat : n = Len(handled)
      BY <2>2
    <3>2. InStep /\ pc = "idle" /\ arrived = Start(n + 1) /\ n <= Len(packets)
      BY <2>1, <2>4, <3>1 DEF ServerInv, InStep
    <3>3. ASSUME NEW e \in DOMAIN packets
          PROVE  Start(e + 1) <= arrived <=> e <= n
      <4>1. e \in Nat /\ e + 1 \in 1..Len(packets) + 1 /\ n + 1 \in 1..Len(packets) + 1
        BY <2>2, <3>2
      <4>2. Start(e + 1) \in Nat /\ Start(n + 1) \in Nat
        BY <2>1, <4>1, Places
      <4>3. e + 1 < n + 1 => Start(e + 1) + HeaderSize <= Start(n + 1)
        BY <2>1, <4>1, Places
      <4>4. n + 1 < e + 1 => Start(n + 1) + HeaderSize <= Start(e + 1)
        BY <2>1, <4>1, Places
      <4>5. CASE e = n
        BY <2>2, <3>2, <4>2, <4>5
      <4>6. CASE e < n
        BY <2>2, <3>2, <4>1, <4>2, <4>3, <4>6
      <4>7. CASE n < e
        BY <2>2, <3>2, <4>1, <4>2, <4>4, <4>7
      <4>8. QED BY <4>1, <4>5, <4>6, <4>7
    <3>4. {e \in DOMAIN packets : Start(e + 1) <= arrived} = 1..n
      BY <2>2, <3>2, <3>3
    <3>5. Cardinality(1..n) = n
      BY FS_Interval
    <3>6. handled = [k \in 1..n |-> k]
      BY <2>2, <3>1, <3>2 DEF InStep
    <3>7. QED BY <2>4, <3>2, <3>4, <3>5, <3>6
  <2>5. QED BY <2>3, <2>4
<1>2. QED BY <1>1, StreamInvHolds, PTL

\* The client handles all of the whole packets that come together, whatever it
\* had lost before (readData).
THEOREM ClientAlwaysFindsBack == Spec => []ClientFindsBack
<1>1. ASSUME StreamInv
      PROVE  ClientFindsBack
  <2> SUFFICES ASSUME reader = "client", pc = "idle",
                      NEW first \in DOMAIN packets, NEW last \in DOMAIN packets,
                      NEW answers, answers = {k \in first..last : packets[k].type = "data"},
                      Start(first) = begin, Start(last + 1) = arrived,
                      first..last - 1 \subseteq answers
               PROVE  /\ Len(handled) - Cardinality(answers) >= 0
                      /\ \A k \in answers :
                           handled[Len(handled) - Cardinality(answers) + k - first + 1] = k
    BY DEF ClientFindsBack
  <2>1. StreamType /\ Laid /\ ClientInv
    BY <1>1 DEF StreamInv
  <2>2. first \in Nat /\ last \in Nat
    BY <2>1, Places
  <2>3. PICK n \in Nat : n = Len(handled)
    BY <2>1, LenProperties DEF StreamType
  <2>4. CASE first > last
    <3>1. first..last = {} /\ answers = {}
      BY <2>2, <2>4
    <3>2. Cardinality(answers) = 0
      BY <3>1, FS_EmptySet
    <3>3. QED BY <2>3, <3>1, <3>2
  <2>5. CASE first <= last
    <3>1. CameWhole(first, last)
      BY <2>5 DEF CameWhole
    <3>2. ClientRead(first, last)
      BY <2>1, <3>1 DEF ClientInv
    <3>3. ASSUME NEW m \in Int, first - 1 <= m, m <= last, answers = first..m, JustHandled(first, m)
          PROVE  /\ Len(handled) - Cardinality(answers) >= 0
                 /\ \A k \in answers :
                      handled[Len(handled) - Cardinality(answers) + k - first + 1] = k
      <4>1. Cardinality(answers) = m - first + 1
        <5>1. first \in Int /\ m \in Int
          BY <2>2
        <5>2. first - 1 <= m
          BY <3>3
        <5>3. Cardinality(first..m) = m - first + 1
          BY <5>1, <5>2, IntervalSize
        <5>4. QED BY <3>3, <5>3
      <4>2. m - first + 1 <= n /\ \A k \in first..m : handled[n - m + k] = k
        BY <2>3, <3>3 DEF JustHandled
      <4>3. \A k \in first..m : n - (m - first + 1) + k - first + 1 = n - m + k
        BY <2>2
      <4>4. \A k \in first..m : handled[n - (m - first + 1) + k - first + 1] = k
        BY <4>2, <4>3
      <4>5. n - (m - first + 1) >= 0
        BY <2>2, <4>2
      <4>6. QED BY <2>3, <3>3, <4>1, <4>4, <4>5
    <3>4. CASE packets[last].type = "data"
      <4>1. answers = first..last
        BY <2>2, <2>5, <3>4
      <4>2. QED BY <2>2, <2>5, <3>2, <3>3, <3>4, <4>1 DEF ClientRead
    <3>5. CASE packets[last].type # "data"
      <4>1. answers = first..last - 1
        BY <2>2, <2>5, <3>5
      <4>2. last - 1 \in Int /\ first - 1 <= last - 1 /\ last - 1 <= last
        BY <2>2, <2>5
      <4>3. QED BY <3>2, <3>3, <3>5, <4>1, <4>2 DEF ClientRead
    <3>6. QED BY <3>4, <3>5
  <2>6. QED BY <2>2, <2>4, <2>5
<1>2. QED BY <1>1, StreamInvHolds, PTL
=============================================================================
