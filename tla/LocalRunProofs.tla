---------------------------- MODULE LocalRunProofs ----------------------------
(***************************************************************************)
(* Proofs about LocalRun and the SerialLink in it, for every packet size,  *)
(* ring and number of commands and edges: its types, the order of          *)
(* execution, and how far the damage of a packet reaches that an interrupt *)
(* sends.                                                                  *)
(***************************************************************************)
EXTENDS LocalRun, FiniteSetTheorems, TLAPS

\* What the firmware has read of its stream, and not put into a packet yet.
Bytes == held \o ring

\* The bytes in the receive buffers are in the order they were sent, and
\* younger than everything executed.
BytesOrdered == \A i, j \in 1 .. Len(Bytes) : i < j => Bytes[i] < Bytes[j]

ExecutedPast ==
  \A n \in 1 .. Len(executed) :
    /\ PacketSize * executed[n] <= arrived
    /\ \A j \in 1 .. Len(Bytes) : PacketSize * executed[n] < Bytes[j]

OrderInv == BytesOrdered /\ ExecutedPast /\ ExecutedInOrder

\* Packets that are on the line as a whole, and how long this makes the line.
Whole == Len(packets) - (IF offset > 0 THEN 1 ELSE 0)
LineFilled == Len(line) = PacketSize * Whole + offset

\* The packet that loop() is writing has been begun and has not ended.
CurrentOpen ==
  offset > 0 => /\ current \in 1 .. Len(packets)
                /\ \A i \in 1 .. Len(line) : line[i] # <<current, PacketSize>>

\* Every packet has its first byte on the line.
FirstBytes == \A p \in 1 .. Len(packets) : \E i \in 1 .. Len(line) : line[i] = <<p, 1>>

\* A packet begins where a slot does, or while another one has not ended.
StartsAligned ==
  \A j \in 1 .. Len(line) :
    line[j][2] = 1
      => \/ \E k \in Nat : j = PacketSize * k + 1
         \/ \E i \in 1 .. j - 1 : \A k \in 1 .. j - 1 : line[k] # <<line[i][1], PacketSize>>

\* The slots that are full and damaged, and whether the one being filled will
\* join them: an edge adds one to the former and may set the latter.
Damaged == {n \in 1 .. Whole : ~IntactSlot(n)}
Tainted == \E i \in 1 .. offset : line[PacketSize * Whole + i] # <<current, i>>
DamageCounted == Cardinality(Damaged) + (IF Tainted THEN 1 ELSE 0) <= 2 * edges

LineInv == LineFilled /\ CurrentOpen /\ FirstBytes /\ StartsAligned /\ DamageCounted

IInv == TypeOK /\ OrderInv /\ LineInv

-----------------------------------------------------------------------------
(***************************************************************************)
(* Arithmetic and sequences                                                *)
(***************************************************************************)

\* Dividing by the packet size finds the packet that a byte belongs to.
LEMMA Division ==
  ASSUME NEW n \in Nat, NEW k \in 0 .. PacketSize - 1
  PROVE  /\ PacketSize * n \in Nat
         /\ (PacketSize * n + k) \div PacketSize = n
         /\ (PacketSize * n + k) % PacketSize = k
PROOF
  <1>1. PacketSize \in Nat \ {0, 1}
    BY SerialLinkAssumption
  <1>2. PacketSize * n \in Nat
    BY <1>1
  <1> DEFINE a == PacketSize * n + k
             q == a \div PacketSize
             r == a % PacketSize
  <1>3. a \in Nat
    BY <1>1, <1>2
  <1>4. q \in Int /\ r \in 0 .. PacketSize - 1 /\ a = PacketSize * q + r
    BY <1>1, <1>3
  <1>5. q = n
    <2>1. CASE q > n
      BY <1>1, <1>4, <2>1
    <2>2. CASE q < n
      BY <1>1, <1>4, <2>2
    <2> QED
      BY <1>4, <2>1, <2>2
  <1> QED
    BY <1>1, <1>2, <1>4, <1>5

\* More packets take more bytes.
LEMMA Multiples ==
  ASSUME NEW m \in Int, NEW n \in Int
  PROVE  /\ PacketSize * m \in Int
         /\ PacketSize * (n + 1) = PacketSize * n + PacketSize
         /\ m <= n <=> PacketSize * m <= PacketSize * n
PROOF
  <1>1. PacketSize \in Nat \ {0, 1}
    BY SerialLinkAssumption
  <1> QED
    BY <1>1

\* So many bytes that have come in, counted from the ones before.
Coming(m) == [i \in 1 .. m |-> arrived + i]

LEMMA ComingBytes ==
  ASSUME NEW m \in Nat, arrived \in Nat
  PROVE  /\ Coming(m) \in Seq(arrived + 1 .. arrived + m)
         /\ Len(Coming(m)) = m
         /\ \A i \in 1 .. m : Coming(m)[i] = arrived + i
         /\ \A k \in 0 .. m : SubSeq(Coming(m), 1, k) = Coming(k)
PROOF
  BY DEF Coming

\* The ring keeps what fits of the bytes that come in, from the first on.
LEMMA RingGrows ==
  ASSUME TypeOK, NEW m \in Nat
  PROVE  \E k \in 0 .. m :
            /\ Received(Coming(m)) = ring \o Coming(k)
            /\ Len(ring) + k <= RxRing
PROOF
  <1>1. /\ arrived \in Nat /\ Len(ring) \in Nat /\ Len(ring) <= RxRing
        /\ RxRing \in Nat
    BY SerialLinkAssumption DEF TypeOK, LinkTypeOK
  <1> DEFINE room == RxRing - Len(ring)
             k == IF m <= room THEN m ELSE room
  <1>2. room \in Nat /\ k \in 0 .. m /\ Len(ring) + k <= RxRing
    BY <1>1
  <1>3. Len(Coming(m)) = m /\ SubSeq(Coming(m), 1, k) = Coming(k)
    BY <1>1, <1>2, ComingBytes
  <1>4. Received(Coming(m)) = ring \o SubSeq(Coming(m), 1, k)
    BY <1>1, <1>3 DEF Received
  <1> QED
    BY <1>2, <1>3, <1>4

\* The front and the rest of a sequence.
LEMMA FrontAndRest ==
  ASSUME NEW S, NEW s \in Seq(S), NEW n \in 0 .. Len(s)
  PROVE  /\ Len(SubSeq(s, 1, n)) = n
         /\ \A i \in 1 .. n : SubSeq(s, 1, n)[i] = s[i] /\ s[i] \in S
         /\ SubSeq(s, n + 1, Len(s)) \in Seq(S)
         /\ Len(SubSeq(s, n + 1, Len(s))) = Len(s) - n
         /\ \A i \in 1 .. Len(s) - n : SubSeq(s, n + 1, Len(s))[i] = s[n + i]
PROOF
  OBVIOUS

\* Less than two packets are in the receive buffers, all of it bytes that have
\* come in.
LEMMA BytesType ==
  ASSUME TypeOK
  PROVE  /\ Bytes \in Seq(1 .. arrived)
         /\ Len(Bytes) = Len(held) + Len(ring)
         /\ Len(Bytes) \in 0 .. 2 * PacketSize - 2
         /\ \A i \in 1 .. Len(held) : Bytes[i] = held[i]
         /\ \A i \in 1 .. Len(ring) : Bytes[Len(held) + i] = ring[i]
PROOF
  <1>1. /\ held \in Seq(1 .. arrived) /\ ring \in Seq(1 .. arrived)
        /\ Len(held) < PacketSize /\ Len(ring) <= RxRing
    BY DEF TypeOK, LinkTypeOK
  <1>2. PacketSize \in Nat \ {0, 1} /\ RxRing \in 1 .. PacketSize - 1
    BY SerialLinkAssumption
  <1>3. Len(held) \in Nat /\ Len(ring) \in Nat
    BY <1>1
  <1>4. /\ Bytes \in Seq(1 .. arrived)
        /\ Len(Bytes) = Len(held) + Len(ring)
    BY <1>1 DEF Bytes
  <1>5. /\ \A i \in 1 .. Len(held) : Bytes[i] = held[i]
        /\ \A i \in 1 .. Len(ring) : Bytes[Len(held) + i] = ring[i]
    BY <1>1, <1>3 DEF Bytes
  <1> QED
    BY <1>1, <1>2, <1>3, <1>4, <1>5

\* A frame that passes both checks is a packet of the Pi, with all its bytes.
LEMMA PacketNumbered ==
  ASSUME TypeOK, Len(Bytes) >= PacketSize, NEW slot,
         slot = SubSeq(Bytes, 1, PacketSize),
         MagicMatches(slot), ChecksumMatches(slot)
  PROVE  /\ Number(slot) \in 1 .. Len(sent)
         /\ Bytes[1] = PacketSize * (Number(slot) - 1) + 1
         /\ Bytes[PacketSize] = PacketSize * Number(slot)
PROOF
  <1>1. PacketSize \in Nat \ {0, 1}
    BY SerialLinkAssumption
  <1>2. Bytes \in Seq(1 .. arrived) /\ Len(Bytes) \in Nat
    BY BytesType
  <1>3. \A i \in 1 .. PacketSize : slot[i] = Bytes[i] /\ Bytes[i] \in 1 .. arrived
    <2>1. PacketSize \in 0 .. Len(Bytes)
      BY <1>1, <1>2
    <2> QED
      BY <1>2, <2>1, FrontAndRest
  <1>4. arrived \in Nat /\ Len(sent) \in Nat /\ arrived <= PacketSize * Len(sent)
    <2>1. sent \in Seq(Commands) /\ arrived \in 0 .. PacketSize * Len(sent)
      BY DEF TypeOK, LinkTypeOK
    <2>2. Len(sent) \in Nat
      BY <2>1
    <2> QED
      BY <1>1, <2>1, <2>2, Multiples
  <1>5. /\ slot[1] % PacketSize = 1 /\ slot[PacketSize] = slot[1] + PacketSize - 1
        /\ slot[1] \in 1 .. arrived /\ slot[PacketSize] \in 1 .. arrived
    BY <1>1, <1>3 DEF MagicMatches, ChecksumMatches
  <1>6. PICK a \in Nat : a = slot[1]
    <2>1. slot[1] \in 1 .. arrived /\ arrived \in Nat
      BY <1>4, <1>5
    <2>2. \A x \in 1 .. arrived : x \in Nat
      BY <2>1
    <2> QED
      BY <2>1, <2>2, Zenon
  <1>7. PICK q \in Nat, r \in 0 .. PacketSize - 1 : a = PacketSize * q + r
    <2>1. /\ a \div PacketSize \in Nat /\ a % PacketSize \in 0 .. PacketSize - 1
          /\ a = PacketSize * (a \div PacketSize) + (a % PacketSize)
      BY <1>1
    <2> QED
      BY <2>1
  <1>8. a = PacketSize * q + 1
    BY <1>5, <1>6, <1>7, Division
  <1>9. a - 1 = PacketSize * q + 0 /\ PacketSize * q \in Nat
    BY <1>1, <1>8
  <1>10. Number(slot) = q + 1
    <2>1. (a - 1) \div PacketSize = q
      BY <1>1, <1>9, Division
    <2> QED
      BY <1>6, <2>1 DEF Number
  <1>11. slot[1] = PacketSize * q + 1 /\ slot[PacketSize] = PacketSize * (q + 1)
    BY <1>1, <1>5, <1>6, <1>8, Multiples
  <1>12. q + 1 <= Len(sent)
    <2>1. PacketSize * (q + 1) <= PacketSize * Len(sent)
      BY <1>1, <1>4, <1>5, <1>11, Multiples
    <2> QED
      BY <1>4, <2>1, Multiples
  <1>13. Bytes[1] = slot[1] /\ Bytes[PacketSize] = slot[PacketSize]
    BY <1>1, <1>3
  <1> QED
    BY <1>4, <1>10, <1>11, <1>12, <1>13

-----------------------------------------------------------------------------
(***************************************************************************)
(* Types                                                                   *)
(***************************************************************************)
LEMMA WiderSeq ==
  ASSUME NEW S, NEW T, S \subseteq T, NEW s \in Seq(S)
  PROVE  s \in Seq(T)
PROOF
  OBVIOUS

LEMMA TypeInit == Init => TypeOK
PROOF
  <1> SUFFICES ASSUME Init PROVE TypeOK
    OBVIOUS
  <1>1. /\ PacketSize \in Nat \ {0, 1} /\ RxRing \in Nat /\ MaxEdges \in Nat
        /\ PacketSize * 0 = 0 /\ MaxCommands \in Nat /\ MaxAttempts \in Nat
    BY SerialLinkAssumption, LocalRunAssumption
  <1>2. LinkTypeOK
    BY <1>1 DEF Init, LinkInit, LinkTypeOK
  <1>3. heard \in 0 .. Len(line)
    BY DEF Init, LinkInit
  <1>4. attempt \in 0 .. MaxAttempts /\ typed \in 0 .. MaxCommands
    BY <1>1 DEF Init
  <1> QED
    BY <1>2, <1>3, <1>4 DEF Init, TypeOK

\* A command is written to the port, or the port is not open.
LEMMA SendType ==
  ASSUME TypeOK, NEW command \in Commands, SendPacket(command)
  PROVE  LinkTypeOK'
PROOF
  <1>1. sent \in Seq(Commands) /\ Len(sent) \in Nat /\ PacketSize \in Nat
    BY SerialLinkAssumption DEF TypeOK, LinkTypeOK
  <1>2. sent' \in Seq(Commands) /\ Len(sent') \in {Len(sent), Len(sent) + 1}
    BY <1>1 DEF SendPacket, WritePacket
  <1>3. /\ PacketSize * Len(sent) \in Nat
        /\ PacketSize * (Len(sent) + 1) = PacketSize * Len(sent) + PacketSize
    BY <1>1, Multiples
  <1>4. arrived' \in 0 .. PacketSize * Len(sent')
    <2>1. arrived' = arrived /\ arrived \in 0 .. PacketSize * Len(sent)
      BY DEF TypeOK, LinkTypeOK, SendPacket
    <2> QED
      BY <1>1, <1>2, <1>3, <2>1
  <1>5. executed' \in Seq(1 .. Len(sent'))
    <2>1. executed' = executed /\ executed \in Seq(1 .. Len(sent))
      BY DEF TypeOK, LinkTypeOK, SendPacket, robotVars
    <2>2. 1 .. Len(sent) \subseteq 1 .. Len(sent')
      BY <1>1, <1>2
    <2> QED
      BY <2>1, <2>2, WiderSeq
  <1> QED
    BY <1>2, <1>4, <1>5 DEF TypeOK, LinkTypeOK, SendPacket, robotVars, txVars

\* Bytes come in, of which the ring keeps the first k.
LEMMA ArriveType ==
  ASSUME TypeOK, NEW m \in Nat, m <= InFlight, NEW k \in 0 .. m,
         Len(ring) + k <= RxRing, arrived' = arrived + m,
         ring' = ring \o Coming(k), lost' = lost + m - (Len(ring') - Len(ring)),
         UNCHANGED <<sent, held, executed>>
  PROVE  /\ sent' \in Seq(Commands)
         /\ arrived' \in 0 .. PacketSize * Len(sent')
         /\ ring' \in Seq(1 .. arrived') /\ Len(ring') <= RxRing
         /\ held' \in Seq(1 .. arrived') /\ Len(held') < PacketSize
         /\ lost' \in 0 .. arrived'
         /\ executed' \in Seq(1 .. Len(sent'))
PROOF
  <1>1. /\ sent \in Seq(Commands) /\ executed \in Seq(1 .. Len(sent))
        /\ held \in Seq(1 .. arrived) /\ Len(held) < PacketSize
        /\ ring \in Seq(1 .. arrived)
        /\ lost \in 0 .. arrived /\ arrived \in 0 .. PacketSize * Len(sent)
    BY DEF TypeOK, LinkTypeOK
  <1>2. PICK size \in Nat : size = PacketSize * Len(sent)
    <2>1. Len(sent) \in Nat /\ PacketSize \in Nat
      BY <1>1, SerialLinkAssumption
    <2>2. PacketSize * Len(sent) \in Nat
      BY <2>1
    <2> QED
      BY <2>2
  <1>3. arrived \in Nat /\ arrived + m <= size
    BY <1>1, <1>2 DEF InFlight
  <1>4. /\ Coming(k) \in Seq(1 .. arrived + m) /\ Len(Coming(k)) = k
    <2>1. \A i \in 1 .. k : arrived + i \in 1 .. arrived + m
      BY <1>3
    <2>2. Coming(k) \in Seq(1 .. arrived + m)
      BY <2>1 DEF Coming
    <2> QED
      BY <1>3, <2>2, ComingBytes
  <1>5. ring \in Seq(1 .. arrived + m) /\ held \in Seq(1 .. arrived + m)
    <2>1. 1 .. arrived \subseteq 1 .. arrived + m
      BY <1>3
    <2> QED
      BY <1>1, <2>1
  <1>6. /\ ring' \in Seq(1 .. arrived + m)
        /\ Len(ring') = Len(ring) + k /\ Len(ring) \in Nat
    <2>1. \A s, t \in Seq(1 .. arrived + m) :
             /\ s \o t \in Seq(1 .. arrived + m)
             /\ Len(s \o t) = Len(s) + Len(t) /\ Len(s) \in Nat
      OBVIOUS
    <2> QED
      BY <1>4, <1>5, <2>1
  <1>7. arrived' \in 0 .. PacketSize * Len(sent')
    BY <1>2, <1>3
  <1>8. lost' \in 0 .. arrived'
    BY <1>1, <1>3, <1>6
  <1> QED
    BY <1>1, <1>5, <1>6, <1>7, <1>8

\* A packet towards the Pi is begun, or goes on.
LEMMA AnswerType ==
  /\ \A command \in Commands : Answer(command) \in Seq(Kinds)
  /\ \A command \in Commands :
       dir \in {"STOP", "STRAIGHT", "TURN"} => Heading(command) \in {"STOP", "STRAIGHT", "TURN"}
  /\ <<"RESP_BAD_PACKET">> \in Seq(Kinds) /\ <<"RESP_BAD_CHECKSUM">> \in Seq(Kinds)
  /\ <<"MESSAGE">> \in Seq(Kinds)
PROOF
  BY DEF Answer, Heading, Commands, Turns, Kinds

\* The packet that the byte written next belongs to.
Writer == IF offset = 0 THEN Len(packets) + 1 ELSE current

\* What WriteByte does to the line and to the packets on it.
LEMMA WriteByteEffect ==
  ASSUME TypeOK, CurrentOpen, WriteByte
  PROVE  /\ Writer \in 1 .. Len(packets')
         /\ offset \in 0 .. PacketSize - 1
         /\ packets' \in Seq(Kinds)
         /\ Len(packets') = Len(packets) + (IF offset = 0 THEN 1 ELSE 0)
         /\ line' = Append(line, <<Writer, offset + 1>>)
         /\ offset + 1 # PacketSize => current' = Writer /\ offset' = offset + 1
         /\ offset + 1 = PacketSize => current' = 0 /\ offset' = 0
         /\ todo' \in Seq(Kinds)
         /\ UNCHANGED edges
PROOF
  <1>1. /\ offset \in 0 .. PacketSize - 1 /\ PacketSize \in Nat
        /\ packets \in Seq(Kinds) /\ Len(packets) \in Nat
        /\ todo \in Seq(Kinds) /\ todo # << >>
    BY SerialLinkAssumption DEF TypeOK, LinkTypeOK, WriteByte, Writing
  <1>2. Head(todo) \in Kinds /\ Tail(todo) \in Seq(Kinds)
    BY <1>1
  <1>3. /\ packets' = IF offset = 0 THEN Append(packets, Head(todo)) ELSE packets
        /\ line' = Append(line, <<Writer, offset + 1>>)
        /\ current' = IF offset + 1 = PacketSize THEN 0 ELSE Writer
        /\ offset' = IF offset + 1 = PacketSize THEN 0 ELSE offset + 1
        /\ todo' = IF offset + 1 = PacketSize THEN Tail(todo) ELSE todo
        /\ edges' = edges
    BY DEF WriteByte, Length, Writer
  <1>4. /\ packets' \in Seq(Kinds)
        /\ Len(packets') = Len(packets) + (IF offset = 0 THEN 1 ELSE 0)
    BY <1>1, <1>2, <1>3
  <1>5. Writer \in 1 .. Len(packets')
    BY <1>1, <1>4 DEF Writer, CurrentOpen
  <1> QED
    BY <1>1, <1>2, <1>3, <1>4, <1>5

LEMMA EdgeEffect ==
  ASSUME TypeOK, NEW bytes \in 0 .. PacketSize, Edge(bytes)
  PROVE  /\ Len(packets) \in Nat /\ Len(packets') = Len(packets) + 1
         /\ packets' \in Seq(Kinds)
         /\ line' = line \o [i \in 1 .. PacketSize |-> <<Len(packets) + 1, i>>]
         /\ edges' = edges + 1 /\ edges < MaxEdges
         /\ UNCHANGED <<offset, current, todo>>
PROOF
  <1>1. packets \in Seq(Kinds) /\ Len(packets) \in Nat /\ "MESSAGE" \in Kinds
    BY DEF TypeOK, LinkTypeOK, Kinds
  <1>2. packets' = Append(packets, "MESSAGE")
    BY DEF Edge
  <1>3. Len(packets') = Len(packets) + 1 /\ packets' \in Seq(Kinds)
    BY <1>1, <1>2
  <1> QED
    BY <1>1, <1>3 DEF Edge, Length

\* The bytes of an interrupt's packet, or those that come in meanwhile.
LEMMA EdgeReceives ==
  ASSUME TypeOK, NEW bytes \in 0 .. PacketSize, Edge(bytes)
  PROVE  /\ bytes \in Nat /\ bytes <= InFlight
         /\ \E k \in 0 .. bytes :
              /\ Len(ring) + k <= RxRing /\ ring' = ring \o Coming(k)
         /\ arrived' = arrived + bytes
         /\ lost' = lost + bytes - (Len(ring') - Len(ring))
         /\ UNCHANGED <<sent, held, executed, turning, dir>>
PROOF
  <1>1. arrived \in Nat /\ bytes \in Nat /\ PacketSize \in Nat /\ RxFifo \in Nat
    <2>1. arrived \in 0 .. PacketSize * Len(sent) /\ PacketSize \in Nat /\ RxFifo \in Nat
      BY SerialLinkAssumption DEF TypeOK, LinkTypeOK
    <2>2. \A a \in 0 .. PacketSize * Len(sent) : a \in Nat
      OBVIOUS
    <2> QED
      BY <2>1, <2>2
  <1> DEFINE m == IF bytes <= RxFifo THEN bytes ELSE RxFifo
  <1>2. m \in 0 .. bytes /\ m \in Nat
    BY <1>1
  <1>3. ring' = Received(Coming(m))
    <2>1. ring' = Received(SubSeq(Coming(bytes), 1, m))
      BY DEF Edge, Coming
    <2>2. SubSeq(Coming(bytes), 1, m) = Coming(m)
      BY <1>1, <1>2, ComingBytes
    <2> QED
      BY <2>1, <2>2
  <1>4. PICK k \in 0 .. m : Received(Coming(m)) = ring \o Coming(k) /\ Len(ring) + k <= RxRing
    BY <1>2, RingGrows
  <1>5. k \in 0 .. bytes
    BY <1>1, <1>2
  <1> QED
    BY <1>1, <1>3, <1>4, <1>5 DEF Edge, robotVars

LEMMA ArriveReceives ==
  ASSUME TypeOK, Arrive
  PROVE  /\ 1 <= InFlight
         /\ \E k \in 0 .. 1 :
              /\ Len(ring) + k <= RxRing /\ ring' = ring \o Coming(k)
         /\ arrived' = arrived + 1
         /\ lost' = lost + 1 - (Len(ring') - Len(ring))
         /\ UNCHANGED <<sent, held, executed, turning, dir>>
PROOF
  <1>1. Coming(1) = <<arrived + 1>>
    BY DEF Coming
  <1>2. PICK k \in 0 .. 1 : Received(Coming(1)) = ring \o Coming(k) /\ Len(ring) + k <= RxRing
    BY RingGrows
  <1>3. ring' = ring \o Coming(k)
    BY <1>1, <1>2 DEF Arrive
  <1>4. InFlight \in Int
    <2>1. sent \in Seq(Commands) /\ arrived \in 0 .. PacketSize * Len(sent)
      BY DEF TypeOK, LinkTypeOK
    <2>2. Len(sent) \in Nat /\ PacketSize \in Nat
      BY <2>1, SerialLinkAssumption
    <2>3. PacketSize * Len(sent) \in Int
      BY <2>2
    <2> QED
      BY <2>1, <2>3 DEF InFlight
  <1>5. InFlight >= 1
    BY <1>4 DEF Arrive
  <1>6. /\ arrived' = arrived + 1
        /\ lost' = lost + 1 - (Len(ring') - Len(ring))
        /\ UNCHANGED <<sent, held, executed, turning, dir>>
    BY DEF Arrive, robotVars
  <1> QED
    BY <1>2, <1>3, <1>5, <1>6

\* The firmware takes what is in the ring, and handles a packet if it is one.
LEMMA ReadPacketType ==
  ASSUME TypeOK, ReadPacket
  PROVE  LinkTypeOK'
PROOF
  <1>1. /\ PacketSize \in Nat \ {0, 1} /\ arrived \in Nat
        /\ RxRing \in Nat
    <2>1. arrived \in 0 .. PacketSize * Len(sent)
      BY DEF TypeOK, LinkTypeOK
    <2>2. \A a \in 0 .. PacketSize * Len(sent) : a \in Nat
      OBVIOUS
    <2> QED
      BY <2>1, <2>2, SerialLinkAssumption
  <1>2. /\ Bytes \in Seq(1 .. arrived) /\ Len(Bytes) \in 0 .. 2 * PacketSize - 2
    BY BytesType
  <1>3. held' \in Seq(1 .. arrived) /\ Len(held') < PacketSize
    <2>1. CASE Len(Bytes) < PacketSize
      BY <1>2, <2>1 DEF ReadPacket, Bytes
    <2>2. CASE ~(Len(Bytes) < PacketSize)
      <3>1. held' = SubSeq(Bytes, PacketSize + 1, Len(Bytes))
        BY <2>2 DEF ReadPacket, Leftover, Bytes
      <3>2. PacketSize \in 0 .. Len(Bytes)
        BY <1>1, <1>2, <2>2
      <3>3. held' \in Seq(1 .. arrived) /\ Len(held') = Len(Bytes) - PacketSize
        BY <1>2, <3>1, <3>2, FrontAndRest
      <3> QED
        BY <1>1, <1>2, <3>3
    <2> QED
      BY <2>1, <2>2
  <1>4. /\ executed' \in Seq(1 .. Len(sent))
        /\ turning' \in BOOLEAN /\ dir' \in {"STOP", "STRAIGHT", "TURN"}
        /\ todo' \in Seq(Kinds)
    <2>1. /\ executed \in Seq(1 .. Len(sent)) /\ sent \in Seq(Commands)
          /\ turning \in BOOLEAN /\ dir \in {"STOP", "STRAIGHT", "TURN"}
          /\ todo \in Seq(Kinds)
      BY DEF TypeOK, LinkTypeOK
    <2>2. CASE UNCHANGED robotVars /\ todo' \in Seq(Kinds)
      BY <2>1, <2>2 DEF robotVars
    <2> DEFINE slot == SubSeq(Bytes, 1, PacketSize)
    <2>3. CASE /\ Len(Bytes) >= PacketSize /\ MagicMatches(slot)
               /\ ChecksumMatches(slot) /\ HandleCommand(Number(slot))
      <3>1. Number(slot) \in 1 .. Len(sent)
        BY <2>3, PacketNumbered
      <3>2. PICK n \in 1 .. Len(sent) : n = Number(slot)
        BY <3>1
      <3>3. sent[n] \in Commands
        BY <2>1, <3>2
      <3>4. /\ executed' = Append(executed, n)
            /\ turning' = (turning \/ sent[n] \in Turns)
            /\ dir' = Heading(sent[n]) /\ todo' = Answer(sent[n])
        BY <2>3, <3>2 DEF HandleCommand
      <3>5. executed' \in Seq(1 .. Len(sent))
        BY <2>1, <3>2, <3>4
      <3>6. turning' \in BOOLEAN
        BY <3>4
      <3> QED
        BY <2>1, <3>3, <3>4, <3>5, <3>6, AnswerType
    <2>4. CASE Len(Bytes) < PacketSize
      BY <2>1, <2>2, <2>4 DEF ReadPacket, Bytes
    <2>5. CASE Len(Bytes) >= PacketSize
      <3>1. Judge(slot)
        BY <1>1, <1>2, <2>5 DEF ReadPacket, Bytes
      <3> QED
        BY <2>1, <2>2, <2>3, <2>5, <3>1, AnswerType DEF Judge
    <2> QED
      BY <1>1, <1>2, <2>4, <2>5
  <1>5. ring' = << >> /\ ring' \in Seq(1 .. arrived) /\ Len(ring') <= RxRing
    BY <1>1 DEF ReadPacket
  <1> QED
    BY <1>3, <1>4, <1>5 DEF ReadPacket, TypeOK, LinkTypeOK

\* A byte of a packet goes to the line.
LEMMA WriteByteType ==
  ASSUME TypeOK, CurrentOpen, WriteByte
  PROVE  LinkTypeOK' /\ heard \in 0 .. Len(line')
PROOF
  <1>1. /\ Writer \in 1 .. Len(packets')
        /\ offset \in 0 .. PacketSize - 1
        /\ packets' \in Seq(Kinds)
        /\ Len(packets') = Len(packets) + (IF offset = 0 THEN 1 ELSE 0)
        /\ line' = Append(line, <<Writer, offset + 1>>)
        /\ offset + 1 # PacketSize => current' = Writer /\ offset' = offset + 1
        /\ offset + 1 = PacketSize => current' = 0 /\ offset' = 0
        /\ todo' \in Seq(Kinds)
        /\ UNCHANGED edges
    BY WriteByteEffect
  <1>2. /\ PacketSize \in Nat \ {0, 1} /\ Len(packets) \in Nat
        /\ line \in Seq((1 .. Len(packets)) \X (1 .. PacketSize))
        /\ Len(line) \in Nat /\ heard \in 0 .. Len(line)
    BY SerialLinkAssumption DEF TypeOK, LinkTypeOK
  <1>3. offset' \in 0 .. PacketSize - 1 /\ current' \in 0 .. Len(packets')
    BY <1>1, <1>2
  <1>4. line' \in Seq((1 .. Len(packets')) \X (1 .. PacketSize)) /\ heard \in 0 .. Len(line')
    <2>1. (1 .. Len(packets)) \X (1 .. PacketSize) \subseteq (1 .. Len(packets')) \X (1 .. PacketSize)
      BY <1>1, <1>2
    <2>2. line \in Seq((1 .. Len(packets')) \X (1 .. PacketSize))
      BY <1>2, <2>1, WiderSeq
    <2>3. <<Writer, offset + 1>> \in (1 .. Len(packets')) \X (1 .. PacketSize)
      BY <1>1, <1>2
    <2> QED
      BY <1>1, <1>2, <2>2, <2>3
  <1> QED
    BY <1>1, <1>3, <1>4 DEF WriteByte, rxVars, robotVars, TypeOK, LinkTypeOK

\* An interrupt puts a packet of its own on the line.
LEMMA EdgeType ==
  ASSUME TypeOK, NEW bytes \in 0 .. PacketSize, Edge(bytes)
  PROVE  LinkTypeOK' /\ heard \in 0 .. Len(line')
PROOF
  <1>1. /\ Len(packets) \in Nat /\ Len(packets') = Len(packets) + 1
        /\ packets' \in Seq(Kinds)
        /\ line' = line \o [i \in 1 .. PacketSize |-> <<Len(packets) + 1, i>>]
        /\ edges' = edges + 1 /\ edges < MaxEdges
        /\ UNCHANGED <<offset, current, todo>>
    BY EdgeEffect
  <1>2. /\ PacketSize \in Nat \ {0, 1} /\ MaxEdges \in Nat
        /\ line \in Seq((1 .. Len(packets)) \X (1 .. PacketSize))
        /\ Len(line) \in Nat /\ heard \in 0 .. Len(line)
        /\ edges \in 0 .. MaxEdges /\ current \in 0 .. Len(packets)
    BY SerialLinkAssumption DEF TypeOK, LinkTypeOK
  <1> DEFINE T == (1 .. Len(packets')) \X (1 .. PacketSize)
             new == [i \in 1 .. PacketSize |-> <<Len(packets) + 1, i>>]
  <1>3. line' \in Seq(T) /\ heard \in 0 .. Len(line')
    <2>1. (1 .. Len(packets)) \X (1 .. PacketSize) \subseteq T
      BY <1>1, <1>2
    <2>2. line \in Seq(T)
      BY <1>2, <2>1, WiderSeq
    <2>3. new \in Seq(T) /\ Len(new) \in Nat
      BY <1>1, <1>2
    <2> QED
      BY <1>1, <1>2, <2>2, <2>3
  <1>4. edges' \in 0 .. MaxEdges /\ current' \in 0 .. Len(packets')
    BY <1>1, <1>2
  <1>5. PICK k \in 0 .. bytes : Len(ring) + k <= RxRing /\ ring' = ring \o Coming(k)
    BY EdgeReceives
  <1>6. /\ bytes \in Nat /\ bytes <= InFlight
        /\ arrived' = arrived + bytes
        /\ lost' = lost + bytes - (Len(ring') - Len(ring))
        /\ UNCHANGED <<sent, held, executed, turning, dir>>
    BY EdgeReceives
  <1>7. /\ sent' \in Seq(Commands)
        /\ arrived' \in 0 .. PacketSize * Len(sent')
        /\ ring' \in Seq(1 .. arrived') /\ Len(ring') <= RxRing
        /\ held' \in Seq(1 .. arrived') /\ Len(held') < PacketSize
        /\ lost' \in 0 .. arrived'
        /\ executed' \in Seq(1 .. Len(sent'))
    BY <1>5, <1>6, ArriveType
  <1> QED
    BY <1>1, <1>3, <1>4, <1>6, <1>7 DEF TypeOK, LinkTypeOK

\* Every step keeps the types, if the packet being written has been begun.
LEMMA TypeStep ==
  ASSUME TypeOK, CurrentOpen, [Next]_vars
  PROVE  TypeOK'
PROOF
  <1>1. /\ LinkTypeOK /\ heard \in 0 .. Len(line) /\ Len(line) \in Nat
        /\ MaxAttempts \in Nat \ {0} /\ MaxCommands \in Nat
        /\ PacketSize \in Nat
    BY SerialLinkAssumption, LocalRunAssumption DEF TypeOK, LinkTypeOK
  <1>2. ASSUME UNCHANGED linkVars PROVE LinkTypeOK' /\ line' = line
    BY <1>1, <1>2
       DEF linkVars, rxVars, robotVars, txVars, LinkTypeOK
  <1>3. CASE Open
    BY <1>1, <1>2, <1>3 DEF Open, CountAttempt, TypeOK
  <1>4. CASE TryAgain
    BY <1>1, <1>2, <1>4 DEF TryAgain, TypeOK
  <1>5. CASE Opened
    BY <1>1, <1>2, <1>5 DEF Opened, TypeOK
  <1>6. CASE StartReceiver
    BY <1>1, <1>2, <1>6 DEF StartReceiver, TypeOK
  <1>7. ASSUME NEW command \in Commands, SendPacket(command) PROVE LinkTypeOK' /\ line' = line
    BY <1>7, SendType DEF SendPacket, txVars
  <1>8. CASE Hello
    <2>1. \A command \in UserCommands \cup {"UNKNOWN"} : command \in Commands
      BY LocalRunAssumption DEF Commands
    <2> QED
      BY <1>1, <1>7, <1>8, <2>1 DEF Hello, TypeOK
  <1>9. CASE Quit
    BY <1>1, <1>2, <1>9 DEF Quit, TypeOK
  <1>10. ASSUME NEW command \in UserCommands, SendCommand(command) PROVE TypeOK'
    <2>1. command \in Commands
      BY LocalRunAssumption
    <2> QED
      BY <1>1, <1>7, <1>10, <2>1 DEF SendCommand, TypeOK
  <1>11. CASE Receive
    <2>1. Unheard \in Nat /\ heard + Unheard = Len(line)
      BY <1>1 DEF Unheard
    <2>2. heard' \in 0 .. Len(line)
      BY <1>1, <1>11, <2>1 DEF Receive
    <2> QED
      BY <1>2, <1>11, <2>2 DEF Receive, TypeOK
  <1>12. ASSUME RobotFrame, LinkTypeOK', heard \in 0 .. Len(line') PROVE TypeOK'
    BY <1>12 DEF RobotFrame, localVars, TypeOK
  <1>13. CASE RobotFrame /\ Arrive
    <2>1. PICK k \in 0 .. 1 : Len(ring) + k <= RxRing /\ ring' = ring \o Coming(k)
      BY <1>13, ArriveReceives
    <2>2. /\ 1 <= InFlight /\ arrived' = arrived + 1
          /\ lost' = lost + 1 - (Len(ring') - Len(ring))
          /\ UNCHANGED <<sent, held, executed, turning, dir>>
      BY <1>13, ArriveReceives
    <2>3. /\ sent' \in Seq(Commands)
          /\ arrived' \in 0 .. PacketSize * Len(sent')
          /\ ring' \in Seq(1 .. arrived') /\ Len(ring') <= RxRing
          /\ held' \in Seq(1 .. arrived') /\ Len(held') < PacketSize
          /\ lost' \in 0 .. arrived'
          /\ executed' \in Seq(1 .. Len(sent'))
      BY <2>1, <2>2, ArriveType
    <2>4. UNCHANGED <<edges, todo, offset, packets, current, line>>
      BY <1>13 DEF Arrive, txVars
    <2>5. LinkTypeOK' /\ line' = line
      BY <1>1, <2>2, <2>3, <2>4 DEF LinkTypeOK
    <2> QED
      BY <1>1, <1>12, <1>13, <2>5
  <1>14. CASE RobotFrame /\ ReadPacket
    BY <1>1, <1>12, <1>14, ReadPacketType DEF ReadPacket
  <1>15. CASE RobotFrame /\ EndTurn
    <2>1. LinkTypeOK' /\ line' = line
      BY <1>1, <1>15, AnswerType DEF EndTurn, LinkTypeOK, rxVars
    <2> QED
      BY <1>1, <1>12, <1>15, <2>1
  <1>16. CASE RobotFrame /\ WriteByte
    BY <1>12, <1>16, WriteByteType
  <1>17. ASSUME NEW bytes \in 0 .. PacketSize, RobotFrame, Edge(bytes) PROVE TypeOK'
    BY <1>12, <1>17, EdgeType
  <1>18. CASE UNCHANGED vars
    BY <1>1, <1>2, <1>18 DEF vars, localVars, TypeOK
  <1> QED
    BY <1>3, <1>4, <1>5, <1>6, <1>8, <1>9, <1>10, <1>11, <1>13, <1>14, <1>15, <1>16,
       <1>17, <1>18
       DEF Next, Main, Robot, LinkNext, Loop

-----------------------------------------------------------------------------
(***************************************************************************)
(* The order of execution                                                  *)
(***************************************************************************)

LEMMA ConcatParts ==
  ASSUME NEW h \in Seq(Nat), NEW r \in Seq(Nat), NEW c \in Seq(Nat)
  PROVE  /\ Len(h \o (r \o c)) = Len(h \o r) + Len(c)
         /\ \A i \in 1 .. Len(h \o r) : (h \o (r \o c))[i] = (h \o r)[i]
         /\ \A i \in 1 .. Len(c) : (h \o (r \o c))[Len(h \o r) + i] = c[i]
PROOF
  <1>1. /\ Len(h) \in Nat /\ Len(r) \in Nat /\ Len(c) \in Nat
        /\ Len(h \o r) = Len(h) + Len(r) /\ Len(r \o c) = Len(r) + Len(c)
        /\ Len(h \o (r \o c)) = Len(h) + Len(r \o c)
        /\ r \o c \in Seq(Nat)
    OBVIOUS
  <1>2. ASSUME NEW i \in 1 .. Len(h \o r) PROVE (h \o (r \o c))[i] = (h \o r)[i]
    BY <1>1
  <1>3. ASSUME NEW i \in 1 .. Len(c) PROVE (h \o (r \o c))[Len(h \o r) + i] = c[i]
    BY <1>1
  <1>4. Len(h \o (r \o c)) = Len(h \o r) + Len(c)
    BY <1>1
  <1> QED
    BY <1>2, <1>3, <1>4, Zenon

\* Bytes that come in stand behind the ones in the buffers.
LEMMA BytesGrow ==
  ASSUME TypeOK, NEW m \in Nat, NEW k \in 0 .. m,
         ring' = ring \o Coming(k), UNCHANGED held
  PROVE  /\ arrived \in Nat /\ Len(Bytes) \in Nat
         /\ Len(Bytes') = Len(Bytes) + k
         /\ \A i \in 1 .. Len(Bytes) : Bytes'[i] = Bytes[i] /\ Bytes[i] \in 1 .. arrived
         /\ \A i \in 1 .. k : Bytes'[Len(Bytes) + i] = arrived + i
PROOF
  <1>1. arrived \in Nat
    <2>1. arrived \in 0 .. PacketSize * Len(sent)
      BY DEF TypeOK, LinkTypeOK
    <2>2. \A a \in 0 .. PacketSize * Len(sent) : a \in Nat
      OBVIOUS
    <2> QED
      BY <2>1, <2>2
  <1>2. Bytes \in Seq(1 .. arrived) /\ Len(Bytes) \in Nat
    BY BytesType
  <1>3. held \in Seq(Nat) /\ ring \in Seq(Nat) /\ Bytes \in Seq(Nat) /\ Coming(k) \in Seq(Nat)
    <2>1. held \in Seq(1 .. arrived) /\ ring \in Seq(1 .. arrived)
      BY DEF TypeOK, LinkTypeOK
    <2>2. 1 .. arrived \subseteq Nat
      BY <1>1
    <2>3. \A i \in 1 .. k : arrived + i \in Nat
      BY <1>1
    <2>4. Coming(k) \in Seq(Nat)
      BY <2>3 DEF Coming
    <2>5. held \in Seq(Nat) /\ ring \in Seq(Nat)
      BY <2>1, <2>2, WiderSeq
    <2> QED
      BY <2>4, <2>5 DEF Bytes
  <1>4. /\ Len(Bytes') = Len(Bytes) + k
        /\ \A i \in 1 .. Len(Bytes) : Bytes'[i] = Bytes[i] /\ Bytes[i] \in 1 .. arrived
        /\ \A i \in 1 .. k : Bytes'[Len(Bytes) + i] = arrived + i
    <2>1. PICK h \in Seq(Nat), r \in Seq(Nat), c \in Seq(Nat) :
            h = held /\ r = ring /\ c = Coming(k)
      BY <1>3
    <2>2. Bytes = h \o r /\ Bytes' = h \o (r \o c)
      BY <2>1 DEF Bytes
    <2>3. Len(c) = k /\ \A i \in 1 .. k : c[i] = arrived + i
      <3>1. Len(Coming(k)) = k /\ \A i \in 1 .. k : Coming(k)[i] = arrived + i
        BY <1>1, ComingBytes
      <3> QED
        BY <2>1, <3>1
    <2>4. Len(Bytes') = Len(Bytes) + k
      BY <2>2, <2>3, ConcatParts
    <2>5. \A i \in 1 .. Len(Bytes) : Bytes'[i] = Bytes[i]
      BY <2>2, ConcatParts
    <2>6. \A i \in 1 .. k : Bytes'[Len(Bytes) + i] = arrived + i
      BY <2>2, <2>3, ConcatParts
    <2>7. \A i \in 1 .. Len(Bytes) : Bytes[i] \in 1 .. arrived
      <3>1. Len(Bytes) \in 0 .. Len(Bytes)
        BY <1>2
      <3> QED
        BY <1>2, <3>1, FrontAndRest
    <2> QED
      BY <2>4, <2>5, <2>6, <2>7
  <1> QED
    BY <1>1, <1>2, <1>4

\* Bytes that come in are younger than all others.
LEMMA ReceiveOrder ==
  ASSUME TypeOK, OrderInv, NEW m \in Nat, NEW k \in 0 .. m,
         arrived' = arrived + m, ring' = ring \o Coming(k),
         UNCHANGED <<held, executed>>
  PROVE  OrderInv'
PROOF
  <1>1. arrived \in Nat
    BY BytesGrow
  <1>2. Len(Bytes) \in Nat
    BY BytesGrow
  <1>4. /\ Len(Bytes') = Len(Bytes) + k
        /\ \A i \in 1 .. Len(Bytes) : Bytes'[i] = Bytes[i] /\ Bytes[i] \in 1 .. arrived
        /\ \A i \in 1 .. k : Bytes'[Len(Bytes) + i] = arrived + i
    BY BytesGrow
  <1>5. BytesOrdered'
    <2> SUFFICES ASSUME NEW i \in 1 .. Len(Bytes'), NEW j \in 1 .. Len(Bytes'), i < j
                 PROVE  Bytes'[i] < Bytes'[j]
      BY DEF BytesOrdered
    <2>1. CASE j <= Len(Bytes)
      BY <1>2, <1>4, <2>1 DEF OrderInv, BytesOrdered
    <2>2. CASE i > Len(Bytes)
      <3>1. i - Len(Bytes) \in 1 .. k /\ j - Len(Bytes) \in 1 .. k
        BY <1>2, <1>4, <2>2
      <3>2. Bytes'[i] = arrived + (i - Len(Bytes)) /\ Bytes'[j] = arrived + (j - Len(Bytes))
        BY <1>2, <1>4, <3>1
      <3> QED
        BY <1>1, <1>2, <3>1, <3>2
    <2>3. CASE i <= Len(Bytes) /\ j > Len(Bytes)
      <3>1. j - Len(Bytes) \in 1 .. k
        BY <1>2, <1>4, <2>3
      <3>2. Bytes'[j] = arrived + (j - Len(Bytes)) /\ Bytes'[i] \in 1 .. arrived
        BY <1>2, <1>4, <2>3, <3>1
      <3> QED
        BY <1>1, <1>2, <3>1, <3>2
    <2> QED
      BY <1>2, <1>4, <2>1, <2>2, <2>3
  <1>6. ExecutedPast'
    <2> SUFFICES ASSUME NEW n \in 1 .. Len(executed)
                 PROVE  /\ PacketSize * executed[n] <= arrived'
                        /\ \A j \in 1 .. Len(Bytes') : PacketSize * executed[n] < Bytes'[j]
      BY DEF ExecutedPast
    <2>1. PICK p \in Nat : p = PacketSize * executed[n]
      <3>1. sent \in Seq(Commands) /\ executed \in Seq(1 .. Len(sent))
        BY DEF TypeOK, LinkTypeOK
      <3>2. executed[n] \in Nat /\ PacketSize \in Nat
        BY <3>1, SerialLinkAssumption
      <3>3. PacketSize * executed[n] \in Nat
        BY <3>2
      <3> QED
        BY <3>3
    <2>2. p <= arrived /\ \A j \in 1 .. Len(Bytes) : p < Bytes[j]
      BY <2>1 DEF OrderInv, ExecutedPast
    <2>3. p <= arrived'
      BY <1>1, <2>2
    <2>4. ASSUME NEW j \in 1 .. Len(Bytes') PROVE p < Bytes'[j]
      <3>1. CASE j <= Len(Bytes)
        <4>1. j \in 1 .. Len(Bytes)
          BY <1>2, <1>4, <3>1
        <4> QED
          BY <1>4, <2>2, <4>1
      <3>2. CASE j > Len(Bytes)
        <4>1. j - Len(Bytes) \in 1 .. k
          BY <1>2, <1>4, <3>2
        <4>2. Bytes'[j] = arrived + (j - Len(Bytes))
          BY <1>2, <1>4, <4>1
        <4> QED
          BY <1>1, <1>2, <2>2, <4>1, <4>2
      <3> QED
        BY <1>2, <1>4, <3>1, <3>2
    <2> QED
      BY <2>1, <2>3, <2>4
  <1> QED
    BY <1>5, <1>6 DEF OrderInv, ExecutedInOrder

\* What a round of loop() leaves in the buffers: all, or all after a packet.
LEMMA ReadPacketBytes ==
  ASSUME TypeOK, ReadPacket
  PROVE  \/ /\ Bytes' = Bytes /\ UNCHANGED executed
         \/ /\ PacketSize \in 1 .. Len(Bytes)
            /\ Len(Bytes') = Len(Bytes) - PacketSize
            /\ \A i \in 1 .. Len(Bytes') : Bytes'[i] = Bytes[PacketSize + i]
            /\ \/ UNCHANGED executed
               \/ \E n \in 1 .. Len(sent) :
                    /\ executed' = Append(executed, n)
                    /\ Bytes[1] = PacketSize * (n - 1) + 1
                    /\ Bytes[PacketSize] = PacketSize * n
PROOF
  <1>1. /\ PacketSize \in Nat \ {0, 1} /\ Len(Bytes) \in Nat
        /\ Bytes \in Seq(1 .. arrived)
    BY SerialLinkAssumption, BytesType
  <1>2. held' \in Seq(1 .. arrived') /\ ring' = << >>
    BY ReadPacketType DEF ReadPacket, LinkTypeOK
  <1>3. Bytes' = held'
    BY <1>2 DEF Bytes
  <1>4. CASE Len(Bytes) < PacketSize
    BY <1>3, <1>4 DEF ReadPacket, Bytes, robotVars
  <1>5. CASE Len(Bytes) >= PacketSize
    <2> DEFINE slot == SubSeq(Bytes, 1, PacketSize)
    <2>1. held' = SubSeq(Bytes, PacketSize + 1, Len(Bytes)) /\ Judge(slot)
      BY <1>1, <1>5 DEF ReadPacket, Bytes, Leftover
    <2>2. PacketSize \in 0 .. Len(Bytes)
      BY <1>1, <1>5
    <2>3. /\ Len(held') = Len(Bytes) - PacketSize
          /\ \A i \in 1 .. Len(Bytes) - PacketSize : held'[i] = Bytes[PacketSize + i]
      BY <1>1, <2>1, <2>2, FrontAndRest
    <2>4. \/ UNCHANGED executed
          \/ \E n \in 1 .. Len(sent) :
               /\ executed' = Append(executed, n)
               /\ Bytes[1] = PacketSize * (n - 1) + 1
               /\ Bytes[PacketSize] = PacketSize * n
      <3>1. CASE UNCHANGED robotVars
        BY <3>1 DEF robotVars
      <3>2. CASE MagicMatches(slot) /\ ChecksumMatches(slot) /\ HandleCommand(Number(slot))
        <4>1. /\ Number(slot) \in 1 .. Len(sent)
              /\ Bytes[1] = PacketSize * (Number(slot) - 1) + 1
              /\ Bytes[PacketSize] = PacketSize * Number(slot)
          BY <1>5, <3>2, PacketNumbered
        <4>2. executed' = Append(executed, Number(slot))
          BY <3>2 DEF HandleCommand
        <4> QED
          BY <4>1, <4>2
      <3> QED
        BY <2>1, <3>1, <3>2 DEF Judge
    <2>5. PacketSize \in 1 .. Len(Bytes)
      BY <1>1, <1>5
    <2>6. /\ Len(Bytes') = Len(Bytes) - PacketSize
          /\ \A i \in 1 .. Len(Bytes') : Bytes'[i] = Bytes[PacketSize + i]
      BY <1>3, <2>3
    <2> QED
      BY <2>4, <2>5, <2>6
  <1> QED
    BY <1>1, <1>4, <1>5

\* A packet that is executed is younger than all that were, and older than the
\* bytes that remain.
LEMMA ReadPacketOrder ==
  ASSUME TypeOK, OrderInv, ReadPacket
  PROVE  OrderInv'
PROOF
  <1>1. /\ PacketSize \in Nat \ {0, 1} /\ Len(Bytes) \in Nat /\ arrived \in Nat
        /\ \A i \in 1 .. Len(Bytes) : Bytes[i] \in 1 .. arrived
        /\ arrived' = arrived
    <2>1. arrived \in 0 .. PacketSize * Len(sent)
      BY DEF TypeOK, LinkTypeOK
    <2>2. \A a \in 0 .. PacketSize * Len(sent) : a \in Nat
      OBVIOUS
    <2>3. Bytes \in Seq(1 .. arrived) /\ Len(Bytes) \in Nat
      BY BytesType
    <2>4. Len(Bytes) \in 0 .. Len(Bytes)
      BY <2>3
    <2>5. \A i \in 1 .. Len(Bytes) : Bytes[i] \in 1 .. arrived
      BY <2>3, <2>4, FrontAndRest
    <2> QED
      BY <2>1, <2>2, <2>3, <2>5, SerialLinkAssumption DEF ReadPacket
  <1>2. /\ \A i, j \in 1 .. Len(Bytes) : i < j => Bytes[i] < Bytes[j]
        /\ \A n \in 1 .. Len(executed) :
             /\ PacketSize * executed[n] <= arrived
             /\ \A j \in 1 .. Len(Bytes) : PacketSize * executed[n] < Bytes[j]
        /\ \A i, j \in 1 .. Len(executed) : i < j => executed[i] < executed[j]
    BY DEF OrderInv, BytesOrdered, ExecutedPast, ExecutedInOrder
  <1>3. CASE Bytes' = Bytes /\ UNCHANGED executed
    BY <1>1, <1>2, <1>3 DEF OrderInv, BytesOrdered, ExecutedPast, ExecutedInOrder
  <1>4. CASE /\ PacketSize \in 1 .. Len(Bytes)
             /\ Len(Bytes') = Len(Bytes) - PacketSize
             /\ \A i \in 1 .. Len(Bytes') : Bytes'[i] = Bytes[PacketSize + i]
    <2>1. \A i \in 1 .. Len(Bytes') : PacketSize + i \in 1 .. Len(Bytes)
      BY <1>1, <1>4
    <2>2. BytesOrdered'
      <3> SUFFICES ASSUME NEW i \in 1 .. Len(Bytes'), NEW j \in 1 .. Len(Bytes'), i < j
                   PROVE  Bytes'[i] < Bytes'[j]
        BY DEF BytesOrdered
      <3>1. PacketSize + i < PacketSize + j
        BY <1>1, <1>4
      <3> QED
        BY <1>2, <1>4, <2>1, <3>1
    <2>3. CASE UNCHANGED executed
      <3>1. ExecutedPast'
        BY <1>1, <1>2, <1>4, <2>1, <2>3 DEF ExecutedPast
      <3> QED
        BY <1>2, <2>2, <2>3, <3>1 DEF OrderInv, ExecutedInOrder
    <2>4. ASSUME NEW n \in 1 .. Len(sent), executed' = Append(executed, n),
                 Bytes[1] = PacketSize * (n - 1) + 1, Bytes[PacketSize] = PacketSize * n
          PROVE  OrderInv'
      <3>1. /\ executed \in Seq(1 .. Len(sent)) /\ Len(sent) \in Nat
        BY DEF TypeOK, LinkTypeOK
      <3>2. /\ Len(executed) \in Nat /\ Len(executed') = Len(executed) + 1
            /\ \A i \in 1 .. Len(executed) :
                 executed'[i] = executed[i] /\ executed[i] \in Int
            /\ executed'[Len(executed) + 1] = n /\ n \in Int
        BY <2>4, <3>1
      <3>3. ASSUME NEW i \in 1 .. Len(executed) PROVE executed[i] < n
        <4>1. PICK e \in Int, k \in Int : e = executed[i] /\ k = n - 1
          <5>1. executed[i] \in Int /\ n - 1 \in Int
            BY <3>2
          <5> QED
            BY <5>1
        <4>2. PacketSize * e < PacketSize * k + 1
          BY <1>1, <1>2, <1>4, <2>4, <4>1
        <4>3. PacketSize * e \in Int /\ PacketSize * k \in Int
          BY Multiples
        <4>4. PacketSize * e <= PacketSize * k
          BY <4>2, <4>3
        <4>5. e <= k
          BY <4>4, Multiples
        <4> QED
          BY <3>2, <4>1, <4>5
      <3>4. ExecutedInOrder'
        BY <1>2, <3>2, <3>3 DEF ExecutedInOrder
      <3>5. PacketSize * n <= arrived /\ \A j \in 1 .. Len(Bytes') : PacketSize * n < Bytes'[j]
        <4>1. PacketSize \in 1 .. Len(Bytes) /\ Bytes[PacketSize] <= arrived
          BY <1>1, <1>4
        <4>2. ASSUME NEW j \in 1 .. Len(Bytes') PROVE Bytes[PacketSize] < Bytes'[j]
          BY <1>1, <1>2, <1>4, <2>1
        <4> QED
          BY <2>4, <4>1, <4>2
      <3>6. \A i \in 1 .. Len(executed) :
              /\ PacketSize * executed[i] <= arrived
              /\ \A j \in 1 .. Len(Bytes') : PacketSize * executed[i] < Bytes'[j]
        BY <1>2, <1>4, <2>1
      <3>7. ExecutedPast'
        <4> SUFFICES ASSUME NEW i \in 1 .. Len(executed')
                     PROVE  /\ PacketSize * executed'[i] <= arrived
                            /\ \A j \in 1 .. Len(Bytes') : PacketSize * executed'[i] < Bytes'[j]
          BY <1>1 DEF ExecutedPast
        <4>1. CASE i = Len(executed) + 1
          BY <3>2, <3>5, <4>1
        <4>2. CASE i # Len(executed) + 1
          <5>1. i \in 1 .. Len(executed)
            BY <3>2, <4>2
          <5> QED
            BY <3>2, <3>6, <5>1
        <4> QED
          BY <4>1, <4>2
      <3> QED
        BY <2>2, <3>4, <3>7 DEF OrderInv
    <2> QED
      BY <1>4, <2>3, <2>4, ReadPacketBytes, <1>1
  <1> QED
    BY <1>3, <1>4, ReadPacketBytes

\* Every step keeps the order.
LEMMA OrderStep ==
  ASSUME TypeOK, OrderInv, [Next]_vars
  PROVE  OrderInv'
PROOF
  <1>1. ASSUME UNCHANGED <<held, ring, arrived, executed>> PROVE OrderInv'
    BY <1>1 DEF OrderInv, BytesOrdered, ExecutedPast, ExecutedInOrder, Bytes
  <1>2. ASSUME Main \/ Quit \/ (\E command \in UserCommands : SendCommand(command))
                 \/ Receive \/ EndTurn \/ WriteByte \/ UNCHANGED vars
        PROVE  UNCHANGED <<held, ring, arrived, executed>>
    BY <1>2 DEF Main, Open, TryAgain, Opened, StartReceiver, Hello, Quit, SendCommand,
       SendPacket, Receive, EndTurn, WriteByte, vars, linkVars, rxVars, robotVars
  <1>3. CASE Arrive
    <2>1. PICK k \in 0 .. 1 : ring' = ring \o Coming(k)
      BY <1>3, ArriveReceives
    <2>2. arrived' = arrived + 1 /\ UNCHANGED <<held, executed>>
      BY <1>3, ArriveReceives
    <2> QED
      BY <2>1, <2>2, ReceiveOrder
  <1>4. CASE ReadPacket
    BY <1>4, ReadPacketOrder
  <1>5. ASSUME NEW bytes \in 0 .. PacketSize, Edge(bytes) PROVE OrderInv'
    <2>1. PICK k \in 0 .. bytes : ring' = ring \o Coming(k)
      BY <1>5, EdgeReceives
    <2>2. bytes \in Nat /\ arrived' = arrived + bytes /\ UNCHANGED <<held, executed>>
      BY <1>5, EdgeReceives
    <2> QED
      BY <2>1, <2>2, ReceiveOrder
  <1> QED
    BY <1>1, <1>2, <1>3, <1>4, <1>5 DEF Next, Robot, LinkNext, Loop

-----------------------------------------------------------------------------
(***************************************************************************)
(* The line towards the Pi                                                 *)
(***************************************************************************)

\* A place in a slot lies where the slots before it end.
LEMMA SlotPlace ==
  ASSUME NEW w \in Nat, NEW n \in 1 .. w, NEW i \in 1 .. PacketSize
  PROVE  PacketSize * (n - 1) + i \in 1 .. PacketSize * w
PROOF
  <1>1. PacketSize \in Nat \ {0, 1}
    BY SerialLinkAssumption
  <1>2. PICK m \in Nat : n = m + 1
    <2>1. n - 1 \in Nat /\ n = (n - 1) + 1
      OBVIOUS
    <2> QED
      BY <2>1
  <1>3. PacketSize * (m + 1) = PacketSize * m + PacketSize /\ PacketSize * m \in Nat
    BY <1>1
  <1>4. PacketSize * (m + 1) <= PacketSize * w /\ PacketSize * w \in Nat
    <2>1. m + 1 <= w
      BY <1>2
    <2> QED
      BY <1>1, <1>2, <2>1, Multiples
  <1> QED
    BY <1>1, <1>2, <1>3, <1>4

\* What is on the line stays there, and so do the slots it has filled.
LEMMA SlotsKept ==
  ASSUME NEW w \in Nat, PacketSize * w <= Len(line), Len(line) \in Nat,
         \A i \in 1 .. Len(line) : line'[i] = line[i], NEW n \in 1 .. w
  PROVE  IntactSlot(n)' <=> IntactSlot(n)
PROOF
  <1>1. PacketSize \in Nat \ {0, 1}
    BY SerialLinkAssumption
  <1>2. \A i \in 1 .. PacketSize : PacketSize * (n - 1) + i \in 1 .. Len(line)
    <2> SUFFICES ASSUME NEW i \in 1 .. PacketSize
                 PROVE  PacketSize * (n - 1) + i \in 1 .. Len(line)
      OBVIOUS
    <2>1. PacketSize * (n - 1) + i \in 1 .. PacketSize * w
      BY SlotPlace
    <2>2. PICK a \in Nat, b \in Nat : a = PacketSize * (n - 1) + i /\ b = PacketSize * w
      <3>1. PacketSize * w \in Nat
        BY <1>1
      <3>2. PacketSize * (n - 1) + i \in Nat
        BY <2>1, <3>1
      <3> QED
        BY <3>1, <3>2
    <2> QED
      BY <2>1, <2>2
  <1>3. \A i \in 1 .. PacketSize : line'[PacketSize * (n - 1) + i] = line[PacketSize * (n - 1) + i]
    BY <1>2
  <1>4. 1 \in 1 .. PacketSize
    BY <1>1
  <1>5. \A i \in 1 .. PacketSize : InSlot(n, i)' = InSlot(n, i)
    BY <1>3 DEF InSlot
  <1>6. Owner(n)' = Owner(n)
    BY <1>4, <1>5 DEF Owner
  <1> QED
    BY <1>5, <1>6 DEF IntactSlot

LEMMA Appended ==
  ASSUME NEW S, NEW s \in Seq(S), NEW e
  PROVE  /\ Len(Append(s, e)) = Len(s) + 1
         /\ \A i \in 1 .. Len(s) : Append(s, e)[i] = s[i]
         /\ Append(s, e)[Len(s) + 1] = e
PROOF
  OBVIOUS

LEMMA Concatenated ==
  ASSUME NEW S, NEW s \in Seq(S), NEW t \in Seq(S)
  PROVE  /\ Len(s \o t) = Len(s) + Len(t)
         /\ \A i \in 1 .. Len(s) : (s \o t)[i] = s[i]
         /\ \A i \in 1 .. Len(t) : (s \o t)[Len(s) + i] = t[i]
PROOF
  OBVIOUS

\* What is known of the line and the packets on it.
LEMMA LineFacts ==
  ASSUME TypeOK, CurrentOpen
  PROVE  /\ PacketSize \in Nat \ {0, 1}
         /\ line \in Seq(Nat \X Nat)
         /\ Len(line) \in Nat /\ Len(packets) \in Nat
         /\ offset \in 0 .. PacketSize - 1
         /\ Whole \in Nat
         /\ offset = 0 => Whole = Len(packets)
         /\ offset # 0 => Whole = Len(packets) - 1 /\ current \in 1 .. Len(packets)
         /\ \A i \in 1 .. Len(line) :
              line[i][1] \in 1 .. Len(packets) /\ line[i][2] \in 1 .. PacketSize
PROOF
  <1>1. /\ PacketSize \in Nat \ {0, 1}
        /\ line \in Seq((1 .. Len(packets)) \X (1 .. PacketSize))
        /\ packets \in Seq(Kinds) /\ offset \in 0 .. PacketSize - 1
    BY SerialLinkAssumption DEF TypeOK, LinkTypeOK
  <1>2. Len(line) \in Nat /\ Len(packets) \in Nat
    BY <1>1
  <1>3. \A i \in 1 .. Len(line) : line[i] \in (1 .. Len(packets)) \X (1 .. PacketSize)
    BY <1>1
  <1>4. \A i \in 1 .. Len(line) :
              line[i][1] \in 1 .. Len(packets) /\ line[i][2] \in 1 .. PacketSize
    BY <1>3
  <1>5. line \in Seq(Nat \X Nat)
    <2>1. (1 .. Len(packets)) \X (1 .. PacketSize) \subseteq Nat \X Nat
      BY <1>1, <1>2
    <2> QED
      BY <1>1, <2>1, WiderSeq
  <1>6. /\ offset = 0 => Whole = Len(packets)
        /\ offset # 0 => Whole = Len(packets) - 1 /\ current \in 1 .. Len(packets)
    BY <1>1 DEF Whole, CurrentOpen
  <1>7. Whole \in Nat
    BY <1>1, <1>2, <1>6
  <1> QED
    BY <1>1, <1>2, <1>4, <1>5, <1>6, <1>7

\* The length of the line, before and after another slot is full.
LEMMA LineLength ==
  ASSUME TypeOK, CurrentOpen, LineFilled
  PROVE  /\ PacketSize * Whole \in Nat
         /\ Len(line) = PacketSize * Whole + offset
         /\ PacketSize * (Whole + 1) = PacketSize * Whole + PacketSize
PROOF
  <1>1. PacketSize \in Nat /\ Whole \in Nat
    BY LineFacts
  <1> QED
    BY <1>1, Multiples DEF LineFilled

\* An interrupt adds its packet to the line, byte after byte.
LEMMA EdgeBytes ==
  ASSUME TypeOK, CurrentOpen, NEW bytes \in 0 .. PacketSize, Edge(bytes)
  PROVE  /\ Len(line') = Len(line) + PacketSize
         /\ \A i \in 1 .. Len(line) : line'[i] = line[i]
         /\ \A i \in 1 .. PacketSize : line'[Len(line) + i] = <<Len(packets) + 1, i>>
PROOF
  <1>1. /\ PacketSize \in Nat /\ line \in Seq(Nat \X Nat) /\ Len(packets) \in Nat
    BY LineFacts
  <1>2. PICK p \in Nat : p = Len(packets) + 1
    BY <1>1
  <1> DEFINE new == [i \in 1 .. PacketSize |-> <<p, i>>]
  <1>3. new \in Seq(Nat \X Nat) /\ Len(new) = PacketSize
    BY <1>1
  <1>4. line' = line \o new
    BY <1>2, EdgeEffect
  <1>5. \A i \in 1 .. PacketSize : new[i] = <<p, i>>
    OBVIOUS
  <1> HIDE DEF new
  <1>6. /\ Len(line \o new) = Len(line) + Len(new)
        /\ \A i \in 1 .. Len(line) : (line \o new)[i] = line[i]
        /\ \A i \in 1 .. Len(new) : (line \o new)[Len(line) + i] = new[i]
    <2>1. PICK S : S = Nat \X Nat
      OBVIOUS
    <2>2. line \in Seq(S) /\ new \in Seq(S)
      BY <1>1, <1>3, <2>1
    <2> QED
      BY <2>2, Concatenated
  <1>7. \A i \in 1 .. PacketSize : line'[Len(line) + i] = new[i]
    BY <1>3, <1>4, <1>6
  <1>8. \A i \in 1 .. PacketSize : line'[Len(line) + i] = <<Len(packets) + 1, i>>
    BY <1>2, <1>5, <1>7
  <1> QED
    BY <1>3, <1>4, <1>6, <1>8

\* Where a packet has begun stays as it is when the line grows.
LEMMA StartsKept ==
  ASSUME StartsAligned, Len(line) \in Nat,
         \A i \in 1 .. Len(line) : line'[i] = line[i],
         NEW j \in 1 .. Len(line), line'[j][2] = 1
  PROVE  \/ \E k \in Nat : j = PacketSize * k + 1
         \/ \E i \in 1 .. j - 1 :
              \A k \in 1 .. j - 1 : line'[k] # <<line'[i][1], PacketSize>>
PROOF
  <1>1. \/ \E k \in Nat : j = PacketSize * k + 1
        \/ \E i \in 1 .. j - 1 :
             \A k \in 1 .. j - 1 : line[k] # <<line[i][1], PacketSize>>
    <2>1. line[j][2] = 1
      OBVIOUS
    <2> QED
      BY <2>1 DEF StartsAligned
  <1>2. \A k \in 1 .. j - 1 : k \in 1 .. Len(line)
    OBVIOUS
  <1>3. \A k \in 1 .. j - 1 : line'[k] = line[k]
    BY <1>2
  <1> QED
    BY <1>1, <1>3, Zenon

\* A byte of loop()'s packet keeps the slots and the packets in step.
LEMMA WriteByteLine ==
  ASSUME TypeOK, LineInv, WriteByte
  PROVE  /\ LineFilled' /\ CurrentOpen' /\ FirstBytes' /\ StartsAligned'
         /\ offset + 1 # PacketSize => Whole' = Whole
         /\ offset + 1 = PacketSize => Whole' = Whole + 1
PROOF
  <1>1. /\ Writer \in 1 .. Len(packets')
        /\ Len(packets') = Len(packets) + (IF offset = 0 THEN 1 ELSE 0)
        /\ line' = Append(line, <<Writer, offset + 1>>)
        /\ offset + 1 # PacketSize => current' = Writer /\ offset' = offset + 1
        /\ offset + 1 = PacketSize => current' = 0 /\ offset' = 0
    BY WriteByteEffect DEF LineInv
  <1>2. /\ PacketSize \in Nat \ {0, 1}
        /\ line \in Seq(Nat \X Nat)
        /\ Len(line) \in Nat /\ Len(packets) \in Nat
        /\ offset \in 0 .. PacketSize - 1
        /\ Whole \in Nat
        /\ offset = 0 => Whole = Len(packets)
        /\ offset # 0 => Whole = Len(packets) - 1 /\ current \in 1 .. Len(packets)
        /\ \A i \in 1 .. Len(line) :
             line[i][1] \in 1 .. Len(packets) /\ line[i][2] \in 1 .. PacketSize
    BY LineFacts DEF LineInv
  <1>3. /\ Len(line') = Len(line) + 1
        /\ \A i \in 1 .. Len(line) : line'[i] = line[i]
        /\ line'[Len(line) + 1] = <<Writer, offset + 1>>
    BY <1>1, <1>2, Appended
  <1>4. /\ offset + 1 # PacketSize => Whole' = Whole
        /\ offset + 1 = PacketSize => Whole' = Whole + 1
    <2>1. CASE offset = 0
      BY <1>1, <1>2, <2>1 DEF Whole
    <2>2. CASE offset # 0
      BY <1>1, <1>2, <2>2 DEF Whole
    <2> QED
      BY <2>1, <2>2
  <1>5. LineFilled'
    <2>1. /\ PacketSize * Whole \in Nat
          /\ Len(line) = PacketSize * Whole + offset
          /\ PacketSize * (Whole + 1) = PacketSize * Whole + PacketSize
      BY LineLength DEF LineInv
    <2>2. CASE offset + 1 # PacketSize
      <3>1. Whole' = Whole /\ offset' = offset + 1
        BY <1>1, <1>4, <2>2
      <3> QED
        BY <1>2, <1>3, <2>1, <3>1 DEF LineFilled
    <2>3. CASE offset + 1 = PacketSize
      <3>1. Whole' = Whole + 1 /\ offset' = 0
        BY <1>1, <1>4, <2>3
      <3> QED
        BY <1>2, <1>3, <2>1, <2>3, <3>1 DEF LineFilled
    <2> QED
      BY <2>2, <2>3
  <1>6. CurrentOpen'
    <2>1. CASE offset + 1 = PacketSize
      BY <1>1, <2>1 DEF CurrentOpen
    <2>2. CASE offset + 1 # PacketSize
      <3>1. current' = Writer
        BY <1>1, <2>2
      <3>2. \A i \in 1 .. Len(line) : line[i] # <<Writer, PacketSize>>
        <4>1. CASE offset = 0
          <5>1. Writer = Len(packets) + 1
            BY <4>1 DEF Writer
          <5>2. \A i \in 1 .. Len(line) : line[i][1] # Writer
            BY <1>2, <5>1
          <5>3. <<Writer, PacketSize>>[1] = Writer
            OBVIOUS
          <5> QED
            BY <5>2, <5>3
        <4>2. CASE offset # 0
          <5>1. Writer = current /\ offset > 0
            BY <1>2, <4>2 DEF Writer
          <5> QED
            BY <5>1 DEF LineInv, CurrentOpen
        <4> QED
          BY <4>1, <4>2
      <3>3. <<Writer, offset + 1>> # <<Writer, PacketSize>>
        BY <2>2
      <3>4. ASSUME NEW i \in 1 .. Len(line') PROVE line'[i] # <<Writer, PacketSize>>
        <4>1. i \in 1 .. Len(line) \/ i = Len(line) + 1
          BY <1>2, <1>3
        <4>2. CASE i \in 1 .. Len(line)
          BY <1>3, <3>2, <4>2
        <4>3. CASE i = Len(line) + 1
          BY <1>3, <3>3, <4>3
        <4> QED
          BY <4>1, <4>2, <4>3
      <3> QED
        BY <1>1, <3>1, <3>4 DEF CurrentOpen
    <2> QED
      BY <2>1, <2>2
  <1>7. FirstBytes'
    <2> SUFFICES ASSUME NEW p \in 1 .. Len(packets')
                 PROVE  \E i \in 1 .. Len(line') : line'[i] = <<p, 1>>
      BY DEF FirstBytes
    <2>1. CASE p \in 1 .. Len(packets)
      <3>1. PICK i \in 1 .. Len(line) : line[i] = <<p, 1>>
        BY <2>1 DEF LineInv, FirstBytes
      <3>2. i \in 1 .. Len(line') /\ line'[i] = <<p, 1>>
        BY <1>2, <1>3, <3>1
      <3> QED
        BY <3>2
    <2>2. CASE p \notin 1 .. Len(packets)
      <3>1. offset = 0 /\ p = Len(packets) + 1
        BY <1>1, <1>2, <2>2
      <3>2. line'[Len(line) + 1] = <<p, 1>>
        BY <1>3, <3>1 DEF Writer
      <3>3. Len(line) + 1 \in 1 .. Len(line')
        BY <1>2, <1>3
      <3> QED
        BY <3>2, <3>3
    <2> QED
      BY <2>1, <2>2
  <1>8. StartsAligned'
    <2> SUFFICES ASSUME NEW j \in 1 .. Len(line'), line'[j][2] = 1
                 PROVE  \/ \E k \in Nat : j = PacketSize * k + 1
                        \/ \E i \in 1 .. j - 1 :
                             \A k \in 1 .. j - 1 : line'[k] # <<line'[i][1], PacketSize>>
      BY DEF StartsAligned
    <2>1. CASE j \in 1 .. Len(line)
      BY <1>2, <1>3, <2>1, StartsKept DEF LineInv
    <2>2. CASE j = Len(line) + 1
      <3>1. offset = 0
        BY <1>2, <1>3, <2>2
      <3>2. j = PacketSize * Whole + 1
        BY <2>2, <3>1, LineLength DEF LineInv
      <3> QED
        BY <1>2, <3>2
    <2>3. j \in 1 .. Len(line) \/ j = Len(line) + 1
      BY <1>2, <1>3
    <2> QED
      BY <2>1, <2>2, <2>3
  <1> QED
    BY <1>4, <1>5, <1>6, <1>7, <1>8

\* An interrupt's packet fills the slot that is being filled, and leaves as
\* much of the next one filled.
LEMMA EdgeLine ==
  ASSUME TypeOK, LineInv, NEW bytes \in 0 .. PacketSize, Edge(bytes)
  PROVE  /\ LineFilled' /\ CurrentOpen' /\ FirstBytes' /\ StartsAligned'
         /\ Whole' = Whole + 1
PROOF
  <1>1. /\ Len(packets) \in Nat /\ Len(packets') = Len(packets) + 1
        /\ UNCHANGED <<offset, current>>
    BY EdgeEffect
  <1>2. /\ PacketSize \in Nat \ {0, 1}
        /\ line \in Seq(Nat \X Nat)
        /\ Len(line) \in Nat /\ Len(packets) \in Nat
        /\ offset \in 0 .. PacketSize - 1
        /\ Whole \in Nat
        /\ offset # 0 => current \in 1 .. Len(packets)
        /\ \A i \in 1 .. Len(line) :
             line[i][1] \in 1 .. Len(packets) /\ line[i][2] \in 1 .. PacketSize
    BY LineFacts DEF LineInv
  <1>3. /\ Len(line') = Len(line) + PacketSize
        /\ \A i \in 1 .. Len(line) : line'[i] = line[i]
        /\ \A i \in 1 .. PacketSize : line'[Len(line) + i] = <<Len(packets) + 1, i>>
    BY EdgeBytes DEF LineInv
  <1>4. Whole' = Whole + 1
    BY <1>1, <1>2 DEF Whole
  <1>5. LineFilled'
    <2>1. /\ PacketSize * Whole \in Nat
          /\ Len(line) = PacketSize * Whole + offset
          /\ PacketSize * (Whole + 1) = PacketSize * Whole + PacketSize
      BY LineLength DEF LineInv
    <2> QED
      BY <1>1, <1>2, <1>3, <1>4, <2>1 DEF LineFilled
  <1>6. ASSUME NEW i \in 1 .. Len(line'), i \notin 1 .. Len(line)
        PROVE  \E k \in 1 .. PacketSize : i = Len(line) + k /\ line'[i] = <<Len(packets) + 1, k>>
    <2>1. PICK k \in 1 .. PacketSize : i = Len(line) + k
      <3>1. i - Len(line) \in 1 .. PacketSize
        BY <1>2, <1>3, <1>6
      <3>2. i = Len(line) + (i - Len(line))
        BY <1>2
      <3> QED
        BY <3>1, <3>2
    <2> QED
      BY <1>3, <2>1
  <1>7. CurrentOpen'
    <2> SUFFICES ASSUME offset > 0
                 PROVE  /\ current \in 1 .. Len(packets')
                        /\ \A i \in 1 .. Len(line') : line'[i] # <<current, PacketSize>>
      BY <1>1 DEF CurrentOpen
    <2>1. /\ current \in 1 .. Len(packets)
          /\ \A i \in 1 .. Len(line) : line[i] # <<current, PacketSize>>
      BY DEF LineInv, CurrentOpen
    <2>2. ASSUME NEW i \in 1 .. Len(line') PROVE line'[i] # <<current, PacketSize>>
      <3>1. CASE i \in 1 .. Len(line)
        BY <1>3, <2>1, <3>1
      <3>2. CASE i \notin 1 .. Len(line)
        <4>1. PICK k \in 1 .. PacketSize : line'[i] = <<Len(packets) + 1, k>>
          BY <1>6, <3>2
        <4>2. current # Len(packets) + 1
          BY <1>2, <2>1
        <4> QED
          BY <4>1, <4>2
      <3> QED
        BY <3>1, <3>2
    <2>3. current \in 1 .. Len(packets')
      BY <1>1, <2>1
    <2> QED
      BY <2>2, <2>3
  <1>8. FirstBytes'
    <2> SUFFICES ASSUME NEW p \in 1 .. Len(packets')
                 PROVE  \E i \in 1 .. Len(line') : line'[i] = <<p, 1>>
      BY DEF FirstBytes
    <2>1. CASE p \in 1 .. Len(packets)
      <3>1. PICK i \in 1 .. Len(line) : line[i] = <<p, 1>>
        BY <2>1 DEF LineInv, FirstBytes
      <3>2. i \in 1 .. Len(line')
        BY <1>2, <1>3, <3>1
      <3> QED
        BY <1>3, <3>1, <3>2
    <2>2. CASE p \notin 1 .. Len(packets)
      <3>1. p = Len(packets) + 1
        BY <1>1, <2>2
      <3>2. 1 \in 1 .. PacketSize /\ Len(line) + 1 \in 1 .. Len(line')
        BY <1>2, <1>3
      <3> QED
        BY <1>3, <3>1, <3>2
    <2> QED
      BY <2>1, <2>2
  <1>9. StartsAligned'
    <2> SUFFICES ASSUME NEW j \in 1 .. Len(line'), line'[j][2] = 1
                 PROVE  \/ \E k \in Nat : j = PacketSize * k + 1
                        \/ \E i \in 1 .. j - 1 :
                             \A k \in 1 .. j - 1 : line'[k] # <<line'[i][1], PacketSize>>
      BY DEF StartsAligned
    <2>1. CASE j \in 1 .. Len(line)
      BY <1>2, <1>3, <2>1, StartsKept DEF LineInv
    <2>2. CASE j \notin 1 .. Len(line)
      <3>1. j = Len(line) + 1
        <4>1. PICK k \in 1 .. PacketSize : j = Len(line) + k /\ line'[j] = <<Len(packets) + 1, k>>
          BY <1>6, <2>2
        <4> QED
          BY <4>1
      <3>2. CASE offset = 0
        <4>1. j = PacketSize * Whole + 1
          BY <3>1, <3>2, LineLength DEF LineInv
        <4> QED
          BY <1>2, <4>1
      <3>3. CASE offset # 0
        <4>1. /\ current \in 1 .. Len(packets)
              /\ \A i \in 1 .. Len(line) : line[i] # <<current, PacketSize>>
          BY <1>2, <3>3 DEF LineInv, CurrentOpen
        <4>2. PICK i \in 1 .. Len(line) : line[i] = <<current, 1>>
          BY <4>1 DEF LineInv, FirstBytes
        <4>3. line'[i][1] = current
          BY <1>3, <4>2
        <4>4. 1 .. j - 1 = 1 .. Len(line)
          BY <1>2, <3>1
        <4>5. \A k \in 1 .. j - 1 : line'[k] # <<current, PacketSize>>
          BY <1>3, <4>1, <4>4
        <4> QED
          BY <4>2, <4>3, <4>4, <4>5
      <3> QED
        BY <3>2, <3>3
    <2> QED
      BY <2>1, <2>2
  <1> QED
    BY <1>4, <1>5, <1>7, <1>8, <1>9

-----------------------------------------------------------------------------
(***************************************************************************)
(* The damage that interrupts do                                           *)
(***************************************************************************)

LEMMA OneMore ==
  ASSUME NEW S, IsFiniteSet(S), NEW e, NEW T, T \subseteq S \cup {e}
  PROVE  /\ Cardinality(S) \in Nat /\ Cardinality(T) \in Nat
         /\ Cardinality(T) <= Cardinality(S) + 1
PROOF
  <1>1. IsFiniteSet(S \cup {e}) /\ Cardinality(S) \in Nat
    BY FS_AddElement, FS_CardinalityType
  <1>2. Cardinality(S \cup {e}) <= Cardinality(S) + 1
    <2>1. \/ Cardinality(S \cup {e}) = Cardinality(S)
          \/ Cardinality(S \cup {e}) = Cardinality(S) + 1
      BY FS_AddElement
    <2> QED
      BY <1>1, <2>1
  <1>3. IsFiniteSet(T) /\ Cardinality(T) <= Cardinality(S \cup {e})
    BY <1>1, FS_Subset
  <1>4. Cardinality(T) \in Nat /\ Cardinality(S \cup {e}) \in Nat
    BY <1>1, <1>3, FS_CardinalityType
  <1> QED
    BY <1>1, <1>2, <1>3, <1>4

\* As the line grows, at most the slot that has just been filled is added to
\* the damaged ones.
LEMMA DamageGrows ==
  ASSUME TypeOK, LineInv, \A i \in 1 .. Len(line) : line'[i] = line[i],
         NEW v, Whole = v, NEW w \in v .. v + 1, Whole' = w
  PROVE  /\ Damaged' \subseteq Damaged \cup {v + 1}
         /\ w = v \/ IntactSlot(v + 1)' => Damaged' \subseteq Damaged
         /\ Cardinality(Damaged) \in Nat /\ Cardinality(Damaged') \in Nat
         /\ Cardinality(Damaged') <= Cardinality(Damaged) + 1
         /\ Damaged' \subseteq Damaged => Cardinality(Damaged') <= Cardinality(Damaged)
PROOF
  <1>1. /\ Whole \in Nat /\ Len(line) \in Nat
        /\ PacketSize * Whole \in Nat /\ Len(line) = PacketSize * Whole + offset
        /\ offset \in Nat
    BY LineFacts, LineLength DEF LineInv
  <1>2. PacketSize * Whole <= Len(line)
    BY <1>1
  <1>3. ASSUME NEW n \in 1 .. Whole PROVE IntactSlot(n)' <=> IntactSlot(n)
    BY <1>1, <1>2, SlotsKept
  <1>4. ASSUME NEW n \in Damaged', n # v + 1 PROVE n \in Damaged
    <2>1. n \in 1 .. w /\ ~IntactSlot(n)'
      BY <1>4 DEF Damaged
    <2>2. n \in 1 .. Whole
      BY <1>1, <1>4, <2>1
    <2> QED
      BY <1>3, <2>1, <2>2 DEF Damaged
  <1>5. Damaged' \subseteq Damaged \cup {v + 1}
    BY <1>4
  <1>6. w = v \/ IntactSlot(v + 1)' => Damaged' \subseteq Damaged
    <2> SUFFICES ASSUME w = v \/ IntactSlot(v + 1)', NEW n \in Damaged'
                 PROVE  n # v + 1
      BY <1>4
    <2>1. n \in 1 .. w /\ ~IntactSlot(n)'
      BY DEF Damaged
    <2> QED
      BY <1>1, <2>1
  <1>7. IsFiniteSet(Damaged)
    <2>1. IsFiniteSet(1 .. Whole) /\ Damaged \subseteq 1 .. Whole
      BY <1>1, FS_Interval DEF Damaged
    <2> QED
      BY <2>1, FS_Subset
  <1>8. /\ Cardinality(Damaged) \in Nat /\ Cardinality(Damaged') \in Nat
        /\ Cardinality(Damaged') <= Cardinality(Damaged) + 1
    <2>1. PICK S, T, e : S = Damaged /\ T = Damaged' /\ e = v + 1
      OBVIOUS
    <2>2. IsFiniteSet(S) /\ T \subseteq S \cup {e}
      BY <1>5, <1>7, <2>1
    <2> QED
      BY <2>1, <2>2, OneMore
  <1>9. Damaged' \subseteq Damaged => Cardinality(Damaged') <= Cardinality(Damaged)
    <2>1. PICK S, T : S = Damaged /\ T = Damaged'
      OBVIOUS
    <2>2. T \subseteq S => Cardinality(T) <= Cardinality(S)
      BY <1>7, <2>1, FS_Subset
    <2> QED
      BY <2>1, <2>2
  <1> QED
    BY <1>5, <1>6, <1>8, <1>9

\* loop() itself damages nothing: the slot that its last byte fills is intact
\* unless it was tainted before.
LEMMA WriteByteDamage ==
  ASSUME TypeOK, LineInv, WriteByte
  PROVE  DamageCounted'
PROOF
  <1>1. /\ line' = Append(line, <<Writer, offset + 1>>)
        /\ offset + 1 # PacketSize => current' = Writer /\ offset' = offset + 1
        /\ offset + 1 = PacketSize => current' = 0 /\ offset' = 0
        /\ UNCHANGED edges
    BY WriteByteEffect DEF LineInv
  <1>2. /\ PacketSize \in Nat \ {0, 1} /\ line \in Seq(Nat \X Nat)
        /\ Len(line) \in Nat /\ Whole \in Nat /\ offset \in 0 .. PacketSize - 1
    BY LineFacts DEF LineInv
  <1>3. /\ \A i \in 1 .. Len(line) : line'[i] = line[i]
        /\ line'[Len(line) + 1] = <<Writer, offset + 1>>
    BY <1>1, <1>2, Appended
  <1>4. PacketSize * Whole \in Nat /\ Len(line) = PacketSize * Whole + offset
    BY LineLength DEF LineInv
  <1>5. /\ offset + 1 # PacketSize => Whole' = Whole
        /\ offset + 1 = PacketSize => Whole' = Whole + 1
    BY WriteByteLine
  <1>6. edges \in Nat
    BY SerialLinkAssumption DEF TypeOK, LinkTypeOK
  <1>7. Cardinality(Damaged) + (IF Tainted THEN 1 ELSE 0) <= 2 * edges
    BY DEF LineInv, DamageCounted
  <1>8. ASSUME NEW i \in 1 .. offset + 1, ~Tainted
        PROVE  line'[PacketSize * Whole + i] = <<Writer, i>>
    <2>1. CASE i = offset + 1
      <3>1. PacketSize * Whole + i = Len(line) + 1
        BY <1>2, <1>4, <2>1
      <3> QED
        BY <1>3, <2>1, <3>1
    <2>2. CASE i # offset + 1
      <3>1. i \in 1 .. offset /\ Writer = current
        BY <1>2, <2>2 DEF Writer
      <3>2. line[PacketSize * Whole + i] = <<current, i>>
        BY <1>8, <3>1 DEF Tainted
      <3>3. PacketSize * Whole + i \in 1 .. Len(line)
        BY <1>2, <1>4, <3>1
      <3> QED
        BY <1>3, <3>1, <3>2, <3>3
    <2> QED
      BY <2>1, <2>2
  <1>9. CASE offset + 1 # PacketSize
    <2>1. Tainted' => Tainted
      <3>1. Whole' = Whole /\ offset' = offset + 1 /\ current' = Writer
        BY <1>1, <1>5, <1>9
      <3> QED
        BY <1>8, <3>1 DEF Tainted
    <2>2. Whole \in Whole .. Whole + 1 /\ Whole' = Whole
      BY <1>2, <1>5, <1>9
    <2>3. PICK v \in Nat : v = Whole
      BY <1>2
    <2>5. PICK w \in v .. v + 1 : w = v /\ Whole' = w
      BY <2>2, <2>3
    <2>4. /\ Cardinality(Damaged') <= Cardinality(Damaged)
          /\ Cardinality(Damaged) \in Nat /\ Cardinality(Damaged') \in Nat
      BY <1>3, <2>3, <2>5, DamageGrows
    <2> QED
      BY <1>1, <1>6, <1>7, <2>1, <2>4 DEF DamageCounted
  <1>10. CASE offset + 1 = PacketSize
    <2>1. Whole' = Whole + 1 /\ offset' = 0
      BY <1>1, <1>5, <1>10
    <2>2. ~Tainted'
      BY <2>1 DEF Tainted
    <2>3. PICK v \in Nat : v = Whole
      BY <1>2
    <2>4. PICK w \in v .. v + 1 : w = v + 1 /\ Whole' = w
      BY <2>1, <2>3
    <2>5. /\ IntactSlot(v + 1)' => Cardinality(Damaged') <= Cardinality(Damaged)
          /\ Cardinality(Damaged') <= Cardinality(Damaged) + 1
          /\ Cardinality(Damaged) \in Nat /\ Cardinality(Damaged') \in Nat
      BY <1>3, <2>3, <2>4, DamageGrows
    <2>6. ASSUME ~Tainted PROVE IntactSlot(v + 1)'
      <3>1. PICK p : p = Writer
        OBVIOUS
      <3>2. \A i \in 1 .. PacketSize : line'[PacketSize * v + i] = <<p, i>>
        BY <1>8, <1>10, <2>3, <2>6, <3>1
      <3>3. (v + 1) - 1 = v /\ 1 \in 1 .. PacketSize
        BY <1>2, <2>3
      <3>4. \A i \in 1 .. PacketSize : InSlot(v + 1, i)' = <<p, i>>
        BY <3>2, <3>3 DEF InSlot
      <3>5. Owner(v + 1)' = p
        BY <3>3, <3>4 DEF Owner
      <3> QED
        BY <3>4, <3>5 DEF IntactSlot
    <2> QED
      BY <1>1, <1>6, <1>7, <2>2, <2>5, <2>6 DEF DamageCounted
  <1> QED
    BY <1>9, <1>10

\* An interrupt may damage the slot that is being filled, and the one after it.
LEMMA EdgeDamage ==
  ASSUME TypeOK, LineInv, NEW bytes \in 0 .. PacketSize, Edge(bytes)
  PROVE  DamageCounted'
PROOF
  <1>1. \A i \in 1 .. Len(line) : line'[i] = line[i]
    BY EdgeBytes DEF LineInv
  <1>2. Whole \in Nat /\ Whole' = Whole + 1
    BY EdgeLine, LineFacts DEF LineInv
  <1>3. PICK v \in Nat : v = Whole
    BY <1>2
  <1>4. PICK w \in v .. v + 1 : Whole' = w
    BY <1>2, <1>3
  <1>5. /\ Cardinality(Damaged') <= Cardinality(Damaged) + 1
        /\ Cardinality(Damaged) \in Nat /\ Cardinality(Damaged') \in Nat
    BY <1>1, <1>3, <1>4, DamageGrows
  <1>6. edges \in Nat /\ edges' = edges + 1
    BY SerialLinkAssumption, EdgeEffect DEF TypeOK, LinkTypeOK
  <1>7. Cardinality(Damaged) + (IF Tainted THEN 1 ELSE 0) <= 2 * edges
    BY DEF LineInv, DamageCounted
  <1> QED
    BY <1>5, <1>6, <1>7 DEF DamageCounted

-----------------------------------------------------------------------------
(***************************************************************************)
(* The invariant                                                           *)
(***************************************************************************)

LEMMA LineStep ==
  ASSUME TypeOK, LineInv, [Next]_vars
  PROVE  LineInv'
PROOF
  <1>1. ASSUME UNCHANGED <<packets, current, offset, line, edges>> PROVE LineInv'
    BY <1>1 DEF LineInv, LineFilled, CurrentOpen, FirstBytes, StartsAligned, DamageCounted,
       Damaged, Tainted, Whole, IntactSlot, InSlot, Owner
  <1>2. ASSUME Main \/ Quit \/ (\E command \in UserCommands : SendCommand(command))
                 \/ Receive \/ Arrive \/ ReadPacket \/ EndTurn \/ UNCHANGED vars
        PROVE  UNCHANGED <<packets, current, offset, line, edges>>
    BY <1>2 DEF Main, Open, TryAgain, Opened, StartReceiver, Hello, Quit, SendCommand,
       SendPacket, Receive, Arrive, ReadPacket, EndTurn, vars, linkVars, txVars
  <1>3. CASE WriteByte
    BY <1>3, WriteByteLine, WriteByteDamage DEF LineInv
  <1>4. ASSUME NEW bytes \in 0 .. PacketSize, Edge(bytes) PROVE LineInv'
    BY <1>4, EdgeLine, EdgeDamage DEF LineInv
  <1> QED
    BY <1>1, <1>2, <1>3, <1>4 DEF Next, Robot, LinkNext, Loop

LEMMA InvInit == Init => IInv
PROOF
  <1> SUFFICES ASSUME Init PROVE IInv
    OBVIOUS
  <1>1. TypeOK
    BY TypeInit
  <1>2. OrderInv
    BY DEF Init, LinkInit, OrderInv, BytesOrdered, ExecutedPast, ExecutedInOrder, Bytes
  <1>3. Len(line) = 0 /\ Len(packets) = 0 /\ offset = 0 /\ edges = 0 /\ Whole = 0
    BY DEF Init, LinkInit, Whole
  <1>4. LineFilled /\ CurrentOpen /\ FirstBytes /\ StartsAligned
    <2>1. PacketSize * 0 = 0
      BY SerialLinkAssumption
    <2> QED
      BY <1>3, <2>1 DEF LineFilled, CurrentOpen, FirstBytes, StartsAligned
  <1>5. DamageCounted
    <2>1. Damaged = {} /\ ~Tainted
      BY <1>3 DEF Damaged, Tainted
    <2>2. Cardinality(Damaged) = 0
      BY <2>1, FS_EmptySet
    <2> QED
      BY <1>3, <2>1, <2>2 DEF DamageCounted
  <1> QED
    BY <1>1, <1>2, <1>4, <1>5 DEF IInv, LineInv

LEMMA InvStep == IInv /\ [Next]_vars => IInv'
PROOF
  <1> SUFFICES ASSUME IInv, [Next]_vars PROVE IInv'
    OBVIOUS
  <1>1. TypeOK'
    BY TypeStep DEF IInv, LineInv
  <1>2. OrderInv'
    BY OrderStep DEF IInv
  <1>3. LineInv'
    BY LineStep DEF IInv
  <1> QED
    BY <1>1, <1>2, <1>3 DEF IInv

LEMMA Invariant == Spec => []IInv
PROOF
  <1> QED
    BY InvInit, InvStep, PTL DEF Spec

-----------------------------------------------------------------------------
(***************************************************************************)
(* What follows from it                                                    *)
(***************************************************************************)

\* The slots of the line are the whole packets on it.
LEMMA SlotsWhole ==
  ASSUME TypeOK, LineInv
  PROVE  Slots(Len(line)) = 1 .. Whole
PROOF
  <1>1. /\ Whole \in Nat /\ offset \in 0 .. PacketSize - 1
        /\ Len(line) = PacketSize * Whole + offset
    BY LineFacts, LineLength DEF LineInv
  <1>2. Len(line) \div PacketSize = Whole
    BY <1>1, Division
  <1> QED
    BY <1>2 DEF Slots

LEMMA SlotHeard ==
  ASSUME NEW h \in Nat, NEW k \in Nat, PacketSize * k + PacketSize <= h
  PROVE  k + 1 \in Slots(h)
PROOF
  <1>1. PacketSize \in Nat \ {0, 1}
    BY SerialLinkAssumption
  <1> DEFINE q == h \div PacketSize
  <1>2. q \in Int /\ h < PacketSize * q + PacketSize
    BY <1>1
  <1>3. PacketSize * k < PacketSize * q
    <2>1. PICK a \in Int, b \in Int : a = PacketSize * k /\ b = PacketSize * q
      BY <1>1, <1>2
    <2> QED
      BY <1>1, <1>2, <2>1
  <1>4. k < q
    <2>1. PICK m \in Int : m = q
      BY <1>2
    <2>2. PacketSize * m \in Int /\ PacketSize * k \in Int
      BY <1>1, <2>1
    <2>3. CASE m <= k
      BY <1>3, <2>1, <2>2, <2>3, Multiples
    <2> QED
      BY <2>1, <2>3
  <1> QED
    BY <1>2, <1>4 DEF Slots

\* An undisturbed packet lies in a slot of its own.
LEMMA UndisturbedPlace ==
  ASSUME TypeOK, LineInv, NEW p \in 1 .. Len(packets), Undisturbed(p)
  PROVE  /\ \E k \in Nat : Place(p) = PacketSize * k + 1
         /\ Place(p) \in 1 .. Len(line)
PROOF
  <1>1. \E i \in 1 .. Len(line) : line[i] = <<p, 1>>
    BY DEF LineInv, FirstBytes
  <1>2. Place(p) \in 1 .. Len(line) /\ line[Place(p)] = <<p, 1>>
    BY <1>1 DEF Place
  <1>3. PICK j \in 1 .. Len(line) : j = Place(p) /\ line[j][2] = 1
    BY <1>2
  <1>4. ~\E i \in 1 .. j - 1 : \A k \in 1 .. j - 1 : line[k] # <<line[i][1], PacketSize>>
    BY <1>3 DEF Undisturbed, Length
  <1>5. \E k \in Nat : j = PacketSize * k + 1
    BY <1>3, <1>4, Zenon DEF LineInv, StartsAligned
  <1> QED
    BY <1>2, <1>3, <1>5

LEMMA Alignment == TypeOK /\ LineInv => UndisturbedHeard
PROOF
  <1> SUFFICES ASSUME TypeOK, LineInv, NEW p \in 1 .. Len(packets), Undisturbed(p),
                      Place(p) + PacketSize - 1 <= heard
               PROVE  \E n \in Slots(heard) : IntactSlot(n) /\ Owner(n) = p
    BY DEF UndisturbedHeard
  <1>1. PacketSize \in Nat \ {0, 1} /\ heard \in Nat
    <2>1. heard \in 0 .. Len(line) /\ Len(line) \in Nat
      BY LineFacts DEF TypeOK, LineInv
    <2> QED
      BY <2>1, SerialLinkAssumption
  <1>2. PICK k \in Nat : Place(p) = PacketSize * k + 1
    BY UndisturbedPlace
  <1>3. PICK a \in Nat : a = PacketSize * k
    BY <1>1
  <1>4. k + 1 \in Slots(heard)
    <2>1. a + PacketSize <= heard
      BY <1>1, <1>2, <1>3
    <2> QED
      BY <1>1, <1>3, <2>1, SlotHeard
  <1>5. ASSUME NEW i \in 1 .. PacketSize PROVE InSlot(k + 1, i) = <<p, i>>
    <2>1. line[Place(p) + i - 1] = <<p, i>>
      BY DEF Undisturbed
    <2>2. Place(p) + i - 1 = a + i
      BY <1>1, <1>2, <1>3
    <2>3. PacketSize * ((k + 1) - 1) + i = a + i
      <3>1. (k + 1) - 1 = k
        OBVIOUS
      <3> QED
        BY <1>3, <3>1
    <2> QED
      BY <2>1, <2>2, <2>3 DEF InSlot
  <1>6. Owner(k + 1) = p
    <2>1. 1 \in 1 .. PacketSize
      BY <1>1
    <2> QED
      BY <1>5, <2>1 DEF Owner
  <1> QED
    BY <1>4, <1>5, <1>6 DEF IntactSlot

LEMMA Damage == TypeOK /\ LineInv => DamageBounded
PROOF
  <1> SUFFICES ASSUME TypeOK, LineInv PROVE DamageBounded
    OBVIOUS
  <1>1. {n \in Slots(Len(line)) : ~IntactSlot(n)} = Damaged
    BY SlotsWhole DEF Damaged
  <1>2. IsFiniteSet(Damaged)
    <2>1. Whole \in Nat
      BY LineFacts DEF LineInv
    <2>2. IsFiniteSet(1 .. Whole) /\ Damaged \subseteq 1 .. Whole
      BY <2>1, FS_Interval DEF Damaged
    <2> QED
      BY <2>2, FS_Subset
  <1>3. Cardinality(Damaged) \in Nat /\ edges \in Nat
    BY <1>2, FS_CardinalityType, SerialLinkAssumption DEF TypeOK, LinkTypeOK
  <1>4. Cardinality(Damaged) <= 2 * edges
    BY <1>3 DEF LineInv, DamageCounted
  <1> QED
    BY <1>1, <1>4 DEF DamageBounded

-----------------------------------------------------------------------------
\* The variables of the link and of alex-pi.cpp keep their types: the firmware
\* never holds a whole packet back, and its receive thread never runs ahead.
THEOREM TypeCorrect == Spec => []TypeOK
PROOF
  <1>1. IInv => TypeOK
    BY DEF IInv
  <1> QED
    BY <1>1, Invariant, PTL

\* Whatever bytes the receive ring loses, commands are executed in the order
\* they were typed and none twice: readPacket() hands over a mixture of packets
\* only as a damaged one.
THEOREM ExecutionOrder == Spec => []ExecutedInOrder
PROOF
  <1>1. IInv => ExecutedInOrder
    BY DEF IInv, OrderInv
  <1> QED
    BY <1>1, Invariant, PTL

\* A debug packet sent from an interrupt in the middle of another packet never
\* shifts the ones that follow: receiveThread() hands over every packet that
\* did not overlap with another.
THEOREM PacketsStayAligned == Spec => []UndisturbedHeard
PROOF
  <1>1. IInv => UndisturbedHeard
    BY Alignment DEF IInv
  <1> QED
    BY <1>1, Invariant, PTL

\* Each edge spoils at most two slots of PacketSize bytes: its own packet and
\* the one of loop() that it cut in two.
THEOREM DamageStaysBounded == Spec => []DamageBounded
PROOF
  <1>1. IInv => DamageBounded
    BY Damage DEF IInv
  <1> QED
    BY <1>1, Invariant, PTL

=============================================================================
