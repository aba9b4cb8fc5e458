---------------------------- MODULE LocalRunLosses ----------------------------
(***************************************************************************)
(* Proofs about LocalRun, on top of LocalRunProofs: what losses do to the  *)
(* commands.  None is skipped unless the receive ring has lost bytes, and  *)
(* a packet that comes in after a loss that shifts it is refused.          *)
(***************************************************************************)
EXTENDS LocalRunProofs

-----------------------------------------------------------------------------
(***************************************************************************)
(* Nothing lost, nothing skipped                                           *)
(***************************************************************************)

\* As long as nothing is lost, the packets executed and the bytes in the
\* buffers are all that has come in, and the buffers begin with a packet.
Gapless ==
  lost = 0 =>
    /\ arrived = PacketSize * Len(executed) + Len(Bytes)
    /\ \A i \in 1 .. Len(Bytes) : Bytes[i] = PacketSize * Len(executed) + i
    /\ \A i \in 1 .. Len(executed) : executed[i] = i

\* What the ring has not kept of the bytes that came in is lost.
LEMMA LostGrows ==
  ASSUME TypeOK, NEW m \in Nat, NEW k \in 0 .. m,
         arrived' = arrived + m, ring' = ring \o Coming(k), UNCHANGED held,
         lost' = lost + m - (Len(ring') - Len(ring))
  PROVE  lost' = lost + m - k
PROOF
  <1>1. arrived \in Nat
    BY BytesGrow
  <1>2. ring \in Seq(Nat) /\ Coming(k) \in Seq(Nat)
    <2>1. ring \in Seq(1 .. arrived) /\ 1 .. arrived \subseteq Nat
      BY <1>1 DEF TypeOK, LinkTypeOK
    <2>2. Coming(k) \in Seq(arrived + 1 .. arrived + k)
      BY <1>1, ComingBytes
    <2>3. arrived + 1 .. arrived + k \subseteq Nat
      BY <1>1
    <2> QED
      BY <2>1, <2>2, <2>3, WiderSeq
  <1>3. Len(Coming(k)) = k
    BY <1>1, ComingBytes
  <1>4. Len(ring) \in Nat /\ Len(ring') = Len(ring) + k
    <2>1. \A s, t \in Seq(Nat) : Len(s \o t) = Len(s) + Len(t) /\ Len(s) \in Nat
      OBVIOUS
    <2> QED
      BY <1>2, <1>3, <2>1
  <1>5. lost \in Int
    BY <1>1 DEF TypeOK, LinkTypeOK
  <1> QED
    BY <1>4, <1>5

\* Bytes that come in, of which the ring keeps all or some are lost.
LEMMA ReceiveGapless ==
  ASSUME TypeOK, Gapless, NEW m \in Nat, NEW k \in 0 .. m,
         arrived' = arrived + m, ring' = ring \o Coming(k),
         lost' = lost + m - (Len(ring') - Len(ring)),
         UNCHANGED <<held, executed>>
  PROVE  Gapless'
PROOF
  <1>1. /\ arrived \in Nat /\ Len(Bytes) \in Nat
        /\ Len(Bytes') = Len(Bytes) + k
        /\ \A i \in 1 .. Len(Bytes) : Bytes'[i] = Bytes[i] /\ Bytes[i] \in 1 .. arrived
        /\ \A i \in 1 .. k : Bytes'[Len(Bytes) + i] = arrived + i
    BY BytesGrow
  <1>2. lost' = lost + m - k
    BY LostGrows
  <1>3. lost \in Nat
    BY <1>1 DEF TypeOK, LinkTypeOK
  <1>4. SUFFICES ASSUME lost = 0, k = m
                 PROVE  /\ arrived' = PacketSize * Len(executed) + Len(Bytes')
                        /\ \A i \in 1 .. Len(Bytes') : Bytes'[i] = PacketSize * Len(executed) + i
                        /\ \A i \in 1 .. Len(executed) : executed[i] = i
    BY <1>2, <1>3 DEF Gapless
  <1>5. PICK base \in Int : base = PacketSize * Len(executed)
    <2>1. executed \in Seq(1 .. Len(sent))
      BY DEF TypeOK, LinkTypeOK
    <2>2. Len(executed) \in Int
      BY <2>1
    <2>3. PacketSize * Len(executed) \in Int
      BY <2>2, Multiples
    <2> QED
      BY <2>3
  <1>6. /\ arrived = base + Len(Bytes)
        /\ \A i \in 1 .. Len(Bytes) : Bytes[i] = base + i
        /\ \A i \in 1 .. Len(executed) : executed[i] = i
    BY <1>4, <1>5 DEF Gapless
  <1>7. ASSUME NEW i \in 1 .. Len(Bytes') PROVE Bytes'[i] = base + i
    <2>1. CASE i <= Len(Bytes)
      BY <1>1, <1>6, <2>1
    <2>2. CASE i > Len(Bytes)
      <3>1. i - Len(Bytes) \in 1 .. k
        BY <1>1, <2>2
      <3>2. Bytes'[Len(Bytes) + (i - Len(Bytes))] = arrived + (i - Len(Bytes))
        BY <1>1, <3>1
      <3> QED
        BY <1>1, <1>6, <3>1, <3>2
    <2> QED
      BY <1>1, <2>1, <2>2
  <1>8. arrived' = base + Len(Bytes')
    BY <1>1, <1>4, <1>6
  <1> QED
    BY <1>5, <1>6, <1>7, <1>8

\* A frame of bytes that follow one another, from the first of a packet on,
\* passes both checks: it is the packet with its first byte's number.
LEMMA WholePacket ==
  ASSUME NEW n \in Nat, NEW slot,
         \A i \in 1 .. PacketSize : slot[i] = PacketSize * n + i
  PROVE  MagicMatches(slot) /\ ChecksumMatches(slot) /\ Number(slot) = n + 1
PROOF
  <1>1. PacketSize \in Nat \ {0, 1}
    BY SerialLinkAssumption
  <1>2. PICK base \in Nat : base = PacketSize * n
    BY <1>1
  <1>3. \A i \in 1 .. PacketSize : slot[i] = base + i
    BY <1>2
  <1>4. slot[1] = base + 1
    BY <1>1, <1>3
  <1>5. MagicMatches(slot)
    <2>1. 1 \in 0 .. PacketSize - 1
      BY <1>1
    <2>2. (PacketSize * n + 1) % PacketSize = 1
      BY <2>1, Division
    <2> QED
      BY <1>2, <1>4, <2>2 DEF MagicMatches
  <1>6. ChecksumMatches(slot)
    BY <1>1, <1>3, <1>4 DEF ChecksumMatches
  <1>7. Number(slot) = n + 1
    <2>1. 0 \in 0 .. PacketSize - 1
      BY <1>1
    <2>2. (PacketSize * n + 0) \div PacketSize = n
      BY <2>1, Division
    <2>3. (base + 1) - 1 = PacketSize * n + 0
      BY <1>2
    <2> QED
      BY <1>4, <2>2, <2>3 DEF Number
  <1> QED
    BY <1>5, <1>6, <1>7

\* A round of loop() hands over the next packet when it is complete.
LEMMA ReadPacketGapless ==
  ASSUME TypeOK, Gapless, ReadPacket
  PROVE  Gapless'
PROOF
  <1>1. UNCHANGED <<arrived, lost>>
    BY DEF ReadPacket
  <1>2. SUFFICES ASSUME lost = 0
                 PROVE  /\ arrived = PacketSize * Len(executed') + Len(Bytes')
                        /\ \A i \in 1 .. Len(Bytes') : Bytes'[i] = PacketSize * Len(executed') + i
                        /\ \A i \in 1 .. Len(executed') : executed'[i] = i
    BY <1>1 DEF Gapless
  <1>3. PICK done \in Nat : done = Len(executed)
    <2>1. executed \in Seq(1 .. Len(sent))
      BY DEF TypeOK, LinkTypeOK
    <2> QED
      BY <2>1
  <1>4. /\ PacketSize \in Nat \ {0, 1} /\ Len(Bytes) \in Nat
        /\ Bytes \in Seq(1 .. arrived)
    BY SerialLinkAssumption, BytesType
  <1>5. PICK base \in Nat : base = PacketSize * done
    BY <1>4
  <1>6. /\ arrived = base + Len(Bytes)
        /\ \A i \in 1 .. Len(Bytes) : Bytes[i] = base + i
        /\ \A i \in 1 .. done : executed[i] = i
    BY <1>2, <1>3, <1>5 DEF Gapless
  <1>7. held' \in Seq(1 .. arrived') /\ ring' = << >>
    BY ReadPacketType DEF ReadPacket, LinkTypeOK
  <1>8. Bytes' = held'
    BY <1>7 DEF Bytes
  <1>9. CASE Len(Bytes) < PacketSize
    <2>1. Bytes' = Bytes /\ UNCHANGED executed
      BY <1>8, <1>9 DEF ReadPacket, Bytes, robotVars
    <2> QED
      BY <1>3, <1>5, <1>6, <2>1
  <1>10. CASE Len(Bytes) >= PacketSize
    <2> DEFINE slot == SubSeq(Bytes, 1, PacketSize)
    <2>1. held' = SubSeq(Bytes, PacketSize + 1, Len(Bytes)) /\ Judge(slot)
      BY <1>4, <1>10 DEF ReadPacket, Bytes, Leftover
    <2>2. PacketSize \in 0 .. Len(Bytes)
      BY <1>4, <1>10
    <2>3. /\ Len(Bytes') = Len(Bytes) - PacketSize
          /\ \A i \in 1 .. Len(Bytes') : Bytes'[i] = Bytes[PacketSize + i]
      BY <1>4, <1>8, <2>1, <2>2, FrontAndRest
    <2>4. \A i \in 1 .. PacketSize : slot[i] = PacketSize * done + i
      <3>1. \A i \in 1 .. PacketSize : slot[i] = Bytes[i] /\ i \in 1 .. Len(Bytes)
        BY <1>4, <2>2, FrontAndRest
      <3> QED
        BY <1>5, <1>6, <3>1
    <2>5. MagicMatches(slot) /\ ChecksumMatches(slot) /\ Number(slot) = done + 1
      BY <2>4, WholePacket
    <2>6. executed' = Append(executed, done + 1)
      <3> HIDE DEF slot
      <3> QED
        BY <2>1, <2>5 DEF Judge, HandleCommand
    <2>7. /\ Len(executed') = done + 1
          /\ \A i \in 1 .. done + 1 : executed'[i] = i
      <3>1. executed \in Seq(Nat)
        <4>1. executed \in Seq(1 .. Len(sent)) /\ 1 .. Len(sent) \subseteq Nat
          BY DEF TypeOK, LinkTypeOK
        <4> QED
          BY <4>1, WiderSeq
      <3> QED
        BY <1>3, <1>6, <2>6, <3>1
    <2>8. PICK next \in Nat : next = PacketSize * (done + 1) /\ next = base + PacketSize
      BY <1>4, <1>5, Multiples
    <2>9. next = base + PacketSize
      BY <2>8
    <2>10. arrived = next + Len(Bytes')
      BY <1>4, <1>6, <2>3, <2>9
    <2>11. ASSUME NEW i \in 1 .. Len(Bytes') PROVE Bytes'[i] = next + i
      <3>1. PacketSize + i \in 1 .. Len(Bytes) /\ i \in Nat
        BY <1>4, <1>10, <2>3
      <3>2. Bytes'[i] = base + (PacketSize + i)
        BY <1>6, <2>3, <3>1
      <3> QED
        BY <1>4, <2>9, <3>1, <3>2
    <2> QED
      BY <2>7, <2>8, <2>10, <2>11
  <1> QED
    BY <1>4, <1>9, <1>10

LEMMA GaplessStep ==
  ASSUME TypeOK, Gapless, [Next]_vars
  PROVE  Gapless'
PROOF
  <1>1. ASSUME UNCHANGED <<held, ring, arrived, lost, executed>> PROVE Gapless'
    BY <1>1 DEF Gapless, Bytes
  <1>2. ASSUME Main \/ Quit \/ (\E command \in UserCommands : SendCommand(command))
                 \/ Receive \/ EndTurn \/ WriteByte \/ UNCHANGED vars
        PROVE  UNCHANGED <<held, ring, arrived, lost, executed>>
    BY <1>2 DEF Main, Open, TryAgain, Opened, StartReceiver, Hello, Quit, SendCommand,
       SendPacket, Receive, EndTurn, WriteByte, vars, linkVars, rxVars, robotVars
  <1>3. CASE Arrive
    <2>1. PICK k \in 0 .. 1 : ring' = ring \o Coming(k)
      BY <1>3, ArriveReceives
    <2>2. /\ arrived' = arrived + 1 /\ UNCHANGED <<held, executed>>
          /\ lost' = lost + 1 - (Len(ring') - Len(ring))
      BY <1>3, ArriveReceives
    <2> QED
      BY <2>1, <2>2, ReceiveGapless
  <1>4. CASE ReadPacket
    BY <1>4, ReadPacketGapless
  <1>5. ASSUME NEW bytes \in 0 .. PacketSize, Edge(bytes) PROVE Gapless'
    <2>1. PICK k \in 0 .. bytes : ring' = ring \o Coming(k)
      BY <1>5, EdgeReceives
    <2>2. /\ bytes \in Nat /\ arrived' = arrived + bytes /\ UNCHANGED <<held, executed>>
          /\ lost' = lost + bytes - (Len(ring') - Len(ring))
      BY <1>5, EdgeReceives
    <2> QED
      BY <2>1, <2>2, ReceiveGapless
  <1> QED
    BY <1>1, <1>2, <1>3, <1>4, <1>5 DEF Next, Robot, LinkNext, Loop

\* As long as the receive ring has lost nothing, readPacket() hands over each
\* packet of sendPacket(), one after the other, for every packet size and ring
\* and any number of commands and of packets that interrupts send.
THEOREM NothingSkipped == Spec => []SkipsNothing
PROOF
  <1>1. Init => Gapless
    <2>1. PacketSize * 0 = 0
      BY SerialLinkAssumption
    <2> QED
      BY <2>1 DEF Init, LinkInit, Gapless, Bytes
  <1>2. TypeOK /\ Gapless /\ [Next]_vars => Gapless'
    BY GaplessStep
  <1>3. Gapless => SkipsNothing
    BY DEF Gapless, SkipsNothing
  <1> QED
    BY <1>1, <1>2, <1>3, TypeCorrect, PTL DEF Spec

-----------------------------------------------------------------------------
(***************************************************************************)
(* What a loss does to all that follows                                    *)
(***************************************************************************)

\* The bytes in the receive buffers are the last ones that came in.
Fresh == \A i \in 1 .. Len(Bytes) : Bytes[i] = arrived - Len(Bytes) + i

\* The assembler counts to PacketSize and never looks for the start of a
\* packet: unless what the ring has lost amounts to whole packets, no packet
\* whose bytes all came in after the loss is executed.
RefusesShifted ==
  [][Fresh /\ executed' # executed => lost % PacketSize = 0]_vars

\* All the bytes that are neither lost nor waiting have left in whole frames.
CutWhole == \E f \in Int : arrived - lost - Len(Bytes) = PacketSize * f

LEMMA CutWholeStep ==
  ASSUME TypeOK, CutWhole, [Next]_vars
  PROVE  CutWhole'
PROOF
  <1>1. PICK f \in Int : arrived - lost - Len(Bytes) = PacketSize * f
    BY DEF CutWhole
  <1>2. PICK cut \in Int : cut = PacketSize * f /\ cut = arrived - lost - Len(Bytes)
    BY <1>1, Multiples
  <1>3. lost \in Int /\ arrived \in Int /\ Len(Bytes) \in Int
    <2>1. arrived \in 0 .. PacketSize * Len(sent) /\ lost \in 0 .. arrived
      BY DEF TypeOK, LinkTypeOK
    <2>2. \A a \in 0 .. PacketSize * Len(sent) : a \in Int
      OBVIOUS
    <2> QED
      BY <2>1, <2>2, BytesType
  <1>4. ASSUME arrived' - lost' - Len(Bytes') = cut PROVE CutWhole'
    BY <1>2, <1>4 DEF CutWhole
  <1>5. ASSUME UNCHANGED <<held, ring, arrived, lost>> PROVE CutWhole'
    BY <1>1, <1>5 DEF CutWhole, Bytes
  <1>6. ASSUME NEW m \in Nat, NEW k \in 0 .. m,
               arrived' = arrived + m, ring' = ring \o Coming(k),
               lost' = lost + m - (Len(ring') - Len(ring)), UNCHANGED held
        PROVE  CutWhole'
    <2>1. Len(Bytes') = Len(Bytes) + k
      BY <1>6, BytesGrow
    <2>2. lost' = lost + m - k
      BY <1>6, LostGrows
    <2>3. arrived' = arrived + m /\ m \in Int /\ k \in Int
      BY <1>6
    <2>4. arrived' - lost' - Len(Bytes') = arrived - lost - Len(Bytes)
      BY <1>3, <2>1, <2>2, <2>3
    <2> QED
      BY <1>2, <1>4, <2>4
  <1>7. ASSUME Main \/ Quit \/ (\E command \in UserCommands : SendCommand(command))
                 \/ Receive \/ EndTurn \/ WriteByte \/ UNCHANGED vars
        PROVE  CutWhole'
    BY <1>5, <1>7 DEF Main, Open, TryAgain, Opened, StartReceiver, Hello, Quit,
       SendCommand, SendPacket, Receive, EndTurn, WriteByte, vars, linkVars, rxVars,
       robotVars
  <1>8. CASE Arrive
    BY <1>6, <1>8, ArriveReceives
  <1>9. ASSUME NEW bytes \in 0 .. PacketSize, Edge(bytes) PROVE CutWhole'
    BY <1>6, <1>9, EdgeReceives
  <1>10. CASE ReadPacket
    <2>1. UNCHANGED <<arrived, lost>>
      BY <1>10 DEF ReadPacket
    <2>2. CASE Bytes' = Bytes
      BY <1>1, <2>1, <2>2 DEF CutWhole
    <2>3. CASE Len(Bytes') = Len(Bytes) - PacketSize
      <3>1. PICK size \in Int : size = PacketSize
        BY SerialLinkAssumption
      <3>2. PacketSize * (f + 1) = cut + size
        BY <1>2, <3>1, Multiples
      <3>3. arrived' - lost' - Len(Bytes') = cut + size
        BY <1>1, <1>2, <1>3, <2>1, <2>3, <3>1
      <3>4. f + 1 \in Int
        OBVIOUS
      <3> QED
        BY <3>2, <3>3, <3>4 DEF CutWhole
    <2> QED
      BY <1>10, <2>2, <2>3, ReadPacketBytes
  <1> QED
    BY <1>7, <1>8, <1>9, <1>10 DEF Next, Robot, LinkNext, Loop

\* Only loop() executes.
LEMMA OnlyReadExecutes ==
  ASSUME TypeOK, [Next]_vars, executed' # executed
  PROVE  ReadPacket
PROOF
  <1>1. ASSUME Main \/ Quit \/ (\E command \in UserCommands : SendCommand(command))
                 \/ Receive \/ EndTurn \/ WriteByte \/ UNCHANGED vars
        PROVE  UNCHANGED executed
    BY <1>1 DEF Main, Open, TryAgain, Opened, StartReceiver, Hello, Quit,
       SendCommand, SendPacket, Receive, EndTurn, WriteByte, vars, linkVars, robotVars
  <1>2. ASSUME Arrive \/ \E bytes \in 0 .. PacketSize : Edge(bytes)
        PROVE  UNCHANGED executed
    BY <1>2, ArriveReceives, EdgeReceives
  <1> QED
    BY <1>1, <1>2 DEF Next, Robot, LinkNext, Loop

LEMMA ShiftedStep ==
  ASSUME TypeOK, CutWhole, [Next]_vars, Fresh, executed' # executed
  PROVE  lost % PacketSize = 0
PROOF
  <1>1. ReadPacket
    BY OnlyReadExecutes
  <1>2. PICK n \in 1 .. Len(sent) :
          PacketSize \in 1 .. Len(Bytes) /\ Bytes[1] = PacketSize * (n - 1) + 1
    BY <1>1, ReadPacketBytes
  <1>3. PICK f \in Int : arrived - lost - Len(Bytes) = PacketSize * f
    BY DEF CutWhole
  <1>4. PacketSize \in Nat \ {0, 1} /\ Len(Bytes) \in Nat
    BY SerialLinkAssumption, BytesType
  <1>5. lost \in Nat /\ arrived \in Nat
    <2>1. arrived \in 0 .. PacketSize * Len(sent) /\ lost \in 0 .. arrived
      BY DEF TypeOK, LinkTypeOK
    <2>2. \A a \in 0 .. PacketSize * Len(sent) : a \in Nat
      OBVIOUS
    <2> QED
      BY <2>1, <2>2
  <1>6. Bytes[1] = arrived - Len(Bytes) + 1
    BY <1>2, <1>4 DEF Fresh
  <1>7. n \in Int
    OBVIOUS
  <1>8. lost = PacketSize * (n - 1) - PacketSize * f
    <2>1. PICK a, b \in Int : a = PacketSize * (n - 1) /\ b = PacketSize * f
      BY <1>4, <1>7
    <2> QED
      BY <1>2, <1>3, <1>4, <1>5, <1>6, <2>1
  <1>9. PICK q \in Int : q = n - 1 - f
    BY <1>7
  <1>10. lost = PacketSize * q
    BY <1>4, <1>7, <1>8, <1>9
  <1>11. q \in Nat
    BY <1>4, <1>5, <1>9, <1>10
  <1>12. 0 \in 0 .. PacketSize - 1 /\ lost = PacketSize * q + 0
    BY <1>4, <1>5, <1>10
  <1> QED
    BY <1>11, <1>12, Division

\* A loss that is not a whole number of packets is for good: for every packet
\* size, readPacket() refuses every packet that comes in complete afterwards,
\* until the Arduino is reset or further losses make up the rest.
THEOREM ShiftedRefused == Spec => RefusesShifted
PROOF
  <1>1. Init => CutWhole
    <2>1. PacketSize * 0 = 0
      BY SerialLinkAssumption
    <2> QED
      BY <2>1 DEF Init, LinkInit, CutWhole, Bytes
  <1>2. TypeOK /\ CutWhole /\ [Next]_vars => CutWhole'
    BY CutWholeStep
  <1>3. TypeOK /\ CutWhole /\ [Next]_vars
          => [Fresh /\ executed' # executed => lost % PacketSize = 0]_vars
    BY ShiftedStep
  <1> QED
    BY <1>1, <1>2, <1>3, TypeCorrect, PTL DEF Spec, RefusesShifted

=============================================================================
