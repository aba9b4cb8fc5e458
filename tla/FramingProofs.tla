---------------------------- MODULE FramingProofs ---------------------------
(***************************************************************************)
(* Proofs about Framing, for every packet size, every chunk size up to it, *)
(* every stream length and every stream contents.                          *)
(***************************************************************************)
EXTENDS Framing, TLAPS

\* The inductive invariant: types, the flag discipline that makes the branches
\* of assemble() meet, and the contents of the two buffers.
IInv == TypeOK /\ LeftoversFlagged /\ Consecutive

\* What one call of assemble() computes, from the invariant alone: how many
\* leftovers it copies in and how it splits the chunk.
LEMMA AssembleArithmetic ==
  ASSUME IInv, NEW len \in 1 .. MaxChunk
  PROVE  /\ CopyCount = leftoverCount
         /\ Filled \in 0 .. PacketSize - 1
         /\ Filled = counter + leftoverCount
         /\ Remaining = 0
         /\ Completes(len) \in BOOLEAN
         /\ Completes(len) => BytesLeft(len) = PacketSize - Filled
         /\ ~Completes(len) => BytesLeft(len) = len /\ Filled + len < PacketSize
         /\ BytesLeft(len) \in 1 .. len
         /\ BytesToCopy(len) \in 0 .. PacketSize - 1
<1>1. /\ CopyCount = leftoverCount
      /\ counter + leftoverCount \in 0 .. PacketSize - 1
  BY FramingAssumption DEF IInv, TypeOK, LeftoversFlagged, CopyCount
<1>2. /\ Filled = counter + leftoverCount
      /\ Remaining = 0
  BY <1>1, FramingAssumption DEF Filled, Remaining, IInv, TypeOK
<1>3. QED
  BY <1>1, <1>2, FramingAssumption DEF Completes, BytesLeft, BytesToCopy

\* One call of deserialize() that gets data preserves the inductive invariant.
LEMMA DeserializePreserves ==
  ASSUME IInv, NEW len \in 1 .. MaxChunk, Deserialize(len)
  PROVE  IInv'
<1> USE FramingAssumption
<1>1. /\ Filled = counter + leftoverCount
      /\ Filled \in 0 .. PacketSize - 1
      /\ Remaining = 0
      /\ Completes(len) \in BOOLEAN
      /\ Completes(len) => BytesLeft(len) = PacketSize - Filled
      /\ ~Completes(len) => BytesLeft(len) = len /\ Filled + len < PacketSize
      /\ BytesLeft(len) \in 1 .. len
      /\ BytesToCopy(len) \in 0 .. PacketSize - 1
      /\ BytesToCopy(len) = len - BytesLeft(len)
  BY AssembleArithmetic DEF BytesToCopy
<1>2. /\ leftoverFlag' = Completes(len)
      /\ leftoverCount' = BytesToCopy(len)
      /\ counter' = IF Completes(len) THEN 0 ELSE Filled + len
      /\ received' = received + len
      /\ framed' = IF Completes(len) THEN framed + PacketSize ELSE framed
  BY <1>1 DEF Deserialize, Assemble, CounterAfter, IInv, TypeOK
<1>3. /\ leftoverBuffer' \in [Slots -> Nat]
      /\ privateBuffer' \in [Slots -> Nat]
  <2> /\ counter \in Nat /\ leftoverCount \in Nat /\ received \in Nat
      /\ leftoverBuffer \in [Slots -> Nat] /\ privateBuffer \in [Slots -> Nat]
      /\ BytesLeft(len) \in Nat /\ BytesToCopy(len) \in Nat /\ Filled \in Nat
    BY <1>1 DEF IInv, TypeOK
  <2>1. ASSUME NEW i \in Slots
        PROVE  (IF i >= Remaining /\ i < Remaining + BytesToCopy(len)
                  THEN Input(BytesLeft(len) + i - Remaining)
                  ELSE leftoverBuffer[i]) \in Nat
    <3>1. leftoverBuffer[i] \in Nat /\ i \in Nat
      BY DEF Slots
    <3>2. BytesLeft(len) + i - Remaining \in Nat
      BY <1>1, <3>1
    <3>3. Input(BytesLeft(len) + i - Remaining) \in Nat
      BY <3>2 DEF Input
    <3>4. QED
      BY <3>1, <3>3
  <2>2. ASSUME NEW i \in Slots
        PROVE  (IF i < counter THEN privateBuffer[i]
                ELSE IF i < Filled THEN leftoverBuffer[i - counter]
                ELSE IF i < Filled + BytesLeft(len) THEN Input(i - Filled)
                ELSE privateBuffer[i]) \in Nat
    <3>1. CASE i >= counter /\ i < Filled
      <4>1. i - counter \in Slots
        BY <1>1, <3>1 DEF Slots
      <4>2. QED
        BY <3>1, <4>1 DEF Slots
    <3>2. CASE i >= Filled
      BY <1>1, <3>2 DEF Input, Slots
    <3>3. CASE i < counter
      BY <3>3
    <3>4. QED
      BY <1>1, <3>1, <3>2, <3>3 DEF Slots
  <2>3. QED
    BY <2>1, <2>2 DEF Deserialize, Assemble, LeftoverBufferAfter, PrivateBufferAfter
<1>4. TypeOK'
  <2>1. counter' \in 0 .. PacketSize - 1 /\ leftoverCount' \in 0 .. PacketSize - 1
    BY <1>1, <1>2
  <2>2. result' \in Results /\ packet' \in [Slots -> Nat]
    BY <1>3 DEF Deserialize, Judge, Results, IInv, TypeOK
  <2>3. received' \in Nat /\ framed' \in Nat /\ leftoverFlag' \in BOOLEAN
    BY <1>1, <1>2 DEF IInv, TypeOK
  <2>4. QED
    BY <1>3, <2>1, <2>2, <2>3 DEF TypeOK
<1>5. LeftoversFlagged'
  BY <1>1, <1>2 DEF LeftoversFlagged
<1>6. Consecutive'
  <2>1. (framed + counter + leftoverCount = received)'
    BY <1>1, <1>2 DEF IInv, Consecutive, TypeOK
  <2>2. ASSUME NEW i \in 0 .. counter' - 1
        PROVE  privateBuffer'[i] = framed' + 1 + i
    <3>1. ~Completes(len) /\ i \in Slots /\ i < Filled + len /\ framed' = framed
      BY <1>1, <1>2 DEF Slots
    <3>2. received = framed + Filled
      BY <1>1 DEF IInv, Consecutive, TypeOK
    <3>3. privateBuffer'[i] =
            IF i < counter THEN privateBuffer[i]
            ELSE IF i < Filled THEN leftoverBuffer[i - counter]
            ELSE received + 1 + (i - Filled)
      BY <1>1, <3>1 DEF Deserialize, Assemble, PrivateBufferAfter, Input
    <3>4. CASE i < counter
      BY <3>1, <3>3, <3>4 DEF IInv, Consecutive, TypeOK
    <3>5. CASE i >= counter /\ i < Filled
      <4>1. counter = 0
        BY <1>1, <3>5 DEF IInv, LeftoversFlagged, TypeOK
      <4>2. QED
        BY <1>1, <3>1, <3>3, <3>5, <4>1 DEF IInv, Consecutive, TypeOK
    <3>6. CASE i >= Filled
      BY <1>1, <3>1, <3>2, <3>3, <3>6 DEF IInv, TypeOK
    <3>7. QED
      BY <1>1, <3>4, <3>5, <3>6 DEF IInv, TypeOK
  <2>3. ASSUME NEW i \in 0 .. leftoverCount' - 1
        PROVE  leftoverBuffer'[i] = framed' + 1 + i
    <3>1. Completes(len) /\ i \in Slots /\ i < BytesToCopy(len)
      BY <1>1, <1>2 DEF Slots
    <3>2. leftoverBuffer'[i] = received + 1 + (BytesLeft(len) + i)
      BY <1>1, <3>1 DEF Deserialize, Assemble, LeftoverBufferAfter, Input
    <3>3. received + BytesLeft(len) = framed + PacketSize
      BY <1>1, <3>1 DEF IInv, Consecutive, TypeOK
    <3>4. QED
      BY <1>1, <1>2, <3>1, <3>2, <3>3 DEF IInv, TypeOK
  <2>4. QED
    BY <2>1, <2>2, <2>3 DEF Consecutive
<1>7. QED
  BY <1>4, <1>5, <1>6 DEF IInv

\* The buffers' invariant, for every packet size: no byte of the stream is
\* lost, repeated or moved between a read and the packet it belongs to.
THEOREM Buffering == Spec => [](TypeOK /\ LeftoversFlagged /\ Consecutive)
<1>1. Init => IInv
  <2> SUFFICES ASSUME Init PROVE IInv
    OBVIOUS
  <2>1. TypeOK
    <3>1. 0 \in 0 .. PacketSize - 1 /\ [i \in Slots |-> 0] \in [Slots -> Nat]
      BY FramingAssumption
    <3>2. QED
      BY <3>1 DEF Init, TypeOK, Results
  <2>2. LeftoversFlagged /\ Consecutive
    BY FramingAssumption DEF Init, LeftoversFlagged, Consecutive
  <2>3. QED
    BY <2>1, <2>2 DEF IInv
<1>2. IInv /\ [Next]_vars => IInv'
  <2> SUFFICES ASSUME IInv, [Next]_vars PROVE IInv'
    OBVIOUS
  <2>1. CASE ReadNothing
    BY <2>1 DEF ReadNothing, IInv, TypeOK, LeftoversFlagged, Consecutive, Results
  <2>2. CASE \E len \in 1 .. MaxChunk : Deserialize(len)
    BY <2>2, DeserializePreserves
  <2>3. CASE UNCHANGED vars
    BY <2>3 DEF vars, IInv, TypeOK, LeftoversFlagged, Consecutive
  <2>4. QED
    BY <2>1, <2>2, <2>3 DEF Next
<1>3. QED
  BY <1>1, <1>2, PTL DEF Spec, IInv

\* A complete packet is never withheld: a read that brings the last byte of a
\* packet has it judged, whatever the sizes of the chunks.
THEOREM Promptness == Spec => []NeverWithholds
<1>1. TypeOK /\ LeftoversFlagged /\ Consecutive => NeverWithholds
  BY FramingAssumption DEF TypeOK, LeftoversFlagged, Consecutive, NeverWithholds
<1>2. QED
  BY <1>1, Buffering, PTL

\* The packet completed by a call of deserialize() is the next PacketSize
\* bytes of the stream, so the verdict is the one the stream's contents give.
LEMMA CompletedPacket ==
  ASSUME IInv, NEW len \in 1 .. MaxChunk, Deserialize(len), Completes(len)
  PROVE  privateBuffer' = [i \in Slots |-> framed + 1 + i]
<1> USE FramingAssumption
<1>1. /\ Filled = counter + leftoverCount
      /\ Filled \in 0 .. PacketSize - 1
      /\ BytesLeft(len) = PacketSize - Filled
  BY AssembleArithmetic
<1>2. received = framed + Filled
  BY <1>1 DEF IInv, Consecutive, TypeOK
<1>3. ASSUME NEW i \in Slots
      PROVE  (IF i < counter THEN privateBuffer[i]
              ELSE IF i < Filled THEN leftoverBuffer[i - counter]
              ELSE IF i < Filled + BytesLeft(len) THEN Input(i - Filled)
              ELSE privateBuffer[i]) = framed + 1 + i
  <2>1. CASE i < counter
    BY <2>1 DEF IInv, Consecutive, TypeOK, Slots
  <2>2. CASE i >= counter /\ i < Filled
    <3>1. leftoverCount > 0
      BY <1>1, <2>2 DEF IInv, TypeOK, Slots
    <3>2. counter = 0
      BY <3>1 DEF IInv, LeftoversFlagged
    <3>3. QED
      BY <1>1, <2>2, <3>2 DEF IInv, Consecutive, TypeOK, Slots
  <2>3. CASE i >= Filled
    BY <1>1, <1>2, <2>3 DEF Input, IInv, TypeOK, Slots
  <2>4. QED
    BY <1>1, <2>1, <2>2, <2>3 DEF IInv, TypeOK, Slots
<1>4. QED
  BY <1>3 DEF Deserialize, Assemble, PrivateBufferAfter

\* The assembler implements the abstract packet stream: every packet is judged
\* once, in order, on its own bytes, by the read that completes it.
THEOREM Implementation == Spec => ImplementsPacketStream
<1> USE FramingAssumption
<1>1. Init => Stream!Init
  BY DEF Init, Stream!Init, Slots, Stream!Slots
<1>2. IInv /\ [Next]_vars => [Stream!Next]_(Stream!vars)
  <2> SUFFICES ASSUME IInv, [Next]_vars PROVE [Stream!Next]_(Stream!vars)
    OBVIOUS
  <2>1. CASE ReadNothing
    BY <2>1 DEF ReadNothing, Stream!Next, Stream!ReadNothing
  <2>2. ASSUME NEW len \in 1 .. MaxChunk, Deserialize(len)
        PROVE  Stream!Next
    <3>1. /\ Filled = counter + leftoverCount
          /\ Completes(len) \in BOOLEAN
          /\ Completes(len) => received + len - framed >= PacketSize
          /\ ~Completes(len) => received + len - framed < PacketSize
      BY AssembleArithmetic DEF Completes, IInv, Consecutive, TypeOK
    <3>2. received + len \in Nat /\ framed \in Nat
      BY DEF IInv, TypeOK
    <3>3. CASE ~Completes(len)
      <4>1. received + len - framed < PacketSize
        BY <3>1, <3>2, <3>3
      <4>2. result' = "PACKET_INCOMPLETE" /\ framed' = framed
        BY <2>2, <3>3 DEF Deserialize
      <4>3. packet' = packet
        BY <2>2, <4>2 DEF Deserialize
      <4>4. Stream!MorePending(len)
        BY <4>1, <4>2, <4>3 DEF Stream!MorePending
      <4>5. QED
        BY <2>2, <4>4 DEF Deserialize, Stream!Next, Stream!Read
    <3>4. CASE Completes(len)
      <4>1. privateBuffer' = [i \in Slots |-> framed + 1 + i]
        BY <2>2, <3>4, CompletedPacket
      <4>2. /\ privateBuffer'[0] = framed + 1
            /\ \A i \in Slots : privateBuffer'[i] = privateBuffer'[0] + i
        BY <3>2, <4>1 DEF Slots
      <4>3. Judge(privateBuffer') = Stream!Verdict(framed + 1)
        BY <4>2 DEF Judge, MagicMatches, ChecksumMatches, Stream!Verdict
      <4>4. Stream!PacketJudged(len)
        BY <2>2, <3>1, <3>4, <4>1, <4>3
           DEF Deserialize, Stream!PacketJudged, Slots, Stream!Slots
      <4>5. QED
        BY <2>2, <4>4 DEF Deserialize, Stream!Next, Stream!Read
    <3>5. QED
      BY <3>1, <3>3, <3>4
  <2>3. CASE UNCHANGED vars
    BY <2>3 DEF vars, Stream!vars
  <2>4. QED
    BY <2>1, <2>2, <2>3 DEF Next
<1>3. QED
  BY <1>1, <1>2, Buffering, PTL
     DEF Spec, IInv, ImplementsPacketStream, Stream!Spec

-----------------------------------------------------------------------------
\* Both buffers and their counts keep their types, for every packet size and
\* every chunk up to it: the indices of assemble() never leave its arrays.
THEOREM TypeCorrect == Spec => []TypeOK
<1>1. QED
  BY Buffering, PTL

\* Leftovers wait only under the flag, and only with an empty packet buffer.
THEOREM LeftoversStayFlagged == Spec => []LeftoversFlagged
<1>1. QED
  BY Buffering, PTL

\* What has been framed is a whole number of packets.
FramedWhole == \E m \in Nat : framed = PacketSize * m

\* A whole number of packets leaves no remainder.
LEMMA NoRemainder ==
  ASSUME NEW m \in Nat
  PROVE  (PacketSize * m) % PacketSize = 0
<1>1. PacketSize \in Nat \ {0} /\ PacketSize * m \in Nat
  BY FramingAssumption
<1> DEFINE q == (PacketSize * m) \div PacketSize
           r == (PacketSize * m) % PacketSize
<1>2. q \in Int /\ r \in 0 .. PacketSize - 1 /\ PacketSize * m = PacketSize * q + r
  BY <1>1
<1>3. CASE q > m
  BY <1>1, <1>2, <1>3
<1>4. CASE q < m
  BY <1>1, <1>2, <1>4
<1>5. CASE q = m
  BY <1>1, <1>2, <1>5
<1>6. QED
  BY <1>2, <1>3, <1>4, <1>5

\* The assembler cuts by counting: it accepts a packet only where a multiple of
\* PACKET_SIZE bytes has come before, whatever the stream holds.
THEOREM AcceptedAligned == Spec => []AcceptsOnlyAligned
<1> DEFINE Aligned == FramedWhole /\ AcceptsOnlyAligned
<1>1. Init => Aligned
  <2> SUFFICES ASSUME Init PROVE Aligned
    OBVIOUS
  <2>1. PacketSize * 0 = 0
    BY FramingAssumption
  <2>2. QED
    BY <2>1 DEF Init, FramedWhole, AcceptsOnlyAligned
<1>2. IInv /\ Aligned /\ [Next]_vars => Aligned'
  <2> SUFFICES ASSUME IInv, FramedWhole, AcceptsOnlyAligned, [Next]_vars
               PROVE  FramedWhole' /\ AcceptsOnlyAligned'
    OBVIOUS
  <2>1. CASE ReadNothing
    BY <2>1 DEF ReadNothing, FramedWhole, AcceptsOnlyAligned
  <2>2. CASE UNCHANGED vars
    BY <2>2 DEF vars, FramedWhole, AcceptsOnlyAligned
  <2>3. ASSUME NEW len \in 1 .. MaxChunk, Deserialize(len)
        PROVE  FramedWhole' /\ AcceptsOnlyAligned'
    <3>1. PICK m \in Nat : framed = PacketSize * m
      BY DEF FramedWhole
    <3>2. CASE ~Completes(len)
      <4>1. framed' = framed /\ result' = "PACKET_INCOMPLETE"
        BY <2>3, <3>2 DEF Deserialize
      <4>2. QED
        BY <3>1, <4>1 DEF FramedWhole, AcceptsOnlyAligned
    <3>3. CASE Completes(len)
      <4>1. framed' = PacketSize * (m + 1)
        BY <2>3, <3>1, <3>3, FramingAssumption DEF Deserialize
      <4>2. FramedWhole'
        BY <4>1 DEF FramedWhole
      <4>3. privateBuffer' = [i \in Slots |-> framed + 1 + i]
        BY <2>3, <3>3, CompletedPacket
      <4>4. privateBuffer'[0] = framed + 1 /\ framed \in Nat
        BY <4>3, FramingAssumption DEF Slots, IInv, TypeOK
      <4>5. result' = "PACKET_OK" => packet' = privateBuffer'
        BY <2>3 DEF Deserialize
      <4>6. framed % PacketSize = 0
        BY <3>1, NoRemainder
      <4>7. (framed + 1) - 1 = framed
        BY <4>4
      <4>8. QED
        BY <4>2, <4>4, <4>5, <4>6, <4>7 DEF AcceptsOnlyAligned
    <3>4. QED
      BY <3>2, <3>3
  <2>4. QED
    BY <2>1, <2>2, <2>3 DEF Next
<1>3. Aligned => AcceptsOnlyAligned
  OBVIOUS
<1> HIDE DEF Aligned
<1>4. QED
  BY <1>1, <1>2, <1>3, Buffering, PTL DEF Spec, IInv

=============================================================================
