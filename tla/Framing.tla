------------------------------- MODULE Framing ------------------------------
(***************************************************************************)
(* serialize.cpp: deserialize() and the assemble() below it, as the        *)
(* Arduino's readPacket() and the Pi's receive threads call them.  The     *)
(* variables counter, leftoverFlag, leftoverCount and leftoverBuffer are   *)
(* assemble()'s static locals, privateBuffer is _privateBuffer.            *)
(*                                                                         *)
(* A byte is its position in the received stream (1, 2, 3, ...); 0 is the  *)
(* content of a slot never written.  Magic and Sound describe the stream's *)
(* contents as in PacketStream.  A buffer that does not hold consecutive   *)
(* bytes is taken to fail the checksum (the XOR of mixed packets matching  *)
(* by chance is abstracted away).                                          *)
(***************************************************************************)
EXTENDS Integers

CONSTANTS PacketSize, MaxChunk, MaxBytes, Magic, Sound

\* The callers read into char buffer[PACKET_SIZE]: a longer chunk would not
\* fit there (see the README for the reads that are not so limited).
ASSUME FramingAssumption ==
  /\ PacketSize \in Nat \ {0}
  /\ MaxChunk \in 1 .. PacketSize
  /\ MaxBytes \in Nat

VARIABLES
  counter,         \* bytes of the packet being assembled
  leftoverFlag,
  leftoverCount,   \* bytes kept for the next packet
  leftoverBuffer,
  privateBuffer,   \* the packet being assembled
  received,        \* history: bytes read from the port so far
  framed,          \* history: bytes of completed packets
  result,          \* what the last readPacket() returned
  packet           \* *output: the last packet handed to the caller

vars == <<counter, leftoverFlag, leftoverCount, leftoverBuffer,
          privateBuffer, received, framed, result, packet>>

Slots == 0 .. PacketSize - 1

Results == {"PACKET_OK", "PACKET_BAD", "PACKET_CHECKSUM_BAD", "PACKET_INCOMPLETE"}

TypeOK ==
  /\ counter \in 0 .. PacketSize - 1
  /\ leftoverFlag \in BOOLEAN
  /\ leftoverCount \in 0 .. PacketSize - 1
  /\ leftoverBuffer \in [Slots -> Nat]
  /\ privateBuffer \in [Slots -> Nat]
  /\ received \in Nat
  /\ framed \in Nat
  /\ result \in Results
  /\ packet \in [Slots -> Nat]

Init ==
  /\ counter = 0
  /\ leftoverFlag = FALSE
  /\ leftoverCount = 0
  /\ leftoverBuffer = [i \in Slots |-> 0]
  /\ privateBuffer = [i \in Slots |-> 0]
  /\ received = 0
  /\ framed = 0
  /\ result = "PACKET_INCOMPLETE"
  /\ packet = [i \in Slots |-> 0]

-----------------------------------------------------------------------------
(***************************************************************************)
(* assemble(outputBuffer, inputBuffer, len)                                *)
(***************************************************************************)

\* Byte i (from 0) of the chunk handed to assemble().
Input(i) == received + 1 + i

\* Leftovers moved into the packet buffer by this call.
MutantForgetLeftovers == 0
CopyCount ==
  IF ~leftoverFlag THEN 0
  ELSE IF leftoverCount <= PacketSize THEN leftoverCount ELSE PacketSize

\* `counter' after the leftovers were copied in, and the leftovers that remain.
Filled == counter + CopyCount
Remaining == leftoverCount - CopyCount

\* The chunk completes the packet.
MutantStrictlyMore(len) == Filled + len > PacketSize
Completes(len) == Filled + len >= PacketSize

\* Bytes of the chunk that go into this packet; the others are leftovers.
BytesLeft(len) == IF Completes(len) THEN PacketSize - Filled ELSE len
BytesToCopy(len) == len - BytesLeft(len)

MutantLeftoversFromStart(len) ==
  [i \in Slots |-> IF i >= Remaining /\ i < Remaining + BytesToCopy(len)
                     THEN Input(i - Remaining) ELSE leftoverBuffer[i]]
LeftoverBufferAfter(len) ==
  [i \in Slots |-> IF i >= Remaining /\ i < Remaining + BytesToCopy(len)
                     THEN Input(BytesLeft(len) + i - Remaining)
                     ELSE leftoverBuffer[i]]

PrivateBufferAfter(len) ==
  [i \in Slots |->
     IF i < counter THEN privateBuffer[i]
     ELSE IF i < Filled THEN leftoverBuffer[i - counter]
     ELSE IF i < Filled + BytesLeft(len) THEN Input(i - Filled)
     ELSE privateBuffer[i]]

MutantCounterKept(len) == Filled + BytesLeft(len)
CounterAfter(len) == IF Completes(len) THEN 0 ELSE Filled + BytesLeft(len)

Assemble(len) ==
  /\ leftoverFlag' = (Completes(len) \/ (leftoverFlag /\ leftoverCount > PacketSize))
  /\ leftoverCount' = Remaining + BytesToCopy(len)
  /\ leftoverBuffer' = LeftoverBufferAfter(len)
  /\ privateBuffer' = PrivateBufferAfter(len)
  /\ counter' = CounterAfter(len)

-----------------------------------------------------------------------------
(***************************************************************************)
(* deserialize(buffer, len, output) and readPacket(packet)                 *)
(***************************************************************************)

MagicMatches(buffer) == buffer[0] \in Magic

MutantFirstByteOnly(buffer) == TRUE
ChecksumMatches(buffer) ==
  /\ buffer[0] \in Sound
  /\ \A i \in Slots : buffer[i] = buffer[0] + i

Judge(buffer) ==
  IF ~MagicMatches(buffer) THEN "PACKET_BAD"
  ELSE IF ~ChecksumMatches(buffer) THEN "PACKET_CHECKSUM_BAD"
  ELSE "PACKET_OK"

Deserialize(len) ==
  /\ received + len <= MaxBytes
  /\ Assemble(len)
  /\ received' = received + len
  /\ framed' = IF Completes(len) THEN framed + PacketSize ELSE framed
  /\ result' = IF Completes(len) THEN Judge(privateBuffer') ELSE "PACKET_INCOMPLETE"
  /\ packet' = IF result' = "PACKET_OK" THEN privateBuffer' ELSE packet

\* readSerial() found nothing: deserialize() is not called.
ReadNothing ==
  /\ result' = "PACKET_INCOMPLETE"
  /\ UNCHANGED <<counter, leftoverFlag, leftoverCount, leftoverBuffer,
                 privateBuffer, received, framed, packet>>

Next == ReadNothing \/ \E len \in 1 .. MaxChunk : Deserialize(len)

Spec == Init /\ [][Next]_vars

-----------------------------------------------------------------------------
(***************************************************************************)
(* Properties                                                              *)
(***************************************************************************)

\* The bytes in the two static buffers are exactly the bytes read and not
\* yet part of a completed packet, in stream order and none of them twice.
Consecutive ==
  /\ framed + counter + leftoverCount = received
  /\ \A i \in 0 .. counter - 1 : privateBuffer[i] = framed + 1 + i
  /\ \A i \in 0 .. leftoverCount - 1 : leftoverBuffer[i] = framed + 1 + i

\* assemble() keeps leftovers only while the packet buffer is empty, and only
\* under the flag that makes the next call copy them in.
LeftoversFlagged ==
  /\ leftoverCount > 0 => leftoverFlag
  /\ leftoverFlag => counter = 0

\* Once the last byte of a packet has been read the packet has been judged:
\* no complete packet waits in leftoverBuffer for the next byte to arrive.
NeverWithholds == received - framed < PacketSize

\* Only a packet that begins on a multiple of PACKET_SIZE in the received
\* stream is ever accepted: the assembler cuts by counting and never looks for
\* the magic number, so after the loss of one byte it accepts nothing.
AcceptsOnlyAligned ==
  result = "PACKET_OK" => (packet[0] - 1) % PacketSize = 0

\* The assembler implements the packet stream its callers rely on.
Stream == INSTANCE PacketStream
ImplementsPacketStream == Stream!Spec

=============================================================================
