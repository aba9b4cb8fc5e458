---------------------------- MODULE PacketStream ----------------------------
(***************************************************************************)
(* What the packet layer of serialize.cpp promises to its callers: the     *)
(* byte stream read from the serial port is cut into packets of PacketSize *)
(* bytes; each packet is judged once, in order, by the read that brings    *)
(* its last byte in, and only a packet whose magic number and checksum are *)
(* right is handed over.                                                   *)
(*                                                                         *)
(* The bytes of the stream are numbered 1, 2, 3, ...; a byte is its number *)
(* and the contents of the stream are two sets of positions: Magic, where  *)
(* an intact magic number begins, and Sound, where a packet begins whose   *)
(* checksum byte matches its data.                                         *)
(***************************************************************************)
EXTENDS Integers

CONSTANTS
  PacketSize,  \* bytes of one packet (PACKET_SIZE, 140 in the code)
  MaxChunk,    \* the most bytes one read of the serial port returns
  MaxBytes,    \* bound: length of the stream
  Magic,       \* positions where an intact magic number begins
  Sound        \* positions where a packet with a matching checksum begins

VARIABLES
  received,    \* bytes read from the port so far
  framed,      \* bytes of them that belong to packets already judged
  result,      \* TResult of the last read
  packet       \* the last packet handed to the caller

vars == <<received, framed, result, packet>>

Slots == 0 .. PacketSize - 1

Verdict(start) ==
  CASE start \notin Magic -> "PACKET_BAD"
    [] start \in Magic \ Sound -> "PACKET_CHECKSUM_BAD"
    [] start \in Magic \cap Sound -> "PACKET_OK"

Init ==
  /\ received = 0
  /\ framed = 0
  /\ result = "PACKET_INCOMPLETE"
  /\ packet = [i \in Slots |-> 0]

ReadNothing ==
  /\ result' = "PACKET_INCOMPLETE"
  /\ UNCHANGED <<received, framed, packet>>

MorePending(len) ==
  /\ received + len - framed < PacketSize
  /\ result' = "PACKET_INCOMPLETE"
  /\ UNCHANGED <<framed, packet>>

PacketJudged(len) ==
  /\ received + len - framed >= PacketSize
  /\ framed' = framed + PacketSize
  /\ result' = Verdict(framed + 1)
  /\ packet' = IF result' = "PACKET_OK"
                 THEN [i \in Slots |-> framed + 1 + i]
                 ELSE packet

Read(len) ==
  /\ received + len <= MaxBytes
  /\ received' = received + len
  /\ MorePending(len) \/ PacketJudged(len)

Next == ReadNothing \/ \E len \in 1 .. MaxChunk : Read(len)

Spec == Init /\ [][Next]_vars

=============================================================================
