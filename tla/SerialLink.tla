------------------------------ MODULE SerialLink ------------------------------
(***************************************************************************)
(* The serial line between the Pi and the Arduino, and the firmware's use  *)
(* of it: readSerial() and the assembler below it, the replies of loop()   *)
(* (1_comms_format.ino), and the debug packets that the encoder interrupts *)
(* send (2_encoder.ino), also in the middle of a packet that loop() is     *)
(* writing.  Whoever drives the Pi's end composes with it (LocalRun).      *)
(*                                                                         *)
(* Towards the Arduino a byte is its position in what the Pi has written.  *)
(* The receive ring of the Arduino core is smaller than a packet and loses *)
(* what does not fit; while an interrupt handler is sending, nothing       *)
(* empties the UART, which keeps RxFifo bytes.  The assembler is taken     *)
(* from PacketStream, which Framing implements: it cuts every PacketSize   *)
(* bytes.  Towards the Pi nothing is lost, and a byte is a pair of a       *)
(* packet's number and a place in it.                                      *)
(***************************************************************************)
EXTENDS Integers, Sequences

CONSTANTS
  PacketSize,   \* bytes of a packet (140)
  RxRing,       \* bytes the receive ring of the Arduino core holds (63)
  RxFifo,       \* bytes the UART keeps while interrupts are off (2)
  MaxEdges      \* bound: encoder edges that send a packet

ASSUME SerialLinkAssumption ==
  /\ PacketSize \in Nat \ {0, 1}
  /\ RxRing \in 1 .. PacketSize - 1
  /\ RxFifo \in 0 .. PacketSize - 1
  /\ MaxEdges \in Nat

VARIABLES
  sent,       \* commands the Pi has written to the port, in order
  arrived,    \* bytes of them that have come down the line
  ring,       \* of these, the ones in the receive ring
  held,       \* the ones read and not yet part of a packet
  lost,       \* how many fitted nowhere
  executed,   \* history: numbers of the commands handled
  turning,    \* deltaTicks > 0: loop() will announce the end of a turn
  dir,        \* "STOP" until the first movement, then "STRAIGHT" or "TURN"
  edges,      \* edges announced so far
  todo,       \* packets loop() has yet to write; it is writing the first
  offset,     \* bytes of that one already written
  packets,    \* history: what each packet towards the Pi is, in order of start
  current,    \* the number of the packet loop() is writing
  line        \* the bytes towards the Pi, in order

rxVars == <<sent, arrived, ring, held, lost>>
robotVars == <<executed, turning, dir>>
txVars == <<todo, offset, packets, current, line>>
linkVars == <<rxVars, robotVars, edges, txVars>>

Commands == {"FORWARD", "REVERSE", "TURN_LEFT", "TURN_RIGHT", "STOP",
             "GET_STATS", "CLEAR_STATS", "UNKNOWN"}
Turns == {"TURN_LEFT", "TURN_RIGHT"}
Kinds == {"RESP_OK", "RESP_STATUS", "RESP_BAD_PACKET", "RESP_BAD_CHECKSUM",
          "RESP_BAD_COMMAND", "MESSAGE"}

LinkTypeOK ==
  /\ sent \in Seq(Commands)
  /\ arrived \in 0 .. PacketSize * Len(sent)
  /\ ring \in Seq(1 .. arrived) /\ Len(ring) <= RxRing
  /\ held \in Seq(1 .. arrived) /\ Len(held) < PacketSize
  /\ lost \in 0 .. arrived
  /\ executed \in Seq(1 .. Len(sent))
  /\ turning \in BOOLEAN /\ dir \in {"STOP", "STRAIGHT", "TURN"}
  /\ edges \in 0 .. MaxEdges
  /\ todo \in Seq(Kinds)
  /\ offset \in 0 .. PacketSize - 1
  /\ packets \in Seq(Kinds)
  /\ current \in 0 .. Len(packets)
  /\ line \in Seq((1 .. Len(packets)) \X (1 .. PacketSize))

\* deltaTicks is 10 when the processor starts, and dir is STOP: the first
\* round of loop() announces the end of a turn that never was.
LinkInit ==
  /\ sent = << >> /\ arrived = 0
  /\ ring = << >> /\ held = << >> /\ lost = 0
  /\ executed = << >>
  /\ turning = TRUE /\ dir = "STOP"
  /\ edges = 0
  /\ todo = << >> /\ offset = 0 /\ packets = << >> /\ current = 0 /\ line = << >>

-----------------------------------------------------------------------------
(***************************************************************************)
(* From the Pi to the Arduino                                              *)
(***************************************************************************)

\* serialWrite() of one packet
WritePacket(command) == sent' = Append(sent, command)

InFlight == PacketSize * Len(sent) - arrived
Writing == todo # << >>

\* The ring after more bytes, of which it keeps the ones that fit.
Received(bytes) ==
  LET room == RxRing - Len(ring) IN
  ring \o SubSeq(bytes, 1, IF Len(bytes) <= room THEN Len(bytes) ELSE room)

\* A byte comes in, and the receive interrupt moves it to the ring.  A loop()
\* that has nothing to write empties the ring long before it is full.
Arrive ==
  /\ InFlight > 0
  /\ Writing \/ Len(ring) < RxRing
  /\ arrived' = arrived + 1
  /\ ring' = Received(<<arrived + 1>>)
  /\ lost' = lost + 1 - (Len(ring') - Len(ring))
  /\ UNCHANGED <<sent, held, robotVars, edges, txVars>>

-----------------------------------------------------------------------------
(***************************************************************************)
(* loop(): readPacket() and the reply                                      *)
(***************************************************************************)

\* The verdict on a packet: its magic number is in place, and its bytes follow
\* one another (mixed packets are taken to fail the checksum).
MagicMatches(slot) == slot[1] % PacketSize = 1
ChecksumMatches(slot) == \A i \in 1 .. PacketSize : slot[i] = slot[1] + i - 1
Number(slot) == (slot[1] - 1) \div PacketSize + 1

\* What handleCommand() sends back, debug packets of left() and right() included.
MutantStatusOnly(command) ==
  IF command \in Turns THEN <<"MESSAGE", "RESP_OK">>
  ELSE IF command = "GET_STATS" THEN <<"RESP_STATUS">>
  ELSE IF command = "UNKNOWN" THEN <<"RESP_BAD_COMMAND">>
  ELSE <<"RESP_OK">>
Answer(command) ==
  IF command \in Turns THEN <<"MESSAGE", "RESP_OK">>
  ELSE IF command = "GET_STATS" THEN <<"RESP_STATUS", "RESP_OK">>
  ELSE IF command = "UNKNOWN" THEN <<"RESP_BAD_COMMAND">>
  ELSE <<"RESP_OK">>

Heading(command) ==
  IF command \in Turns THEN "TURN"
  ELSE IF command \in {"FORWARD", "REVERSE"} THEN "STRAIGHT" ELSE dir

HandleCommand(n) ==
  /\ executed' = Append(executed, n)
  /\ turning' = (turning \/ sent[n] \in Turns)
  /\ dir' = Heading(sent[n])
  /\ todo' = Answer(sent[n])

Judge(slot) ==
  IF ~MagicMatches(slot)
    THEN todo' = <<"RESP_BAD_PACKET">> /\ UNCHANGED robotVars
  ELSE IF ~ChecksumMatches(slot)
    THEN todo' = <<"RESP_BAD_CHECKSUM">> /\ UNCHANGED robotVars
  ELSE HandleCommand(Number(slot))

\* readSerial() takes all there is: less than a packet, so that deserialize()
\* completes one at most and NeverWithholds applies.
MutantCounterKept(bytes) == SubSeq(bytes, 1, PacketSize)
Leftover(bytes) == SubSeq(bytes, PacketSize + 1, Len(bytes))

ReadPacket ==
  LET bytes == held \o ring IN
  /\ ~Writing
  /\ ring # << >>
  /\ ring' = << >>
  /\ IF Len(bytes) < PacketSize
       THEN held' = bytes /\ UNCHANGED <<robotVars, todo>>
       ELSE /\ held' = Leftover(bytes)
            /\ Judge(SubSeq(bytes, 1, PacketSize))
  /\ UNCHANGED <<sent, arrived, lost, edges, offset, packets, current, line>>

\* The second half of loop(): the turn is over, which dbprintf() announces.
\* During a straight move the check of an unfinished turn sleeps.
EndTurn ==
  /\ ~Writing
  /\ turning /\ dir # "STRAIGHT"
  /\ turning' = FALSE
  /\ todo' = <<"MESSAGE">>
  /\ UNCHANGED <<rxVars, executed, dir, edges, offset, packets, current, line>>

-----------------------------------------------------------------------------
(***************************************************************************)
(* From the Arduino to the Pi                                              *)
(***************************************************************************)

\* What serialize() returns: sizeof(TComms), whatever is in the packet.
MutantTextOnly(kind) == IF kind = "MESSAGE" THEN PacketSize - 1 ELSE PacketSize
Length(kind) == PacketSize

\* writeSerial() blocks once the core's ring is full, so anything may happen
\* between two bytes.
WriteByte ==
  LET first == offset = 0
      n == IF first THEN Len(packets) + 1 ELSE current
      last == offset + 1 = Length(Head(todo))
  IN
  /\ Writing
  /\ line' = Append(line, <<n, offset + 1>>)
  /\ packets' = IF first THEN Append(packets, Head(todo)) ELSE packets
  /\ current' = IF last THEN 0 ELSE n
  /\ offset' = IF last THEN 0 ELSE offset + 1
  /\ todo' = IF last THEN Tail(todo) ELSE todo
  /\ UNCHANGED <<rxVars, robotVars, edges>>

\* leftISR or rightISR with the dbprintf() in it.  Interrupts are off until its
\* last byte is written, so up to a packet may come in meanwhile, of which the
\* UART keeps the first bytes.
Edge(bytes) ==
  LET n == Len(packets) + 1
      came == [i \in 1 .. bytes |-> arrived + i]
      kept == SubSeq(came, 1, IF bytes <= RxFifo THEN bytes ELSE RxFifo)
  IN
  /\ dir # "STOP"
  /\ edges < MaxEdges
  /\ bytes <= InFlight
  /\ edges' = edges + 1
  /\ packets' = Append(packets, "MESSAGE")
  /\ line' = line \o [i \in 1 .. Length("MESSAGE") |-> <<n, i>>]
  /\ arrived' = arrived + bytes
  /\ ring' = Received(kept)
  /\ lost' = lost + bytes - (Len(ring') - Len(ring))
  /\ UNCHANGED <<sent, held, robotVars, todo, offset, current>>

Loop == ReadPacket \/ EndTurn \/ WriteByte

LinkNext == Arrive \/ Loop \/ \E bytes \in 0 .. PacketSize : Edge(bytes)

-----------------------------------------------------------------------------
(***************************************************************************)
(* What the Pi makes of it: the receive thread cuts the line every         *)
(* PacketSize bytes, as PacketStream says.                                 *)
(***************************************************************************)
Slots(length) == 1 .. length \div PacketSize
InSlot(n, i) == line[PacketSize * (n - 1) + i]

\* The packet a slot holds, if it is intact.
Owner(n) == InSlot(n, 1)[1]
IntactSlot(n) == \A i \in 1 .. PacketSize : InSlot(n, i) = <<Owner(n), i>>

\* A packet whose bytes lie next to each other on the line, and that was begun
\* when every packet before it had ended.
Place(p) == CHOOSE i \in 1 .. Len(line) : line[i] = <<p, 1>>
Undisturbed(p) ==
  /\ \E i \in 1 .. Len(line) : line[i] = <<p, PacketSize>>
  /\ \A i \in 1 .. PacketSize : line[Place(p) + i - 1] = <<p, i>>
  /\ \A i \in 1 .. Place(p) - 1 :
       LET q == line[i][1] IN
       \E j \in 1 .. Place(p) - 1 : line[j] = <<q, Length(packets[q])>>

=============================================================================
