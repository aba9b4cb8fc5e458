-------------------------- MODULE CommandPathProofs --------------------------
(***************************************************************************)
(* Proofs about CommandPath, for every set of clients, keys and residues:  *)
(* its type invariant; that it implements RemoteControl as long as amounts *)
(* fit an unsigned int; that it skips no order unless bytes are lost; and  *)
(* that the two bytes sendData() leaves out are all that keeps it from     *)
(* passing on the power asked for.  What must be known of a message or a   *)
(* packet on its way is which order it stands for, and that everything     *)
(* before it on the way, or past the way, was asked for before.            *)
(***************************************************************************)
EXTENDS CommandPath, TLAPS

\* A message on its way to a worker is what the keyboard thread made of the
\* order that it numbers, and newer than all of its client's that is further.
Fits(c, message) ==
  /\ message.letter \in AllLetters
  /\ message.n \in 1 .. Len(asked[c])
  /\ asked[c][message.n].command = Meaning[message.letter]
  /\ asked[c][message.n].amount = message.amount
  /\ asked[c][message.n].speed % Half = message.low
  /\ message.letter = "c" => message.amount = 0
  /\ \A k \in 1 .. Len(done[c]) : done[c][k] < message.n
  /\ \A i \in 1 .. Len(uart) : uart[i].from = c => uart[i].n < message.n

MessagesFit ==
  \A c \in Clients :
    /\ \A i \in 1 .. Len(net[c]) : Fits(c, net[c][i])
    /\ worker[c] = "handle" => Fits(c, buffer[c])

MessagesOrdered ==
  \A c \in Clients :
    /\ \A i, j \in 1 .. Len(net[c]) : i < j => net[c][i].n < net[c][j].n
    /\ worker[c] = "handle" => \A i \in 1 .. Len(net[c]) : buffer[c].n < net[c][i].n

\* A packet on the line says what its order says, with the amount made unsigned
\* and up to the high half of the speed, and is newer than all that its source
\* has had executed.
PacketFits(packet) ==
  LET s == packet.from IN
  /\ packet.n \in 1 .. Len(asked[s])
  /\ asked[s][packet.n].command = packet.command
  /\ packet.amount = asked[s][packet.n].amount % Word
  /\ asked[s][packet.n].speed % Half = packet.speed % Half
  /\ \A k \in 1 .. Len(done[s]) : done[s][k] < packet.n

PacketsFit == \A i \in 1 .. Len(uart) : PacketFits(uart[i])

PacketsOrdered ==
  \A i, j \in 1 .. Len(uart) :
    i < j /\ uart[i].from = uart[j].from => uart[i].n < uart[j].n

DoneAsked ==
  \A s \in Sources : \A k \in 1 .. Len(done[s]) : done[s][k] \in 1 .. Len(asked[s])

IInv ==
  /\ TypeOK
  /\ MessagesFit /\ MessagesOrdered
  /\ PacketsFit /\ PacketsOrdered
  /\ DoneAsked

-----------------------------------------------------------------------------
(***************************************************************************)
(* Arithmetic and data                                                     *)
(***************************************************************************)

\* The low half of an int is a half, and a high half put in front of it does
\* not change it: what LowHalf and CommandPacket do to a speed.
LEMMA Halves ==
  /\ \A speed \in Int : speed % Half \in 0 .. Half - 1
  /\ \A low \in 0 .. Half - 1, high \in Int : (low + Half * high) % Half = low
PROOF
  <1>1. Half \in Nat \ {0}
    BY CommandPathAssumption
  <1>2. \A speed \in Int : speed % Half \in 0 .. Half - 1
    BY <1>1
  <1>3. ASSUME NEW low \in 0 .. Half - 1, NEW high \in Int
        PROVE  (low + Half * high) % Half = low
    BY <1>1, <1>3
  <1> QED
    BY <1>2, <1>3

\* What an unsigned int makes of an int: itself, if it is none less than 0.
LEMMA Words ==
  /\ 0 \in 0 .. Word - 1 /\ 0 .. Word - 1 \subseteq Nat
  /\ \A amount \in Int : amount % Word \in 0 .. Word - 1
  /\ \A amount \in 0 .. Word - 1 : amount % Word = amount
PROOF
  <1>1. Word \in Nat \ {0}
    <2>1. \A half \in Nat \ {0} : half * half \in Nat \ {0}
      OBVIOUS
    <2> QED
      BY <2>1, CommandPathAssumption DEF Word
  <1>2. \A word \in Nat \ {0} : \A amount \in Int : amount % word \in 0 .. word - 1
    OBVIOUS
  <1>3. \A word \in Nat \ {0} : \A amount \in 0 .. word - 1 : amount % word = amount
    OBVIOUS
  <1>4. \A word \in Nat \ {0} : 0 \in 0 .. word - 1 /\ 0 .. word - 1 \subseteq Nat
    OBVIOUS
  <1> QED
    BY <1>1, <1>2, <1>3, <1>4

\* What Typed offers: a letter the programs know, and integers; the letter of
\* CLEAR_STATS comes with no distance, from every key that sends it.
LEMMA TypedIsData ==
  ASSUME TypeOK, NEW c \in Clients, NEW typed \in Typed(c)
  PROVE  /\ typed.letter \in AllLetters /\ typed.amount \in Int /\ typed.speed \in Int
         /\ typed.letter = "c" => typed.amount = 0
PROOF
  <1>1. \A p \in Int : Rate(p) \in Int
    BY DEF Rate
  <1>2. \A p, a \in Int : ApproxAngle(p, a) \in Int
    BY <1>1 DEF ApproxAngle
  <1>3. \A k \in DOMAIN KeyLetter :
          KeyLetter[k] \in {"f", "b", "l", "r"} /\ speeds[c][k] \in Int
    BY DEF KeyLetter, TypeOK
  <1>4. Amounts \subseteq Int /\ Powers \subseteq Int
    BY CommandPathAssumption
  <1>5. CASE \E k \in DOMAIN KeyLetter :
               typed = [letter |-> KeyLetter[k], amount |-> 0, speed |-> speeds[c][k]]
    BY <1>3, <1>5 DEF AllLetters
  <1>6. CASE \E l \in {"l", "r"}, a \in Amounts, p \in Powers :
               typed = [letter |-> l, amount |-> ApproxAngle(p, a), speed |-> p]
    <2>1. PICK l \in {"l", "r"}, a \in Amounts, p \in Powers :
            typed = [letter |-> l, amount |-> ApproxAngle(p, a), speed |-> p]
      BY <1>6
    <2>2. a \in Int /\ p \in Int
      BY <1>4
    <2>3. ApproxAngle(p, a) \in Int
      BY <1>2, <2>2
    <2>4. typed.letter \in {"l", "r"} /\ typed.amount \in Int /\ typed.speed \in Int
      BY <2>1, <2>2, <2>3
    <2> QED
      BY <2>4 DEF AllLetters
  <1>7. CASE typed \in [letter : {"f", "b", "l", "r"}, amount : Amounts, speed : Powers]
    BY <1>4, <1>7 DEF AllLetters
  <1>8. CASE typed \in [letter : {"s", "c", "g", "k", "K", "a"}, amount : {0}, speed : {0}]
    BY <1>8 DEF AllLetters
  <1> QED
    BY <1>5, <1>6, <1>7, <1>8 DEF Typed

-----------------------------------------------------------------------------
(***************************************************************************)
(* Types                                                                   *)
(***************************************************************************)

\* What a worker makes of a message is a packet.
LEMMA PacketIsData ==
  ASSUME TypeOK, NEW c \in Clients, buffer[c].letter \in DOMAIN ServerCommand
  PROVE  CommandPacket(c) \in Packets
PROOF
  <1>1. buffer[c] \in Messages /\ residue[c] \in Residues \cup {0}
    BY DEF TypeOK
  <1>2. ServerCommand[buffer[c].letter] \in Commands
    BY DEF ServerCommand, Commands, Movements
  <1>3. buffer[c].low + Half * residue[c] \in Int
    <2>1. Half \in Int /\ (0 .. Half - 1) \subseteq Int /\ Residues \subseteq 0 .. Half - 1
      BY CommandPathAssumption
    <2>2. residue[c] \in Int
      <3>1. \A r \in Residues : r \in Int
        BY <2>1
      <3> QED
        BY <1>1, <3>1
    <2>3. buffer[c].low \in 0 .. Half - 1
      BY <1>1 DEF Messages
    <2> QED
      BY <2>1, <2>2, <2>3
  <1>4. buffer[c].amount \in Int /\ buffer[c].n \in Nat /\ c \in Sources
    BY <1>1 DEF Messages, Sources
  <1>5. 0 \in 0 .. Word - 1 /\ buffer[c].amount % Word \in 0 .. Word - 1
    BY <1>4, Words
  <1> QED
    BY <1>2, <1>3, <1>4, <1>5 DEF CommandPacket, CommandOf, Packets

LEMMA TypeInit == Init => TypeOK
PROOF
  <1> SUFFICES ASSUME Init PROVE TypeOK
    OBVIOUS
  <1>1. [letter |-> "", amount |-> 0, low |-> 0, n |-> 0] \in Messages
    BY CommandPathAssumption DEF Messages
  <1>2. NoOrder \in Orders
    BY DEF NoOrder, Orders
  <1>3. speeds \in [Clients -> [{"w", "a", "s", "d"} -> Int]]
    <2>1. [k \in {"w", "a", "s", "d"} |-> IF k \in {"w", "s"} THEN 40 ELSE 50]
            \in [{"w", "a", "s", "d"} -> Int]
      OBVIOUS
    <2> QED
      BY <2>1 DEF Init
  <1>4. buffer \in [Clients -> Messages] /\ robot \in Orders
    BY <1>1, <1>2 DEF Init
  <1>5. /\ net \in [Clients -> Seq(Messages)] /\ uart \in Seq(Packets)
        /\ asked \in [Sources -> Seq(Orders)] /\ done \in [Sources -> Seq(Nat)]
    <2>1. \A S : << >> \in Seq(S)
      OBVIOUS
    <2>2. net \in [Clients -> Seq(Messages)]
      BY <2>1 DEF Init
    <2>3. uart \in Seq(Packets)
      BY <2>1 DEF Init
    <2>4. asked \in [Sources -> Seq(Orders)]
      BY <2>1 DEF Init
    <2>5. done \in [Sources -> Seq(Nat)]
      BY <2>1 DEF Init
    <2> QED
      BY <2>2, <2>3, <2>4, <2>5
  <1>6. /\ worker \in [Clients -> {"none", "read", "handle", "left"}]
        /\ residue \in [Clients -> Residues \cup {0}]
    BY DEF Init
  <1>7. keys \in 0 .. MaxKeys /\ cuts \in 0 .. MaxCuts
    <2>1. MaxKeys \in Nat /\ MaxCuts \in Nat
      BY CommandPathAssumption
    <2>2. keys = 0 /\ cuts = 0
      BY DEF Init
    <2> QED
      BY <2>1, <2>2
  <1> QED
    BY <1>3, <1>4, <1>5, <1>6, <1>7 DEF Init, TypeOK

\* Every step keeps the types.
LEMMA TypeStep == TypeOK /\ [Next]_vars => TypeOK'
PROOF
  <1> SUFFICES ASSUME TypeOK, [Next]_vars PROVE TypeOK'
    OBVIOUS
  <1> USE DEF TypeOK, serverVars, clientVars, workerVars, lineVars, robotVars
  <1>1. CASE StartSerial
    BY <1>1 DEF StartSerial, ServerFrame
  <1>2. CASE CreateServer
    BY <1>2 DEF CreateServer, ServerFrame
  <1>3. CASE Listen
    BY <1>3 DEF Listen, ServerFrame
  <1>4. CASE Signal
    BY <1>4 DEF Signal, ServerFrame
  <1>5. CASE MainReturns
    BY <1>5 DEF MainReturns, ServerFrame
  <1>6. CASE SendHello
    <2>1. PICK command \in Garbage :
            /\ UartSendPacket([command |-> command, amount |-> 0, speed |-> 0,
                               from |-> SERVER, n |-> Len(asked[SERVER]) + 1])
            /\ asked' = [asked EXCEPT ![SERVER] =
                           Append(@, [command |-> command, amount |-> 0, speed |-> 0])]
      BY <1>6 DEF SendHello
    <2>2. command \in Commands \cup {"UNKNOWN"} /\ SERVER \in Sources
      BY CommandPathAssumption DEF Sources
    <2>3. [command |-> command, amount |-> 0, speed |-> 0,
           from |-> SERVER, n |-> Len(asked[SERVER]) + 1] \in Packets
      BY <2>2, Words DEF Packets
    <2>4. uart' \in Seq(Packets)
      BY <2>1, <2>3 DEF UartSendPacket
    <2>5. [command |-> command, amount |-> 0, speed |-> 0] \in Orders
      BY <2>2 DEF Orders
    <2>6. asked' \in [Sources -> Seq(Orders)]
      BY <2>1, <2>2, <2>5
    <2> QED
      BY <1>6, <2>4, <2>6 DEF SendHello, ServerFrame
  <1>7. ASSUME NEW c \in Clients, Connect(c) PROVE TypeOK'
    <2>1. PICK r \in Residues : residue' = [residue EXCEPT ![c] = r]
      BY <1>7 DEF Connect
    <2>2. residue' \in [Clients -> Residues \cup {0}]
      BY <2>1
    <2> QED
      BY <1>7, <2>2 DEF Connect
  <1>8. ASSUME NEW c \in Clients, Press(c) PROVE TypeOK'
    <2>1. PICK typed \in Typed(c) : SendData(c, typed)
      BY <1>8 DEF Press
    <2> DEFINE n == Len(asked[c]) + 1
               message == [letter |-> typed.letter, amount |-> typed.amount,
                           low |-> LowHalf(typed.speed), n |-> n]
               order == [command |-> Meaning[typed.letter],
                         amount |-> typed.amount, speed |-> typed.speed]
    <2>2. typed.letter \in AllLetters /\ typed.amount \in Int /\ typed.speed \in Int
      BY TypedIsData
    <2>3. c \in Sources /\ n \in Nat
      BY DEF Sources
    <2>4. message \in Messages
      BY <2>2, <2>3, Halves DEF Messages, LowHalf
    <2>5. net' \in [Clients -> Seq(Messages)]
      <3>1. net' = net \/ net' = [net EXCEPT ![c] = Append(@, message)]
        BY <2>1 DEF SendData
      <3> HIDE DEF message
      <3>2. CASE net' = [net EXCEPT ![c] = Append(@, message)]
        BY <2>4, <3>2
      <3> QED
        BY <3>1, <3>2
    <2>6. Meaning[typed.letter] \in Commands \cup ClientOnly
      BY <2>2 DEF Meaning, AllLetters, Commands, Movements, ClientOnly
    <2>7. order \in Orders
      BY <2>2, <2>6 DEF Orders
    <2>8. asked' \in [Sources -> Seq(Orders)]
      <3>1. asked' = [asked EXCEPT ![c] = Append(@, order)]
        BY <2>1 DEF SendData
      <3> QED
        BY <2>3, <2>7, <3>1
    <2>9. keys' \in 0 .. MaxKeys
      BY <1>8, CommandPathAssumption DEF Press
    <2> QED
      BY <1>8, <2>5, <2>8, <2>9 DEF Press, PressFrame
  <1>9. ASSUME NEW c \in Clients, ChangeSpeeds(c) PROVE TypeOK'
    <2>1. PICK new \in [DOMAIN KeyLetter -> Powers] : speeds' = [speeds EXCEPT ![c] = new]
      BY <1>9 DEF ChangeSpeeds
    <2>2. new \in [{"w", "a", "s", "d"} -> Int]
      BY CommandPathAssumption DEF KeyLetter
    <2>3. speeds' \in [Clients -> [{"w", "a", "s", "d"} -> Int]]
      BY <2>1, <2>2
    <2>4. keys' \in 0 .. MaxKeys
      BY <1>9, CommandPathAssumption DEF ChangeSpeeds
    <2> QED
      BY <1>9, <2>3, <2>4 DEF ChangeSpeeds, PressFrame
  <1>10. ASSUME NEW c \in Clients, WorkerReads(c) PROVE TypeOK'
    BY <1>10 DEF WorkerReads, WorkerFrame, FirstMessage
  <1>11. ASSUME NEW c \in Clients, WorkerHandles(c) PROVE TypeOK'
    <2>1. \/ uart' = uart
          \/ /\ uart' = Append(uart, CommandPacket(c))
             /\ buffer[c].letter \in DOMAIN ServerCommand
      BY <1>11 DEF WorkerHandles, UartSendPacket
    <2>2. ASSUME uart' = Append(uart, CommandPacket(c)), CommandPacket(c) \in Packets
          PROVE  uart' \in Seq(Packets)
      BY <2>2
    <2>3. uart' \in Seq(Packets)
      BY <2>1, <2>2, PacketIsData
    <2>4. worker' \in [Clients -> {"none", "read", "handle", "left"}]
      BY <1>11 DEF WorkerHandles
    <2>5. UNCHANGED <<serverVars, clientVars, buffer, residue, aligned, cuts, robotVars, asked>>
      BY <1>11 DEF WorkerHandles, WorkerFrame
    <2> QED
      BY <2>3, <2>4, <2>5
  <1>12. ASSUME NEW c \in Clients, WorkerLeaves(c) PROVE TypeOK'
    BY <1>12 DEF WorkerLeaves, WorkerFrame
  <1>13. CASE LoseBytes
    BY <1>13, CommandPathAssumption DEF LoseBytes, FirmwareFrame
  <1>14. CASE Discard
    BY <1>14 DEF Discard, FirmwareFrame
  <1>15. CASE HandleCommand
    <2>1. Head(uart) \in Packets /\ uart' \in Seq(Packets)
      BY <1>15 DEF HandleCommand
    <2>2. robot' \in Orders
      <3>1. Head(uart).amount \in Int
        BY <2>1, Words DEF Packets
      <3> QED
        BY <1>15, <2>1, <3>1 DEF HandleCommand, Packets, Orders
    <2>3. done' \in [Sources -> Seq(Nat)]
      <3>1. PICK s \in Sources, n \in Nat : done' = [done EXCEPT ![s] = Append(done[s], n)]
        BY <1>15, <2>1 DEF HandleCommand, Packets
      <3>2. Append(done[s], n) \in Seq(Nat)
        BY <3>1
      <3> QED
        BY <3>1, <3>2
    <2> QED
      BY <1>15, <2>1, <2>2, <2>3 DEF HandleCommand, FirmwareFrame
  <1>16. CASE UNCHANGED vars
    BY <1>16 DEF vars
  <1> QED
    BY <1>1, <1>2, <1>3, <1>4, <1>5, <1>6, <1>7, <1>8, <1>9, <1>10, <1>11, <1>12,
       <1>13, <1>14, <1>15, <1>16
    DEF Next, Main, Worker, Firmware

\* Every variable keeps its type: a message is eight bytes, and a packet that
\* goes to the firmware has a command that the packet format has.
THEOREM TypeCorrect == Spec => []TypeOK
PROOF
  BY TypeInit, TypeStep, PTL DEF Spec

-----------------------------------------------------------------------------
(***************************************************************************)
(* The invariant                                                           *)
(***************************************************************************)
Flow == <<net, buffer, uart, asked, done>>

\* Steps that move nothing along the way keep the invariant.
LEMMA QuietStep ==
  ASSUME IInv, TypeOK', UNCHANGED Flow,
         \A c \in Clients : worker'[c] = "handle" => worker[c] = "handle"
  PROVE  IInv'
PROOF
  BY DEF IInv, Flow, MessagesFit, MessagesOrdered, Fits, PacketsFit, PacketFits,
         PacketsOrdered, DoneAsked

\* What an order that is added to a history changes.
LEMMA Grows ==
  ASSUME TypeOK, NEW s \in Sources, NEW order,
         asked' = [asked EXCEPT ![s] = Append(@, order)]
  PROVE  /\ \A t \in Sources : Len(asked[t]) \in Nat /\ Len(asked'[t]) \in Nat
         /\ \A t \in Sources : Len(asked[t]) <= Len(asked'[t])
         /\ \A t \in Sources : \A n \in 1 .. Len(asked[t]) : asked'[t][n] = asked[t][n]
         /\ Len(asked'[s]) = Len(asked[s]) + 1
         /\ asked'[s][Len(asked[s]) + 1] = order
PROOF
  <1>1. \A t \in Sources : asked[t] \in Seq(Orders)
    BY DEF TypeOK
  <1>2. asked'[s] = Append(asked[s], order)
    BY DEF TypeOK
  <1>3. \A t \in Sources : t # s => asked'[t] = asked[t]
    BY DEF TypeOK
  <1>4. /\ Len(asked[s]) \in Nat
        /\ Len(Append(asked[s], order)) = Len(asked[s]) + 1
        /\ \A n \in 1 .. Len(asked[s]) : Append(asked[s], order)[n] = asked[s][n]
        /\ Append(asked[s], order)[Len(asked[s]) + 1] = order
    BY <1>1
  <1> QED
    BY <1>1, <1>2, <1>3, <1>4

\* A history that grows leaves what is on its way as it was.
LEMMA HistoryStep ==
  ASSUME IInv, NEW s \in Sources, NEW order,
         asked' = [asked EXCEPT ![s] = Append(@, order)], UNCHANGED done
  PROVE  /\ \A c \in Clients, message \in Messages :
              Fits(c, message) /\ UNCHANGED uart => Fits(c, message)'
         /\ \A packet \in Packets : PacketFits(packet) => PacketFits(packet)'
         /\ DoneAsked'
PROOF
  <1>1. /\ \A t \in Sources : Len(asked[t]) \in Nat /\ Len(asked'[t]) \in Nat
        /\ \A t \in Sources : Len(asked[t]) <= Len(asked'[t])
        /\ \A t \in Sources : \A n \in 1 .. Len(asked[t]) : asked'[t][n] = asked[t][n]
    BY Grows DEF IInv
  <1>2. Clients \subseteq Sources
    BY DEF Sources
  <1>3. ASSUME NEW c \in Clients, NEW message \in Messages,
               Fits(c, message), UNCHANGED uart
        PROVE  Fits(c, message)'
    BY <1>1, <1>2, <1>3 DEF Fits
  <1>4. ASSUME NEW packet \in Packets, PacketFits(packet)
        PROVE  PacketFits(packet)'
    BY <1>1, <1>4 DEF PacketFits, Packets
  <1>5. DoneAsked'
    BY <1>1 DEF DoneAsked, IInv
  <1> QED
    BY <1>3, <1>4, <1>5

\* A packet added to the line goes behind all others.
LEMMA LineGrows ==
  ASSUME TypeOK, NEW packet \in Packets, uart' = Append(uart, packet)
  PROVE  /\ Len(uart) \in Nat /\ Len(uart') = Len(uart) + 1
         /\ \A i \in 1 .. Len(uart) : uart'[i] = uart[i]
         /\ uart'[Len(uart) + 1] = packet
PROOF
  BY DEF TypeOK

\* A packet taken from the line leaves the others in order.
LEMMA LineShrinks ==
  ASSUME TypeOK, uart # << >>, uart' = Tail(uart)
  PROVE  /\ Len(uart) \in Nat \ {0} /\ Len(uart') = Len(uart) - 1
         /\ \A i \in 1 .. Len(uart') : uart'[i] = uart[i + 1]
         /\ Head(uart) = uart[1] /\ uart[1] \in Packets
PROOF
  BY DEF TypeOK

LEMMA InvInit == Init => IInv
PROOF
  <1> SUFFICES ASSUME Init PROVE IInv
    OBVIOUS
  <1>1. TypeOK
    BY TypeInit
  <1>2. /\ \A c \in Clients : net[c] = << >> /\ worker[c] = "none"
        /\ uart = << >>
        /\ \A s \in Sources : done[s] = << >>
    BY DEF Init
  <1> QED
    BY <1>1, <1>2 DEF IInv, MessagesFit, MessagesOrdered, PacketsFit, PacketsOrdered, DoneAsked

\* A packet is taken from the line, whether or not it is executed.
LEMMA ShrinkStep ==
  ASSUME IInv, TypeOK', uart # << >>, uart' = Tail(uart),
         UNCHANGED <<net, buffer, worker, asked>>,
         \/ UNCHANGED done
         \/ done' = [done EXCEPT ![uart[1].from] = Append(@, uart[1].n)]
  PROVE  IInv'
PROOF
  <1>1. /\ Len(uart) \in Nat \ {0} /\ Len(uart') = Len(uart) - 1
        /\ \A i \in 1 .. Len(uart') : uart'[i] = uart[i + 1]
        /\ uart[1] \in Packets
    BY LineShrinks DEF IInv
  <1>2. \A i \in 1 .. Len(uart') : i + 1 \in 1 .. Len(uart) /\ 1 < i + 1
    BY <1>1
  <1>3. uart[1].from \in Sources /\ 1 \in 1 .. Len(uart)
    BY <1>1 DEF Packets
  <1>4. \A s \in Sources : \A k \in 1 .. Len(done'[s]) :
          \/ k \in 1 .. Len(done[s]) /\ done'[s][k] = done[s][k]
          \/ s = uart[1].from /\ done'[s][k] = uart[1].n
    <2>1. \A s \in Sources : done[s] \in Seq(Nat)
      BY DEF IInv, TypeOK
    <2>2. ASSUME done' = [done EXCEPT ![uart[1].from] = Append(@, uart[1].n)]
          PROVE  \A s \in Sources :
                    done'[s] = IF s = uart[1].from THEN Append(done[s], uart[1].n) ELSE done[s]
      BY <1>3, <2>2 DEF IInv, TypeOK
    <2>3. uart[1].n \in Nat
      BY <1>1 DEF Packets
    <2>4. \A s \in Seq(Nat), n \in Nat : \A k \in 1 .. Len(Append(s, n)) :
            (k \in 1 .. Len(s) /\ Append(s, n)[k] = s[k]) \/ Append(s, n)[k] = n
      OBVIOUS
    <2>5. CASE UNCHANGED done
      BY <2>5
    <2>6. CASE done' = [done EXCEPT ![uart[1].from] = Append(@, uart[1].n)]
      <3> SUFFICES ASSUME NEW s \in Sources, NEW k \in 1 .. Len(done'[s])
                   PROVE  \/ k \in 1 .. Len(done[s]) /\ done'[s][k] = done[s][k]
                          \/ s = uart[1].from /\ done'[s][k] = uart[1].n
        OBVIOUS
      <3>1. CASE s = uart[1].from
        <4>1. done'[s] = Append(done[s], uart[1].n)
          BY <2>2, <2>6, <3>1
        <4> QED
          BY <2>1, <2>3, <2>4, <3>1, <4>1
      <3>2. CASE s # uart[1].from
        BY <2>2, <2>6, <3>2
      <3> QED
        BY <3>1, <3>2
    <2> QED
      BY <2>5, <2>6
  <1>5. ASSUME NEW c \in Clients, NEW message \in Messages, Fits(c, message)
        PROVE  Fits(c, message)'
    <2>1. \A i \in 1 .. Len(uart') : uart'[i].from = c => uart'[i].n < message.n
      BY <1>1, <1>2, <1>5 DEF Fits
    <2>2. \A k \in 1 .. Len(done'[c]) : done'[c][k] < message.n
      BY <1>3, <1>4, <1>5 DEF Fits, Sources
    <2> QED
      BY <1>5, <2>1, <2>2 DEF Fits
  <1>6. MessagesFit'
    <2>1. \A c \in Clients : /\ buffer[c] \in Messages
                             /\ \A i \in 1 .. Len(net[c]) : net[c][i] \in Messages
      BY DEF IInv, TypeOK
    <2> QED
      BY <1>5, <2>1 DEF MessagesFit, IInv
  <1>7. MessagesOrdered'
    BY DEF MessagesOrdered, IInv
  <1>8. PacketsFit'
    <2> SUFFICES ASSUME NEW i \in 1 .. Len(uart')
                 PROVE  PacketFits(uart[i])'
      BY DEF PacketsFit
    <2>1. uart'[i] = uart[i + 1] /\ i + 1 \in 1 .. Len(uart) /\ 1 < i + 1
      BY <1>1, <1>2
    <2>2. PacketFits(uart[i + 1])
      BY <2>1 DEF IInv, PacketsFit
    <2>3. uart[i + 1].from = uart[1].from => uart[1].n < uart[i + 1].n
      BY <1>3, <2>1 DEF IInv, PacketsOrdered
    <2>4. uart[i + 1].from \in Sources
      <3>1. uart[i + 1] \in Packets
        BY <2>1 DEF IInv, TypeOK
      <3> QED
        BY <3>1 DEF Packets
    <2>5. \A k \in 1 .. Len(done'[uart[i + 1].from]) : done'[uart[i + 1].from][k] < uart[i + 1].n
      BY <1>4, <2>2, <2>3, <2>4 DEF PacketFits
    <2> QED
      BY <2>1, <2>2, <2>5 DEF PacketFits
  <1>9. PacketsOrdered'
    BY <1>1, <1>2 DEF IInv, PacketsOrdered
  <1>10. DoneAsked'
    <2>1. uart[1].n \in 1 .. Len(asked[uart[1].from])
      BY <1>3 DEF IInv, PacketsFit, PacketFits
    <2> QED
      BY <1>4, <2>1 DEF IInv, DoneAsked
  <1> QED
    BY <1>6, <1>7, <1>8, <1>9, <1>10 DEF IInv

\* The worker takes the first message of its client.
LEMMA ReadStep ==
  ASSUME IInv, TypeOK', NEW c \in Clients, WorkerReads(c)
  PROVE  IInv'
PROOF
  <1>1. /\ net[c] \in Seq(Messages) /\ net[c] # << >>
        /\ net' = [net EXCEPT ![c] = Tail(net[c])]
        /\ buffer' = [buffer EXCEPT ![c] = net[c][1]]
        /\ worker' = [worker EXCEPT ![c] = "handle"]
        /\ UNCHANGED <<uart, asked, done>>
    BY DEF WorkerReads, WorkerFrame, FirstMessage, robotVars, IInv, TypeOK
  <1>2. /\ Len(net[c]) \in Nat \ {0}
        /\ Len(Tail(net[c])) = Len(net[c]) - 1
        /\ \A i \in 1 .. Len(Tail(net[c])) : Tail(net[c])[i] = net[c][i + 1]
    BY <1>1
  <1>3. /\ net'[c] = Tail(net[c]) /\ buffer'[c] = net[c][1]
        /\ \A d \in Clients : d # c => /\ net'[d] = net[d] /\ buffer'[d] = buffer[d]
                                      /\ worker'[d] = worker[d]
    BY <1>1 DEF IInv, TypeOK
  <1>5. \A i \in 1 .. Len(net'[c]) :
          net'[c][i] = net[c][i + 1] /\ i + 1 \in 1 .. Len(net[c]) /\ 1 < i + 1
    BY <1>2, <1>3
  <1>6. 1 \in 1 .. Len(net[c])
    BY <1>2
  <1>7. MessagesFit'
    <2> SUFFICES ASSUME NEW d \in Clients
                 PROVE  /\ \A i \in 1 .. Len(net'[d]) : Fits(d, net[d][i])'
                        /\ worker'[d] = "handle" => Fits(d, buffer[d])'
      BY DEF MessagesFit
    <2>1. CASE d = c
      <3>1. \A i \in 1 .. Len(net'[c]) : Fits(c, net[c][i])'
        <4> SUFFICES ASSUME NEW i \in 1 .. Len(net'[c])
                     PROVE  Fits(c, net[c][i])'
          OBVIOUS
        <4>1. net'[c][i] = net[c][i + 1] /\ Fits(c, net[c][i + 1])
          BY <1>5 DEF IInv, MessagesFit
        <4> QED
          BY <1>1, <4>1 DEF Fits
      <3>2. Fits(c, buffer[c])'
        BY <1>1, <1>3, <1>6 DEF IInv, MessagesFit, Fits
      <3> QED
        BY <2>1, <3>1, <3>2
    <2>2. CASE d # c
      BY <1>1, <1>3, <2>2 DEF IInv, MessagesFit, Fits
    <2> QED
      BY <2>1, <2>2
  <1>8. MessagesOrdered'
    <2> SUFFICES ASSUME NEW d \in Clients
                 PROVE  /\ \A i, j \in 1 .. Len(net'[d]) : i < j => net'[d][i].n < net'[d][j].n
                        /\ worker'[d] = "handle" =>
                             \A i \in 1 .. Len(net'[d]) : buffer'[d].n < net'[d][i].n
      BY DEF MessagesOrdered
    <2>1. CASE d = c
      <3>1. \A i, j \in 1 .. Len(net[c]) : i < j => net[c][i].n < net[c][j].n
        BY DEF IInv, MessagesOrdered
      <3>2. \A i \in 1 .. Len(net'[c]) : i \in Nat
        OBVIOUS
      <3>3. \A i, j \in 1 .. Len(net'[c]) : i < j => net'[c][i].n < net'[c][j].n
        <4> SUFFICES ASSUME NEW i \in 1 .. Len(net'[c]), NEW j \in 1 .. Len(net'[c]), i < j
                     PROVE  net'[c][i].n < net'[c][j].n
          OBVIOUS
        <4>1. i + 1 < j + 1
          BY <3>2
        <4> QED
          BY <1>5, <3>1, <4>1
      <3>4. \A i \in 1 .. Len(net'[c]) : buffer'[c].n < net'[c][i].n
        BY <1>3, <1>5, <1>6, <3>1
      <3> QED
        BY <2>1, <3>3, <3>4
    <2>2. CASE d # c
      BY <1>3, <2>2 DEF IInv, MessagesOrdered
    <2> QED
      BY <2>1, <2>2
  <1>9. PacketsFit' /\ PacketsOrdered' /\ DoneAsked'
    BY <1>1 DEF IInv, PacketsFit, PacketFits, PacketsOrdered, DoneAsked
  <1> QED
    BY <1>7, <1>8, <1>9 DEF IInv

\* A key is pressed: what is sent is the newest of its client's.
LEMMA PressStep ==
  ASSUME IInv, TypeOK', NEW c \in Clients, Press(c)
  PROVE  IInv'
PROOF
  <1>1. PICK typed \in Typed(c) : SendData(c, typed)
    BY DEF Press
  <1> DEFINE n == Len(asked[c]) + 1
             message == [letter |-> typed.letter, amount |-> typed.amount,
                         low |-> LowHalf(typed.speed), n |-> n]
             order == [command |-> Meaning[typed.letter],
                       amount |-> typed.amount, speed |-> typed.speed]
  <1>2. /\ asked' = [asked EXCEPT ![c] = Append(@, order)]
        /\ net' = net \/ net' = [net EXCEPT ![c] = Append(@, message)]
        /\ UNCHANGED <<worker, buffer, uart, done>>
        /\ c \in Sources
    BY <1>1 DEF SendData, Press, PressFrame, workerVars, lineVars, robotVars, Sources
  <1>3. /\ typed.letter \in AllLetters /\ typed.amount \in Int /\ typed.speed \in Int
        /\ typed.letter = "c" => typed.amount = 0
    BY TypedIsData DEF IInv
  <1>4. Len(asked[c]) \in Nat /\ Len(asked'[c]) = n /\ asked'[c][n] = order
    BY <1>2, Grows DEF IInv
  <1>5. /\ \A d \in Clients, m \in Messages : Fits(d, m) => Fits(d, m)'
        /\ \A packet \in Packets : PacketFits(packet) => PacketFits(packet)'
        /\ DoneAsked'
    BY <1>2, HistoryStep
  <1>6. /\ \A d \in Clients : buffer[d] \in Messages /\ net[d] \in Seq(Messages)
        /\ \A i \in 1 .. Len(uart) : uart[i] \in Packets
    BY DEF IInv, TypeOK
  <1>7. PICK sent : sent = message
    OBVIOUS
  <1>8. Fits(c, sent)'
    <2>1. /\ sent.letter = typed.letter /\ sent.n = n
          /\ sent.amount = typed.amount /\ sent.low = typed.speed % Half
          /\ order.command = Meaning[typed.letter] /\ order.amount = typed.amount
          /\ order.speed = typed.speed
      BY <1>7 DEF LowHalf
    <2>2. \A k \in 1 .. Len(done'[c]) : done'[c][k] < n
      BY <1>2, <1>4 DEF IInv, DoneAsked
    <2>3. \A i \in 1 .. Len(uart') : uart'[i].from = c => uart'[i].n < n
      BY <1>2, <1>4 DEF IInv, PacketsFit, PacketFits
    <2>4. n \in 1 .. Len(asked'[c])
      BY <1>4
    <2> HIDE DEF message, order, n
    <2> QED
      BY <1>3, <1>4, <2>1, <2>2, <2>3, <2>4 DEF Fits
  <1>9. \A i \in 1 .. Len(net[c]) : net[c][i].n < n
    BY <1>4 DEF IInv, MessagesFit, Fits
  <1>10. worker[c] = "handle" => buffer[c].n < n
    BY <1>4 DEF IInv, MessagesFit, Fits
  <1>11. sent.n = n
    BY <1>7
  <1> HIDE DEF message, order, n
  <1>12. CASE net' = net
    <2>1. MessagesFit'
      BY <1>2, <1>5, <1>6, <1>12 DEF IInv, MessagesFit
    <2> QED
      BY <1>2, <1>5, <1>6, <1>12, <2>1
      DEF IInv, MessagesOrdered, PacketsFit, PacketsOrdered
  <1>13. CASE net' = [net EXCEPT ![c] = Append(@, message)]
    <2>1. /\ Len(net[c]) \in Nat
          /\ Len(net'[c]) = Len(net[c]) + 1
          /\ \A i \in 1 .. Len(net[c]) : net'[c][i] = net[c][i]
          /\ net'[c][Len(net[c]) + 1] = sent
      <3>1. net'[c] = Append(net[c], message)
        BY <1>13 DEF IInv, TypeOK
      <3> QED
        BY <1>6, <1>7, <3>1
    <2>2. \A d \in Clients : d # c => net'[d] = net[d]
      BY <1>13 DEF IInv, TypeOK
    <2>3. \A i \in 1 .. Len(net'[c]) : i \in 1 .. Len(net[c]) \/ i = Len(net[c]) + 1
      BY <2>1
    <2>4. \A d \in Clients : \A i \in 1 .. Len(net[d]) : Fits(d, net[d][i]) /\ net[d][i] \in Messages
      BY <1>6 DEF IInv, MessagesFit
    <2>5. MessagesFit'
      <3> SUFFICES ASSUME NEW d \in Clients
                   PROVE  /\ \A i \in 1 .. Len(net'[d]) : Fits(d, net[d][i])'
                          /\ worker'[d] = "handle" => Fits(d, buffer[d])'
        BY DEF MessagesFit
      <3>1. worker'[d] = "handle" => Fits(d, buffer[d])'
        BY <1>2, <1>5, <1>6 DEF IInv, MessagesFit
      <3>2. ASSUME NEW i \in 1 .. Len(net'[d]), d # c
            PROVE  Fits(d, net[d][i])'
        <4>1. net'[d][i] = net[d][i] /\ i \in 1 .. Len(net[d])
          BY <2>2, <3>2
        <4> QED
          BY <1>5, <2>4, <4>1
      <3>3. ASSUME NEW i \in 1 .. Len(net'[c])
            PROVE  Fits(c, net[c][i])'
        <4>1. CASE i \in 1 .. Len(net[c])
          <5>1. net'[c][i] = net[c][i] /\ Fits(c, net[c][i]) /\ net[c][i] \in Messages
            BY <2>1, <2>4, <4>1
          <5> QED
            BY <1>5, <5>1
        <4>2. CASE i = Len(net[c]) + 1
          <5>1. net'[c][i] = sent
            BY <2>1, <4>2
          <5> QED
            BY <1>8, <5>1
        <4> QED
          BY <2>3, <4>1, <4>2
      <3> QED
        BY <3>1, <3>2, <3>3
    <2>6. MessagesOrdered'
      <3> SUFFICES ASSUME NEW d \in Clients
                   PROVE  /\ \A i, j \in 1 .. Len(net'[d]) :
                               i < j => net'[d][i].n < net'[d][j].n
                          /\ worker'[d] = "handle" =>
                               \A i \in 1 .. Len(net'[d]) : buffer'[d].n < net'[d][i].n
        BY DEF MessagesOrdered
      <3>1. CASE d # c
        BY <1>2, <2>2, <3>1 DEF IInv, MessagesOrdered
      <3>2. CASE d = c
        <4>1. ASSUME NEW i \in 1 .. Len(net'[c]), NEW j \in 1 .. Len(net'[c]), i < j
              PROVE  net'[c][i].n < net'[c][j].n
          <5>1. i \in 1 .. Len(net[c])
            BY <2>1, <4>1
          <5>2. CASE j \in 1 .. Len(net[c])
            BY <2>1, <4>1, <5>1, <5>2 DEF IInv, MessagesOrdered
          <5>3. CASE j = Len(net[c]) + 1
            BY <1>9, <1>11, <2>1, <5>1, <5>3
          <5> QED
            BY <2>3, <5>2, <5>3
        <4>2. ASSUME NEW i \in 1 .. Len(net'[c]), worker'[c] = "handle"
              PROVE  buffer'[c].n < net'[c][i].n
          <5>1. CASE i \in 1 .. Len(net[c])
            BY <1>2, <2>1, <4>2, <5>1 DEF IInv, MessagesOrdered
          <5>2. CASE i = Len(net[c]) + 1
            BY <1>2, <1>10, <1>11, <2>1, <4>2, <5>2
          <5> QED
            BY <2>3, <5>1, <5>2
        <4> QED
          BY <3>2, <4>1, <4>2
      <3> QED
        BY <3>1, <3>2
    <2> QED
      BY <1>2, <1>5, <1>6, <2>5, <2>6 DEF IInv, PacketsFit, PacketsOrdered
  <1> QED
    BY <1>2, <1>12, <1>13

\* A worker writes the packet it has made: newer than its client's packets on
\* the line, older than the messages that its client has on the way.
LEMMA HandleStep ==
  ASSUME IInv, TypeOK', NEW c \in Clients, WorkerHandles(c)
  PROVE  IInv'
PROOF
  <1>1. /\ worker[c] = "handle" /\ worker' = [worker EXCEPT ![c] = "read"]
        /\ UNCHANGED <<buffer, net, asked, done>>
        /\ \/ uart' = uart
           \/ /\ uart' = Append(uart, CommandPacket(c))
              /\ buffer[c].letter \in DOMAIN ServerCommand
    BY DEF WorkerHandles, WorkerFrame, UartSendPacket, robotVars
  <1>2. /\ worker'[c] = "read"
        /\ \A d \in Clients : d # c => worker'[d] = worker[d]
    BY <1>1 DEF IInv, TypeOK
  <1>3. \A d \in Clients : worker'[d] = "handle" => worker[d] = "handle" /\ d # c
    BY <1>2
  <1>4. CASE uart' = uart
    BY <1>1, <1>3, <1>4, QuietStep DEF Flow
  <1>5. CASE /\ uart' = Append(uart, CommandPacket(c))
             /\ buffer[c].letter \in DOMAIN ServerCommand
    <2>1. PICK packet : packet = CommandPacket(c)
      OBVIOUS
    <2>2. packet \in Packets
      BY <1>5, <2>1, PacketIsData DEF IInv
    <2>3. /\ Len(uart) \in Nat /\ Len(uart') = Len(uart) + 1
          /\ \A i \in 1 .. Len(uart) : uart'[i] = uart[i]
          /\ uart'[Len(uart) + 1] = packet
      BY <1>5, <2>1, <2>2, LineGrows DEF IInv
    <2>4. \A i \in 1 .. Len(uart') : i \in 1 .. Len(uart) \/ i = Len(uart) + 1
      BY <2>3
    <2>5. Fits(c, buffer[c])
      BY <1>1 DEF IInv, MessagesFit
    <2>6. packet.from = c /\ packet.n = buffer[c].n
      BY <2>1 DEF CommandPacket
    <2>7. PacketFits(packet)'
      <3>1. packet.command = Meaning[buffer[c].letter]
        BY <1>5, <2>1 DEF CommandPacket, CommandOf, ServerCommand, Meaning
      <3>2. packet.amount = buffer[c].amount % Word
        <4>1. packet.command = "CLEAR_STATS" => buffer[c].letter = "c"
          BY <1>5, <2>1 DEF CommandPacket, CommandOf, ServerCommand
        <4>2. packet.command = "CLEAR_STATS" \/ packet.amount = buffer[c].amount % Word
          BY <2>1 DEF CommandPacket
        <4>3. packet.command = "CLEAR_STATS" => packet.amount = 0
          BY <2>1 DEF CommandPacket
        <4>4. 0 % Word = 0
          BY Words
        <4> QED
          BY <2>5, <4>1, <4>2, <4>3, <4>4 DEF Fits
      <3>3. packet.speed % Half = buffer[c].low
        <4>1. packet.speed = buffer[c].low + Half * residue[c]
          BY <2>1 DEF CommandPacket
        <4>2. buffer[c].low \in 0 .. Half - 1
          BY DEF IInv, TypeOK, Messages
        <4>3. residue[c] \in Int
          <5>1. residue[c] \in Residues \cup {0}
            BY DEF IInv, TypeOK
          <5>2. \A r \in Residues : r \in Int
            BY CommandPathAssumption
          <5> QED
            BY <5>1, <5>2
        <4> QED
          BY <4>1, <4>2, <4>3, Halves
      <3> QED
        BY <1>1, <2>5, <2>6, <3>1, <3>2, <3>3 DEF Fits, PacketFits
    <2>8. MessagesFit'
      <3>1. ASSUME NEW d \in Clients, NEW message \in Messages, Fits(d, message),
                   d # c \/ buffer[c].n < message.n
            PROVE  Fits(d, message)'
        <4>1. \A i \in 1 .. Len(uart') : uart'[i].from = d => uart'[i].n < message.n
          BY <2>3, <2>4, <2>6, <3>1 DEF Fits
        <4> QED
          BY <1>1, <3>1, <4>1 DEF Fits
      <3>2. \A d \in Clients : \A i \in 1 .. Len(net[d]) :
              /\ net[d][i] \in Messages /\ Fits(d, net[d][i])
              /\ d # c \/ buffer[c].n < net[d][i].n
        <4>1. ASSUME NEW d \in Clients, NEW i \in 1 .. Len(net[d])
              PROVE  net[d][i] \in Messages
          <5>1. net[d] \in Seq(Messages)
            BY DEF IInv, TypeOK
          <5> QED
            BY <5>1
        <4>2. \A d \in Clients : \A i \in 1 .. Len(net[d]) : Fits(d, net[d][i])
          BY DEF IInv, MessagesFit
        <4>3. \A i \in 1 .. Len(net[c]) : buffer[c].n < net[c][i].n
          BY <1>1 DEF IInv, MessagesOrdered
        <4> QED
          BY <4>1, <4>2, <4>3
      <3>3. \A d \in Clients : buffer[d] \in Messages
        BY DEF IInv, TypeOK
      <3>4. \A d \in Clients : worker'[d] = "handle" => Fits(d, buffer[d]) /\ d # c
        BY <1>3 DEF IInv, MessagesFit
      <3> QED
        BY <1>1, <3>1, <3>2, <3>3, <3>4 DEF MessagesFit
    <2>9. MessagesOrdered'
      BY <1>1, <1>3 DEF IInv, MessagesOrdered
    <2>10. PacketsFit'
      <3>1. ASSUME NEW i \in 1 .. Len(uart') PROVE PacketFits(uart[i])'
        <4>1. CASE i \in 1 .. Len(uart)
          <5>1. uart'[i] = uart[i] /\ PacketFits(uart[i])
            BY <2>3, <4>1 DEF IInv, PacketsFit
          <5> QED
            BY <1>1, <5>1 DEF PacketFits
        <4>2. CASE i = Len(uart) + 1
          <5>1. uart'[i] = packet
            BY <2>3, <4>2
          <5> QED
            BY <2>7, <5>1
        <4> QED
          BY <2>4, <4>1, <4>2
      <3> QED
        BY <3>1 DEF PacketsFit
    <2>11. PacketsOrdered'
      <3>1. ASSUME NEW i \in 1 .. Len(uart'), NEW j \in 1 .. Len(uart'),
                   i < j, uart'[i].from = uart'[j].from
            PROVE  uart'[i].n < uart'[j].n
        <4>1. i \in 1 .. Len(uart)
          BY <2>3, <3>1
        <4>2. CASE j \in 1 .. Len(uart)
          BY <2>3, <3>1, <4>1, <4>2 DEF IInv, PacketsOrdered
        <4>3. CASE j = Len(uart) + 1
          BY <2>3, <2>5, <2>6, <3>1, <4>1, <4>3 DEF Fits
        <4> QED
          BY <2>4, <4>2, <4>3
      <3> QED
        BY <3>1 DEF PacketsOrdered
    <2> QED
      BY <1>1, <2>8, <2>9, <2>10, <2>11 DEF IInv, DoneAsked
  <1> QED
    BY <1>1, <1>4, <1>5

\* The HELLO packet is the server's own order and nobody else's.
LEMMA HelloStep ==
  ASSUME IInv, TypeOK', SendHello
  PROVE  IInv'
PROOF
  <1>1. PICK command \in Garbage :
          /\ UartSendPacket([command |-> command, amount |-> 0, speed |-> 0,
                             from |-> SERVER, n |-> Len(asked[SERVER]) + 1])
          /\ asked' = [asked EXCEPT ![SERVER] =
                         Append(@, [command |-> command, amount |-> 0, speed |-> 0])]
    BY DEF SendHello
  <1>2. PICK packet : packet = [command |-> command, amount |-> 0, speed |-> 0,
                                from |-> SERVER, n |-> Len(asked[SERVER]) + 1]
    OBVIOUS
  <1>3. PICK order : order = [command |-> command, amount |-> 0, speed |-> 0]
    OBVIOUS
  <1>4. /\ asked' = [asked EXCEPT ![SERVER] = Append(@, order)]
        /\ uart' = uart \/ uart' = Append(uart, packet)
        /\ SERVER \in Sources
        /\ command \in Commands \cup {"UNKNOWN"}
    BY <1>1, <1>2, <1>3, CommandPathAssumption DEF UartSendPacket, Sources
  <1>5. UNCHANGED <<net, buffer, worker, done>>
    BY DEF SendHello, ServerFrame, clientVars, workerVars, robotVars
  <1>6. /\ Len(asked[SERVER]) \in Nat
        /\ Len(asked'[SERVER]) = Len(asked[SERVER]) + 1
        /\ asked'[SERVER][Len(asked[SERVER]) + 1] = order
    BY <1>4, Grows DEF IInv
  <1>7. /\ \A d \in Clients, m \in Messages : Fits(d, m) /\ UNCHANGED uart => Fits(d, m)'
        /\ \A p \in Packets : PacketFits(p) => PacketFits(p)'
        /\ DoneAsked'
    BY <1>4, <1>5, HistoryStep
  <1>8. \A c \in Clients : asked'[c] = asked[c] /\ c # SERVER
    BY <1>4, CommandPathAssumption DEF IInv, TypeOK
  <1>9. MessagesOrdered'
    BY <1>5 DEF IInv, MessagesOrdered
  <1>10. /\ \A d \in Clients : buffer[d] \in Messages /\ net[d] \in Seq(Messages)
         /\ \A i \in 1 .. Len(uart) : uart[i] \in Packets /\ PacketFits(uart[i])
    BY DEF IInv, TypeOK, PacketsFit
  <1>11. CASE uart' = uart
    <2>1. MessagesFit'
      BY <1>5, <1>7, <1>10, <1>11 DEF IInv, MessagesFit
    <2>2. PacketsFit'
      BY <1>7, <1>10, <1>11 DEF PacketsFit
    <2> QED
      BY <1>7, <1>9, <1>11, <2>1, <2>2 DEF IInv, PacketsOrdered
  <1>12. CASE uart' = Append(uart, packet)
    <2>1. packet \in Packets /\ packet.from = SERVER /\ packet.n = Len(asked[SERVER]) + 1
      <3>1. Len(asked[SERVER]) + 1 \in Nat /\ 0 \in Int /\ 0 \in 0 .. Word - 1
        BY <1>6, Words
      <3> QED
        BY <1>2, <1>4, <3>1 DEF Packets
    <2>2. /\ Len(uart) \in Nat /\ Len(uart') = Len(uart) + 1
          /\ \A i \in 1 .. Len(uart) : uart'[i] = uart[i]
          /\ uart'[Len(uart) + 1] = packet
      BY <1>12, <2>1, LineGrows DEF IInv
    <2>3. \A i \in 1 .. Len(uart') : i \in 1 .. Len(uart) \/ i = Len(uart) + 1
      BY <2>2
    <2>4. ASSUME NEW c \in Clients, NEW message \in Messages, Fits(c, message)
          PROVE  Fits(c, message)'
      <3>1. \A i \in 1 .. Len(uart') : uart'[i].from = c => uart'[i].n < message.n
        BY <1>8, <2>1, <2>2, <2>3, <2>4 DEF Fits
      <3> QED
        BY <1>5, <1>8, <2>4, <3>1 DEF Fits
    <2>5. MessagesFit'
      BY <1>5, <1>10, <2>4 DEF IInv, MessagesFit
    <2>6. PacketFits(packet)'
      <3>1. /\ packet.command = order.command /\ packet.amount = order.amount % Word
            /\ packet.speed = order.speed
        <4>1. 0 % Word = 0
          BY Words
        <4> QED
          BY <1>2, <1>3, <4>1
      <3>2. \A k \in 1 .. Len(done'[SERVER]) : done'[SERVER][k] < packet.n
        BY <1>4, <1>5, <1>6, <2>1 DEF IInv, DoneAsked
      <3>3. packet.n \in 1 .. Len(asked'[SERVER])
        BY <1>6, <2>1
      <3> QED
        BY <1>6, <2>1, <3>1, <3>2, <3>3 DEF PacketFits
    <2>7. PacketsFit'
      <3>1. ASSUME NEW i \in 1 .. Len(uart') PROVE PacketFits(uart[i])'
        <4>1. CASE i \in 1 .. Len(uart)
          <5>1. uart'[i] = uart[i] /\ uart[i] \in Packets /\ PacketFits(uart[i])
            BY <1>10, <2>2, <4>1
          <5> QED
            BY <1>7, <5>1
        <4>2. CASE i = Len(uart) + 1
          <5>1. uart'[i] = packet
            BY <2>2, <4>2
          <5> QED
            BY <2>6, <5>1
        <4> QED
          BY <2>3, <4>1, <4>2
      <3> QED
        BY <3>1 DEF PacketsFit
    <2>8. PacketsOrdered'
      <3>1. ASSUME NEW i \in 1 .. Len(uart'), NEW j \in 1 .. Len(uart'),
                   i < j, uart'[i].from = uart'[j].from
            PROVE  uart'[i].n < uart'[j].n
        <4>1. i \in 1 .. Len(uart)
          BY <2>2, <3>1
        <4>2. CASE j \in 1 .. Len(uart)
          BY <2>2, <3>1, <4>1, <4>2 DEF IInv, PacketsOrdered
        <4>3. CASE j = Len(uart) + 1
          <5>1. uart'[i] = uart[i] /\ uart'[j] = packet /\ PacketFits(uart[i])
            BY <1>10, <2>2, <4>1, <4>3
          <5>2. uart[i].from = SERVER
            BY <2>1, <3>1, <5>1
          <5>3. uart[i].n \in 1 .. Len(asked[SERVER])
            BY <5>1, <5>2 DEF PacketFits
          <5> QED
            BY <1>6, <2>1, <5>1, <5>3
        <4> QED
          BY <2>3, <4>2, <4>3
      <3> QED
        BY <3>1 DEF PacketsOrdered
    <2> QED
      BY <1>7, <1>9, <2>5, <2>7, <2>8 DEF IInv
  <1> QED
    BY <1>4, <1>11, <1>12

\* Every step keeps the invariant.
LEMMA InvStep == IInv /\ [Next]_vars => IInv'
PROOF
  <1> SUFFICES ASSUME IInv, [Next]_vars PROVE IInv'
    OBVIOUS
  <1>1. TypeOK'
    BY TypeStep DEF IInv
  <1>2. CASE StartSerial \/ CreateServer \/ MainReturns \/ Listen \/ Signal
    <2>1. UNCHANGED <<Flow, worker>>
      BY <1>2 DEF StartSerial, CreateServer, MainReturns, Listen, Signal, ServerFrame,
                  clientVars, workerVars, robotVars, Flow
    <2> QED
      BY <1>1, <2>1, QuietStep
  <1>3. CASE SendHello
    BY <1>1, <1>3, HelloStep
  <1>4. ASSUME NEW c \in Clients, Connect(c) PROVE IInv'
    <2>1. UNCHANGED Flow /\ worker' = [worker EXCEPT ![c] = "read"]
      BY <1>4 DEF Connect, Flow, clientVars, lineVars, robotVars
    <2>2. \A d \in Clients : worker'[d] = "handle" => worker[d] = "handle"
      BY <2>1 DEF IInv, TypeOK
    <2> QED
      BY <1>1, <2>1, <2>2, QuietStep
  <1>5. ASSUME NEW c \in Clients, Press(c) PROVE IInv'
    BY <1>1, <1>5, PressStep
  <1>6. ASSUME NEW c \in Clients, ChangeSpeeds(c) PROVE IInv'
    <2>1. UNCHANGED <<Flow, worker>>
      BY <1>6 DEF ChangeSpeeds, PressFrame, Flow, workerVars, lineVars, robotVars
    <2> QED
      BY <1>1, <2>1, QuietStep
  <1>7. ASSUME NEW c \in Clients, WorkerReads(c) PROVE IInv'
    BY <1>1, <1>7, ReadStep
  <1>8. ASSUME NEW c \in Clients, WorkerHandles(c) PROVE IInv'
    BY <1>1, <1>8, HandleStep
  <1>9. ASSUME NEW c \in Clients, WorkerLeaves(c) PROVE IInv'
    <2>1. UNCHANGED Flow /\ worker' = [worker EXCEPT ![c] = "left"]
      BY <1>9 DEF WorkerLeaves, WorkerFrame, Flow, robotVars
    <2>2. \A d \in Clients : worker'[d] = "handle" => worker[d] = "handle"
      BY <2>1 DEF IInv, TypeOK
    <2> QED
      BY <1>1, <2>1, <2>2, QuietStep
  <1>10. CASE LoseBytes \/ Discard \/ HandleCommand
    <2>1. /\ uart # << >> /\ uart' = Tail(uart)
          /\ UNCHANGED <<net, buffer, worker, asked>>
      BY <1>10 DEF LoseBytes, Discard, HandleCommand, FirmwareFrame, clientVars, workerVars
    <2>2. \/ UNCHANGED done
          \/ done' = [done EXCEPT ![uart[1].from] = Append(@, uart[1].n)]
      <3>1. Head(uart) = uart[1]
        BY <2>1, LineShrinks DEF IInv
      <3> QED
        BY <1>10, <3>1 DEF LoseBytes, Discard, HandleCommand, robotVars
    <2> QED
      BY <1>1, <2>1, <2>2, ShrinkStep
  <1>11. CASE UNCHANGED vars
    <2>1. UNCHANGED <<Flow, worker>>
      BY <1>11 DEF vars, Flow, clientVars, workerVars, lineVars, robotVars
    <2> QED
      BY <1>1, <2>1, QuietStep
  <1> QED
    BY <1>2, <1>3, <1>4, <1>5, <1>6, <1>7, <1>8, <1>9, <1>10, <1>11
    DEF Next, Main, Worker, Firmware

LEMMA InvCorrect == Spec => []IInv
PROOF
  BY InvInit, InvStep, PTL DEF Spec

-----------------------------------------------------------------------------
(***************************************************************************)
(* The refinement                                                          *)
(***************************************************************************)

\* An order without its speed is a task.
LEMMA TaskIsTask == \A order \in Orders : Task(order) \in Tasks
PROOF
  BY DEF Orders, Tasks, Task

\* The histories of RemoteControl.
LEMMA TaskHistory ==
  ASSUME NEW orders \in Seq(Orders)
  PROVE  /\ TasksOf(orders) \in Seq(Tasks)
         /\ Len(TasksOf(orders)) = Len(orders)
         /\ \A i \in 1 .. Len(orders) : TasksOf(orders)[i] = Task(orders[i])
PROOF
  <1>1. Len(orders) \in Nat /\ \A i \in 1 .. Len(orders) : orders[i] \in Orders
    OBVIOUS
  <1>2. TasksOf(orders) \in [1 .. Len(orders) -> Tasks]
    BY <1>1, TaskIsTask DEF TasksOf
  <1>3. TasksOf(orders) \in Seq(Tasks)
    BY <1>1, <1>2
  <1>4. Len(TasksOf(orders)) = Len(orders)
    BY <1>1, <1>2
  <1> QED
    BY <1>3, <1>4 DEF TasksOf

\* An order that is appended is appended in RemoteControl as well.
LEMMA TaskAppend ==
  ASSUME NEW orders \in Seq(Orders), NEW order \in Orders
  PROVE  TasksOf(Append(orders, order)) = Append(TasksOf(orders), Task(order))
PROOF
  <1> DEFINE longer == Append(orders, order)
  <1>1. /\ longer \in Seq(Orders) /\ Len(orders) \in Nat /\ Len(longer) = Len(orders) + 1
        /\ \A i \in 1 .. Len(orders) : longer[i] = orders[i]
        /\ longer[Len(orders) + 1] = order
    OBVIOUS
  <1> HIDE DEF longer
  <1>2. /\ TasksOf(orders) \in Seq(Tasks) /\ Len(TasksOf(orders)) = Len(orders)
        /\ \A i \in 1 .. Len(orders) : TasksOf(orders)[i] = Task(orders[i])
    BY TaskHistory
  <1>3. /\ TasksOf(longer) \in Seq(Tasks) /\ Len(TasksOf(longer)) = Len(longer)
        /\ \A i \in 1 .. Len(longer) : TasksOf(longer)[i] = Task(longer[i])
    BY <1>1, TaskHistory
  <1>4. Task(order) \in Tasks
    BY TaskIsTask
  <1> DEFINE tasks == TasksOf(orders)
             tasksLonger == TasksOf(longer)
             last == Task(order)
  <1>5. /\ tasks \in Seq(Tasks) /\ tasksLonger \in Seq(Tasks) /\ last \in Tasks
        /\ Len(tasks) \in Nat /\ Len(tasksLonger) = Len(tasks) + 1
        /\ \A i \in 1 .. Len(tasks) : tasksLonger[i] = tasks[i]
        /\ tasksLonger[Len(tasks) + 1] = last
    <2>1. \A i \in 1 .. Len(orders) : i \in 1 .. Len(longer)
      BY <1>1
    <2>2. Len(orders) + 1 \in 1 .. Len(longer)
      BY <1>1
    <2> QED
      BY <1>1, <1>2, <1>3, <1>4, <2>1, <2>2
  <1> HIDE DEF tasks, tasksLonger, last
  <1>6. tasksLonger = Append(tasks, last)
    BY <1>5
  <1> QED
    BY <1>6 DEF tasks, tasksLonger, last, longer

\* Both histories at once.
LEMMA TaskStep ==
  ASSUME TypeOK, NEW s \in Sources, NEW order \in Orders,
         asked' = [asked EXCEPT ![s] = Append(@, order)]
  PROVE  [t \in Sources |-> TasksOf(asked'[t])]
           = [[t \in Sources |-> TasksOf(asked[t])] EXCEPT
                ![s] = Append(@, Task(order))]
PROOF
  <1>1. asked[s] \in Seq(Orders) /\ asked'[s] = Append(asked[s], order)
    BY DEF TypeOK
  <1>2. TasksOf(asked'[s]) = Append(TasksOf(asked[s]), Task(order))
    BY <1>1, TaskAppend
  <1>3. \A t \in Sources : t # s => TasksOf(asked'[t]) = TasksOf(asked[t])
    BY DEF TypeOK
  <1> DEFINE old == [t \in Sources |-> TasksOf(asked[t])]
             longer == Append(old[s], Task(order))
  <1>4. TasksOf(asked'[s]) = longer
    BY <1>2
  <1>5. [old EXCEPT ![s] = longer] = [t \in Sources |-> IF t = s THEN longer ELSE old[t]]
    OBVIOUS
  <1>6. \A t \in Sources : old[t] = TasksOf(asked[t])
    OBVIOUS
  <1> HIDE DEF longer, old
  <1>7. \A t \in Sources : TasksOf(asked'[t]) = IF t = s THEN longer ELSE old[t]
    BY <1>3, <1>4, <1>6
  <1>8. [t \in Sources |-> TasksOf(asked'[t])] = [old EXCEPT ![s] = longer]
    BY <1>5, <1>7
  <1> QED
    BY <1>8 DEF longer, old

\* No amount asked for is less than 0 or too large for an unsigned int.
AskedFit ==
  \A s \in Sources : \A n \in 1 .. Len(asked[s]) : asked[s][n].amount \in 0 .. Word - 1

\* A history whose new order has a certain property has it throughout.
LEMMA AllAsked ==
  ASSUME TypeOK, NEW s \in Sources, NEW order,
         asked' = [asked EXCEPT ![s] = Append(@, order)], NEW S,
         NEW T, order.amount \in S, order.speed \in T,
         \A t \in Sources : \A n \in 1 .. Len(asked[t]) :
           asked[t][n].amount \in S /\ asked[t][n].speed \in T
  PROVE  \A t \in Sources : \A n \in 1 .. Len(asked'[t]) :
           asked'[t][n].amount \in S /\ asked'[t][n].speed \in T
PROOF
  <1>1. /\ Len(asked[s]) \in Nat /\ Len(asked'[s]) = Len(asked[s]) + 1
        /\ \A n \in 1 .. Len(asked[s]) : asked'[s][n] = asked[s][n]
        /\ asked'[s][Len(asked[s]) + 1] = order
    BY Grows
  <1>2. \A t \in Sources : t # s => asked'[t] = asked[t]
    BY DEF TypeOK
  <1>3. \A n \in 1 .. Len(asked'[s]) : n \in 1 .. Len(asked[s]) \/ n = Len(asked[s]) + 1
    BY <1>1
  <1>4. \A n \in 1 .. Len(asked'[s]) : asked'[s][n].amount \in S /\ asked'[s][n].speed \in T
    BY <1>1, <1>3
  <1> QED
    BY <1>2, <1>4

\* Who asks: the server for its HELLO packet, and the keys.
LEMMA WhoAsks ==
  ASSUME TypeOK, [Next]_vars
  PROVE  \/ UNCHANGED asked
         \/ \E order : /\ asked' = [asked EXCEPT ![SERVER] = Append(@, order)]
                       /\ order.amount = 0 /\ order.speed = 0
         \/ \E c \in Clients : \E typed \in Typed(c) : \E order :
              /\ asked' = [asked EXCEPT ![c] = Append(@, order)]
              /\ order.amount = typed.amount /\ order.speed = typed.speed
PROOF
  <1>1. CASE SendHello
    <2>1. PICK command \in Garbage :
            asked' = [asked EXCEPT ![SERVER] =
                        Append(@, [command |-> command, amount |-> 0, speed |-> 0])]
      BY <1>1 DEF SendHello
    <2>2. PICK order : order = [command |-> command, amount |-> 0, speed |-> 0]
      OBVIOUS
    <2>3. /\ asked' = [asked EXCEPT ![SERVER] = Append(@, order)]
          /\ order.amount = 0 /\ order.speed = 0
      BY <2>1, <2>2
    <2> QED
      BY <2>3
  <1>2. ASSUME NEW c \in Clients, Press(c)
        PROVE  \E typed \in Typed(c) : \E order :
                 /\ asked' = [asked EXCEPT ![c] = Append(@, order)]
                 /\ order.amount = typed.amount /\ order.speed = typed.speed
    <2>1. PICK typed \in Typed(c) : SendData(c, typed)
      BY <1>2 DEF Press
    <2>2. PICK order : order = [command |-> Meaning[typed.letter],
                                amount |-> typed.amount, speed |-> typed.speed]
      OBVIOUS
    <2>3. /\ asked' = [asked EXCEPT ![c] = Append(@, order)]
          /\ order.amount = typed.amount /\ order.speed = typed.speed
      BY <2>1, <2>2 DEF SendData
    <2> QED
      BY <2>3
  <1>3. CASE StartSerial \/ CreateServer \/ MainReturns \/ Listen \/ Signal
    BY <1>3 DEF StartSerial, CreateServer, MainReturns, Listen, Signal
  <1>4. CASE \E c \in Clients : \/ Connect(c) \/ ChangeSpeeds(c)
                                \/ Worker(c) \/ WorkerLeaves(c)
    BY <1>4 DEF Connect, ChangeSpeeds, Worker, WorkerReads, WorkerHandles,
                WorkerLeaves, WorkerFrame
  <1>5. CASE LoseBytes \/ Firmware
    BY <1>5 DEF LoseBytes, Firmware, Discard, HandleCommand, FirmwareFrame
  <1>6. CASE UNCHANGED vars
    BY <1>6 DEF vars
  <1> QED
    BY <1>1, <1>2, <1>3, <1>4, <1>5, <1>6 DEF Next, Main

\* Whatever way an amount is typed.
LEMMA AmountTyped ==
  ASSUME AmountsFit, NEW c \in Clients, NEW typed \in Typed(c)
  PROVE  typed.amount \in 0 .. Word - 1
PROOF
  <1>1. CASE \E l \in {"l", "r"}, a \in Amounts, p \in Powers :
               typed = [letter |-> l, amount |-> ApproxAngle(p, a), speed |-> p]
    <2>1. PICK l \in {"l", "r"}, a \in Amounts, p \in Powers :
            typed = [letter |-> l, amount |-> ApproxAngle(p, a), speed |-> p]
      BY <1>1
    <2>2. ApproxAngle(p, a) \in 0 .. Word - 1
      BY DEF AmountsFit
    <2> QED
      BY <2>1, <2>2
  <1>2. CASE \E k \in DOMAIN KeyLetter :
               typed = [letter |-> KeyLetter[k], amount |-> 0, speed |-> speeds[c][k]]
    BY <1>2, Words
  <1>3. CASE typed \in [letter : {"f", "b", "l", "r"}, amount : Amounts, speed : Powers]
    BY <1>3 DEF AmountsFit
  <1>4. CASE typed \in [letter : {"s", "c", "g", "k", "K", "a"}, amount : {0}, speed : {0}]
    BY <1>4, Words
  <1> QED
    BY <1>1, <1>2, <1>3, <1>4 DEF Typed

LEMMA AskedFitStep ==
  ASSUME AmountsFit, TypeOK, AskedFit, [Next]_vars
  PROVE  AskedFit'
PROOF
  <1>1. \A t \in Sources : \A n \in 1 .. Len(asked[t]) : asked[t][n].speed \in Int
    <2>1. \A t \in Sources : asked[t] \in Seq(Orders)
      BY DEF TypeOK
    <2>2. \A t \in Sources : \A n \in 1 .. Len(asked[t]) : asked[t][n] \in Orders
      BY <2>1
    <2> QED
      BY <2>2 DEF Orders
  <1>2. ASSUME NEW s \in Sources, NEW order,
               asked' = [asked EXCEPT ![s] = Append(@, order)],
               order.amount \in 0 .. Word - 1, order.speed \in Int
        PROVE  AskedFit'
    BY <1>1, <1>2, AllAsked DEF AskedFit
  <1>3. CASE UNCHANGED asked
    BY <1>3 DEF AskedFit
  <1>4. ASSUME NEW order, asked' = [asked EXCEPT ![SERVER] = Append(@, order)],
               order.amount = 0, order.speed = 0
        PROVE  AskedFit'
    <2>1. SERVER \in Sources
      BY DEF Sources
    <2>2. order.amount \in 0 .. Word - 1 /\ order.speed \in Int
      BY <1>4, Words
    <2> QED
      BY <1>2, <1>4, <2>1, <2>2
  <1>5. ASSUME NEW c \in Clients, NEW typed \in Typed(c), NEW order,
               asked' = [asked EXCEPT ![c] = Append(@, order)],
               order.amount = typed.amount, order.speed = typed.speed
        PROVE  AskedFit'
    <2>1. typed.amount \in 0 .. Word - 1 /\ typed.speed \in Int /\ c \in Sources
      BY AmountTyped, TypedIsData DEF Sources
    <2> QED
      BY <1>2, <1>5, <2>1
  <1> QED
    BY <1>3, <1>4, <1>5, WhoAsks

\* What a step that adds an order to a history is in RemoteControl.
LEMMA AskStep ==
  ASSUME TypeOK, NEW s \in Sources, NEW order \in Orders,
         asked' = [asked EXCEPT ![s] = Append(@, order)], UNCHANGED <<done, robot>>
  PROVE  Remote!Ask(s)
PROOF
  <1> DEFINE old == [t \in Sources |-> TasksOf(asked[t])]
             new == [t \in Sources |-> TasksOf(asked'[t])]
  <1>1. new = [old EXCEPT ![s] = Append(@, Task(order))]
    BY TaskStep
  <1>2. old[s] \in Seq(Tasks) /\ Task(order) \in Tasks
    BY TaskHistory, TaskIsTask DEF TypeOK
  <1>3. new[s] = Append(old[s], Task(order))
    BY <1>1
  <1>4. PICK last : last = Task(order)
    OBVIOUS
  <1> HIDE DEF old, new
  <1>5. /\ new[s] # << >> /\ new[s][Len(new[s])] = last
        /\ last \in Tasks /\ new = [old EXCEPT ![s] = Append(@, last)]
    BY <1>1, <1>2, <1>3, <1>4
  <1>6. UNCHANGED <<done, Task(robot)>>
    BY DEF Task
  <1> QED
    BY <1>5, <1>6 DEF Remote!Ask, old, new

\* A packet executed is a step of RemoteControl.
LEMMA ExecuteStep ==
  ASSUME IInv, AskedFit, HandleCommand
  PROVE  \E s \in Sources : Remote!Execute(s)
PROOF
  <1>1. PICK packet : packet = Head(uart)
    OBVIOUS
  <1>2. /\ uart # << >> /\ UNCHANGED asked
        /\ robot' = [command |-> packet.command, amount |-> packet.amount,
                     speed |-> packet.speed]
        /\ done' = [done EXCEPT ![packet.from] = Append(@, packet.n)]
    BY <1>1 DEF HandleCommand, FirmwareFrame
  <1>3. packet \in Packets /\ PacketFits(packet)
    <2>1. packet = uart[1] /\ 1 \in 1 .. Len(uart) /\ uart[1] \in Packets
      BY <1>1, <1>2 DEF IInv, TypeOK
    <2> QED
      BY <2>1 DEF IInv, PacketsFit
  <1>4. PICK s \in Sources : s = packet.from
    BY <1>3 DEF Packets
  <1>5. PICK n \in 1 .. Len(asked[s]) : n = packet.n
    BY <1>3, <1>4 DEF PacketFits
  <1>6. asked[s] \in Seq(Orders)
    BY DEF IInv, TypeOK
  <1>7. TasksOf(asked[s])[n] = Task(asked[s][n]) /\ Len(TasksOf(asked[s])) = Len(asked[s])
    BY <1>6, TaskHistory
  <1>8. Task(robot)' = Task(asked[s][n])
    <2>1. asked[s][n].command = packet.command
      BY <1>3, <1>4, <1>5 DEF PacketFits
    <2>2. asked[s][n].amount = packet.amount
      <3>1. packet.amount = asked[s][n].amount % Word
        BY <1>3, <1>4, <1>5 DEF PacketFits
      <3>2. asked[s][n].amount \in 0 .. Word - 1
        BY DEF AskedFit
      <3> QED
        BY <3>1, <3>2, Words
    <2> QED
      BY <1>2, <2>1, <2>2 DEF Task
  <1>9. \A k \in 1 .. Len(done[s]) : done[s][k] < n
    BY <1>3, <1>4, <1>5 DEF PacketFits
  <1>10. done' = [done EXCEPT ![s] = Append(@, n)]
    BY <1>2, <1>4, <1>5
  <1>11. [t \in Sources |-> TasksOf(asked'[t])] = [t \in Sources |-> TasksOf(asked[t])]
    BY <1>2
  <1> QED
    BY <1>7, <1>8, <1>9, <1>10, <1>11 DEF Remote!Execute

\* Whoever starts has executed nothing, here and in RemoteControl.
LEMMA RemoteInit == Init => Remote!Init
PROOF
  <1> SUFFICES ASSUME Init PROVE Remote!Init
    OBVIOUS
  <1>1. \A s \in Sources : TasksOf(asked[s]) = << >>
    <2>1. TasksOf(<< >>) = << >>
      BY DEF TasksOf
    <2> QED
      BY <2>1 DEF Init
  <1>2. Task(robot) = Task(NoOrder)
    BY DEF Init, Task
  <1>3. [s \in Sources |-> TasksOf(asked[s])] = [s \in Sources |-> << >>]
    BY <1>1
  <1>4. done = [s \in Sources |-> << >>]
    BY DEF Init
  <1> QED
    BY <1>2, <1>3, <1>4 DEF Remote!Init

LEMMA RemoteStep == IInv /\ AskedFit /\ [Next]_vars => [Remote!Next]_(Remote!vars)
PROOF
  <1> SUFFICES ASSUME IInv, AskedFit, [Next]_vars
               PROVE  Remote!Next \/ UNCHANGED Remote!vars
    OBVIOUS
  <1>1. TypeOK
    BY DEF IInv
  <1>2. ASSUME UNCHANGED <<asked, done, robot>> PROVE UNCHANGED Remote!vars
    BY <1>2 DEF Remote!vars, Task
  <1>3. CASE SendHello
    <2>1. PICK command \in Garbage :
            asked' = [asked EXCEPT ![SERVER] =
                        Append(@, [command |-> command, amount |-> 0, speed |-> 0])]
      BY <1>3 DEF SendHello
    <2>2. [command |-> command, amount |-> 0, speed |-> 0] \in Orders /\ SERVER \in Sources
      BY CommandPathAssumption DEF Orders, Sources
    <2>3. UNCHANGED <<done, robot>>
      BY <1>3 DEF SendHello, ServerFrame, robotVars
    <2>4. Remote!Ask(SERVER)
      BY <1>1, <2>1, <2>2, <2>3, AskStep
    <2> QED
      BY <2>2, <2>4 DEF Remote!Next
  <1>4. ASSUME NEW c \in Clients, Press(c) PROVE Remote!Next
    <2>1. PICK typed \in Typed(c) : SendData(c, typed)
      BY <1>4 DEF Press
    <2>2. /\ typed.letter \in AllLetters /\ typed.amount \in Int /\ typed.speed \in Int
      BY <1>1, TypedIsData
    <2>3. Meaning[typed.letter] \in Commands \cup ClientOnly
      BY <2>2 DEF Meaning, AllLetters, Commands, Movements, ClientOnly
    <2>4. PICK order : order = [command |-> Meaning[typed.letter],
                                amount |-> typed.amount, speed |-> typed.speed]
      OBVIOUS
    <2>5. order \in Orders /\ c \in Sources
      BY <2>2, <2>3, <2>4 DEF Orders, Sources
    <2>6. asked' = [asked EXCEPT ![c] = Append(@, order)] /\ UNCHANGED <<done, robot>>
      BY <1>4, <2>1, <2>4 DEF SendData, Press, PressFrame, robotVars
    <2>7. Remote!Ask(c)
      BY <1>1, <2>5, <2>6, AskStep
    <2> QED
      BY <2>5, <2>7 DEF Remote!Next
  <1>5. CASE HandleCommand
    BY <1>5, ExecuteStep DEF Remote!Next
  <1>6. CASE StartSerial \/ CreateServer \/ MainReturns \/ Listen \/ Signal
    BY <1>2, <1>6 DEF StartSerial, CreateServer, MainReturns, Listen, Signal,
                      ServerFrame, robotVars
  <1>7. CASE \E c \in Clients : \/ Connect(c) \/ ChangeSpeeds(c)
                                \/ Worker(c) \/ WorkerLeaves(c)
    BY <1>2, <1>7 DEF Connect, ChangeSpeeds, PressFrame, Worker, WorkerReads, WorkerHandles,
                      WorkerLeaves, WorkerFrame, robotVars
  <1>8. CASE LoseBytes \/ Discard
    BY <1>2, <1>8 DEF LoseBytes, Discard, FirmwareFrame, robotVars
  <1>9. CASE UNCHANGED vars
    BY <1>2, <1>9 DEF vars, robotVars
  <1> QED
    BY <1>3, <1>4, <1>5, <1>6, <1>7, <1>8, <1>9 DEF Next, Main, Firmware

\* The path from the keys to the robot keeps the promise of RemoteControl, if
\* no amount is less than 0 or too large for an unsigned int: for any number of
\* clients, workers and keys, and whatever the line loses, what the robot
\* executes was asked for, is the command meant by the key pressed with the
\* amount typed, and comes in its client's order, never twice.
THEOREM Implementation == AmountsFit => (Spec => ImplementsRemoteControl)
PROOF
  <1> SUFFICES ASSUME AmountsFit PROVE Spec => ImplementsRemoteControl
    OBVIOUS
  <1>1. Init => Remote!Init
    BY RemoteInit
  <1>2. Init => AskedFit
    <2>1. \A S : \A n \in 1 .. Len(<< >>) : FALSE
      OBVIOUS
    <2> QED
      BY <2>1 DEF Init, AskedFit
  <1>3. TypeOK /\ AskedFit /\ [Next]_vars => AskedFit'
    BY AskedFitStep
  <1>4. IInv => TypeOK
    BY DEF IInv
  <1>5. IInv /\ AskedFit /\ [Next]_vars => [Remote!Next]_(Remote!vars)
    BY RemoteStep
  <1> QED
    BY <1>1, <1>2, <1>3, <1>4, <1>5, InvCorrect, PTL
    DEF Spec, ImplementsRemoteControl, Remote!Spec

-----------------------------------------------------------------------------
(***************************************************************************)
(* The power                                                               *)
(***************************************************************************)

\* Powers as they are kept, asked for and passed on are those of half an int.
PowersKept ==
  /\ \A c \in Clients : /\ residue[c] = 0
                        /\ \A k \in DOMAIN KeyLetter : speeds[c][k] \in 0 .. Half - 1
  /\ \A s \in Sources : \A n \in 1 .. Len(asked[s]) : asked[s][n].speed \in 0 .. Half - 1
  /\ \A i \in 1 .. Len(uart) : uart[i].speed \in 0 .. Half - 1

LEMMA PowersInit == PowersFit /\ Init => PowersKept
PROOF
  <1> SUFFICES ASSUME PowersFit, Init PROVE PowersKept
    OBVIOUS
  <1>1. \A S : \A n \in 1 .. Len(<< >>) : FALSE
    OBVIOUS
  <1>2. 40 \in 0 .. Half - 1 /\ 50 \in 0 .. Half - 1
    BY CommandPathAssumption DEF PowersFit
  <1>3. \A c \in Clients : \A k \in DOMAIN KeyLetter : speeds[c][k] \in {40, 50}
    BY DEF Init, KeyLetter
  <1> QED
    BY <1>1, <1>2, <1>3 DEF Init, PowersKept

\* Whatever way a power is typed.
LEMMA PowerTyped ==
  ASSUME PowersFit, PowersKept, NEW c \in Clients, NEW typed \in Typed(c)
  PROVE  typed.speed \in 0 .. Half - 1
PROOF
  <1>1. 0 \in 0 .. Half - 1
    BY CommandPathAssumption
  <1>2. CASE \E l \in {"l", "r"}, a \in Amounts, p \in Powers :
               typed = [letter |-> l, amount |-> ApproxAngle(p, a), speed |-> p]
    BY <1>2 DEF PowersFit
  <1>3. CASE \E k \in DOMAIN KeyLetter :
               typed = [letter |-> KeyLetter[k], amount |-> 0, speed |-> speeds[c][k]]
    BY <1>3 DEF PowersKept
  <1>4. CASE typed \in [letter : {"f", "b", "l", "r"}, amount : Amounts, speed : Powers]
    BY <1>4 DEF PowersFit
  <1>5. CASE typed \in [letter : {"s", "c", "g", "k", "K", "a"}, amount : {0}, speed : {0}]
    BY <1>1, <1>5
  <1> QED
    BY <1>2, <1>3, <1>4, <1>5 DEF Typed

LEMMA AskedPowers ==
  ASSUME PowersFit, TypeOK, PowersKept, [Next]_vars
  PROVE  \A s \in Sources : \A n \in 1 .. Len(asked'[s]) : asked'[s][n].speed \in 0 .. Half - 1
PROOF
  <1> DEFINE Goal == \A s \in Sources : \A n \in 1 .. Len(asked'[s]) :
                       asked'[s][n].speed \in 0 .. Half - 1
  <1> SUFFICES Goal
    OBVIOUS
  <1>1. \A t \in Sources : \A n \in 1 .. Len(asked[t]) : asked[t][n].amount \in Int
    <2>1. \A t \in Sources : asked[t] \in Seq(Orders)
      BY DEF TypeOK
    <2>2. \A t \in Sources : \A n \in 1 .. Len(asked[t]) : asked[t][n] \in Orders
      BY <2>1
    <2> QED
      BY <2>2 DEF Orders
  <1>2. ASSUME NEW s \in Sources, NEW order,
               asked' = [asked EXCEPT ![s] = Append(@, order)],
               order.amount \in Int, order.speed \in 0 .. Half - 1
        PROVE  Goal
    BY <1>1, <1>2, AllAsked DEF PowersKept
  <1>3. CASE UNCHANGED asked
    BY <1>3 DEF PowersKept
  <1>4. ASSUME NEW order, asked' = [asked EXCEPT ![SERVER] = Append(@, order)],
               order.amount = 0, order.speed = 0
        PROVE  Goal
    <2>1. SERVER \in Sources
      BY DEF Sources
    <2>2. order.amount \in Int /\ order.speed \in 0 .. Half - 1
      BY <1>4, CommandPathAssumption
    <2> QED
      BY <1>2, <1>4, <2>1, <2>2
  <1>5. ASSUME NEW c \in Clients, NEW typed \in Typed(c), NEW order,
               asked' = [asked EXCEPT ![c] = Append(@, order)],
               order.amount = typed.amount, order.speed = typed.speed
        PROVE  Goal
    <2>1. typed.amount \in Int /\ typed.speed \in 0 .. Half - 1 /\ c \in Sources
      BY PowerTyped, TypedIsData DEF Sources
    <2> QED
      BY <1>2, <1>5, <2>1
  <1> HIDE DEF Goal
  <1> QED
    BY <1>3, <1>4, <1>5, WhoAsks

\* Who writes to the line, and who takes from it.
LEMMA LinePowers ==
  ASSUME PowersFit, TypeOK, PowersKept, [Next]_vars
  PROVE  \A i \in 1 .. Len(uart') : uart'[i].speed \in 0 .. Half - 1
PROOF
  <1> DEFINE Goal == \A i \in 1 .. Len(uart') : uart'[i].speed \in 0 .. Half - 1
  <1> SUFFICES Goal
    OBVIOUS
  <1>1. CASE UNCHANGED uart
    BY <1>1 DEF PowersKept
  <1>2. ASSUME NEW packet \in Packets, uart' = Append(uart, packet),
               packet.speed \in 0 .. Half - 1
        PROVE  Goal
    <2>1. /\ Len(uart) \in Nat /\ Len(uart') = Len(uart) + 1
          /\ \A i \in 1 .. Len(uart) : uart'[i] = uart[i]
          /\ uart'[Len(uart) + 1] = packet
      BY <1>2, LineGrows
    <2>2. \A i \in 1 .. Len(uart') : i \in 1 .. Len(uart) \/ i = Len(uart) + 1
      BY <2>1
    <2> QED
      BY <1>2, <2>1, <2>2 DEF PowersKept
  <1>3. ASSUME uart # << >>, uart' = Tail(uart) PROVE Goal
    <2>1. /\ Len(uart) \in Nat \ {0} /\ Len(uart') = Len(uart) - 1
          /\ \A i \in 1 .. Len(uart') : uart'[i] = uart[i + 1]
      BY <1>3, LineShrinks
    <2>2. \A i \in 1 .. Len(uart') : i + 1 \in 1 .. Len(uart)
      BY <2>1
    <2> QED
      BY <2>1, <2>2 DEF PowersKept
  <1> HIDE DEF Goal
  <1>4. CASE SendHello
    <2>1. PICK command \in Garbage :
            UartSendPacket([command |-> command, amount |-> 0, speed |-> 0,
                            from |-> SERVER, n |-> Len(asked[SERVER]) + 1])
      BY <1>4 DEF SendHello
    <2>2. PICK packet : packet = [command |-> command, amount |-> 0, speed |-> 0,
                                  from |-> SERVER, n |-> Len(asked[SERVER]) + 1]
      OBVIOUS
    <2>3. packet \in Packets
      <3>1. Len(asked[SERVER]) + 1 \in Nat /\ SERVER \in Sources /\ 0 \in Int
        BY DEF TypeOK, Sources
      <3> QED
        BY <2>2, <3>1, Words, CommandPathAssumption DEF Packets
    <2>4. packet.speed \in 0 .. Half - 1
      BY <2>2, CommandPathAssumption
    <2>5. uart' = Append(uart, packet) \/ UNCHANGED uart
      BY <2>1, <2>2 DEF UartSendPacket
    <2> QED
      BY <1>1, <1>2, <2>3, <2>4, <2>5
  <1>5. ASSUME NEW c \in Clients, WorkerHandles(c) PROVE Goal
    <2>1. PICK packet : packet = CommandPacket(c)
      OBVIOUS
    <2>2. packet.speed \in 0 .. Half - 1
      <3>1. packet.speed = buffer[c].low + Half * residue[c] /\ residue[c] = 0
        BY <2>1 DEF CommandPacket, PowersKept
      <3>2. buffer[c].low \in 0 .. Half - 1
        BY DEF TypeOK, Messages
      <3>3. Half * 0 = 0
        BY CommandPathAssumption
      <3> QED
        BY <3>1, <3>2, <3>3, CommandPathAssumption
    <2>3. \/ UNCHANGED uart
          \/ uart' = Append(uart, packet) /\ buffer[c].letter \in DOMAIN ServerCommand
      BY <1>5, <2>1 DEF WorkerHandles, UartSendPacket
    <2> QED
      BY <1>1, <1>2, <2>1, <2>2, <2>3, PacketIsData
  <1>6. CASE LoseBytes \/ Firmware
    BY <1>3, <1>6 DEF LoseBytes, Firmware, Discard, HandleCommand
  <1>7. CASE StartSerial \/ CreateServer \/ MainReturns \/ Listen \/ Signal
    BY <1>1, <1>7 DEF StartSerial, CreateServer, MainReturns, Listen, Signal
  <1>8. CASE \E c \in Clients : \/ Connect(c) \/ Press(c) \/ ChangeSpeeds(c)
                                \/ WorkerReads(c) \/ WorkerLeaves(c)
    BY <1>1, <1>8 DEF Connect, Press, ChangeSpeeds, PressFrame, WorkerReads,
                      WorkerLeaves, lineVars
  <1>9. CASE UNCHANGED vars
    BY <1>1, <1>9 DEF vars, lineVars
  <1> QED
    BY <1>4, <1>5, <1>6, <1>7, <1>8, <1>9 DEF Next, Main, Worker

LEMMA PowersStep ==
  ASSUME PowersFit, TypeOK, PowersKept, [Next]_vars
  PROVE  PowersKept'
PROOF
  <1> DEFINE Kept == \A c \in Clients :
                       /\ residue'[c] = 0
                       /\ \A k \in DOMAIN KeyLetter : speeds'[c][k] \in 0 .. Half - 1
  <1>1. ASSUME UNCHANGED <<residue, speeds>> PROVE Kept
    BY <1>1 DEF PowersKept
  <1>2. ASSUME NEW c \in Clients, Connect(c) PROVE Kept
    <2>1. /\ \E r \in Residues : residue' = [residue EXCEPT ![c] = r]
          /\ UNCHANGED speeds
      BY <1>2 DEF Connect, clientVars
    <2>2. residue' = [residue EXCEPT ![c] = 0]
      BY <2>1 DEF PowersFit
    <2> QED
      BY <2>1, <2>2 DEF PowersKept, TypeOK
  <1>3. ASSUME NEW c \in Clients, ChangeSpeeds(c) PROVE Kept
    <2>1. PICK new \in [DOMAIN KeyLetter -> Powers] : speeds' = [speeds EXCEPT ![c] = new]
      BY <1>3 DEF ChangeSpeeds
    <2>2. UNCHANGED residue
      BY <1>3 DEF ChangeSpeeds, PressFrame, workerVars
    <2>3. \A k \in DOMAIN KeyLetter : new[k] \in 0 .. Half - 1
      BY DEF PowersFit
    <2>4. \A d \in Clients : speeds'[d] = IF d = c THEN new ELSE speeds[d]
      BY <2>1 DEF TypeOK
    <2> QED
      BY <2>2, <2>3, <2>4 DEF PowersKept
  <1> HIDE DEF Kept
  <1>4. Kept
    <2>1. CASE Main \/ Listen \/ Signal \/ LoseBytes \/ Firmware \/ UNCHANGED vars
      <3>1. UNCHANGED <<residue, speeds>>
        BY <2>1 DEF Main, StartSerial, CreateServer, SendHello, MainReturns, Listen, Signal,
           ServerFrame, LoseBytes, Firmware, Discard, HandleCommand, FirmwareFrame, vars,
           clientVars, workerVars
      <3> QED
        BY <1>1, <3>1
    <2>2. CASE \E c \in Clients : Press(c) \/ Worker(c) \/ WorkerLeaves(c)
      <3>1. UNCHANGED <<residue, speeds>>
        BY <2>2 DEF Press, PressFrame, Worker, WorkerReads, WorkerHandles, WorkerLeaves,
           WorkerFrame, workerVars
      <3> QED
        BY <1>1, <3>1
    <2> QED
      BY <1>2, <1>3, <2>1, <2>2 DEF Next
  <1> QED
    BY <1>4, AskedPowers, LinePowers DEF Kept, PowersKept

\* What is executed is the packet whose order says the same power.
LEMMA PowerStep ==
  ASSUME IInv, PowersKept, [Next]_vars, NEW s \in Sources, done'[s] # done[s]
  PROVE  robot'.speed = asked[s][done'[s][Len(done'[s])]].speed
PROOF
  <1>1. HandleCommand
    <2>1. CASE Main \/ Listen \/ Signal \/ LoseBytes \/ Discard \/ UNCHANGED vars
      BY <2>1 DEF Main, StartSerial, CreateServer, SendHello, MainReturns, Listen, Signal,
         ServerFrame, LoseBytes, Discard, vars, robotVars
    <2>2. CASE \E c \in Clients : \/ Connect(c) \/ Press(c) \/ ChangeSpeeds(c)
                                  \/ Worker(c) \/ WorkerLeaves(c)
      BY <2>2 DEF Connect, Press, ChangeSpeeds, PressFrame, Worker, WorkerReads,
         WorkerHandles, WorkerLeaves, WorkerFrame, robotVars
    <2> QED
      BY <2>1, <2>2 DEF Next, Firmware
  <1>2. PICK packet : packet = Head(uart)
    OBVIOUS
  <1>3. /\ uart # << >> /\ robot'.speed = packet.speed
        /\ done' = [done EXCEPT ![packet.from] = Append(@, packet.n)]
    BY <1>1, <1>2 DEF HandleCommand
  <1>4. /\ packet \in Packets /\ PacketFits(packet)
        /\ packet.speed \in 0 .. Half - 1
    <2>1. packet = uart[1] /\ 1 \in 1 .. Len(uart) /\ uart[1] \in Packets
      BY <1>2, <1>3 DEF IInv, TypeOK
    <2> QED
      BY <2>1 DEF IInv, PacketsFit, PowersKept
  <1>5. packet.from \in Sources /\ packet.n \in Nat
    BY <1>4 DEF Packets
  <1>6. s = packet.from
    BY <1>3, <1>5 DEF IInv, TypeOK
  <1>7. done'[s][Len(done'[s])] = packet.n
    <2>1. done[s] \in Seq(Nat) /\ done'[s] = Append(done[s], packet.n)
      BY <1>3, <1>6 DEF IInv, TypeOK
    <2> QED
      BY <1>5, <2>1
  <1>8. /\ asked[s][packet.n].speed % Half = packet.speed % Half
        /\ asked[s][packet.n].speed \in 0 .. Half - 1
    BY <1>4, <1>6 DEF PacketFits, PowersKept
  <1>9. asked[s][packet.n].speed = packet.speed
    BY <1>4, <1>8, CommandPathAssumption
  <1> QED
    BY <1>3, <1>7, <1>9

\* Were the two bytes behind a message 0 in every worker's buffer, as they would
\* have to be for powers of half an int, the robot would be given exactly the
\* power asked for, in every interleaving and whatever is lost: sendData()'s
\* sizeof is the only thing between the keyboard and PowerAsAsked.
THEOREM PowerKept == PowersFit => (Spec => PowerAsAsked)
PROOF
  <1> SUFFICES ASSUME PowersFit PROVE Spec => PowerAsAsked
    OBVIOUS
  <1>1. Init => PowersKept
    BY PowersInit
  <1>2. IInv /\ PowersKept /\ [Next]_vars => PowersKept'
    BY PowersStep DEF IInv
  <1>3. IInv /\ PowersKept /\ [Next]_vars
          => [\A s \in Sources :
                done'[s] # done[s]
                  => robot'.speed = asked[s][done'[s][Len(done'[s])]].speed]_vars
    BY PowerStep
  <1> QED
    BY <1>1, <1>2, <1>3, InvCorrect, PTL DEF Spec, PowerAsAsked

-----------------------------------------------------------------------------
(***************************************************************************)
(* Nothing lost, nothing skipped                                           *)
(***************************************************************************)

\* What holds before the port is opened and the listener begins, and while the
\* port is closed.
Early ==
  /\ main = "startSerial" =>
       ~port /\ \A c \in Clients : asked[c] = << >> /\ worker[c] = "none"
  /\ main \in {"startSerial", "createServer"} => listener = "none"

Closed == ~port => uart = << >> /\ \A s \in Sources : done[s] = << >>

\* Where an order can be: on the line, with the worker, on its way to the
\* worker; or it came after the server's end, and so after all that is on the
\* line or executed.
OnLine(c, m) == \E i \in 1 .. Len(uart) : uart[i].from = c /\ uart[i].n = m
AtWorker(c, m) == worker[c] = "handle" /\ buffer[c].n = m
Waiting(c, m) == \E i \in 1 .. Len(net[c]) : net[c][i].n = m
TooLate(c, m) ==
  /\ ~Alive
  /\ \A k \in 1 .. Len(done[c]) : done[c][k] < m
  /\ \A i \in 1 .. Len(uart) : uart[i].from = c => uart[i].n < m

Known(c, m) == asked[c][m].command \in Commands
Found(c, m) ==
  m \in Executed(c) \/ OnLine(c, m) \/ AtWorker(c, m) \/ Waiting(c, m) \/ TooLate(c, m)

\* Until the line loses something, each order that the server knows is found.
Traced ==
  cuts = 0 =>
    /\ aligned
    /\ port => \A c \in Clients : \A m \in 1 .. Len(asked[c]) : Known(c, m) => Found(c, m)

TraceInv == Early /\ Closed /\ Traced

\* What has been executed, by its place in the history.
LEMMA ExecutedPlace ==
  ASSUME TypeOK, NEW s \in Sources
  PROVE  \A m : m \in Executed(s) <=> \E k \in 1 .. Len(done[s]) : done[s][k] = m
PROOF
  <1>1. done[s] \in Seq(Nat)
    BY DEF TypeOK
  <1>2. DOMAIN done[s] = 1 .. Len(done[s])
    BY <1>1
  <1> QED
    BY <1>2 DEF Executed, Range

\* The invariants say that what is found on the way is newer than what has been
\* executed: older orders must have been executed before.
LEMMA TracedNoneSkipped == IInv /\ TraceInv => NoneSkipped
PROOF
  <1> SUFFICES ASSUME IInv, TraceInv, cuts = 0, NEW c \in Clients,
                      NEW n \in Executed(c), NEW m \in 1 .. Len(asked[c]),
                      m < n, Known(c, m)
               PROVE  m \in Executed(c)
    BY DEF NoneSkipped, Known
  <1>1. c \in Sources /\ TypeOK
    BY DEF Sources, IInv
  <1>2. PICK k \in 1 .. Len(done[c]) : done[c][k] = n
    BY <1>1, ExecutedPlace
  <1>3. n \in Nat /\ m \in Nat
    <2>1. done[c] \in Seq(Nat) /\ asked[c] \in Seq(Orders)
      BY <1>1 DEF TypeOK
    <2> QED
      BY <1>2, <2>1
  <1>4. port
    <2>1. Len(<< >>) = 0
      OBVIOUS
    <2> QED
      BY <1>1, <1>2, <2>1 DEF TraceInv, Closed
  <1>5. Found(c, m)
    BY <1>4 DEF TraceInv, Traced
  <1>6. ~OnLine(c, m)
    <2>1. ASSUME NEW i \in 1 .. Len(uart), uart[i].from = c PROVE n < uart[i].n
      BY <1>2, <2>1 DEF IInv, PacketsFit, PacketFits
    <2> QED
      BY <1>3, <2>1 DEF OnLine
  <1>7. ~AtWorker(c, m)
    <2>1. worker[c] = "handle" => n < buffer[c].n
      BY <1>2 DEF IInv, MessagesFit, Fits
    <2> QED
      BY <1>3, <2>1 DEF AtWorker
  <1>8. ~Waiting(c, m)
    <2>1. \A i \in 1 .. Len(net[c]) : n < net[c][i].n
      BY <1>2 DEF IInv, MessagesFit, Fits
    <2> QED
      BY <1>3, <2>1 DEF Waiting
  <1>9. ~TooLate(c, m)
    BY <1>2, <1>3 DEF TooLate
  <1> QED
    BY <1>5, <1>6, <1>7, <1>8, <1>9 DEF Found

\* Steps that move nothing along the way, after the port has been opened.
LEMMA QuietTrace ==
  ASSUME TypeOK, TraceInv, UNCHANGED <<Flow, port, cuts, aligned>>, Early',
         \A c \in Clients : worker[c] = "handle" => worker'[c] = "handle",
         Alive' => Alive
  PROVE  TraceInv'
PROOF
  <1>1. Closed'
    BY DEF TraceInv, Closed, Flow
  <1>2. ASSUME NEW c \in Clients, NEW m, Found(c, m) PROVE Found(c, m)'
    <2>1. Executed(c)' = Executed(c)
      BY DEF Executed, Flow
    <2>2. /\ OnLine(c, m) => OnLine(c, m)'
          /\ Waiting(c, m) => Waiting(c, m)'
      BY DEF OnLine, Waiting, Flow
    <2>3. AtWorker(c, m) => AtWorker(c, m)'
      BY DEF AtWorker, Flow
    <2>4. TooLate(c, m) => TooLate(c, m)'
      BY DEF TooLate, Flow
    <2> QED
      BY <1>2, <2>1, <2>2, <2>3, <2>4 DEF Found
  <1>3. \A c \in Clients : \A m \in 1 .. Len(asked[c]) : Known(c, m)' => Known(c, m)
    BY DEF Known, Flow
  <1>4. Traced'
    BY <1>2, <1>3 DEF TraceInv, Traced, Flow
  <1> QED
    BY <1>1, <1>4 DEF TraceInv

\* Who starts can have been asked nothing.
LEMMA StartTrace ==
  ASSUME TypeOK, TraceInv, StartSerial
  PROVE  TraceInv'
PROOF
  <1>1. /\ main = "startSerial" /\ main' = "createServer"
        /\ UNCHANGED <<uart, asked, listener, done, aligned, cuts>>
    BY DEF StartSerial, ServerFrame, robotVars
  <1>2. Early'
    BY <1>1 DEF TraceInv, Early
  <1>3. Closed'
    BY <1>1 DEF TraceInv, Early, Closed
  <1>4. Traced'
    <2>1. \A c \in Clients : Len(asked'[c]) = 0
      BY <1>1 DEF TraceInv, Early
    <2> QED
      BY <1>1, <2>1 DEF TraceInv, Traced
  <1> QED
    BY <1>2, <1>3, <1>4 DEF TraceInv

\* The HELLO packet is nobody else's order.
LEMMA HelloTrace ==
  ASSUME TypeOK, TraceInv, SendHello
  PROVE  TraceInv'
PROOF
  <1>1. PICK command \in Garbage :
          /\ UartSendPacket([command |-> command, amount |-> 0, speed |-> 0,
                             from |-> SERVER, n |-> Len(asked[SERVER]) + 1])
          /\ asked' = [asked EXCEPT ![SERVER] =
                         Append(@, [command |-> command, amount |-> 0, speed |-> 0])]
    BY DEF SendHello
  <1>2. /\ main = "sendHello" /\ main' = "serve"
        /\ UNCHANGED <<port, listener, net, worker, buffer, aligned, cuts, done>>
    BY DEF SendHello, ServerFrame, clientVars, workerVars, robotVars
  <1>3. PICK hello : hello = [command |-> command, amount |-> 0, speed |-> 0,
                              from |-> SERVER, n |-> Len(asked[SERVER]) + 1]
    OBVIOUS
  <1>4. uart' = IF port THEN Append(uart, hello) ELSE uart
    BY <1>1, <1>3 DEF UartSendPacket
  <1>5. \A c \in Clients : asked'[c] = asked[c]
    BY <1>1, CommandPathAssumption DEF TypeOK, Sources
  <1>6. Early' /\ Closed'
    BY <1>2, <1>4 DEF TraceInv, Early, Closed
  <1>7. \A i \in 1 .. Len(uart) : i \in 1 .. Len(uart') /\ uart'[i] = uart[i]
    <2>1. uart \in Seq(Packets) /\ Len(uart) \in Nat
      BY DEF TypeOK
    <2>2. CASE port
      BY <1>4, <2>1, <2>2
    <2>3. CASE ~port
      BY <1>4, <2>1, <2>3
    <2> QED
      BY <2>2, <2>3
  <1>8. ASSUME NEW c \in Clients, NEW m, Found(c, m) PROVE Found(c, m)'
    <2>1. Executed(c)' = Executed(c)
      BY <1>2 DEF Executed
    <2>2. OnLine(c, m) => OnLine(c, m)'
      BY <1>7 DEF OnLine
    <2>3. /\ Waiting(c, m) => Waiting(c, m)'
          /\ AtWorker(c, m) => AtWorker(c, m)'
      BY <1>2 DEF Waiting, AtWorker
    <2>4. ~TooLate(c, m)
      BY <1>2 DEF TooLate, Alive
    <2> QED
      BY <1>8, <2>1, <2>2, <2>3, <2>4 DEF Found
  <1>9. Traced'
    BY <1>2, <1>5, <1>8 DEF TraceInv, Traced, Known
  <1> QED
    BY <1>6, <1>9 DEF TraceInv

\* A new order is sent, or comes too late.
LEMMA PressTrace ==
  ASSUME IInv, TraceInv, NEW c \in Clients, Press(c)
  PROVE  TraceInv'
PROOF
  <1>1. PICK typed \in Typed(c) : SendData(c, typed)
    BY DEF Press
  <1> DEFINE n == Len(asked[c]) + 1
             message == [letter |-> typed.letter, amount |-> typed.amount,
                         low |-> LowHalf(typed.speed), n |-> n]
             order == [command |-> Meaning[typed.letter],
                       amount |-> typed.amount, speed |-> typed.speed]
  <1>2. /\ asked' = [asked EXCEPT ![c] = Append(@, order)]
        /\ net' = IF Alive THEN [net EXCEPT ![c] = Append(@, message)] ELSE net
        /\ worker[c] # "none"
        /\ UNCHANGED <<main, listener, port, worker, buffer, uart, aligned, cuts, done>>
        /\ c \in Sources /\ TypeOK
    BY <1>1 DEF SendData, Press, PressFrame, serverVars, workerVars, lineVars, robotVars,
                Sources, IInv
  <1>3. /\ Len(asked[c]) \in Nat /\ Len(asked'[c]) = n
        /\ \A m \in 1 .. Len(asked[c]) : asked'[c][m] = asked[c][m]
        /\ \A d \in Clients : d # c => asked'[d] = asked[d]
    <2>1. \A d \in Clients : d # c => asked'[d] = asked[d]
      BY <1>2 DEF TypeOK, Sources
    <2> QED
      BY <1>2, <2>1, Grows
  <1>4. PICK number, sent : number = n /\ sent = message /\ sent.n = number
    <2>1. message.n = n
      OBVIOUS
    <2> QED
      BY <2>1
  <1> HIDE DEF message, order, n
  <1>5. Len(asked[c]) \in Nat /\ number = Len(asked[c]) + 1 /\ Len(asked'[c]) = number
    BY <1>3, <1>4 DEF n
  <1>6. Early'
    BY <1>2 DEF TraceInv, Early
  <1>7. Closed'
    BY <1>2 DEF TraceInv, Closed
  <1>8. /\ Len(net[c]) \in Nat
        /\ \A d \in Clients : \A i \in 1 .. Len(net[d]) :
             i \in 1 .. Len(net'[d]) /\ net'[d][i] = net[d][i]
        /\ Alive => /\ Len(net[c]) + 1 \in 1 .. Len(net'[c])
                    /\ net'[c][Len(net[c]) + 1] = sent
    <2>1. net \in [Clients -> Seq(Messages)]
      BY <1>2 DEF TypeOK
    <2>2. Len(net[c]) \in Nat
      BY <2>1
    <2>3. CASE ~Alive
      BY <1>2, <2>2, <2>3
    <2>4. CASE Alive
      <3>1. net'[c] = Append(net[c], sent)
        BY <1>2, <1>4, <2>1, <2>4
      <3>2. \A d \in Clients : d # c => net'[d] = net[d]
        BY <1>2, <2>1, <2>4
      <3>3. /\ Len(net'[c]) = Len(net[c]) + 1
            /\ \A i \in 1 .. Len(net[c]) : net'[c][i] = net[c][i]
            /\ net'[c][Len(net[c]) + 1] = sent
        BY <2>1, <3>1
      <3> QED
        BY <2>2, <3>2, <3>3
    <2> QED
      BY <2>3, <2>4
  <1>9. ASSUME NEW d \in Clients, NEW m, Found(d, m) PROVE Found(d, m)'
    <2>1. Executed(d)' = Executed(d)
      BY <1>2 DEF Executed
    <2>2. /\ OnLine(d, m) => OnLine(d, m)'
          /\ AtWorker(d, m) => AtWorker(d, m)'
          /\ TooLate(d, m) => TooLate(d, m)'
      BY <1>2 DEF OnLine, AtWorker, TooLate, Alive
    <2>3. Waiting(d, m) => Waiting(d, m)'
      BY <1>8 DEF Waiting
    <2> QED
      BY <1>9, <2>1, <2>2, <2>3 DEF Found
  <1>10. Found(c, number)'
    <2>1. CASE Alive
      BY <1>4, <1>8, <2>1 DEF Found, Waiting
    <2>2. CASE ~Alive
      <3>1. \A k \in 1 .. Len(done[c]) : done[c][k] < number
        BY <1>2, <1>5 DEF IInv, DoneAsked
      <3>2. \A i \in 1 .. Len(uart) : uart[i].from = c => uart[i].n < number
        BY <1>5 DEF IInv, PacketsFit, PacketFits
      <3>3. TooLate(c, number)'
        BY <1>2, <2>2, <3>1, <3>2 DEF TooLate, Alive
      <3> QED
        BY <3>3 DEF Found
    <2> QED
      BY <2>1, <2>2
  <1>11. Traced'
    <2> SUFFICES ASSUME cuts = 0, port, NEW d \in Clients, NEW m \in 1 .. Len(asked'[d]),
                        Known(d, m)'
                 PROVE  Found(d, m)'
      BY <1>2 DEF TraceInv, Traced
    <2>1. CASE m \in 1 .. Len(asked[d])
      <3>1. asked'[d][m] = asked[d][m]
        BY <1>3, <2>1
      <3>2. Known(d, m)
        BY <3>1 DEF Known
      <3> QED
        BY <1>9, <2>1, <3>2 DEF TraceInv, Traced
    <2>2. CASE m \notin 1 .. Len(asked[d])
      <3>1. d = c /\ m = number
        BY <1>3, <1>5, <2>2
      <3> QED
        BY <1>10, <3>1
    <2> QED
      BY <2>1, <2>2
  <1> QED
    BY <1>6, <1>7, <1>11 DEF TraceInv

\* The worker takes the first of the messages that wait for it.
LEMMA ReadTrace ==
  ASSUME TypeOK, TraceInv, NEW c \in Clients, WorkerReads(c)
  PROVE  TraceInv'
PROOF
  <1>1. /\ Alive /\ worker[c] = "read" /\ net[c] # << >>
        /\ worker' = [worker EXCEPT ![c] = "handle"]
        /\ buffer' = [buffer EXCEPT ![c] = net[c][1]]
        /\ net' = [net EXCEPT ![c] = Tail(net[c])]
        /\ UNCHANGED <<main, listener, port, uart, asked, done, aligned, cuts>>
    BY DEF WorkerReads, WorkerFrame, FirstMessage, serverVars, robotVars, TypeOK
  <1>2. /\ \A d \in Clients : d # c => /\ net'[d] = net[d] /\ buffer'[d] = buffer[d]
                                      /\ worker'[d] = worker[d]
        /\ net'[c] = Tail(net[c]) /\ buffer'[c] = net[c][1] /\ worker'[c] = "handle"
    BY <1>1 DEF TypeOK
  <1>3. /\ Len(net[c]) \in Nat \ {0} /\ Len(net'[c]) = Len(net[c]) - 1
        /\ \A i \in 1 .. Len(net'[c]) : net'[c][i] = net[c][i + 1]
    <2>1. net[c] \in Seq(Messages) /\ net[c] # << >>
      BY <1>1 DEF TypeOK
    <2>2. \A s \in Seq(Messages) :
            s # << >> => /\ Len(s) \in Nat \ {0} /\ Len(Tail(s)) = Len(s) - 1
                         /\ \A i \in 1 .. Len(Tail(s)) : Tail(s)[i] = s[i + 1]
      OBVIOUS
    <2> QED
      BY <1>2, <2>1, <2>2
  <1>4. Early'
    BY <1>1, <1>2 DEF TraceInv, Early
  <1>5. Closed'
    BY <1>1 DEF TraceInv, Closed
  <1>6. ASSUME NEW d \in Clients, NEW m, Found(d, m) PROVE Found(d, m)'
    <2>1. Executed(d)' = Executed(d) /\ (OnLine(d, m) => OnLine(d, m)')
      BY <1>1 DEF Executed, OnLine
    <2>2. ~TooLate(d, m)
      BY <1>1 DEF TooLate
    <2>3. CASE d # c
      <3>1. /\ Waiting(d, m) => Waiting(d, m)'
            /\ AtWorker(d, m) => AtWorker(d, m)'
        BY <1>2, <2>3 DEF Waiting, AtWorker
      <3> QED
        BY <1>6, <2>1, <2>2, <3>1 DEF Found
    <2>4. CASE d = c
      <3>1. ~AtWorker(d, m)
        BY <1>1, <2>4 DEF AtWorker
      <3>2. ASSUME Waiting(c, m) PROVE Waiting(c, m)' \/ AtWorker(c, m)'
        <4>1. PICK i \in 1 .. Len(net[c]) : net[c][i].n = m
          BY <3>2 DEF Waiting
        <4>2. CASE i = 1
          BY <1>2, <4>1, <4>2 DEF AtWorker
        <4>3. CASE i # 1
          <5>1. i - 1 \in 1 .. Len(net'[c]) /\ net'[c][i - 1] = net[c][i]
            <6>1. i - 1 \in 1 .. Len(net'[c]) /\ (i - 1) + 1 = i
              BY <1>3, <4>3
            <6> QED
              BY <1>3, <6>1
          <5> QED
            BY <4>1, <5>1 DEF Waiting
        <4> QED
          BY <4>2, <4>3
      <3> QED
        BY <1>6, <2>1, <2>2, <2>4, <3>1, <3>2 DEF Found
    <2> QED
      BY <2>3, <2>4
  <1>7. Traced'
    BY <1>1, <1>6 DEF TraceInv, Traced, Known
  <1> QED
    BY <1>4, <1>5, <1>7 DEF TraceInv

\* The worker writes the packet of a message, or reports a letter that stands
\* for nothing it knows.
LEMMA HandleTrace ==
  ASSUME IInv, TraceInv, NEW c \in Clients, WorkerHandles(c)
  PROVE  TraceInv'
PROOF
  <1>1. /\ Alive /\ worker[c] = "handle" /\ worker' = [worker EXCEPT ![c] = "read"]
        /\ UNCHANGED <<main, listener, port, buffer, net, asked, done, aligned, cuts>>
        /\ uart' = IF buffer[c].letter \in DOMAIN ServerCommand /\ port
                     THEN Append(uart, CommandPacket(c)) ELSE uart
    BY DEF WorkerHandles, WorkerFrame, UartSendPacket, serverVars, robotVars
  <1>2. /\ worker'[c] = "read" /\ \A d \in Clients : d # c => worker'[d] = worker[d]
        /\ uart \in Seq(Packets) /\ Len(uart) \in Nat
    BY <1>1 DEF IInv, TypeOK
  <1>3. Early' /\ Closed'
    BY <1>1, <1>2 DEF TraceInv, Early, Closed
  <1>4. \A i \in 1 .. Len(uart) : i \in 1 .. Len(uart') /\ uart'[i] = uart[i]
    <2>1. CASE uart' = Append(uart, CommandPacket(c))
      BY <1>2, <2>1
    <2>2. CASE uart' = uart
      BY <2>2
    <2> QED
      BY <1>1, <2>1, <2>2
  <1>5. ASSUME port, NEW m, AtWorker(c, m), Known(c, m) PROVE OnLine(c, m)'
    <2>1. m = buffer[c].n /\ Fits(c, buffer[c])
      BY <1>1, <1>5 DEF AtWorker, IInv, MessagesFit
    <2>2. buffer[c].letter \in DOMAIN ServerCommand
      <3>1. Meaning[buffer[c].letter] \in Commands /\ buffer[c].letter \in AllLetters
        BY <1>5, <2>1 DEF Fits, Known
      <3>2. buffer[c].letter \notin {"k", "K", "a"}
        BY <3>1 DEF Meaning, Commands, Movements
      <3> QED
        BY <3>1, <3>2 DEF AllLetters, ServerCommand
    <2>3. PICK packet : packet = CommandPacket(c)
      OBVIOUS
    <2>4. packet.from = c /\ packet.n = m
      BY <2>1, <2>3 DEF CommandPacket
    <2>5. uart' = Append(uart, packet)
      BY <1>1, <1>5, <2>2, <2>3
    <2>6. Len(uart) + 1 \in 1 .. Len(uart') /\ uart'[Len(uart) + 1] = packet
      BY <1>2, <2>5
    <2> QED
      BY <2>4, <2>6 DEF OnLine
  <1>6. ASSUME port, NEW d \in Clients, NEW m, Known(d, m), Found(d, m)
        PROVE  Found(d, m)'
    <2>1. /\ Executed(d)' = Executed(d)
          /\ Waiting(d, m) => Waiting(d, m)'
      BY <1>1 DEF Executed, Waiting
    <2>2. OnLine(d, m) => OnLine(d, m)'
      BY <1>4 DEF OnLine
    <2>3. ~TooLate(d, m)
      BY <1>1 DEF TooLate
    <2>4. CASE d # c
      <3>1. AtWorker(d, m) => AtWorker(d, m)'
        BY <1>1, <1>2, <2>4 DEF AtWorker
      <3> QED
        BY <1>6, <2>1, <2>2, <2>3, <3>1 DEF Found
    <2>5. CASE d = c
      BY <1>5, <1>6, <2>1, <2>2, <2>3, <2>5 DEF Found
    <2> QED
      BY <2>4, <2>5
  <1>7. Traced'
    BY <1>1, <1>6 DEF TraceInv, Traced, Known
  <1> QED
    BY <1>3, <1>7 DEF TraceInv

\* The firmware executes the first packet on the line, or discards one whose
\* command it does not know.
LEMMA FirmwareTrace ==
  ASSUME IInv, TypeOK', TraceInv, Firmware
  PROVE  TraceInv'
PROOF
  <1>1. /\ uart # << >> /\ uart' = Tail(uart)
        /\ UNCHANGED <<main, listener, port, worker, buffer, net, asked, aligned, cuts>>
    BY DEF Firmware, Discard, HandleCommand, FirmwareFrame, serverVars, clientVars, workerVars
  <1>2. /\ Len(uart) \in Nat \ {0} /\ Len(uart') = Len(uart) - 1
        /\ \A i \in 1 .. Len(uart') : uart'[i] = uart[i + 1]
        /\ Head(uart) = uart[1] /\ uart[1] \in Packets
    BY <1>1, LineShrinks DEF IInv
  <1>3. \/ HandleCommand /\ done' = [done EXCEPT ![uart[1].from] = Append(@, uart[1].n)]
        \/ Discard /\ UNCHANGED done
    BY <1>2 DEF Firmware, Discard, HandleCommand, robotVars
  <1>4. Early'
    BY <1>1 DEF TraceInv, Early
  <1>5. Closed'
    BY <1>1 DEF TraceInv, Closed
  <1>6. uart[1].from \in Sources /\ uart[1].n \in Nat
    BY <1>2 DEF Packets
  <1>7. ASSUME NEW d \in Clients
        PROVE  /\ \A m : m \in Executed(d) => m \in Executed(d)'
               /\ HandleCommand /\ uart[1].from = d => uart[1].n \in Executed(d)'
               /\ \A k \in 1 .. Len(done'[d]) :
                    \/ k \in 1 .. Len(done[d]) /\ done'[d][k] = done[d][k]
                    \/ uart[1].from = d /\ done'[d][k] = uart[1].n
    <2>1. d \in Sources /\ done \in [Sources -> Seq(Nat)]
      BY DEF Sources, IInv, TypeOK
    <2>2. \A m : (m \in Executed(d) <=> \E k \in 1 .. Len(done[d]) : done[d][k] = m)
      BY <2>1, ExecutedPlace DEF IInv
    <2>3. \A m : (m \in Executed(d)' <=> \E k \in 1 .. Len(done'[d]) : done'[d][k] = m)
      <3>1. done'[d] \in Seq(Nat)
        BY <2>1 DEF TypeOK
      <3>2. DOMAIN done'[d] = 1 .. Len(done'[d])
        BY <3>1
      <3> QED
        BY <3>2 DEF Executed, Range
    <2>4. CASE done'[d] = done[d] /\ ~(HandleCommand /\ uart[1].from = d)
      BY <2>2, <2>3, <2>4
    <2>5. CASE done'[d] = Append(done[d], uart[1].n) /\ uart[1].from = d
      <3>1. done[d] \in Seq(Nat)
        BY <2>1
      <3>2. /\ Len(done[d]) \in Nat /\ Len(done'[d]) = Len(done[d]) + 1
            /\ \A k \in 1 .. Len(done[d]) : done'[d][k] = done[d][k]
            /\ done'[d][Len(done[d]) + 1] = uart[1].n
        BY <1>6, <2>5, <3>1
      <3>3. \A k \in 1 .. Len(done'[d]) :
              k \in 1 .. Len(done[d]) \/ done'[d][k] = uart[1].n
        BY <3>2
      <3>4. Len(done[d]) + 1 \in 1 .. Len(done'[d])
        BY <3>2
      <3>5. \A k \in 1 .. Len(done[d]) : k \in 1 .. Len(done'[d])
        BY <3>2
      <3> QED
        BY <2>2, <2>3, <2>5, <3>2, <3>3, <3>4, <3>5
    <2>6. CASE HandleCommand /\ done' = [done EXCEPT ![uart[1].from] = Append(@, uart[1].n)]
      BY <1>6, <2>1, <2>4, <2>5, <2>6
    <2>7. CASE Discard /\ UNCHANGED done
      <3>1. ~HandleCommand
        BY <2>7 DEF Discard, HandleCommand
      <3> QED
        BY <2>4, <2>7, <3>1
    <2> QED
      BY <1>3, <2>6, <2>7
  <1>8. ASSUME cuts = 0, Discard, NEW d \in Clients, uart[1].from = d
        PROVE  ~Known(d, uart[1].n)
    <2>1. uart[1].command = "UNKNOWN"
      BY <1>2, <1>8 DEF Discard, Intact, TraceInv, Traced
    <2>2. PacketFits(uart[1])
      <3>1. 1 \in 1 .. Len(uart)
        BY <1>2
      <3> QED
        BY <3>1 DEF IInv, PacketsFit
    <2>3. asked[d][uart[1].n].command = "UNKNOWN"
      BY <1>8, <2>1, <2>2 DEF PacketFits
    <2> QED
      BY <2>3 DEF Known, Commands, Movements
  <1>9. ASSUME cuts = 0, NEW d \in Clients, NEW m, Known(d, m), OnLine(d, m)
        PROVE  m \in Executed(d)' \/ OnLine(d, m)'
    <2>1. PICK i \in 1 .. Len(uart) : uart[i].from = d /\ uart[i].n = m
      BY <1>9 DEF OnLine
    <2>2. CASE i = 1
      BY <1>3, <1>7, <1>8, <1>9, <2>1, <2>2
    <2>3. CASE i # 1
      <3>1. i - 1 \in 1 .. Len(uart') /\ (i - 1) + 1 = i
        BY <1>2, <2>3
      <3>2. uart'[i - 1] = uart[i]
        BY <1>2, <3>1
      <3> QED
        BY <2>1, <3>1, <3>2 DEF OnLine
    <2> QED
      BY <2>2, <2>3
  <1>10. ASSUME NEW d \in Clients, NEW m, TooLate(d, m) PROVE TooLate(d, m)'
    <2>1. 1 \in 1 .. Len(uart)
      BY <1>2
    <2>2. \A k \in 1 .. Len(done'[d]) : done'[d][k] < m
      BY <1>7, <1>10, <2>1 DEF TooLate
    <2>3. \A i \in 1 .. Len(uart') : i + 1 \in 1 .. Len(uart) /\ uart'[i] = uart[i + 1]
      BY <1>2
    <2>4. \A i \in 1 .. Len(uart') : uart'[i].from = d => uart'[i].n < m
      BY <1>10, <2>3 DEF TooLate
    <2> QED
      BY <1>1, <1>10, <2>2, <2>4 DEF TooLate, Alive
  <1>11. ASSUME cuts = 0, NEW d \in Clients, NEW m, Known(d, m), Found(d, m)
         PROVE  Found(d, m)'
    <2>1. /\ Waiting(d, m) => Waiting(d, m)'
          /\ AtWorker(d, m) => AtWorker(d, m)'
      BY <1>1 DEF Waiting, AtWorker
    <2> QED
      BY <1>7, <1>9, <1>10, <1>11, <2>1 DEF Found
  <1>12. Traced'
    BY <1>1, <1>11 DEF TraceInv, Traced, Known
  <1> QED
    BY <1>4, <1>5, <1>12 DEF TraceInv

\* Bytes are lost: nothing is promised any more.
LEMMA LossTrace ==
  ASSUME TypeOK, TraceInv, LoseBytes
  PROVE  TraceInv'
PROOF
  <1>1. /\ uart # << >> /\ cuts' = cuts + 1 /\ cuts \in Nat
        /\ UNCHANGED <<main, listener, port, worker, asked>>
    BY CommandPathAssumption
    DEF LoseBytes, FirmwareFrame, serverVars, workerVars, TypeOK
  <1>2. Early' /\ Closed'
    BY <1>1 DEF TraceInv, Early, Closed
  <1>3. Traced'
    BY <1>1 DEF Traced
  <1> QED
    BY <1>2, <1>3 DEF TraceInv

LEMMA TraceStep == IInv /\ TypeOK' /\ TraceInv /\ [Next]_vars => TraceInv'
PROOF
  <1> SUFFICES ASSUME IInv, TypeOK', TraceInv, [Next]_vars PROVE TraceInv'
    OBVIOUS
  <1>1. TypeOK
    BY DEF IInv
  <1>2. CASE StartSerial
    BY <1>1, <1>2, StartTrace
  <1>3. CASE SendHello
    BY <1>1, <1>3, HelloTrace
  <1>4. CASE CreateServer \/ Listen \/ Signal \/ MainReturns
    <2>1. UNCHANGED <<Flow, worker, port, cuts, aligned>>
      BY <1>4 DEF CreateServer, Listen, Signal, MainReturns, ServerFrame,
                  clientVars, workerVars, robotVars, Flow
    <2>2. Early'
      BY <1>4, <2>1 DEF TraceInv, Early, CreateServer, Listen, Signal, MainReturns, Flow
    <2>3. Alive' => Alive
      BY <1>4 DEF CreateServer, Listen, Signal, MainReturns, Alive
    <2> QED
      BY <1>1, <2>1, <2>2, <2>3, QuietTrace
  <1>5. ASSUME NEW c \in Clients, Connect(c) \/ WorkerLeaves(c) PROVE TraceInv'
    <2>1. /\ UNCHANGED <<Flow, main, port, cuts, aligned>>
          /\ worker[c] # "handle" /\ \E w : worker' = [worker EXCEPT ![c] = w]
          /\ main # "startSerial" /\ (UNCHANGED listener \/ listener = "accept")
      <3>1. CASE Connect(c)
        BY <3>1 DEF Connect, Flow, clientVars, lineVars, robotVars, TraceInv, Early
      <3>2. CASE WorkerLeaves(c)
        BY <3>2 DEF WorkerLeaves, WorkerFrame, Flow, serverVars, robotVars, TraceInv, Early
      <3> QED
        BY <1>5, <3>1, <3>2
    <2>2. \A d \in Clients : worker[d] = "handle" => worker'[d] = "handle"
      BY <1>1, <2>1 DEF TypeOK
    <2>3. Early'
      BY <2>1 DEF TraceInv, Early
    <2> QED
      BY <1>1, <2>1, <2>2, <2>3, QuietTrace DEF Alive
  <1>6. ASSUME NEW c \in Clients, Press(c) PROVE TraceInv'
    BY <1>6, PressTrace
  <1>7. ASSUME NEW c \in Clients, ChangeSpeeds(c) PROVE TraceInv'
    <2>1. UNCHANGED <<Flow, main, listener, worker, port, cuts, aligned>>
      BY <1>7 DEF ChangeSpeeds, PressFrame, Flow, serverVars, workerVars, lineVars, robotVars
    <2>2. Early'
      BY <2>1 DEF TraceInv, Early, Flow
    <2> QED
      BY <1>1, <2>1, <2>2, QuietTrace DEF Alive
  <1>8. ASSUME NEW c \in Clients, WorkerReads(c) PROVE TraceInv'
    BY <1>1, <1>8, ReadTrace
  <1>9. ASSUME NEW c \in Clients, WorkerHandles(c) PROVE TraceInv'
    BY <1>9, HandleTrace
  <1>10. CASE LoseBytes
    BY <1>1, <1>10, LossTrace
  <1>11. CASE Firmware
    BY <1>11, FirmwareTrace
  <1>12. CASE UNCHANGED vars
    <2>1. UNCHANGED <<Flow, main, listener, worker, port, cuts, aligned>>
      BY <1>12 DEF vars, Flow, serverVars, clientVars, workerVars, lineVars, robotVars
    <2>2. Early'
      BY <2>1 DEF TraceInv, Early, Flow
    <2> QED
      BY <1>1, <2>1, <2>2, QuietTrace DEF Alive
  <1> QED
    BY <1>2, <1>3, <1>4, <1>5, <1>6, <1>7, <1>8, <1>9, <1>10, <1>11, <1>12
    DEF Next, Main, Worker

\* For any number of clients and keys: as long as the line has lost nothing, an
\* order that has been executed leaves none behind that its client gave before
\* and the server knows, in the worker's buffer, on the way to it or on the line.
THEOREM NothingSkipped == Spec => []NoneSkipped
PROOF
  <1>1. ASSUME Init PROVE TraceInv
    <2>1. Early /\ Closed
      BY <1>1 DEF Init, Early, Closed, Sources
    <2>2. Traced
      BY <1>1 DEF Init, Traced
    <2> QED
      BY <2>1, <2>2 DEF TraceInv
  <1>2. IInv /\ IInv' /\ TraceInv /\ [Next]_vars => TraceInv'
    BY TraceStep DEF IInv
  <1>3. IInv /\ TraceInv => NoneSkipped
    BY TracedNoneSkipped
  <1> QED
    BY <1>1, <1>2, <1>3, InvCorrect, PTL DEF Spec

=============================================================================
