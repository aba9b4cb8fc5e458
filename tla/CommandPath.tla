----------------------------- MODULE CommandPath -----------------------------
(***************************************************************************)
(* The way of a command, from a key of a client (tls-alex-client) through  *)
(* the worker that serves this client and the serial port                  *)
(* (tls-alex-server, serial) to loop() of the firmware, and the life of    *)
(* the server around it: its main, its listener and its end by a signal.   *)
(*                                                                         *)
(* A message of a client holds the low half of the speed only: sendData()  *)
(* sends the size of a pointer, 8 of 10 bytes.  The worker takes the high  *)
(* half from where the rest of the message would be in its buffer, which   *)
(* no read ever writes.                                                    *)
(*                                                                         *)
(* Messages and packets carry who asked (from) and the number of what was  *)
(* asked (n); no step looks at either.  The case of a letter is left out,  *)
(* but for k.                                                              *)
(***************************************************************************)
EXTENDS Integers, Sequences, FiniteSets, Functions

CONSTANTS
  Clients,
  SERVER,     \* the source of the HELLO packet
  Half,       \* values of half an int (2^16)
  Residues,   \* what bytes 8 and 9 of a worker's buffer may hold
  Letters,    \* letters the keys pressed send
  Amounts,    \* distances and angles that users type
  Powers,     \* powers that users type
  Garbage,    \* command fields that an uninitialised packet may hold
  MaxKeys,    \* bound: keys pressed, on all keyboards
  MaxCuts     \* bound: packets the line loses bytes of

Movements == {"FORWARD", "REVERSE", "TURN_LEFT", "TURN_RIGHT"}
Commands == Movements \cup {"STOP", "CLEAR_STATS", "GET_STATS"}

\* What only the help text of the client knows
ClientOnly == {"KILL", "UNKILL", "CLEAR_BUFFER"}
NoOrder == [command |-> "NONE", amount |-> 0, speed |-> 0]

ASSUME CommandPathAssumption ==
  /\ SERVER \notin Clients
  /\ Half \in Nat \ {0}
  /\ Residues \subseteq 0 .. Half - 1
  /\ Amounts \subseteq Int /\ Powers \subseteq Int
  /\ Garbage \subseteq Commands \cup {"UNKNOWN"}
  /\ MaxKeys \in Nat /\ MaxCuts \in Nat

Sources == Clients \cup {SERVER}

\* Values of an int (2^32)
Word == Half * Half

VARIABLES
  main,      \* where the server's main() is
  listener,  \* where its listener is
  exitFlag,  \* a signal has told the server to stop
  port,      \* the serial port is open
  speeds,    \* of each keyboard thread, by key
  keys,      \* keys pressed so far
  net,       \* messages of each client that its worker has not read
  worker,    \* where each client's worker is
  buffer,    \* the message it has read last
  residue,   \* bytes 8 and 9 of its buffer
  uart,      \* packets written to the serial port, on their way
  aligned,   \* the firmware cuts the stream where packets begin
  cuts,      \* packets bytes of which were lost
  robot,     \* the command executed last
  asked,     \* history: what each source has asked for, as asked
  done       \* history: the numbers of what has been executed, of each source

serverVars == <<main, listener, exitFlag, port>>
clientVars == <<speeds, keys, net>>
workerVars == <<worker, buffer, residue>>
lineVars == <<uart, aligned, cuts>>
robotVars == <<robot, done>>
vars == <<serverVars, clientVars, workerVars, lineVars, robotVars, asked>>

AllLetters == {"f", "b", "l", "r", "s", "c", "g", "k", "K", "a"}
Messages == [letter : AllLetters \cup {""}, amount : Int, low : 0 .. Half - 1, n : Nat]
Orders == [command : Commands \cup ClientOnly \cup {"UNKNOWN", "NONE"},
           amount : Int, speed : Int]
Packets == [command : Commands \cup {"UNKNOWN"}, amount : 0 .. Word - 1, speed : Int,
            from : Sources, n : Nat]

TypeOK ==
  /\ main \in {"startSerial", "createServer", "sendHello", "serve", "gone"}
  /\ listener \in {"none", "setup", "accept", "left"}
  /\ exitFlag \in BOOLEAN /\ port \in BOOLEAN
  /\ speeds \in [Clients -> [{"w", "a", "s", "d"} -> Int]]
  /\ keys \in 0 .. MaxKeys
  /\ net \in [Clients -> Seq(Messages)]
  /\ worker \in [Clients -> {"none", "read", "handle", "left"}]
  /\ buffer \in [Clients -> Messages]
  /\ residue \in [Clients -> Residues \cup {0}]
  /\ uart \in Seq(Packets)
  /\ aligned \in BOOLEAN
  /\ cuts \in 0 .. MaxCuts
  /\ robot \in Orders
  /\ asked \in [Sources -> Seq(Orders)]
  /\ done \in [Sources -> Seq(Nat)]

Init ==
  /\ main = "startSerial" /\ listener = "none" /\ exitFlag = FALSE /\ port = FALSE
  /\ speeds = [c \in Clients |->
                 [k \in {"w", "a", "s", "d"} |-> IF k \in {"w", "s"} THEN 40 ELSE 50]]
  /\ keys = 0
  /\ net = [c \in Clients |-> << >>]
  /\ worker = [c \in Clients |-> "none"]
  /\ buffer = [c \in Clients |-> [letter |-> "", amount |-> 0, low |-> 0, n |-> 0]]
  /\ residue = [c \in Clients |-> 0]
  /\ uart = << >> /\ aligned = TRUE /\ cuts = 0
  /\ robot = NoOrder
  /\ asked = [s \in Sources |-> << >>]
  /\ done = [s \in Sources |-> << >>]

Alive == main # "gone"

-----------------------------------------------------------------------------
(***************************************************************************)
(* main() of the server, its listener and its signal handlers              *)
(***************************************************************************)
ServerFrame == UNCHANGED <<clientVars, workerVars, aligned, cuts, robotVars>>

\* startSerial() succeeds or gives up; main() goes on in either case.
StartSerial ==
  /\ main = "startSerial" /\ main' = "createServer"
  /\ port' \in BOOLEAN
  /\ UNCHANGED <<listener, exitFlag, uart, asked>>
  /\ ServerFrame

CreateServer ==
  /\ main = "createServer" /\ main' = "sendHello"
  /\ listener' = "setup"
  /\ UNCHANGED <<exitFlag, port, uart, asked>>
  /\ ServerFrame

\* socket(), bind(), listen() and the keys; if one fails the process exits.
Listen ==
  /\ Alive /\ listener = "setup"
  /\ \/ listener' = "accept" /\ UNCHANGED main
     \/ main' = "gone" /\ UNCHANGED listener
  /\ UNCHANGED <<exitFlag, port, uart, asked>>
  /\ ServerFrame

\* serialWrite(): nothing happens while the port is not open.
UartSendPacket(packet) == uart' = IF port THEN Append(uart, packet) ELSE uart

\* The command of the HELLO packet is whatever the stack held.
SendHello ==
  /\ main = "sendHello" /\ main' = "serve"
  /\ \E command \in Garbage :
       /\ UartSendPacket([command |-> command, amount |-> 0, speed |-> 0,
                          from |-> SERVER, n |-> Len(asked[SERVER]) + 1])
       /\ asked' = [asked EXCEPT ![SERVER] =
                      Append(@, [command |-> command, amount |-> 0, speed |-> 0])]
  /\ UNCHANGED <<listener, exitFlag, port>>
  /\ ServerFrame

\* CTRL-C or SIGTERM.  The handlers are installed by createServer().
Signal ==
  /\ Alive /\ ~exitFlag
  /\ IF main \in {"startSerial", "createServer"}
       THEN main' = "gone" /\ UNCHANGED exitFlag
       ELSE exitFlag' = TRUE /\ UNCHANGED main
  /\ UNCHANGED <<listener, port, uart, asked>>
  /\ ServerFrame

\* server_is_running() looks at the flag; the listener may be waiting in accept().
MutantListenerRuns == listener # "left"
ServerIsRunning == ~exitFlag

MainReturns ==
  /\ main = "serve" /\ ~ServerIsRunning
  /\ main' = "gone"
  /\ UNCHANGED <<listener, exitFlag, port, uart, asked>>
  /\ ServerFrame

\* A client is accepted, and the listener looks at the flag again.
Connect(c) ==
  /\ Alive /\ listener = "accept" /\ worker[c] = "none"
  /\ worker' = [worker EXCEPT ![c] = "read"]
  /\ residue' \in {[residue EXCEPT ![c] = r] : r \in Residues}
  /\ listener' = IF exitFlag THEN "left" ELSE "accept"
  /\ UNCHANGED <<main, exitFlag, port, clientVars, buffer, lineVars, robotVars, asked>>

-----------------------------------------------------------------------------
(***************************************************************************)
(* The keyboard of a client                                                *)
(***************************************************************************)

\* The letters a key or the menu sends, and what the user is told they mean.
KeyLetter == [w |-> "f", a |-> "l", s |-> "b", d |-> "r"]
Meaning ==
  [f |-> "FORWARD", b |-> "REVERSE", l |-> "TURN_LEFT", r |-> "TURN_RIGHT",
   s |-> "STOP", c |-> "CLEAR_STATS", g |-> "GET_STATS",
   k |-> "KILL", K |-> "UNKILL", a |-> "CLEAR_BUFFER"]

\* angleConversion(): the rate is divided in integers.
Rate(speed) ==
  IF speed >= 90 THEN 3500 \div 360
  ELSE IF speed >= 80 THEN 4000 \div 360
  ELSE IF speed >= 70 THEN 5000 \div 360
  ELSE IF speed >= 60 THEN 6000 \div 360
  ELSE IF speed >= 0 THEN 20000 \div 360
  ELSE 0
ApproxAngle(speed, angle) == Rate(speed) * angle + 1000

\* What may be typed: w, a, s and d; W and S; A and D; the menu behind c; and
\* the keys k, K, l, g and any other.
Typed(c) ==
  {typed \in
       {[letter |-> KeyLetter[k], amount |-> 0, speed |-> speeds[c][k]] :
          k \in DOMAIN KeyLetter}
         \cup [letter : {"f", "b"}, amount : Amounts, speed : Powers]
         \cup {[letter |-> l, amount |-> ApproxAngle(p, a), speed |-> p] :
                 l \in {"l", "r"}, a \in Amounts, p \in Powers}
         \cup [letter : {"f", "b", "l", "r"}, amount : Amounts, speed : Powers]
         \cup [letter : {"s", "c", "g", "k", "K", "a"}, amount : {0}, speed : {0}] :
     typed.letter \in Letters}

\* sendData(): the low half of the speed is the end of what is sent.
MutantSignExtended(speed) ==
  IF speed % Half >= Half \div 2 THEN (speed % Half) - Half ELSE speed % Half
LowHalf(speed) == speed % Half

PressFrame == UNCHANGED <<serverVars, workerVars, lineVars, robotVars>>

SendData(c, typed) ==
  LET n == Len(asked[c]) + 1 IN
  /\ net' = IF Alive
              THEN [net EXCEPT ![c] =
                      Append(@, [letter |-> typed.letter, amount |-> typed.amount,
                                 low |-> LowHalf(typed.speed), n |-> n])]
              ELSE net
  /\ asked' = [asked EXCEPT ![c] =
                 Append(@, [command |-> Meaning[typed.letter],
                            amount |-> typed.amount, speed |-> typed.speed])]

Press(c) ==
  /\ worker[c] # "none" /\ keys < MaxKeys
  /\ keys' = keys + 1
  /\ \E typed \in Typed(c) : SendData(c, typed)
  /\ UNCHANGED speeds
  /\ PressFrame

\* The key p
ChangeSpeeds(c) ==
  /\ worker[c] # "none" /\ keys < MaxKeys
  /\ keys' = keys + 1
  /\ \E new \in [DOMAIN KeyLetter -> Powers] : speeds' = [speeds EXCEPT ![c] = new]
  /\ UNCHANGED <<net, asked>>
  /\ PressFrame

-----------------------------------------------------------------------------
(***************************************************************************)
(* The worker of a client                                                  *)
(***************************************************************************)
WorkerFrame ==
  Alive /\ UNCHANGED <<serverVars, speeds, keys, residue, aligned, cuts, robotVars, asked>>

\* sslRead() returns one message, eight bytes at the start of the buffer.
MutantReadLast(messages) == messages[Len(messages)]
FirstMessage(messages) == Head(messages)

WorkerReads(c) ==
  /\ worker[c] = "read" /\ net[c] # << >>
  /\ worker' = [worker EXCEPT ![c] = "handle"]
  /\ buffer' = [buffer EXCEPT ![c] = FirstMessage(net[c])]
  /\ net' = [net EXCEPT ![c] = Tail(@)]
  /\ UNCHANGED uart
  /\ WorkerFrame

\* handleCommand(): the letters it knows; others are reported on its terminal.
ServerCommand ==
  [f |-> "FORWARD", b |-> "REVERSE", l |-> "TURN_LEFT", r |-> "TURN_RIGHT",
   s |-> "STOP", c |-> "CLEAR_STATS", g |-> "GET_STATS"]

MutantRightForLeft(letter) ==
  IF letter = "l" THEN "TURN_RIGHT" ELSE ServerCommand[letter]
CommandOf(letter) == ServerCommand[letter]

\* The worker copies the amount, an int, into an unsigned one.
CommandPacket(c) ==
  LET message == buffer[c]
      command == CommandOf(message.letter)
  IN [command |-> command,
      amount |-> IF command = "CLEAR_STATS" THEN 0 ELSE message.amount % Word,
      speed |-> message.low + Half * residue[c],
      from |-> c, n |-> message.n]

WorkerHandles(c) ==
  /\ worker[c] = "handle"
  /\ worker' = [worker EXCEPT ![c] = "read"]
  /\ IF buffer[c].letter \in DOMAIN ServerCommand
       THEN UartSendPacket(CommandPacket(c)) ELSE UNCHANGED uart
  /\ UNCHANGED <<buffer, net>>
  /\ WorkerFrame

\* The client has gone, or networkActive has been cleared (AlexServer says by
\* whom): what the client has sent and will send stays unread.
WorkerLeaves(c) ==
  /\ worker[c] = "read"
  /\ worker' = [worker EXCEPT ![c] = "left"]
  /\ UNCHANGED <<buffer, net, uart>>
  /\ WorkerFrame

-----------------------------------------------------------------------------
(***************************************************************************)
(* The serial line and the firmware                                        *)
(***************************************************************************)
FirmwareFrame == UNCHANGED <<serverVars, clientVars, workerVars, asked>>

\* Some of a packet's bytes fit nowhere (SerialLink says when).  Its frame is
\* damaged, and so is every later one until the bytes lost make up a packet.
LoseBytes ==
  /\ uart # << >> /\ cuts < MaxCuts
  /\ uart' = Tail(uart)
  /\ cuts' = cuts + 1
  /\ aligned' \in BOOLEAN
  /\ UNCHANGED robotVars
  /\ FirmwareFrame

\* loop(): a damaged frame and an unknown command are answered by an error.
Intact == aligned /\ Head(uart).command # "UNKNOWN"

Discard ==
  /\ uart # << >> /\ ~Intact
  /\ uart' = Tail(uart)
  /\ UNCHANGED <<aligned, cuts, robotVars>>
  /\ FirmwareFrame

HandleCommand ==
  /\ uart # << >> /\ Intact
  /\ uart' = Tail(uart)
  /\ LET packet == Head(uart) IN
       /\ robot' = [command |-> packet.command, amount |-> packet.amount,
                    speed |-> packet.speed]
       /\ done' = [done EXCEPT ![packet.from] = Append(@, packet.n)]
  /\ UNCHANGED <<aligned, cuts>>
  /\ FirmwareFrame

-----------------------------------------------------------------------------
Main == StartSerial \/ CreateServer \/ SendHello \/ MainReturns
Worker(c) == WorkerReads(c) \/ WorkerHandles(c)
Firmware == Discard \/ HandleCommand

Next ==
  \/ Main \/ Listen \/ Signal
  \/ \E c \in Clients :
       Connect(c) \/ Press(c) \/ ChangeSpeeds(c) \/ Worker(c) \/ WorkerLeaves(c)
  \/ LoseBytes \/ Firmware

Spec == Init /\ [][Next]_vars

\* The threads of the server and loop() run; users, signals and faults owe
\* nothing.
FairSpec ==
  /\ Spec
  /\ WF_vars(Main)
  /\ WF_vars(Listen)
  /\ \A c \in Clients : WF_vars(Worker(c))
  /\ WF_vars(Firmware)

-----------------------------------------------------------------------------
(***************************************************************************)
(* Properties                                                              *)
(***************************************************************************)

\* An order without its speed: what to do and how far.
Task(order) == [command |-> order.command, amount |-> order.amount]
TasksOf(orders) == [i \in 1 .. Len(orders) |-> Task(orders[i])]
Tasks == [command : Commands \cup ClientOnly \cup {"UNKNOWN", "NONE"}, amount : Int]

Remote == INSTANCE RemoteControl WITH
  Orders <- Tasks,
  NoOrder <- Task(NoOrder),
  asked <- [s \in Sources |-> TasksOf(asked[s])],
  robot <- Task(robot)

\* The robot executes nothing but what it was asked for, each source's orders
\* in the order asked and none twice, and does what was meant by the key as far
\* as was typed: the letters, tables, buffers and integers of three programs
\* agree on command and amount, whatever interleaving, loss or early end of a
\* worker.  The power it does it with is not part of this (PowerAsAsked).
ImplementsRemoteControl == Remote!Spec

\* It is implemented as long as what the programs make of the numbers typed
\* is no less than 0 and fits an unsigned int.
AmountsFit ==
  /\ Amounts \subseteq 0 .. Word - 1
  /\ \A p \in Powers, a \in Amounts : ApproxAngle(p, a) \in 0 .. Word - 1

\* An order is executed with the power that was asked for: "power in %", say
\* the client's prompt and the firmware's handleCommand().
PowerAsAsked ==
  [][\A s \in Sources :
       done'[s] # done[s] => robot'.speed = asked[s][done'[s][Len(done'[s])]].speed]_vars

\* What this would take: powers of half an int, and a worker's buffer in which
\* the bytes behind the message are 0.
PowersFit ==
  /\ Half > 50 /\ Powers \subseteq 0 .. Half - 1
  /\ Residues \subseteq {0}

\* The orders of a source that have been executed.
Executed(s) == Range(done[s])

\* As long as the line has lost nothing, the orders of a client that have been
\* executed have no gap but for the keys the robot has no command for (see
\* KeysObeyed): no order is forgotten on the way while a later one gets
\* through, whichever interleaving of keyboard, worker and firmware, and
\* however either ends.
NoneSkipped ==
  cuts = 0 =>
    \A c \in Clients : \A n \in Executed(c), m \in 1 .. Len(asked[c]) :
      m < n /\ asked[c][m].command \in Commands => m \in Executed(c)

\* An order the robot has a command for is executed in the end, unless the line loses
\* bytes, the worker leaves, the server ends or the port could not be opened.
Undisturbed(c) == cuts = 0 /\ worker[c] # "left" /\ Alive /\ port
OrdersExecuted ==
  \A c \in Clients, n \in 1 .. MaxKeys :
    n <= Len(asked[c]) /\ asked[c][n].command \in Commands
      ~> n \in Executed(c) \/ ~Undisturbed(c)

\* Every key does what the client's help text says of it, under the same
\* conditions: "k=kill, K=unkill, l=clearSerializeBuffer" as well.
KeysObeyed ==
  \A c \in Clients, n \in 1 .. MaxKeys :
    n <= Len(asked[c]) ~> n \in Executed(c) \/ ~Undisturbed(c)

\* Once told to stop the server ends, whatever its threads are doing.
SignalEnds == exitFlag ~> main = "gone"

=============================================================================
