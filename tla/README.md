# Alex, the remote-controlled robot: a TLA+ verification project

The repository holds the programs of *Alex*, a four-wheeled robot: a client on a
PC (`src/client_pc`), a server on the Raspberry Pi the robot carries
(`src/server_rpi`), and the firmware of its Arduino (`src/arduino/Alex`). This
directory models what these programs do to their state, checks the models with
TLC and proves theorems about them with TLAPS.

    keyboard --> client --TLS--> server --UART--> firmware --> motors
                 (PC)            (Raspberry Pi)   (Arduino)  <-- wheel encoders
             <-- replies <------ replies <------- replies

## 1. Inventory

| component | source | state | operations |
|---|---|---|---|
| packet framing | `serialize.cpp` (two equal copies; the Arduino has it as a library) | the statics of `assemble`: `counter`, `leftoverFlag`, `leftoverCount`, `leftoverBuffer`; `_privateBuffer` | `serialize`, `deserialize` |
| motion control | `5_arduino_main.ino`, `0_motor.ino`, `1_comms_format.ino`, `2_encoder.ino`, `3_arduino_interrupts.ino`, `6_robotlib.ino` | `dir`, the tick and turn counters, `forwardDist`, `reverseDist`, the two targets and their deltas, the motors | `loop`, `handleCommand` and its handlers, `leftISR`, `rightISR` |
| server | `tls-alex-server.cpp`, `make_tls_server.cpp`, `tls_server_lib.cpp`, `tls_common_lib.cpp` | `networkActive`, `tls_conn`, one SSL session for each client, the backlog | listener thread, one worker thread for each client, UART receive thread |
| client | `tls-alex-client.cpp`, `make_tls_client.cpp` | `networkActive`, `_exitFlag`, one SSL session | keyboard thread, reader thread, client loop, main |
| command path | `sendData`, `handleCommand` (server), `handleCommand` (firmware) | the ten bytes of a command and what they become | encode, forward, execute |
| serial port | `serial.cpp` (two equal copies), `4_arduino_serial.ino`, the `send...` functions and `dbprintf` | the port's descriptor; on the Arduino the receive ring (63 bytes of use) and the packet being written | open with retries, read, write, write from an interrupt |
| local control program | `local_run/alex-pi.cpp` | where `main` is, the port, what the receive thread has read | open, reboot, HELLO, send a command, receive, quit |
| OpenSSL locking callbacks | `tls_pthread.cpp` | an array of mutexes | lock, unlock |
| echo programs, samples | `test_tls_*.cpp`, `keyboard_control_sample.cpp` | none of the robot's | none of the robot's |

How they interact: the keyboard thread sends a command over TLS; the worker of
that client turns it into a 140-byte packet on the UART; `loop()` reads the port,
puts packets together, runs the handler and replies; the receive thread of the
server puts the replies together and writes them to `tls_conn`, the session that
sent a command last. In the firmware the two encoder interrupts share the
counters, and the serial port, with `loop()`; in the server all threads share
`networkActive` and `tls_conn`, with no lock anywhere. `alex-pi` is a second way
to drive the robot, from the Pi's own terminal, without a network.

What is hard to get right, and to test (all of it is in `hazards` of
`PROJECT.json`, each entry at its line):

* framing: any cut of the byte stream into reads; packets that end and begin in
  the same read; a lost byte.
* motion: interrupts between any two accesses to a counter, loads of 32-bit
  counters on an 8-bit processor, commands that replace each other half-way,
  counters shared by turns and straight moves, integer arithmetic of the target.
* server: threads that test a shared flag or pointer another thread changes,
  sessions freed while in use, clients that stay silent or leave.
* client and command path: three threads that each free the same session; a
  command sent without its last two bytes; keys nobody understands; packets of
  several workers on one serial line.
* serial port: a receive ring smaller than a packet, which nobody empties while
  a reply is written; packets sent inside an interrupt, in the middle of another
  packet and with interrupts off; an attempt to open that fails.

What makes each component correct:

* framing: the caller gets the packets of the stream, each once, in order, as
  soon as its last byte has been read.
* motion: a movement ends by itself, at the commanded distance or angle, whatever
  came before it.
* server: replies go to a live session; a client is served until it leaves, then
  everything it held is released; clients do not disturb each other.
* client: a command is sent or reported as not sent; the program ends when the
  server goes or the user says so; the session is freed once.
* command path: the motors do what the key says, in the order of the keys, each
  once.
* serial port and local control: a packet disturbed or lost does not harm the
  ones after it; a command is executed once, in order, and answered.

## 2. Modules

### Framing (`Framing`, abstract `PacketStream`, proofs `FramingProofs`)

`PacketStream` is the promise of the packet layer: a stream of numbered bytes is
cut every `PacketSize` bytes, and the read that brings the last byte of a packet
judges it (bad magic number, bad checksum, or handed over). `Framing` is
`deserialize()` and `assemble()` as written, with their static variables, both
buffers as functions on slots and the copy loops as the functions they leave
behind. A byte is its position in the stream, so a wrong offset, a lost or a
repeated byte is visible in the buffers; the contents of the stream are two sets
of positions (`Magic`, `Sound`). `received` and `framed` are history variables,
and they are the ones `PacketStream` has under the same names, so the refinement
mapping is the identity: `Stream == INSTANCE PacketStream`, checked and proved as
`ImplementsPacketStream`.

Left out: the arithmetic of the checksum (two mixed packets are taken to fail
it) and the length of the data (always `sizeof(TPacket)`). Of `serialize()` only
the length it returns matters to anybody; it is `SerialLink!Length`.

### Motion control (`Motion`, TLC sets in `MCMotion`, proofs `MotionProofs`, `OdometerProofs`)

`loop()` is one sequential process whose location `pc` stops wherever an
interrupt can tell the difference:

| action | code |
|---|---|
| `ReadNothing`, `HandleCommand` | the first half of `loop()`, up to the first access to a shared counter; one disjunct for each handler |
| `LoadTarget`, `SetTarget` | `newDist = forwardDist + deltaDist`, `targetTicks = ...Turns + deltaTicks`: the load of the counter in two steps |
| `SetDir`, `Move` | the assignment to `dir`, then the motors |
| `HandleClear`, `ClearRest` | `clearCounters()`, ticks first |
| `CheckDist`, `CompareDist`, `CheckTurn`, `CompareTurn` | the second half of `loop()`, each comparison after its load |
| `Edge` | `leftISR`, `rightISR`: atomic, at any time a wheel turns |

A load of an `unsigned long` takes its low byte first and the rest later: an edge
in between gives a torn value (`Loaded`). `dir` stays as it was when the motors
stop, as in `stop()`. After the motors are cut off a wheel gives up to `MaxCoast`
more edges. The encoder arithmetic is the code's, in integers: `Dist` (whole
centimetres of 5.18375 cm an edge), `DeltaTicks` (whole ticks of 19.76 degrees),
`Pwm` (the low byte of `speed/100.0 * 255`). `moved` counts the edges of a wheel
since the base of the target was read (or the counters were cleared): the
properties compare it with what the firmware believes.

Left out: replies and debug packets (they are in `SerialLink`) and the edges that
are lost while an interrupt sends one; counters past 2^32 (arguments are such that
sums stay below it); a speed that does not turn the wheels; `packetType`, which
`loop()` does not look at.

### Server (`AlexServer`, proofs `AlexServerProofs`)

One step for each access to shared state, of four kinds of process: the clients
(connect, send, fall silent, close), the listener (`Accept`, `Spawn`,
`HandshakeFails`; `SSL_accept()` has no timeout, so neither of the last two
happens with a client that says nothing and does not close), a worker for each
client (`worker[c]` is its location), and the UART receive thread, from
`handleUARTPacket` down to `sendNetworkData` (`uart` is its location). A client
stands for its connection and for the session made for it; `ssl[c]` says whether
that session lives. The local `c` of `sendNetworkData` is uninitialised when
`tls_conn` is `NULL`: `ChecksConn` lets it have any value. A write to a session
that is closed or freed fails, or kills the process (`crashed`): `SIGPIPE` is not
ignored, and using a freed session is undefined. A write through `NULL`
(`tls_conn` reset between the test and the load; the program is compiled without
optimisation, so it is loaded twice) kills it.

Left out: what a command says and shutdown by a signal (both are in
`CommandPath`), a client that connects twice (it is a second client), the
descriptors of the sockets, a full backlog.

### Client (`AlexClient`, proofs `AlexClientProofs`)

Client loop (`clientLoop`), keyboard thread (`keyboard`), reader thread
(`reader`), `main` (`MainReturns` ends the process and with it every thread) and
the handler of `CTRL-C` (`Interrupt`), one step for each access to
`networkActive`, `_exitFlag` and the session; `signalled` remembers that a signal
was one of the reasons to end. A key either leads to `sendData()`, or to nothing,
or is `x`; what it says is in `CommandPath`. `sendData()` drops a command without
a word when `networkActive` is down (`dropped`); the reader reads the flag again
between assigning it and handling what it read (`Handles`), so the race with the
keyboard's assignment is in the model. `ReadsFreed` is the reader's call with a
session that the keyboard thread has freed: it may return anything, kill the
process, or not return.

The key `x` ends the keyboard thread and frees the session, and nothing else: the
call to `stopClient()` in it is commented out (`ExitKey`, `KeyboardExits`).

The client loop first makes the session (`Connects`) or ends the process
(`ConnectFails`; an unknown host is reported by freeing a session that was never
made, so the process may also crash), then creates the keyboard thread and the
reader thread, in this order: the first may be through with its work, session
included, when the second starts.

Left out: the terminal's settings, what is printed, and the branch for a server
certificate that is not valid (`make_tls_client.cpp:130`): the context verifies
the server, so such a handshake has failed before.

### Command path (`CommandPath`, abstract `RemoteControl`, proofs `CommandPathProofs`)

`RemoteControl` is what a user may rely on: each source of orders has asked for a
sequence of them; the robot executes only orders that were asked for, those of one
source in the order asked and none twice. Some may get lost, and the orders of two
sources mix. What was executed is a sequence for each source (`done`), so that an
order executed twice in a row is a step, and a forbidden one. `CommandPath` is the
three programs that have to keep this promise:

| action | code |
|---|---|
| `StartSerial`, `CreateServer`, `SendHello`, `MainReturns` | `main()` of the server, from `startSerial()`, whose failure it ignores, to the test of `server_is_running()` |
| `Listen`, `Connect` | `serverThread()`: set up (or `exit()`), accept, spawn a worker, look at `_exitFlag` |
| `Signal` | the handlers of `CTRL-C` and `SIGTERM`; before `createServer()` installs them a signal kills |
| `Press`, `ChangeSpeeds` | a key of `keyboardControlThread()`, the menu behind `c`, or `p`; `sendData()` |
| `WorkerReads`, `WorkerHandles`, `WorkerLeaves` | one round of the worker and `handleCommand()` of the server; its end |
| `LoseBytes` | bytes that fit nowhere on the Arduino; `SerialLink` says when that happens |
| `Discard`, `HandleCommand` | `readPacket()`, `loop()` and `handleCommand()` of the firmware |

A message has two integers and two letters, 10 bytes, of which `sendData()` sends
the `sizeof` of a pointer, 8: the low half of the speed is all that travels
(`LowHalf`). The worker completes it with what bytes 8 and 9 of its buffer hold,
which no read writes and which is therefore one value for each worker
(`residue`). The worker also copies the amount, an int, into an unsigned one, which
the firmware takes as it is: it is modulo 2^32 in the packet (`Word`).

`asked` records what was asked, as asked: the letter's meaning in the client's own
words, the amount, the power. What a user asks with `A` or `D` is taken to be the
result of `approxAngle()`. The refinement (`Task`, `TasksOf`) maps an order to its
command and its amount, unchanged. The power is not part of it, for the robot does
*not* get the power asked for: that is a property of its own, `PowerAsAsked`, and
`command_path_power` shows it violated. The amount is what was typed as long as
none is negative (`AmountsFit`). The keys `k`, `K` and `l` send letters that the
server does not know; the help text gives them a meaning (`KILL`, `UNKILL`,
`CLEAR_BUFFER`) that no program but the client's has a word for, and
`command_path_keys` shows that nothing happens (`KeysObeyed`). The HELLO packet of
the server carries an uninitialised command, which the firmware executes: the
server is a source of orders of its own, `SERVER`.

Left out: the case of a letter, but for `k`; menu entries and keys that send
nothing (`q` in the menu, newline, `x`). Writing one packet to the port is atomic,
as is one `write()` of 140 bytes to a terminal device. A worker may leave and
bytes may be lost at any time, which allows more than the code does. A frame put
together from two packets is taken to fail one of the two checks; the checksum is
an 8-bit XOR (`serialize.cpp:101`), and lets about one in 256 of those through
whose magic number is right.

### Serial port and local control (`SerialLink`, composed in `LocalRun`, proofs `LocalRunProofs`, `LocalRunLosses`)

`SerialLink` is the line between the Pi and the Arduino and the firmware's use of
it; `LocalRun` puts `alex-pi.cpp` and `serial.cpp` at the Pi's end. Towards the
Arduino a byte is its position in what the Pi has written; towards the Pi it is a
packet's number and a place in it.

| action | code |
|---|---|
| `Arrive` | a byte comes in and goes to the receive ring, if there is room |
| `ReadPacket` | `readPacket()`, `readSerial()`, `deserialize()` and, for a complete packet, the handler up to its first reply (`Answer`: `sendOK`, `sendStatus`, `sendBadPacket`, ..., and the `dbprintf` of a turn) |
| `WriteByte` | `writeSerial()`, byte by byte, for it blocks once the core's buffer is full |
| `Edge(bytes)` | `leftISR`, `rightISR` with `dbprintf()` inside: 140 bytes written with interrupts off, for some 146 ms, while up to a packet comes in, of which the UART keeps `RxFifo` bytes |
| `EndTurn` | the second half of `loop()`, which announces the end of a turn; its first round announces one that never was, for `deltaTicks` is 10 and `dir` is `STOP` when the processor starts |
| `Open`, `TryAgain`, `Opened` | `startSerial()`: attempts, each failure followed by a sleep, the last one too; the caller is not told |
| `StartReceiver`, `Hello`, `SendCommand`, `Quit` | `main()` and `sendCommand()` |
| `Receive` | `receiveThread()` and `serialRead()` |

The assembler at both ends is taken from `PacketStream`, which `Framing`
implements: it cuts every `PacketSize` bytes. The network client sleeps 500 ms
after each key, so that a command seldom comes in while a reply is being written;
`alex-pi` has no such thing: the receive ring overflows, and `lost` counts the
bytes. `ReadPacket`, `EndTurn` and `WriteByte` are the same sequential `loop()`.

Left out: what a command says (`SerialLink` has its number, and the properties are
about which packets are executed, and in what order); mixed frames that pass the
8-bit checksum, as in `CommandPath`; an encoder interrupt inside the core's write
of one byte, a read of more than a packet (its effect is undefined), movement
itself (`Motion`). `Quit` closes the port under the receive thread and ends the
process in one step. `_xmitSema` is declared and never used. Opening the port
restarts the Arduino: its state begins there.

## 3. Runs

Passing:

| run | question | bounds, and why they are enough |
|---|---|---|
| `framing` | Is the assembler the packet stream its callers rely on, and are its buffers what they should be? | packets of 4 bytes, chunks of 1 to 4, 22 bytes: five packets and a half, so every pair of counter and leftover count is met with every chunk; one packet with a bad checksum, one without a magic number, one magic number off the grid |
| `motion_straight` | Does a straight move end exactly when its distance is covered? | three packets out of five, 4 edges a move (7 cm take two, 12 cm three), one coasting edge |
| `motion_all` | Is a driven robot always watched by the right check, and does every movement end? | two packets out of all commands, both encoders, 4 edges (a turn of one tick takes four, see below) |
| `client` | Do the races on `networkActive` lose a command or a reply, or end the program without a cause? Does the client end when the server goes? | three keys, three replies: a key or a reply before, between and after the accesses of the other thread |
| `server` | Is `tls_conn` ever a freed session? Is every client served or turned away, unless a silent one holds the listener, and its session freed? | two clients, two commands each: two workers that race for the flag, and a worker between two commands |
| `command_path` | Does the robot execute the commands of the keys, with the amounts typed, and only those? Does an order get through? Does the server end when told? | two clients, two keys among them: two orders of one client, or one of each, on the line at once, with a damaged frame before, between or after them. `l`, `s` and a letter the server does not know; half an integer is 128 values, so that the power 75 fits in a half and the largest amount (1390) in a word; the other letters and any number of clients are covered by the proof |
| `local` | Does a command from the Pi's terminal arrive once, in order and answered? What do lost bytes and packets of interrupts destroy? | packets of 3 bytes, a ring of 2, a UART that keeps 1: the order of the code's 140 > 63 > 2; HELLO and one command, so that the second arrives while the first is answered; two edges, so that one packet can be cut twice, or two packets once; two attempts to open. Turns are not among the commands typed (their two packets are those of `GET_STATS`); the end of one happens in the first round of `loop()` |

In the passing motion runs the odometer stays below 256 cm, where a torn load
cannot be told from a whole one; `motion_odometer` goes past it.

What each property of a passing run rules out: `Consecutive` a byte lost,
repeated or swapped between the two static buffers; `LeftoversFlagged` leftovers
that the next call would skip or append to the wrong place; `NeverWithholds` a
complete packet that waits for a byte that may never come; `AcceptsOnlyAligned`
says that the code does *not* resynchronise: once a byte is lost nothing is
accepted unless a packet happens to begin on a multiple of the packet size.
`NoEarlyStop` and `ShowsArrival` are the two sides of "moves the commanded
distance"; `Armed` says that no interleaving of commands and checks leaves the
motors on with nothing to stop them; `Halts` is its liveness side.
`FreedNotCurrent` is the protocol between a worker's last two statements and
everybody else's; `ClosedFreed` says that the races on `networkActive` never keep a
session for ever. `QueuedServed` says what can keep a client waiting for ever: a
silent client in the handshake with the listener, and nothing else. Silent clients
that close in the end, failed handshakes, other clients in the backlog and races
between workers only delay it.

`NothingLost` says that the two threads that assign `networkActive` do not disturb
each other while both ends are there; `EndsForCause` that until a signal, the key
`x` or the end of the server no thread of a connected client ends, tells the
program to end or frees the session. After such a cause the code makes no such
promise: the reader, the keyboard thread and the client loop may each free the
session while another thread is using it. `ServerGoneEnds` that the one thread
that notices gets the rest to end.

`ImplementsRemoteControl` rules out an order executed twice, out of turn, or
turned into another on the way: a letter misread by the server, two workers that
mix their buffers, an amount that does not survive the copies. `NoneSkipped` is
half of the other side: whatever the threads do, and whenever a worker or the
server ends, a later order of a client never gets through while an older one stays
behind. `OrdersExecuted` is the rest: an order that nothing disturbs gets through.
`SignalEnds` rules out a `main()` that waits for a listener which waits in
`accept()`. `UndisturbedHeard` and `DamageBounded` say how far the damage of a
debug packet sent by an interrupt reaches: every packet is as long as every other,
so what is cut in two does not shift the rest. `ExecutedInOrder` holds although
nothing resynchronises the firmware: a frame put together from two packets can
repeat neither of them. `SkipsNothing` says that bytes lost are the only way to
miss a command: neither packets that interrupts send nor reads that end inside a
packet drop one. `StillRobotAnswers` rules out a reply that is never sent, with
the exception the code has: commands typed while a reply is being written.
`PromptReached` rules out attempts to open that go on for ever.

Each property has a mutant in `PROJECT.json`, a plausible bug of the code
(`Mutant...` in the modules) with which TLC finds it violated.

Violations: each of these checks a sentence of the repository against the code,
and TLC's trace shows how they part.

| run | the sentence | what the code does |
|---|---|---|
| `motion_small_angle` | "50 degrees left or right turn" | an angle below 20 degrees is 0 ticks, 0 ticks are never checked: the turn does not end |
| `motion_odometer` | "keep track of whether we've moved a commanded distance" | a torn load of the odometer at 254 cm reads 510 |
| `server_active` | "As long as we are getting data, network is active" | another thread clears the flag, from an uninitialised local in the shortest trace |
| `command_path_power` | "power in %% (e.g. 75)", "param[0] = distance, param[1] = speed" | two of the ten bytes are never sent: the speed that arrives has for its high half what the worker's buffer held, 203 for 75 in the model's halves of 128 values |
| `command_path_keys` | "k=kill, K=unkill, l=clearSerializeBuffer" | the server answers the three letters with "Bad command" on its own terminal |

More disagreements are in the models without a run of their own:

* the target of a turn is in ticks and the counter it is compared with in
  revolutions (`0_motor.ino:13`), so that a turn goes on for four times the angle
  typed: the theorems `AngleCovered` and `FourfoldShown` say it of every turn;
* "x=exit" (`tls-alex-client.cpp:251`): the call to `stopClient()` is commented out
  (`:361`), so `x` ends the keyboard thread, takes the session away, and leaves
  the program running (`AlexClient!KeyboardExits`; an exception in `EndsForCause`
  and `ServerGoneEnds`);
* a right turn adds to `leftForwardTicks` (`2_encoder.ino:50`), so that the next
  forward move is shorter than the "distance in cm to move" of `constants.h:33`,
  and likewise `REVERSE` shortens the next turn (`Motion!Count`; `OdometerProofs`
  has to exclude both);
* `Connect` spawns a worker for every client, although `tls-alex-server.cpp:35`
  speaks of "serving more than one connection" as something prevented.

## 4. Fairness

`Motion!FairSpec`: `loop()` is called for ever and none of its steps waits, so
each of them happens (weak fairness); receiving a packet is not among them, the
Pi may stay silent. A driven wheel turns (weak fairness of its encoder): the
robot is not blocked.

`AlexServer!FairSpec`: a thread that can take a step takes one (weak fairness for
the listener, each worker and the receive thread once a packet has arrived;
nothing forces the Arduino or a client to send). `SSL_accept()` returns for a
client that answers or closes. Nothing is assumed of the clients: one may stay
silent for ever, and as the listener waits in `SSL_accept()` without a timeout, it
then waits for ever; `QueuedServed` names this as its exception. A worker that
finds nothing to read clears `networkActive` and tests it right after; the receive
thread may set it again in between, each time round: strong fairness of
`WorkerLeaves` says that this does not go on for ever. It is a matter of
scheduling, and no lock in the code excludes it.

`AlexClient!FairSpec`: the keyboard thread past `getchar()`, the reader thread and
`main` take their steps, the client loop creates the threads once it is connected,
and connecting to a server that is gone fails in the end (weak fairness). The
user, a server that takes its time over the handshake and the end of the client
loop owe nothing, and nothing is assumed of a read with a freed session. The keys
are bounded, so the race for the flag ends by itself.

`CommandPath!FairSpec`: the threads of the server run and `loop()` is called for
ever (weak fairness of `Main`, `Listen`, each `Worker(c)`, `Firmware`). Users,
signals, losses and the end of a worker owe nothing: `OrdersExecuted` names the
last two as exceptions.

`LocalRun!FairSpec`: `main()` (its sleeps end), the receive thread and the firmware's
reads and writes happen, and bytes on the line arrive. The user owes nothing, the
wheels need not turn, and a turn need not end.

## 5. Proofs

For every value of the constants, from the named assumptions in the modules:

* `FramingProofs`. `Buffering`: `TypeOK`, `Consecutive` and `LeftoversFlagged`
  hold always (`TypeCorrect` and `LeftoversStayFlagged` say it of the two parts).
  Together they are inductive: that the packet buffer and the leftover buffer hold
  consecutive bytes of the stream is preserved by the copy loops only if leftovers
  exist with an empty packet buffer and under the flag. `Promptness`:
  `NeverWithholds`, from `Consecutive` and the ranges of the two counters.
  `AcceptedAligned`: `AcceptsOnlyAligned`, because what has been framed is a
  multiple of the packet size (`FramedWhole`). `Implementation`: under the
  invariant each step of `Deserialize` judges the packet that begins at
  `framed + 1`, or takes `MorePending`. Assumption (`FramingAssumption`): a chunk
  has at most `PacketSize` bytes. Without it two packets may end in one chunk, and
  the second one would wait (see the hazard at `serial.cpp:125`).
* `MotionProofs`. `TypeCorrect`: `TypeOK`. `MotionArmed`: `Armed`, if every turn
  in `Packets` is of at least one tick (`TurnsHaveTicks`; `motion_small_angle`
  shows that it is needed). The strengthening says, for each location of a
  handler, which delta has been set for the direction that is about to be
  assigned, and that the check about to be made is the one of `dir`.
* `OdometerProofs`. Straight moves: `DistanceCovered` (`NoEarlyStop`) and
  `ArrivalShown` (`ShowsArrival`), the two sides of the commanded distance, for
  every set of packets of straight moves (`StraightOnly`: turns add to their
  odometer, and `CLEAR_STATS` takes the base away from under the target) and as
  long as the odometer is below 256 cm (`OdometerShort`; `motion_odometer` shows
  that it is needed). The invariant says that the odometer is what the edges of
  the left wheel say (`Odometer`), that the target lies the commanded distance or
  more past the base (`Ahead`), where the base is the edges there were when the
  target was set, and, for whole loads only, no further (`NotBeyond`). `Ahead`
  needs no bound, for a torn load is never behind the value it was begun with; so
  `EarlyStopIsTorn` says without one that only a torn comparison stops a move
  early. Distances are whole centimetres of edges, of which `DistSum` says by how
  much they fail to add up: at most one, which the `>` of the comparison makes
  good. Turns: the same invariant for the counters of the inner wheel
  (`TurnCounters`, `TurnAhead`, `TurnNotBeyond`), for every set of packets without
  `REVERSE` and `CLEAR_STATS` and below 256 revolutions, gives `AngleCovered`
  (`NoEarlyTurn`) and `FourfoldShown` (`ShowsFourfold`): a turn ends no earlier than
  three edges before, and no later than the first check after, four times its
  angle.
* `AlexServerProofs`. `CurrentNotFreed`: `FreedNotCurrent`. It is not inductive:
  the worker that frees a session must know that no worker has set `tls_conn`
  back to it. `IInv` adds that `tls_conn` names only a client whose worker is
  still in its loop or about to reset it (`ConnServed`), that a freed session
  has no worker left (`FreedUnserved`), and that a connection waits in one place
  and has no worker while it waits (`WaitsOnce`, `AwayUnserved`). `TypeCorrect`:
  `TypeOK`, with `ReadSent`, for the bound on what a worker has yet to read is the
  one on what was sent.
* `AlexClientProofs`. `LiveLosesNothing` and `NoEndWithoutCause` (`EndsForCause`).
  The invariant has three parts: what exists before the threads do
  (`ConnectedFirst`); who has ended, and who has been told (`EndsStopped`); and,
  while both ends are there, that the flag is up and each thread is about to
  assign it the value it has (`LiveActive`), from which the count of replies
  follows (`LiveCounts`). `EndsForCause` adds that without a cause nobody has told
  the program to end and nothing has ended it (`CausedEnds`), which is preserved
  because of the other parts: that the reader does not leave its loop follows from
  the flag's being up at its test, whatever the keyboard thread has assigned in
  between. `TypeCorrect`: `TypeOK`; the bound on the replies handled is not
  inductive, for the second test of the flag may handle an old reply once more.
  `HandledBounded` pays for each such time with a key whose assignment raised the
  flag (`Assigned`), and for what a freed session returns with `MaxReplies`.
* `CommandPathProofs`. `TypeCorrect`: `TypeOK`, by a lemma on halves of an integer
  for the speed. `Implementation`: if the amounts typed fit an unsigned int
  (`AmountsFit`; a negative one arrives as another), `CommandPath` implements
  `RemoteControl`, an order being its command and its amount (`Task`); a step maps
  to `Ask`, to `Execute` or to a stutter. The abstract guards (the order was asked
  for, and is newer than the last one executed) follow from an invariant on what
  is on its way, and on what was asked (`AskedFit`: amounts that survive the
  copy): each message and each packet says what the order it numbers says
  (`MessagesFit`, `PacketsFit`), is newer than all further along the way, up to
  those executed, and older than all behind it (`MessagesOrdered`,
  `PacketsOrdered`). Neither half is inductive without the other: a packet takes
  its number and its contents from the message it is made of. `NothingSkipped`:
  `NoneSkipped`. As long as the line has lost nothing, every order of a client
  that the server knows is somewhere (`Found`): executed, on the line, with the
  worker, on its way to the worker, or, once the server has ended, later than all
  that is on the line or executed. If an older order were not executed while a
  later one is, each of these places but the first contradicts the order of
  messages and packets. `TraceInv` adds what holds before the port is open.
  `PowerKept`: if the bytes behind each message are 0 and the powers typed fit a
  half (`PowersFit`), every order is executed with the power asked for
  (`PowerAsAsked`), because each message and each packet then carries it
  (`PowersKept`); with `command_path_power` it says that those two bytes are the
  one thing that is wrong with the power. Assumptions (`CommandPathAssumption`):
  the server itself is not a client, half an integer has some value, and what an
  uninitialised byte may hold is a command of the format or one it does not know.
* `LocalRunProofs`. `TypeCorrect`, `ExecutionOrder` (`ExecutedInOrder`),
  `PacketsStayAligned` (`UndisturbedHeard`) and `DamageStaysBounded`
  (`DamageBounded`), from one invariant of two parts. `OrderInv`, for the way down:
  the bytes in the buffers are in the order they were sent (`BytesOrdered`) and
  younger than every packet executed (`ExecutedPast`); a packet is executed only
  if its bytes follow one another, so it is the one its first byte belongs to, and
  what is left behind is younger. `LineInv`, for the way up: the line holds the
  whole packets and the `offset` bytes of the current one (`LineFilled`), which has
  its first byte there and not its last (`CurrentOpen`, `FirstBytes`); a packet
  begins where a slot does, or while another has not ended (`StartsAligned`); and
  the damaged slots, with the one being filled if an interrupt got into it, are at
  most two for each edge (`DamageCounted`). Assumptions: the ring is smaller than a
  packet (`SerialLinkAssumption`), so that a read completes at most one packet, and
  a packet has two bytes or more.

* `LocalRunLosses`. `NothingSkipped`: `SkipsNothing`, by `Gapless`: while nothing is
  lost, the packets executed and the bytes in the buffers are all that has come
  in, so the next frame is a whole packet. `ShiftedRefused`: what leaves the buffers
  leaves in whole frames (`CutWhole`), so after a loss that is not a whole number of
  packets every packet that comes in complete straddles two frames and is refused,
  until further losses make up the rest (`RefusesShifted`). This is the other half
  of `ExecutedInOrder`: one byte lost keeps the order and costs all that follows.

Every safety property that a passing run checks is a theorem. Only model-checked:
liveness (`Halts`, `ClosedFreed`, `QueuedServed`, `ServerGoneEnds`,
`OrdersExecuted`, `SignalEnds`, `StillRobotAnswers`, `PromptReached`), which is out
of the prover's reach; of `Halts`, `OrdersExecuted` and `StillRobotAnswers` the
safety halves are proved (`Armed`, `NoneSkipped`, `SkipsNothing`). The theorems
without a run of their own (`EarlyStopIsTorn`, those on turns, `ShiftedRefused`) need
more packets than a run with everything else has room for. The property of
`PowerKept` is one that the code violates: the theorem says under which condition it
would hold.

## 6. Plan

Done: the abstract specifications and the modules that implement them
(`PacketStream` and `Framing`; `RemoteControl` and `CommandPath`), the two
concurrent programs (`AlexServer`, `AlexClient`), the firmware (`Motion`), the line
between them (`SerialLink`) and the program that composes with it (`LocalRun`),
each with its proofs.

Left, the most important first:

1. Edges that the encoders lose while an interrupt handler sends its 146 ms of
   packet: `Motion` counts each edge, `SerialLink` does not move.
2. The arithmetic of the checksum as an operator against a reference definition:
   which damaged packets it lets through.

## 7. Not modelled

The pages of `src/hardware`, `src/3dModelDrawings` and `src/reports` (drawings and
documents); OpenSSL, the motor shield library and the Arduino core (used as the
code uses them: `SSL_read`, `SSL_write`, `SSL_free`, `setSpeed`, `run`,
`Serial.available`); the locking callbacks of `tls_pthread.cpp`, which current
versions of OpenSSL never call; the echo programs and samples; `waitForHello`,
`handlePacket` and `writerThread`, which nothing calls; reads of the serial port
that bring more than a packet, whose effect is undefined; certificates, the
descriptors of sockets, the modes of the terminal; printing. Hazards that no
property covers carry a note in `PROJECT.json` that says why.
