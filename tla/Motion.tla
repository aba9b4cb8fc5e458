------------------------------- MODULE Motion -------------------------------
(***************************************************************************)
(* The firmware's motion control: loop() in 5_arduino_main.ino, the        *)
(* handlers it calls (0_motor.ino, 1_comms_format.ino, 6_robotlib.ino) and *)
(* the two encoder interrupts (2_encoder.ino) that fire between any two of *)
(* its accesses to memory.                                                 *)
(*                                                                         *)
(* loop() is sequential; its program counter pc stops wherever an          *)
(* interrupt can tell the difference: around each access to a counter the  *)
(* interrupts write, and between the assignments to dir and to the motors. *)
(* The counters are unsigned longs on an 8-bit processor: loop() loads one *)
(* byte by byte, so a load is two steps (the low byte, then the others).   *)
(* Interrupt handlers run with interrupts disabled and are atomic.         *)
(***************************************************************************)
EXTENDS Integers

CONSTANTS
  Packets,     \* the packets the Pi may send
  Encoders,    \* the wheels whose encoder edges are modelled
  MaxPackets,  \* bound: packets received
  MaxMoved,    \* bound: encoder edges of a wheel during one command
  MaxCoast     \* bound: edges after the motors are cut off

Wheels == {"left", "right"}
Senses == {"forward", "reverse"}
Directions == {"STOP", "FORWARD", "BACKWARD", "LEFT", "RIGHT"}
Commands == {"FORWARD", "REVERSE", "TURN_LEFT", "TURN_RIGHT", "STOP",
             "GET_STATS", "CLEAR_STATS", "UNKNOWN"}
\* params[0] and params[1] of the packet are its arg and its speed.
TPacket == [command : Commands, arg : Nat, speed : Nat]

ASSUME MotionAssumption ==
  /\ Packets \subseteq TPacket
  /\ Encoders \subseteq Wheels
  /\ MaxPackets \in Nat /\ MaxMoved \in Nat /\ MaxCoast \in Nat

VARIABLES
  pc,           \* where loop() is
  recvPacket,   \* the packet being handled, or the last one handled
  low,          \* low byte of the counter being loaded
  dir,
  deltaDist, newDist,        \* of the distance move
  deltaTicks, targetTicks,   \* of the turn
  speed,        \* PWM the motors are driven with; 0: not driven
  wheels,       \* what the last move() made the wheels do
  ticks,        \* leftForwardTicks, rightForwardTicks, leftReverseTicks, ...
  turns,        \* leftForwardTicksTurns, ...
  dist,         \* forwardDist and reverseDist
  coast,        \* edges still to come after the motors were cut off
  packets,      \* packets received so far
  moved         \* history: edges of each wheel since the target's base was
                \* read or the counters were cleared

loopVars == <<deltaDist, newDist, deltaTicks, targetTicks>>
motorVars == <<speed, wheels, coast>>
counterVars == <<ticks, turns, dist>>
vars == <<pc, recvPacket, low, dir, loopVars, motorVars, counterVars,
          packets, moved>>

Locations == {"readPacket", "loadTarget", "setTarget", "setDir", "move",
              "clearRest", "checkDist", "compareDist", "checkTurn",
              "compareTurn"}

\* Inside forward(), backward(), left() and right().
Starting == {"loadTarget", "setTarget", "setDir", "move"}

TypeOK ==
  /\ pc \in Locations
  /\ recvPacket \in TPacket
  /\ low \in 0 .. 255
  /\ dir \in Directions
  /\ deltaDist \in Nat /\ newDist \in Nat
  /\ deltaTicks \in Nat /\ targetTicks \in Nat
  /\ speed \in 0 .. 255
  /\ wheels \in Directions
  /\ ticks \in [Wheels -> [Senses -> Nat]]
  /\ turns \in [Wheels -> [Senses -> Nat]]
  /\ dist \in [Senses -> Nat]
  /\ coast \in Nat
  /\ packets \in Nat
  /\ moved \in [Wheels -> Nat]

Cleared == [w \in Wheels |-> [s \in Senses |-> 0]]

Init ==
  /\ pc = "readPacket"
  /\ recvPacket = [command |-> "UNKNOWN", arg |-> 0, speed |-> 0]
  /\ low = 0
  /\ dir = "STOP"
  /\ deltaDist = 0 /\ newDist = 0
  /\ deltaTicks = 10 /\ targetTicks = 10
  /\ speed = 0
  /\ wheels = "STOP"
  /\ ticks = Cleared
  /\ turns = Cleared
  /\ dist = [s \in Senses |-> 0]
  /\ coast = 0
  /\ packets = 0
  /\ moved = [w \in Wheels |-> 0]

-----------------------------------------------------------------------------
(***************************************************************************)
(* Arithmetic of the firmware                                              *)
(***************************************************************************)
COUNTS_PER_REV == 4

\* (unsigned long) (t / COUNTS_PER_REV * WHEEL_CIRC), WHEEL_CIRC = 20.735 cm
Dist(t) == (t * 20735) \div (1000 * COUNTS_PER_REV)

\* computeDeltaTicks: with alexCirc = 94.449 cm from setup()
DeltaTicks(ang) == (ang * 377796) \div 7464600

\* setSpeed() takes the low byte of (speed / 100.0) * 255
Pwm(percent) == ((percent * 255) \div 100) % 256

DistanceOf(arg) == IF arg > 0 THEN arg ELSE 9999999
TicksOf(arg) == IF arg = 0 THEN 99999999 ELSE DeltaTicks(arg)

\* The direction a movement command stands for.
Heading(command) ==
  CASE command = "FORWARD" -> "FORWARD"
    [] command = "REVERSE" -> "BACKWARD"
    [] command = "TURN_LEFT" -> "LEFT"
    [] command = "TURN_RIGHT" -> "RIGHT"
    [] OTHER -> "STOP"

Straight == {"FORWARD", "BACKWARD"}
Turning == {"LEFT", "RIGHT"}

\* The counter that the target of a movement in direction d is set from, and
\* that loop() compares with it.
Watched(d) ==
  CASE d = "FORWARD" -> dist["forward"]
    [] d = "BACKWARD" -> dist["reverse"]
    [] d = "LEFT" -> turns["left"]["reverse"]
    [] d = "RIGHT" -> turns["right"]["reverse"]
    [] OTHER -> 0

\* What loop() makes of a counter whose low byte it loaded earlier.
Loaded(counter) == (counter - (counter % 256)) + low

MutantTargetFromZero(from, delta) == delta
MutantTargetBehind(from, delta) == from - delta
TargetFrom(from, delta) == from + delta

-----------------------------------------------------------------------------
(***************************************************************************)
(* leftISR and rightISR                                                    *)
(***************************************************************************)

\* The counter an edge of the wheel adds to.
MutantSenseReverseOnly(wheel) == "reverse"
Sense(wheel) ==
  IF \/ dir = "FORWARD"
     \/ dir = "LEFT" /\ wheel = "right"
     \/ dir = "RIGHT" /\ wheel = "left"
  THEN "forward" ELSE "reverse"

\* The wheel turns and its encoder interrupts; with dir still STOP the
\* interrupt counts nothing.
Count(wheel) ==
  LET n == ticks[wheel][Sense(wheel)] + 1 IN
  /\ ticks' = [ticks EXCEPT ![wheel][Sense(wheel)] = n]
  /\ turns' = IF dir \in Turning
                THEN [turns EXCEPT ![wheel][Sense(wheel)] = n \div COUNTS_PER_REV]
                ELSE turns
  /\ dist' = IF dir \in Straight /\ wheel = "left"
               THEN [dist EXCEPT ![Sense(wheel)] = Dist(n)]
               ELSE dist

Edge(wheel) ==
  /\ speed > 0 \/ coast > 0
  /\ moved[wheel] < MaxMoved
  /\ IF dir = "STOP" THEN UNCHANGED counterVars ELSE Count(wheel)
  /\ moved' = [moved EXCEPT ![wheel] = @ + 1]
  /\ coast' = IF speed > 0 THEN coast ELSE coast - 1
  /\ UNCHANGED <<pc, recvPacket, low, dir, loopVars, speed, wheels, packets>>

-----------------------------------------------------------------------------
(***************************************************************************)
(* move() and stop(): the motor shield ignores run(STOP), so the wheels    *)
(* stop because their speed is 0.                                          *)
(***************************************************************************)
SetSpeed(pwm) ==
  /\ speed' = pwm
  /\ coast' = IF pwm > 0 THEN 0 ELSE IF speed > 0 THEN MaxCoast ELSE coast

MutantStopForgotten == UNCHANGED motorVars
Stop == SetSpeed(0) /\ UNCHANGED wheels

-----------------------------------------------------------------------------
(***************************************************************************)
(* handleCommand() and the handlers it calls                               *)
(***************************************************************************)

\* readPacket() returned no intact packet; after a bad one loop() reports it.
ReadNothing ==
  /\ pc = "readPacket"
  /\ pc' = "checkDist"
  /\ UNCHANGED <<recvPacket, low, dir, loopVars, motorVars, counterVars,
                 packets, moved>>

\* readPacket() returned PACKET_OK: loop() looks at the command field only, so
\* a packet of another type (the HELLO of the server, whose command field is
\* not even initialised) is one of these as well.
Receive(p) ==
  /\ pc = "readPacket"
  /\ packets < MaxPackets
  /\ packets' = packets + 1
  /\ recvPacket' = p

\* forward() and backward(), up to the load of the odometer
StartDistance(p) ==
  /\ p.command \in {"FORWARD", "REVERSE"}
  /\ deltaDist' = DistanceOf(p.arg)
  /\ pc' = "loadTarget"
  /\ UNCHANGED <<low, dir, newDist, deltaTicks, targetTicks, motorVars,
                 counterVars, moved>>

\* left() and right(), up to the load of the turn counter
StartTurn(p) ==
  /\ p.command \in {"TURN_LEFT", "TURN_RIGHT"}
  /\ deltaTicks' = TicksOf(p.arg)
  /\ pc' = "loadTarget"
  /\ UNCHANGED <<low, dir, deltaDist, newDist, targetTicks, motorVars,
                 counterVars, moved>>

HandleStop(p) ==
  /\ p.command = "STOP"
  /\ Stop
  /\ pc' = "checkDist"
  /\ UNCHANGED <<low, dir, loopVars, counterVars, moved>>

\* sendStatus() or sendBadCommand(): nothing changes
HandleOther(p) ==
  /\ p.command \in {"GET_STATS", "UNKNOWN"}
  /\ pc' = "checkDist"
  /\ UNCHANGED <<low, dir, loopVars, motorVars, counterVars, moved>>

\* clearCounters(): the ticks first, the values computed from them after
HandleClear(p) ==
  /\ p.command = "CLEAR_STATS"
  /\ ticks' = Cleared
  /\ pc' = "clearRest"
  /\ UNCHANGED <<low, dir, loopVars, motorVars, turns, dist, moved>>

ClearRest ==
  /\ pc = "clearRest"
  /\ turns' = Cleared
  /\ dist' = [s \in Senses |-> 0]
  /\ moved' = [w \in Wheels |-> 0]
  /\ pc' = "checkDist"
  /\ UNCHANGED <<recvPacket, low, dir, loopVars, motorVars, ticks, packets>>

HandleCommand ==
  \E p \in Packets :
    /\ Receive(p)
    /\ \/ StartDistance(p) \/ StartTurn(p) \/ HandleStop(p)
       \/ HandleOther(p) \/ HandleClear(p)

LoadTarget ==
  /\ pc = "loadTarget"
  /\ low' = Watched(Heading(recvPacket.command)) % 256
  /\ moved' = [w \in Wheels |-> 0]
  /\ pc' = "setTarget"
  /\ UNCHANGED <<recvPacket, dir, loopVars, motorVars, counterVars, packets>>

SetTarget ==
  LET heading == Heading(recvPacket.command) IN
  /\ pc = "setTarget"
  /\ newDist' = IF heading \in Straight
                  THEN TargetFrom(Loaded(Watched(heading)), deltaDist) ELSE newDist
  /\ targetTicks' = IF heading \in Turning
                      THEN TargetFrom(Loaded(Watched(heading)), deltaTicks)
                      ELSE targetTicks
  /\ pc' = "setDir"
  /\ UNCHANGED <<recvPacket, low, dir, deltaDist, deltaTicks, motorVars,
                 counterVars, packets, moved>>

SetDir ==
  LET heading == Heading(recvPacket.command) IN
  /\ pc = "setDir"
  /\ dir' = heading
  /\ moved' = IF dir = heading THEN moved ELSE [w \in Wheels |-> 0]
  /\ pc' = "move"
  /\ UNCHANGED <<recvPacket, low, loopVars, motorVars, counterVars, packets>>

Move ==
  /\ pc = "move"
  /\ SetSpeed(Pwm(recvPacket.speed))
  /\ wheels' = dir
  /\ pc' = "checkDist"
  /\ UNCHANGED <<recvPacket, low, dir, loopVars, counterVars, packets, moved>>

-----------------------------------------------------------------------------
(***************************************************************************)
(* The second half of loop()                                               *)
(***************************************************************************)
LoopFrame == UNCHANGED <<recvPacket, dir, counterVars, packets, moved>>

EndDistance ==
  /\ deltaDist' = 0 /\ newDist' = 0 /\ UNCHANGED <<deltaTicks, targetTicks>>
  /\ Stop

EndTurn ==
  /\ deltaTicks' = 0 /\ targetTicks' = 0 /\ UNCHANGED <<deltaDist, newDist>>
  /\ Stop

\* if(deltaDist > 0), and dir == STOP below it
CheckDist ==
  /\ pc = "checkDist"
  /\ IF deltaDist > 0 /\ dir \in Straight
       THEN /\ low' = Watched(dir) % 256
            /\ pc' = "compareDist"
            /\ UNCHANGED <<loopVars, motorVars>>
       ELSE /\ IF deltaDist > 0 /\ dir = "STOP"
                 THEN EndDistance ELSE UNCHANGED <<loopVars, motorVars>>
            /\ pc' = "checkTurn"
            /\ UNCHANGED low
  /\ LoopFrame

MutantDistReached == dir = "FORWARD" /\ Loaded(Watched(dir)) > newDist
DistReached == Loaded(Watched(dir)) > newDist

CompareDist ==
  /\ pc = "compareDist"
  /\ IF DistReached THEN EndDistance ELSE UNCHANGED <<loopVars, motorVars>>
  /\ pc' = "checkTurn"
  /\ UNCHANGED low
  /\ LoopFrame

CheckTurn ==
  /\ pc = "checkTurn"
  /\ IF deltaTicks > 0 /\ dir \in Turning
       THEN /\ low' = Watched(dir) % 256
            /\ pc' = "compareTurn"
            /\ UNCHANGED <<loopVars, motorVars>>
       ELSE /\ IF deltaTicks > 0 /\ dir = "STOP"
                 THEN EndTurn ELSE UNCHANGED <<loopVars, motorVars>>
            /\ pc' = "readPacket"
            /\ UNCHANGED low
  /\ LoopFrame

TurnReached == Loaded(Watched(dir)) >= targetTicks

CompareTurn ==
  /\ pc = "compareTurn"
  /\ IF TurnReached THEN EndTurn ELSE UNCHANGED <<loopVars, motorVars>>
  /\ pc' = "readPacket"
  /\ UNCHANGED low
  /\ LoopFrame

-----------------------------------------------------------------------------
Handler == ClearRest \/ LoadTarget \/ SetTarget \/ SetDir \/ Move
Checks == CheckDist \/ CompareDist \/ CheckTurn \/ CompareTurn
Loop == ReadNothing \/ HandleCommand \/ Handler \/ Checks

Next == Loop \/ \E wheel \in Encoders : Edge(wheel)

Spec == Init /\ [][Next]_vars

\* The processor keeps running loop(), whether or not packets arrive, and a
\* driven wheel keeps turning: the only fairness the firmware relies on.
FairSpec ==
  /\ Spec
  /\ WF_vars(ReadNothing \/ Handler \/ Checks)
  /\ \A wheel \in Encoders : WF_vars(speed > 0 /\ Edge(wheel))

-----------------------------------------------------------------------------
(***************************************************************************)
(* Properties                                                              *)
(***************************************************************************)

\* Between commands a driven robot always has the check armed that will stop
\* it: deltaDist for a straight move, deltaTicks for a turn.  Every path of the
\* handlers and of loop() has to keep the pair together.
Armed ==
  speed > 0 /\ pc \notin Starting
    => \/ dir \in Straight /\ deltaDist > 0
       \/ dir \in Turning /\ deltaTicks > 0

\* loop() never stops a straight move before its wheel has covered the
\* commanded distance, whatever moves, stops and edges came before.
NoEarlyStop ==
  [][pc = "compareDist" /\ speed > 0 /\ speed' = 0
       => Dist(moved["left"]) >= deltaDist]_vars

\* Once the wheel has covered more than the commanded distance, the odometer
\* is past the target, so the next check stops the robot.
ShowsArrival ==
  /\ speed > 0 /\ dir \in Straight /\ deltaDist > 0
  /\ pc \in {"readPacket", "checkDist", "compareDist", "checkTurn"}
  /\ Dist(moved["left"]) > deltaDist
  => Watched(dir) > newDist

\* Every commanded movement ends by itself.
Halts == speed > 0 ~> speed = 0

=============================================================================
