---------------------------- MODULE MotionProofs ----------------------------
(***************************************************************************)
(* Proofs about Motion, for every set of packets and every bound.          *)
(***************************************************************************)
EXTENDS Motion, TLAPS

\* The arithmetic of the firmware stays in the types of its variables.
LEMMA FirmwareArithmetic ==
  /\ \A t \in Nat : Dist(t) \in Nat
  /\ \A ang \in Nat : DeltaTicks(ang) \in Nat
  /\ \A p \in Nat : Pwm(p) \in 0 .. 255
  /\ \A arg \in Nat : DistanceOf(arg) \in Nat /\ DistanceOf(arg) > 0
  /\ \A arg \in Nat : TicksOf(arg) \in Nat
BY DEF Dist, DeltaTicks, Pwm, DistanceOf, TicksOf, COUNTS_PER_REV

\* A turn of twenty degrees is the first that has a tick to wait for.
LEMMA TwentyDegrees ==
  \A arg \in Nat : arg = 0 \/ arg >= 20 => TicksOf(arg) > 0
BY DEF DeltaTicks, TicksOf

\* The counters that loop() watches are naturals, and so is what it makes of
\* one whose low byte it loaded earlier.
LEMMA WatchedType ==
  ASSUME TypeOK, NEW d \in Directions
  PROVE  /\ Watched(d) \in Nat
         /\ Watched(d) % 256 \in 0 .. 255
         /\ Loaded(Watched(d)) \in Nat
<1>1. Watched(d) \in Nat
  BY DEF TypeOK, Watched, Directions, Wheels, Senses
<1>2. \A n \in Nat : n % 256 \in 0 .. 255 /\ n - (n % 256) \in Nat
  OBVIOUS
<1>3. ASSUME NEW n \in Nat PROVE Loaded(n) \in Nat
  <2>1. low \in Nat /\ n - (n % 256) \in Nat
    BY <1>2 DEF TypeOK
  <2>2. QED
    BY <2>1 DEF Loaded
<1>4. QED
  BY <1>1, <1>2, <1>3

\* Setting the motors' speed keeps the motor variables in their types.
LEMMA SetSpeedType ==
  ASSUME TypeOK, NEW pwm \in 0 .. 255, SetSpeed(pwm)
  PROVE  speed' \in 0 .. 255 /\ coast' \in Nat
BY MotionAssumption DEF TypeOK, SetSpeed

\* An encoder interrupt keeps the types: it adds to the one counter that the
\* wheel and the direction select.
LEMMA EdgeType ==
  ASSUME TypeOK, NEW wheel \in Wheels, Edge(wheel)
  PROVE  TypeOK'
<1>1. Sense(wheel) \in Senses
  BY DEF Sense, Senses
<1>2. CASE dir = "STOP"
  BY <1>2 DEF Edge, TypeOK, counterVars, loopVars
<1>3. CASE dir # "STOP"
  <2> DEFINE n == ticks[wheel][Sense(wheel)] + 1
  <2>1. Count(wheel)
    BY <1>3 DEF Edge
  <2>2. n \in Nat
    BY <1>1 DEF TypeOK
  <2>3. n \div COUNTS_PER_REV \in Nat /\ Dist(n) \in Nat
    BY <2>2, FirmwareArithmetic DEF COUNTS_PER_REV
  <2>4. ticks' \in [Wheels -> [Senses -> Nat]]
    BY <1>1, <2>1, <2>2 DEF Count, TypeOK
  <2>5. turns' \in [Wheels -> [Senses -> Nat]]
    BY <1>1, <2>1, <2>3 DEF Count, TypeOK
  <2>6. dist' \in [Senses -> Nat]
    BY <1>1, <2>1, <2>3 DEF Count, TypeOK
  <2>7. moved' \in [Wheels -> Nat] /\ coast' \in Nat
    BY DEF Edge, TypeOK
  <2>8. QED
    BY <2>4, <2>5, <2>6, <2>7 DEF Edge, TypeOK, loopVars
<1>4. QED
  BY <1>2, <1>3

\* The types hold in every reachable state, for every set of packets.
THEOREM TypeCorrect == Spec => []TypeOK
<1>1. Init => TypeOK
  BY DEF Init, TypeOK, Locations, TPacket, Commands, Directions, Wheels, Senses,
         Cleared
<1>2. TypeOK /\ [Next]_vars => TypeOK'
  <2> SUFFICES ASSUME TypeOK, [Next]_vars PROVE TypeOK'
    OBVIOUS
  <2> USE DEF Locations
  <2>0. Stop => speed' \in 0 .. 255 /\ coast' \in Nat /\ wheels' = wheels
    BY SetSpeedType, 0 \in 0 .. 255 DEF Stop
  <2>1. CASE ReadNothing
    BY <2>1 DEF ReadNothing, TypeOK, loopVars, motorVars, counterVars
  <2>2. ASSUME NEW p \in Packets, Receive(p)
        PROVE  recvPacket' \in TPacket /\ packets' \in Nat /\ p \in TPacket
               /\ p.arg \in Nat
    BY <2>2, MotionAssumption DEF Receive, TypeOK, TPacket
  <2>3. ASSUME NEW p \in Packets, Receive(p), StartDistance(p) PROVE TypeOK'
    BY <2>2, <2>3, FirmwareArithmetic
       DEF StartDistance, TypeOK, motorVars, counterVars
  <2>4. ASSUME NEW p \in Packets, Receive(p), StartTurn(p) PROVE TypeOK'
    BY <2>2, <2>4, FirmwareArithmetic
       DEF StartTurn, TypeOK, motorVars, counterVars
  <2>5. ASSUME NEW p \in Packets, Receive(p), HandleStop(p) PROVE TypeOK'
    BY <2>2, <2>5, <2>0
       DEF HandleStop, TypeOK, loopVars, counterVars
  <2>6. ASSUME NEW p \in Packets, Receive(p), HandleOther(p) PROVE TypeOK'
    BY <2>2, <2>6 DEF HandleOther, TypeOK, loopVars, motorVars, counterVars
  <2>7. ASSUME NEW p \in Packets, Receive(p), HandleClear(p) PROVE TypeOK'
    BY <2>2, <2>7 DEF HandleClear, Cleared, TypeOK, loopVars, motorVars
  <2>8. CASE ClearRest
    BY <2>8 DEF ClearRest, Cleared, TypeOK, loopVars, motorVars
  <2>9. Heading(recvPacket.command) \in Directions
    BY DEF Heading, Directions
  <2>10. CASE LoadTarget
    BY <2>9, <2>10, WatchedType
       DEF LoadTarget, TypeOK, loopVars, motorVars, counterVars
  <2>11. CASE SetTarget
    BY <2>9, <2>11, WatchedType
       DEF SetTarget, TargetFrom, TypeOK, motorVars, counterVars
  <2>12. CASE SetDir
    BY <2>9, <2>12 DEF SetDir, TypeOK, loopVars, motorVars, counterVars
  <2>13. CASE Move
    <3>1. recvPacket.speed \in Nat
      BY DEF TypeOK, TPacket
    <3>2. Pwm(recvPacket.speed) \in 0 .. 255
      BY <3>1, FirmwareArithmetic
    <3>3. speed' \in 0 .. 255 /\ coast' \in Nat
      BY <2>13, <3>2, SetSpeedType DEF Move
    <3>4. QED
      BY <2>13, <3>3 DEF Move, TypeOK, loopVars, counterVars
  <2>15. Watched(dir) % 256 \in 0 .. 255
    BY WatchedType DEF TypeOK
  <2>16. CASE CheckDist
    BY <2>0, <2>15, <2>16
       DEF CheckDist, LoopFrame, EndDistance, TypeOK, loopVars, motorVars, counterVars
  <2>17. CASE CompareDist
    BY <2>0, <2>17
       DEF CompareDist, LoopFrame, EndDistance, TypeOK, loopVars, motorVars, counterVars
  <2>18. CASE CheckTurn
    BY <2>0, <2>15, <2>18
       DEF CheckTurn, LoopFrame, EndTurn, TypeOK, loopVars, motorVars, counterVars
  <2>19. CASE CompareTurn
    BY <2>0, <2>19
       DEF CompareTurn, LoopFrame, EndTurn, TypeOK, loopVars, motorVars, counterVars
  <2>20. ASSUME NEW wheel \in Encoders, Edge(wheel) PROVE TypeOK'
    BY <2>20, EdgeType, MotionAssumption
  <2>21. CASE UNCHANGED vars
    BY <2>21 DEF vars, TypeOK, loopVars, motorVars, counterVars
  <2>22. HandleCommand => TypeOK'
    BY <2>3, <2>4, <2>5, <2>6, <2>7 DEF HandleCommand
  <2>23. QED
    BY <2>1, <2>8, <2>10, <2>11, <2>12, <2>13, <2>16, <2>17, <2>18, <2>19,
       <2>20, <2>21, <2>22
       DEF Next, Loop, Handler, Checks
<1>3. QED
  BY <1>1, <1>2, PTL DEF Spec

-----------------------------------------------------------------------------
\* While a movement handler runs, the value it will arm the check with is set,
\* and the direction is the commanded one before the motors are driven.
Starts ==
  pc \in Starting =>
    /\ \/ Heading(recvPacket.command) \in Straight /\ deltaDist > 0
       \/ Heading(recvPacket.command) \in Turning /\ deltaTicks > 0
    /\ pc = "move" => dir = Heading(recvPacket.command)

\* Every turn the Pi asks for is of a tick at least, or endless.
TurnsHaveTicks ==
  \A p \in Packets :
    p.command \in {"TURN_LEFT", "TURN_RIGHT"} => p.arg = 0 \/ p.arg >= 20

\* A robot that is driven has the check armed that will stop it, for every set
\* of packets without turns below twenty degrees.
THEOREM MotionArmed ==
  ASSUME TurnsHaveTicks
  PROVE  Spec => []Armed
<1>1. Init => Armed /\ Starts
  BY DEF Init, Armed, Starts, Starting
<1>2. TypeOK /\ Armed /\ Starts /\ [Next]_vars => Armed' /\ Starts'
  <2> SUFFICES ASSUME TypeOK, Armed, Starts, [Next]_vars PROVE Armed' /\ Starts'
    OBVIOUS
  <2> USE DEF Armed, Starts, Starting
  <2>1. Stop => speed' = 0
    BY DEF Stop, SetSpeed
  <2>2. CASE ReadNothing
    BY <2>2 DEF ReadNothing, loopVars, motorVars
  <2>3. ASSUME NEW p \in Packets, Receive(p), StartDistance(p)
        PROVE  Armed' /\ Starts'
    <3>1. Heading(recvPacket'.command) \in Straight
      BY <2>3 DEF Receive, StartDistance, Heading, Straight
    <3>2. p.arg \in Nat
      BY <2>3, MotionAssumption DEF TPacket
    <3>3. deltaDist' > 0
      BY <2>3, <3>2, FirmwareArithmetic DEF StartDistance
    <3>4. QED
      BY <2>3, <3>1, <3>3 DEF StartDistance
  <2>4. ASSUME NEW p \in Packets, Receive(p), StartTurn(p)
        PROVE  Armed' /\ Starts'
    <3>1. Heading(recvPacket'.command) \in Turning
      BY <2>4 DEF Receive, StartTurn, Heading, Turning
    <3>2. p.arg \in Nat /\ (p.arg = 0 \/ p.arg >= 20)
      BY <2>4, MotionAssumption DEF TPacket, TurnsHaveTicks, StartTurn
    <3>3. deltaTicks' > 0
      BY <2>4, <3>2, TwentyDegrees DEF StartTurn
    <3>4. QED
      BY <2>4, <3>1, <3>3 DEF StartTurn
  <2>5. ASSUME NEW p \in Packets, Receive(p), HandleStop(p)
        PROVE  Armed' /\ Starts'
    BY <2>1, <2>5 DEF HandleStop
  <2>6. ASSUME NEW p \in Packets, Receive(p), HandleOther(p)
        PROVE  Armed' /\ Starts'
    BY <2>6 DEF Receive, HandleOther, loopVars, motorVars
  <2>7. ASSUME NEW p \in Packets, Receive(p), HandleClear(p)
        PROVE  Armed' /\ Starts'
    BY <2>7 DEF Receive, HandleClear, loopVars, motorVars
  <2>8. CASE ClearRest
    BY <2>8 DEF ClearRest, loopVars, motorVars
  <2>9. CASE LoadTarget
    BY <2>9 DEF LoadTarget, loopVars, motorVars
  <2>10. CASE SetTarget
    BY <2>10 DEF SetTarget, motorVars
  <2>11. CASE SetDir
    BY <2>11 DEF SetDir, loopVars, motorVars
  <2>12. CASE Move
    BY <2>12 DEF Move, loopVars
  <2>13. CASE CheckDist
    BY <2>1, <2>13 DEF CheckDist, LoopFrame, EndDistance, loopVars, motorVars
  <2>14. CASE CompareDist
    BY <2>1, <2>14 DEF CompareDist, LoopFrame, EndDistance, loopVars, motorVars
  <2>15. CASE CheckTurn
    BY <2>1, <2>15 DEF CheckTurn, LoopFrame, EndTurn, loopVars, motorVars
  <2>16. CASE CompareTurn
    BY <2>1, <2>16 DEF CompareTurn, LoopFrame, EndTurn, loopVars, motorVars
  <2>17. ASSUME NEW wheel \in Encoders, Edge(wheel) PROVE Armed' /\ Starts'
    BY <2>17 DEF Edge, loopVars
  <2>18. CASE UNCHANGED vars
    BY <2>18 DEF vars, loopVars, motorVars
  <2>19. HandleCommand => Armed' /\ Starts'
    BY <2>3, <2>4, <2>5, <2>6, <2>7 DEF HandleCommand
  <2>20. QED
    BY <2>2, <2>8, <2>9, <2>10, <2>11, <2>12, <2>13, <2>14, <2>15, <2>16,
       <2>17, <2>18, <2>19
       DEF Next, Loop, Handler, Checks
<1>3. QED
  BY <1>1, <1>2, TypeCorrect, PTL DEF Spec

=============================================================================
