---------------------------- MODULE OdometerProofs ----------------------------
(***************************************************************************)
(* Proofs about Motion: a straight move ends at its distance, a turn at    *)
(* four times its angle, for every bound on packets and edges.  Both need  *)
(* a Pi that leaves alone what the two share: for straight moves no turns, *)
(* which add to their odometer; for turns no REVERSE, which adds to their  *)
(* ticks; for both no CLEAR_STATS, which takes the base from the target.   *)
(***************************************************************************)
EXTENDS MotionProofs

(***************************************************************************)
(* Straight moves                                                          *)
(***************************************************************************)

\* The Pi asks for straight moves only, and does not clear the counters.
StraightOnly ==
  \A p \in Packets : p.command \notin {"TURN_LEFT", "TURN_RIGHT", "CLEAR_STATS"}

\* The edges of the left wheel that the odometer of direction d is made from.
SenseOf(d) == IF d = "FORWARD" THEN "forward" ELSE "reverse"
Travelled(d) == ticks["left"][SenseOf(d)]

\* Those of them there were when the target was computed.
Base(d) == Travelled(d) - (IF dir = d THEN moved["left"] ELSE 0)

Commanded == Heading(recvPacket.command)

\* The direction the target is about.
Target == IF pc \in {"setTarget", "setDir"} THEN Commanded ELSE dir

\* There is a target to compare with.
TargetSet ==
  \/ pc \in {"setDir", "move"}
  \/ pc \notin Starting /\ deltaDist > 0 /\ dir \in Straight

\* The robot moves straight, and the odometer is what its edges say.
Odometer ==
  /\ dir \in Straight \cup {"STOP"}
  /\ pc # "clearRest"
  /\ pc \in Starting => Commanded \in Straight /\ deltaDist > 0
  /\ pc = "move" => dir = Commanded
  /\ \A s \in Senses : dist[s] = Dist(ticks["left"][s])
  /\ dir \in Straight => moved["left"] <= Travelled(dir)

\* The target lies the commanded distance, or more, past the base.
Ahead ==
  /\ pc = "setTarget" => low = Dist(Base(Commanded)) % 256
  /\ TargetSet => newDist >= Dist(Base(Target)) + deltaDist
  /\ pc = "compareDist" => dir \in Straight /\ deltaDist > 0 /\ low <= Watched(dir)

\* It lies no further than that.
NotBeyond == TargetSet => newDist <= Dist(Base(Target)) + deltaDist

OdometerShort == \A s \in Senses : dist[s] < 256

-----------------------------------------------------------------------------
\* Whole centimetres of two stretches, and of one after the other.
LEMMA DistSum ==
  \A a, b \in Nat : /\ Dist(a) + Dist(b) <= Dist(a + b)
                    /\ Dist(a + b) <= Dist(a) + Dist(b) + 1
BY DEF Dist, COUNTS_PER_REV

\* A torn load of a counter that grows is never behind what it was.
LEMMA TornAhead ==
  \A c, d \in Nat : c <= d => c <= (d - (d % 256)) + (c % 256)
OBVIOUS

\* Below 256 the low byte is the number.
LEMMA LowByte ==
  \A c \in Nat : c % 256 <= c /\ (c < 256 => c % 256 = c)
OBVIOUS

-----------------------------------------------------------------------------
\* In a straight direction loop() watches the odometer of that direction.
LEMMA WatchedStraight ==
  ASSUME NEW d \in Straight
  PROVE  /\ Watched(d) = dist[SenseOf(d)]
         /\ SenseOf(d) \in Senses
BY DEF Straight, Watched, SenseOf, Senses

\* The odometer shows the whole centimetres of the edges it is made from.
LEMMA WatchedOdometer ==
  ASSUME TypeOK, Odometer, NEW d \in Straight
  PROVE  /\ Travelled(d) \in Nat
         /\ Base(d) \in Nat
         /\ Base(d) <= Travelled(d)
         /\ Watched(d) = Dist(Travelled(d))
         /\ Watched(d) \in Nat
         /\ Dist(Base(d)) \in Nat
         /\ Dist(Base(d)) <= Watched(d)
<1>1. Travelled(d) \in Nat
  BY WatchedStraight DEF Travelled, TypeOK, Wheels
<1>2. Base(d) \in Nat /\ Base(d) <= Travelled(d)
  BY <1>1 DEF Base, Odometer, TypeOK, Wheels
<1>3. Watched(d) = Dist(Travelled(d))
  BY WatchedStraight DEF Odometer, Travelled
<1>4. Watched(d) \in Nat /\ Dist(Base(d)) \in Nat
  BY <1>1, <1>2, <1>3, FirmwareArithmetic
<1>5. PICK m \in Nat : Travelled(d) = Base(d) + m
  <2>1. Travelled(d) - Base(d) \in Nat
    BY <1>1, <1>2
  <2>2. Travelled(d) = Base(d) + (Travelled(d) - Base(d))
    BY <1>1, <1>2
  <2>3. QED
    BY <2>1, <2>2
<1>6. Dist(Base(d)) + Dist(m) <= Dist(Base(d) + m) /\ Dist(m) \in Nat
  BY <1>2, DistSum, FirmwareArithmetic
<1>7. Dist(Base(d)) <= Watched(d)
  BY <1>3, <1>4, <1>5, <1>6
<1>8. QED
  BY <1>1, <1>2, <1>3, <1>4, <1>7

\* An edge moves the odometer, and the history, but not the base of a target.
LEMMA EdgeBase ==
  ASSUME TypeOK, Odometer, NEW wheel \in Wheels, Edge(wheel)
  PROVE  /\ Odometer'
         /\ \A d \in Straight : /\ Base(d)' = Base(d)
                                /\ Watched(d)' \in Nat /\ Watched(d)' >= Watched(d)
<1> DEFINE Same == ticks'["left"] = ticks["left"] /\ dist' = dist
                   /\ (dir \in Straight => moved'["left"] = moved["left"])
           Counts == LET s == SenseOf(dir) IN
                     /\ dir \in Straight
                     /\ ticks'["left"][s] = ticks["left"][s] + 1
                     /\ dist'[s] = Dist(ticks["left"][s] + 1)
                     /\ moved'["left"] = moved["left"] + 1
                     /\ \A r \in Senses \ {s} :
                          dist'[r] = dist[r] /\ ticks'["left"][r] = ticks["left"][r]
<1>1. Same \/ Counts
  <2>1. CASE dir = "STOP"
    BY <2>1 DEF Edge, Straight, counterVars
  <2>2. CASE dir # "STOP"
    <3>1. dir \in Straight /\ SenseOf(dir) = Sense(wheel) /\ Sense(wheel) \in Senses
      BY <2>2 DEF Odometer, SenseOf, Sense, Straight, Senses
    <3>2. CASE wheel = "left"
      BY <2>2, <3>1, <3>2 DEF Edge, Count, TypeOK, Wheels
    <3>3. CASE wheel = "right"
      BY <2>2, <3>1, <3>3 DEF Edge, Count, TypeOK, Wheels
    <3>4. QED
      BY <3>2, <3>3 DEF Wheels
  <2>3. QED
    BY <2>1, <2>2
<1>2. dir' = dir /\ pc' = pc /\ recvPacket' = recvPacket /\ deltaDist' = deltaDist
  BY DEF Edge, loopVars
<1>3. Odometer'
  <2>1. CASE Same
    BY <1>2, <2>1 DEF Odometer, Commanded, Travelled
  <2>2. CASE Counts
    <3>1. \A s \in Senses : dist'[s] = Dist(ticks'["left"][s])
      BY <2>2 DEF Odometer
    <3>2. moved'["left"] <= ticks'["left"][SenseOf(dir)]
      <4>1. ticks["left"][SenseOf(dir)] \in Nat /\ moved["left"] \in Nat
        BY <2>2, WatchedStraight DEF TypeOK, Wheels
      <4>2. QED
        BY <2>2, <4>1 DEF Odometer, Travelled
    <3>3. QED
      BY <1>2, <3>1, <3>2 DEF Odometer, Commanded, Travelled
  <2>3. QED
    BY <1>1, <2>1, <2>2
<1>4. ASSUME NEW d \in Straight
      PROVE  Base(d)' = Base(d) /\ Watched(d)' \in Nat /\ Watched(d)' >= Watched(d)
  <2>1. /\ Watched(d) = dist[SenseOf(d)] /\ Watched(d)' = dist'[SenseOf(d)]
        /\ SenseOf(d) \in Senses
    BY WatchedStraight DEF Straight, Watched, SenseOf
  <2>2. /\ Watched(d) = Dist(Travelled(d)) /\ Travelled(d) \in Nat
        /\ Watched(d) \in Nat
    BY WatchedOdometer
  <2>3. moved["left"] \in Nat
    BY DEF TypeOK, Wheels
  <2>4. CASE Same
    <3>1. Watched(d)' = Watched(d)
      BY <2>1, <2>4
    <3>2. Base(d)' = Base(d)
      BY <1>2, <2>4 DEF Base, Travelled
    <3>3. QED
      BY <2>2, <3>1, <3>2
  <2>5. CASE Counts /\ SenseOf(d) = SenseOf(dir)
    <3>1. d = dir
      BY <2>5 DEF SenseOf, Straight
    <3>2. Base(d)' = Base(d)
      BY <1>2, <2>2, <2>3, <2>5, <3>1 DEF Base, Travelled
    <3>3. Watched(d)' = Dist(Travelled(d) + 1)
      BY <2>1, <2>5 DEF Travelled
    <3>4. Dist(Travelled(d)) + Dist(1) <= Dist(Travelled(d) + 1) /\ Dist(1) \in Nat
      BY <2>2, DistSum, FirmwareArithmetic
    <3>5. Dist(Travelled(d) + 1) \in Nat
      BY <2>2, FirmwareArithmetic
    <3>6. QED
      BY <2>2, <3>2, <3>3, <3>4, <3>5
  <2>6. CASE Counts /\ SenseOf(d) # SenseOf(dir)
    <3>1. d # dir
      BY <2>6
    <3>2. ticks'["left"][SenseOf(d)] = ticks["left"][SenseOf(d)] /\ Watched(d)' = Watched(d)
      BY <2>1, <2>6
    <3>3. Base(d)' = Base(d)
      BY <1>2, <3>1, <3>2 DEF Base, Travelled
    <3>4. QED
      BY <2>2, <3>2, <3>3
  <2>7. QED
    BY <1>1, <2>4, <2>5, <2>6
<1>5. QED
  BY <1>3, <1>4

-----------------------------------------------------------------------------
\* What a step keeps: that the target is the commanded distance past the base
\* or more, and, while loads are whole, no more.
Kept == Odometer' /\ Ahead' /\ (NotBeyond /\ OdometerShort => NotBeyond')

\* Edges keep it: they leave the base alone.
LEMMA EdgeKeeps ==
  ASSUME TypeOK, Odometer, Ahead, NEW wheel \in Wheels, Edge(wheel)
  PROVE  Kept
<1>1. /\ pc' = pc /\ recvPacket' = recvPacket /\ low' = low /\ dir' = dir
      /\ deltaDist' = deltaDist /\ newDist' = newDist
  BY DEF Edge, loopVars
<1>2. /\ Odometer'
      /\ \A d \in Straight : /\ Base(d)' = Base(d)
                             /\ Watched(d)' \in Nat /\ Watched(d)' >= Watched(d)
  BY EdgeBase
<1>3. Commanded' = Commanded /\ Target' = Target /\ (TargetSet' <=> TargetSet)
  BY <1>1 DEF Commanded, Target, TargetSet
<1>4. pc = "setTarget" => Commanded \in Straight
  BY DEF Odometer, Starting
<1>5. TargetSet => Target \in Straight
  BY DEF TargetSet, Target, Odometer, Starting
<1>6. pc = "setTarget" => Base(Commanded)' = Base(Commanded)
  BY <1>2, <1>3, <1>4
<1>7. TargetSet => Base(Target)' = Base(Target)
  BY <1>2, <1>3, <1>5
<1>8. pc = "compareDist" => low <= Watched(dir)'
  <2> HAVE pc = "compareDist"
  <2>1. /\ dir \in Straight /\ low <= Watched(dir)
        /\ low \in Nat /\ Watched(dir) \in Nat
    BY WatchedOdometer DEF Ahead, TypeOK
  <2>2. Watched(dir)' \in Nat /\ Watched(dir)' >= Watched(dir)
    BY <1>1, <1>2, <2>1
  <2>3. QED
    BY <2>1, <2>2
<1>9. QED
  BY <1>1, <1>2, <1>3, <1>6, <1>7, <1>8 DEF Kept, Ahead, NotBeyond

\* Handlers keep it.  LoadTarget makes the counter the base, of which low is
\* the low byte; SetTarget adds the distance to what it makes of the two.
LEMMA HandlerKeeps ==
  ASSUME StraightOnly, TypeOK, Odometer, Ahead, HandleCommand \/ Handler
  PROVE  Kept
<1> USE DEF Kept, Odometer, Ahead, NotBeyond, TargetSet, Target, Commanded, Starting
<1>1. ASSUME NEW p \in Packets, Receive(p), StartDistance(p)
      PROVE  Kept
  <2>1. Heading(p.command) \in Straight
    BY <1>1 DEF StartDistance, Heading, Straight
  <2>2. deltaDist' > 0
    BY <1>1, FirmwareArithmetic, MotionAssumption DEF StartDistance, TPacket
  <2>3. QED
    BY <1>1, <2>1, <2>2 DEF Receive, StartDistance, counterVars, Travelled
<1>2. ASSUME NEW p \in Packets, Receive(p),
             StartTurn(p) \/ HandleStop(p) \/ HandleOther(p) \/ HandleClear(p)
      PROVE  Kept
  <2>1. HandleStop(p) \/ HandleOther(p)
    BY <1>2 DEF StraightOnly, StartTurn, HandleClear
  <2>2. UNCHANGED <<low, dir, loopVars, counterVars, moved>> /\ pc' = "checkDist"
    BY <2>1 DEF HandleStop, HandleOther
  <2>3. QED
    BY <1>2, <2>2 DEF Receive, loopVars, counterVars, Travelled, Base, Watched
<1>3. CASE LoadTarget
  <2>1. Commanded \in Straight
    BY <1>3 DEF LoadTarget
  <2>2. /\ dir' = dir /\ recvPacket' = recvPacket /\ pc' = "setTarget"
        /\ ticks' = ticks /\ dist' = dist /\ deltaDist' = deltaDist
        /\ moved'["left"] = 0 /\ low' = Watched(Commanded) % 256
    BY <1>3 DEF LoadTarget, loopVars, counterVars, Wheels
  <2>3. Base(Commanded)' = Travelled(Commanded) /\ Travelled(Commanded) \in Nat
    BY <2>1, <2>2, WatchedOdometer DEF Base, Travelled
  <2>4. low' = Dist(Base(Commanded)') % 256
    BY <2>1, <2>2, <2>3, WatchedOdometer
  <2>5. dir \in Straight => moved'["left"] <= ticks'["left"][SenseOf(dir)]
    BY <2>2, WatchedStraight DEF TypeOK, Wheels
  <2>6. Odometer'
    BY <1>3, <2>2, <2>5 DEF LoadTarget, Travelled
  <2>7. QED
    BY <2>2, <2>4, <2>6
<1>4. CASE SetTarget
  <2>1. Commanded \in Straight
    BY <1>4 DEF SetTarget
  <2>2. /\ dir' = dir /\ recvPacket' = recvPacket /\ pc' = "setDir"
        /\ ticks' = ticks /\ dist' = dist /\ deltaDist' = deltaDist
        /\ moved' = moved
        /\ newDist' = Loaded(Watched(Commanded)) + deltaDist
    BY <1>4, <2>1 DEF SetTarget, TargetFrom, counterVars
  <2>3. low = Dist(Base(Commanded)) % 256
    BY <1>4 DEF SetTarget
  <2>4. /\ Watched(Commanded) \in Nat /\ Dist(Base(Commanded)) \in Nat
        /\ Dist(Base(Commanded)) <= Watched(Commanded)
        /\ deltaDist \in Nat
    BY <2>1, WatchedOdometer DEF TypeOK
  <2>5. Loaded(Watched(Commanded)) >= Dist(Base(Commanded))
    BY <2>3, <2>4, TornAhead DEF Loaded
  <2>6. OdometerShort => Loaded(Watched(Commanded)) = Dist(Base(Commanded))
    <3> HAVE OdometerShort
    <3>1. Watched(Commanded) < 256
      BY <2>1, WatchedStraight DEF OdometerShort
    <3>2. Watched(Commanded) % 256 = Watched(Commanded) /\ low = Dist(Base(Commanded))
      BY <2>3, <2>4, <3>1, LowByte
    <3>3. QED
      BY <2>4, <3>2 DEF Loaded
  <2>7. Base(Commanded)' = Base(Commanded) /\ Target' = Commanded
    BY <2>2 DEF Base, Travelled
  <2>8. Odometer'
    BY <2>2, <1>4 DEF SetTarget, Travelled
  <2>9. Loaded(Watched(Commanded)) \in Nat
    BY <2>1, WatchedType DEF Straight, Directions
  <2>10. QED
    BY <2>2, <2>4, <2>5, <2>6, <2>7, <2>8, <2>9
<1>5. CASE SetDir
  <2>1. Commanded \in Straight
    BY <1>5 DEF SetDir
  <2>2. /\ dir' = Commanded /\ recvPacket' = recvPacket /\ pc' = "move"
        /\ ticks' = ticks /\ dist' = dist /\ deltaDist' = deltaDist
        /\ newDist' = newDist
        /\ moved'["left"] = IF dir = Commanded THEN moved["left"] ELSE 0
    BY <1>5 DEF SetDir, counterVars, loopVars, Wheels
  <2>3. Base(Commanded)' = Base(Commanded)
    BY <2>2 DEF Base, Travelled
  <2>4. moved'["left"] <= ticks'["left"][SenseOf(Commanded)]
    <3>1. Travelled(Commanded) \in Nat
      BY <2>1, WatchedOdometer
    <3>2. CASE dir = Commanded
      BY <2>1, <2>2, <3>2 DEF Travelled
    <3>3. CASE dir # Commanded
      BY <2>2, <3>1, <3>3 DEF Travelled
    <3>4. QED
      BY <3>2, <3>3
  <2>5. Odometer'
    BY <1>5, <2>2, <2>4 DEF SetDir, Travelled
  <2>6. QED
    BY <1>5, <2>2, <2>3, <2>5 DEF SetDir
<1>6. CASE Move
  BY <1>6 DEF Move, counterVars, loopVars, Base, Travelled
<1>7. CASE ClearRest
  BY <1>7 DEF ClearRest
<1>8. QED
  BY <1>1, <1>2, <1>3, <1>4, <1>5, <1>6, <1>7 DEF HandleCommand, Handler

\* The checks keep it: they load the low byte of the odometer, and end a move
\* by forgetting its target.
LEMMA CheckKeeps ==
  ASSUME TypeOK, Odometer, Ahead, ReadNothing \/ Checks
  PROVE  Kept
<1> USE DEF Kept, Odometer, Ahead, NotBeyond, TargetSet, Target, Commanded, Starting,
            LoopFrame, counterVars, loopVars, Travelled, Base
<1>1. CASE ReadNothing
  BY <1>1 DEF ReadNothing
<1>2. CASE CheckDist
  <2>1. CASE deltaDist > 0 /\ dir \in Straight
    <3>1. Watched(dir)' = Watched(dir)
      BY <1>2, <2>1 DEF CheckDist, Watched
    <3>2. Watched(dir) \in Nat /\ Watched(dir) % 256 <= Watched(dir)
      BY <2>1, WatchedOdometer, LowByte
    <3>3. QED
      BY <1>2, <2>1, <3>1, <3>2 DEF CheckDist
  <2>2. CASE ~(deltaDist > 0 /\ dir \in Straight)
    BY <1>2, <2>2 DEF CheckDist, EndDistance
  <2>3. QED
    BY <2>1, <2>2
<1>3. CASE CompareDist
  BY <1>3 DEF CompareDist, EndDistance
<1>4. CASE CheckTurn
  BY <1>4 DEF CheckTurn, EndTurn, Straight, Turning
<1>5. CASE CompareTurn
  BY <1>5 DEF CompareTurn, EndTurn
<1>6. QED
  BY <1>1, <1>2, <1>3, <1>4, <1>5 DEF Checks

\* The invariant that needs no whole loads.
THEOREM OdometerAhead ==
  ASSUME StraightOnly
  PROVE  Spec => [](Odometer /\ Ahead)
<1>1. Init => Odometer /\ Ahead
  BY FirmwareArithmetic
     DEF Init, Odometer, Ahead, TargetSet, Starting, Cleared, Straight, Dist, COUNTS_PER_REV, Wheels, Senses
<1>2. ASSUME TypeOK, Odometer, Ahead, [Next]_vars
      PROVE  Kept
  <2>1. CASE UNCHANGED vars
    BY <1>2, <2>1
       DEF vars, counterVars, loopVars, Kept, Odometer, Ahead, NotBeyond, TargetSet,
           Target, Commanded, Travelled, Base, Watched
  <2>2. QED
    BY <1>2, <2>1, EdgeKeeps, HandlerKeeps, CheckKeeps, MotionAssumption
       DEF Next, Loop
<1>3. TypeOK /\ Odometer /\ Ahead /\ [Next]_vars => (Odometer /\ Ahead)'
  BY <1>2 DEF Kept
<1>4. QED
  BY <1>1, <1>3, TypeCorrect, PTL DEF Spec

-----------------------------------------------------------------------------
(***************************************************************************)
(* The two sides of the commanded distance                                 *)
(***************************************************************************)

\* A comparison that does not read the odometer ahead of what it shows never
\* ends a move early: a torn load is the only way to an early stop.
NoEarlyStopUntorn ==
  [][pc = "compareDist" /\ speed > 0 /\ speed' = 0 /\ Loaded(Watched(dir)) <= Watched(dir)
       => Dist(moved["left"]) >= deltaDist]_vars

\* A step that stops the motors in the comparison, with a load that is not
\* ahead, does so after the distance.
LEMMA StopsAtDistance ==
  ASSUME TypeOK, Odometer, Ahead, [Next]_vars,
         pc = "compareDist", speed > 0, speed' = 0,
         Loaded(Watched(dir)) <= Watched(dir)
  PROVE  Dist(moved["left"]) >= deltaDist
<1>1. CompareDist /\ DistReached
  <2>1. UNCHANGED vars \/ Next
    OBVIOUS
  <2>2. ~ UNCHANGED vars
    BY DEF vars, motorVars
  <2>3. ASSUME NEW wheel \in Encoders, Edge(wheel) PROVE FALSE
    BY <2>3 DEF Edge
  <2>4. CompareDist
    BY <2>1, <2>2, <2>3
       DEF Next, Loop, ReadNothing, HandleCommand, Receive, Handler, ClearRest,
           LoadTarget, SetTarget, SetDir, Move, Checks, CheckDist, CheckTurn, CompareTurn
  <2>5. QED
    BY <2>4 DEF CompareDist, motorVars
<1>2. dir \in Straight /\ deltaDist > 0 /\ newDist >= Dist(Base(dir)) + deltaDist
  BY DEF Ahead, TargetSet, Target, Starting
<1>3. /\ Travelled(dir) \in Nat /\ Base(dir) \in Nat /\ moved["left"] \in Nat
      /\ Travelled(dir) = Base(dir) + moved["left"]
  BY <1>2, WatchedOdometer DEF Base, TypeOK, Wheels
<1>4. Dist(Base(dir) + moved["left"]) <= Dist(Base(dir)) + Dist(moved["left"]) + 1
  BY <1>3, DistSum
<1>5. Watched(dir) = Dist(Base(dir) + moved["left"]) /\ Watched(dir) \in Nat
  BY <1>2, <1>3, WatchedOdometer
<1>6. Loaded(Watched(dir)) > newDist /\ Loaded(Watched(dir)) \in Nat
  BY <1>1, <1>2, WatchedType DEF DistReached, Straight, Directions
<1>7. /\ Dist(Base(dir)) \in Nat /\ Dist(moved["left"]) \in Nat
      /\ newDist \in Nat /\ deltaDist \in Nat
  BY <1>3, FirmwareArithmetic DEF TypeOK
<1>8. QED
  BY <1>2, <1>4, <1>5, <1>6, <1>7

\* However far the robot has moved, in however many moves, a straight move ends
\* early only if the comparison reads a torn odometer.
THEOREM EarlyStopIsTorn ==
  ASSUME StraightOnly
  PROVE  Spec => NoEarlyStopUntorn
<1>1. TypeOK /\ Odometer /\ Ahead /\ [Next]_vars
        => [pc = "compareDist" /\ speed > 0 /\ speed' = 0
            /\ Loaded(Watched(dir)) <= Watched(dir)
              => Dist(moved["left"]) >= deltaDist]_vars
  BY StopsAtDistance
<1>2. QED
  BY <1>1, TypeCorrect, OdometerAhead, PTL DEF Spec, NoEarlyStopUntorn

\* While the odometer is below 256 cm no load is ahead, and no move ends early.
THEOREM DistanceCovered ==
  ASSUME StraightOnly
  PROVE  Spec /\ []OdometerShort => NoEarlyStop
<1>1. TypeOK /\ Odometer /\ Ahead /\ OdometerShort /\ [Next]_vars
        => [pc = "compareDist" /\ speed > 0 /\ speed' = 0
              => Dist(moved["left"]) >= deltaDist]_vars
  <2> SUFFICES ASSUME TypeOK, Odometer, Ahead, OdometerShort, [Next]_vars,
                      pc = "compareDist", speed > 0, speed' = 0
               PROVE  Dist(moved["left"]) >= deltaDist
    OBVIOUS
  <2>1. dir \in Straight /\ low <= Watched(dir) /\ low \in Nat
    BY DEF Ahead, TypeOK
  <2>2. Watched(dir) \in Nat /\ Watched(dir) < 256
    BY <2>1, WatchedOdometer, WatchedStraight DEF OdometerShort
  <2>3. Watched(dir) % 256 = Watched(dir)
    BY <2>2, LowByte
  <2>4. Loaded(Watched(dir)) <= Watched(dir)
    BY <2>1, <2>2, <2>3 DEF Loaded
  <2>5. QED
    BY <2>4, StopsAtDistance
<1>2. QED
  BY <1>1, TypeCorrect, OdometerAhead, PTL DEF Spec, NoEarlyStop

\* While the odometer is below 256 cm the target is right, so once the wheel
\* has covered the distance and a centimetre, the next check ends the move.
THEOREM ArrivalShown ==
  ASSUME StraightOnly
  PROVE  Spec /\ []OdometerShort => []ShowsArrival
<1>1. Init => NotBeyond
  BY DEF Init, NotBeyond, TargetSet, Starting, Straight
<1>2. TypeOK /\ Odometer /\ Ahead /\ NotBeyond /\ OdometerShort /\ [Next]_vars
        => NotBeyond'
  <2> SUFFICES ASSUME TypeOK, Odometer, Ahead, NotBeyond, OdometerShort, [Next]_vars
               PROVE  NotBeyond'
    OBVIOUS
  <2>1. CASE UNCHANGED vars
    BY <2>1
       DEF vars, counterVars, loopVars, NotBeyond, TargetSet, Target, Commanded,
           Travelled, Base
  <2>2. QED
    BY <2>1, EdgeKeeps, HandlerKeeps, CheckKeeps, MotionAssumption
       DEF Next, Loop, Kept
<1>3. TypeOK /\ Odometer /\ NotBeyond => ShowsArrival
  <2> SUFFICES ASSUME TypeOK, Odometer, NotBeyond,
                      speed > 0, dir \in Straight, deltaDist > 0,
                      pc \in {"readPacket", "checkDist", "compareDist", "checkTurn"},
                      Dist(moved["left"]) > deltaDist
               PROVE  Watched(dir) > newDist
    BY DEF ShowsArrival
  <2>1. newDist <= Dist(Base(dir)) + deltaDist
    BY DEF NotBeyond, TargetSet, Target, Starting
  <2>2. /\ Travelled(dir) \in Nat /\ Base(dir) \in Nat /\ moved["left"] \in Nat
        /\ Travelled(dir) = Base(dir) + moved["left"]
    BY WatchedOdometer DEF Base, TypeOK, Wheels
  <2>3. Dist(Base(dir)) + Dist(moved["left"]) <= Dist(Base(dir) + moved["left"])
    BY <2>2, DistSum
  <2>4. Watched(dir) = Dist(Base(dir) + moved["left"]) /\ Watched(dir) \in Nat
    BY <2>2, WatchedOdometer
  <2>5. /\ Dist(Base(dir)) \in Nat /\ Dist(moved["left"]) \in Nat
        /\ newDist \in Nat /\ deltaDist \in Nat
    BY <2>2, FirmwareArithmetic DEF TypeOK
  <2>6. QED
    BY <2>1, <2>3, <2>4, <2>5
<1>4. QED
  BY <1>1, <1>2, <1>3, TypeCorrect, OdometerAhead, PTL DEF Spec

-----------------------------------------------------------------------------
(***************************************************************************)
(* Turns.  Their counter is made from the reverse edges of the inner       *)
(* wheel, which REVERSE adds to without bringing the counter up to date.   *)
(***************************************************************************)

\* The Pi asks for no REVERSE, and does not clear the counters.
NeverBackward ==
  \A p \in Packets : p.command \notin {"REVERSE", "CLEAR_STATS"}

\* The wheel whose counter loop() watches in a turn in direction d, and its
\* edges that the counter is made from.
Inner(d) == IF d = "LEFT" THEN "left" ELSE "right"
Reversed(d) == ticks[Inner(d)]["reverse"]

\* Those of them there were when the target was computed.
TurnBase(d) == Reversed(d) - (IF dir = d THEN moved[Inner(d)] ELSE 0)

Revolutions(edges) == edges \div COUNTS_PER_REV

\* There is a target of a turn to compare with.
TurnTargetSet ==
  \/ pc \in {"setDir", "move"} /\ Commanded \in Turning
  \/ pc \notin Starting /\ deltaTicks > 0 /\ dir \in Turning

\* The robot does not go backward, and the turn counters are what the edges of
\* the inner wheel say.
TurnCounters ==
  /\ dir # "BACKWARD"
  /\ pc # "clearRest"
  /\ pc \in Starting => Commanded \in Turning \cup {"FORWARD"}
  /\ pc = "move" => dir = Commanded
  /\ \A d \in Turning : Watched(d) = Revolutions(Reversed(d))
  /\ dir \in Turning => moved[Inner(dir)] <= Reversed(dir)

\* The target lies the ticks of the angle, or more, past the base.
TurnAhead ==
  /\ pc = "setTarget" /\ Commanded \in Turning
       => low = Revolutions(TurnBase(Commanded)) % 256
  /\ TurnTargetSet => targetTicks >= Revolutions(TurnBase(Target)) + deltaTicks
  /\ pc = "compareTurn" => dir \in Turning /\ deltaTicks > 0 /\ low <= Watched(dir)

\* It lies no further than that.
TurnNotBeyond ==
  TurnTargetSet => targetTicks <= Revolutions(TurnBase(Target)) + deltaTicks

TurnsShort == \A w \in Wheels, s \in Senses : turns[w][s] < 256

\* Whole revolutions of two stretches of edges, and of one after the other.
LEMMA RevolutionSum ==
  \A a, m \in Nat :
    /\ Revolutions(a) \in Nat
    /\ Revolutions(a) <= Revolutions(a + m)
    /\ \A n \in Nat : /\ Revolutions(a + m) >= Revolutions(a) + n
                           => m > COUNTS_PER_REV * (n - 1)
                      /\ m >= COUNTS_PER_REV * n
                           => Revolutions(a + m) >= Revolutions(a) + n
BY DEF Revolutions, COUNTS_PER_REV

\* In a turn loop() watches the counter of the inner wheel.
LEMMA WatchedTurning ==
  ASSUME NEW d \in Turning
  PROVE  /\ Watched(d) = turns[Inner(d)]["reverse"]
         /\ Inner(d) \in Wheels /\ "reverse" \in Senses
BY DEF Turning, Watched, Inner, Wheels, Senses

\* The counter shows the whole revolutions of the edges it is made from.
LEMMA WatchedTurns ==
  ASSUME TypeOK, TurnCounters, NEW d \in Turning
  PROVE  /\ Reversed(d) \in Nat /\ TurnBase(d) \in Nat
         /\ moved[Inner(d)] \in Nat
         /\ dir = d => Reversed(d) = TurnBase(d) + moved[Inner(d)]
         /\ Watched(d) = Revolutions(Reversed(d))
         /\ Watched(d) \in Nat
         /\ Revolutions(TurnBase(d)) \in Nat
         /\ Revolutions(TurnBase(d)) <= Watched(d)
<1>1. Reversed(d) \in Nat /\ moved[Inner(d)] \in Nat
  BY WatchedTurning DEF Reversed, TypeOK
<1>2. TurnBase(d) \in Nat /\ TurnBase(d) <= Reversed(d)
  BY <1>1 DEF TurnBase, TurnCounters
<1>3. Watched(d) = Revolutions(Reversed(d))
  BY DEF TurnCounters
<1>4. PICK m \in Nat : Reversed(d) = TurnBase(d) + m
  <2>1. Reversed(d) - TurnBase(d) \in Nat
    BY <1>1, <1>2
  <2>2. Reversed(d) = TurnBase(d) + (Reversed(d) - TurnBase(d))
    BY <1>1, <1>2
  <2>3. QED
    BY <2>1, <2>2
<1>5. /\ Revolutions(TurnBase(d)) \in Nat /\ Revolutions(Reversed(d)) \in Nat
      /\ Revolutions(TurnBase(d)) <= Revolutions(Reversed(d))
  BY <1>1, <1>2, <1>4, RevolutionSum
<1>6. dir = d => Reversed(d) = TurnBase(d) + moved[Inner(d)]
  BY <1>1 DEF TurnBase
<1>7. QED
  BY <1>1, <1>2, <1>3, <1>5, <1>6

\* An edge moves the counter of a turn, and the history, but not the base of a
\* target.
LEMMA EdgeTurnBase ==
  ASSUME TypeOK, TurnCounters, NEW wheel \in Wheels, Edge(wheel)
  PROVE  /\ TurnCounters'
         /\ \A d \in Turning : /\ TurnBase(d)' = TurnBase(d)
                               /\ Watched(d)' \in Nat /\ Watched(d)' >= Watched(d)
<1> DEFINE Same(d) == /\ ticks'[Inner(d)]["reverse"] = ticks[Inner(d)]["reverse"]
                      /\ turns'[Inner(d)]["reverse"] = turns[Inner(d)]["reverse"]
                      /\ dir = d => moved'[Inner(d)] = moved[Inner(d)]
           Counts(d) == LET n == ticks[Inner(d)]["reverse"] + 1 IN
                        /\ dir = d
                        /\ ticks'[Inner(d)]["reverse"] = n
                        /\ turns'[Inner(d)]["reverse"] = n \div COUNTS_PER_REV
                        /\ moved'[Inner(d)] = moved[Inner(d)] + 1
<1>1. dir' = dir /\ pc' = pc /\ recvPacket' = recvPacket /\ deltaTicks' = deltaTicks
  BY DEF Edge, loopVars
<1>2. ASSUME NEW d \in Turning PROVE Same(d) \/ Counts(d)
  <2>0. dir # "BACKWARD"
    BY DEF TurnCounters
  <2>1. CASE dir = "STOP"
    BY <2>1 DEF Edge, Turning, counterVars
  <2>2. CASE dir # "STOP" /\ Sense(wheel) = "forward"
    <3>1. /\ ticks' = [ticks EXCEPT ![wheel]["forward"] = @ + 1]
          /\ \/ turns' = turns
             \/ turns' = [turns EXCEPT ![wheel]["forward"] =
                            (ticks[wheel]["forward"] + 1) \div COUNTS_PER_REV]
          /\ moved' = [moved EXCEPT ![wheel] = @ + 1]
      BY <2>2 DEF Edge, Count
    <3>2. dir = d => wheel # Inner(d)
      BY <2>2 DEF Sense, Inner, Turning, Wheels
    <3>3. QED
      BY <3>1, <3>2, WatchedTurning DEF TypeOK
  <2>3. CASE dir # "STOP" /\ Sense(wheel) # "forward"
    <3>1. Sense(wheel) = "reverse" /\ dir \in Turning /\ wheel = Inner(dir)
      BY <2>0, <2>3 DEF Sense, Inner, Turning, Wheels, TypeOK, Directions
    <3>2. /\ ticks' = [ticks EXCEPT ![wheel]["reverse"] = @ + 1]
          /\ turns' = [turns EXCEPT ![wheel]["reverse"] =
                          (ticks[wheel]["reverse"] + 1) \div COUNTS_PER_REV]
          /\ moved' = [moved EXCEPT ![wheel] = @ + 1]
      BY <2>3, <3>1 DEF Edge, Count
    <3>3. CASE d = dir
      BY <3>1, <3>2, <3>3, WatchedTurning DEF TypeOK
    <3>4. CASE d # dir
      <4>1. Inner(d) # wheel
        BY <3>1, <3>4 DEF Inner, Turning
      <4>2. QED
        BY <3>2, <3>4, <4>1, WatchedTurning DEF TypeOK
    <3>5. QED
      BY <3>3, <3>4
  <2>4. QED
    BY <2>1, <2>2, <2>3
<1>3. ASSUME NEW d \in Turning
      PROVE  /\ Watched(d)' = Revolutions(Reversed(d)')
             /\ TurnBase(d)' = TurnBase(d)
             /\ Watched(d)' \in Nat /\ Watched(d)' >= Watched(d)
             /\ dir = d => moved'[Inner(d)] <= ticks'[Inner(d)]["reverse"]
  <2>1. /\ Watched(d) = turns[Inner(d)]["reverse"]
        /\ Watched(d)' = turns'[Inner(d)]["reverse"]
        /\ Reversed(d)' = ticks'[Inner(d)]["reverse"]
    BY WatchedTurning DEF Turning, Watched, Inner, Reversed
  <2>2. /\ Reversed(d) \in Nat /\ moved[Inner(d)] \in Nat /\ Watched(d) \in Nat
        /\ Watched(d) = Revolutions(Reversed(d))
    BY WatchedTurns
  <2>3. dir = d => moved[Inner(d)] <= Reversed(d)
    BY DEF TurnCounters
  <2>4. CASE Same(d)
    <3>1. Reversed(d)' = Reversed(d) /\ Watched(d)' = Watched(d)
      BY <2>1, <2>4 DEF Reversed
    <3>2. TurnBase(d)' = TurnBase(d)
      BY <1>1, <2>4, <3>1 DEF TurnBase
    <3>3. dir = d => moved'[Inner(d)] <= ticks'[Inner(d)]["reverse"]
      BY <2>3, <2>4 DEF Reversed
    <3>4. Revolutions(Reversed(d)') = Revolutions(Reversed(d))
      BY <3>1
    <3>5. Watched(d)' >= Watched(d)
      BY <2>2, <3>1
    <3>6. QED
      BY <2>2, <3>1, <3>2, <3>3, <3>4, <3>5
  <2>5. CASE Counts(d)
    <3>1. Reversed(d)' = Reversed(d) + 1 /\ Watched(d)' = Revolutions(Reversed(d) + 1)
      BY <2>1, <2>5 DEF Reversed, Revolutions
    <3>2. /\ Revolutions(Reversed(d) + 1) \in Nat
          /\ Revolutions(Reversed(d)) <= Revolutions(Reversed(d) + 1)
      BY <2>2 DEF Revolutions, COUNTS_PER_REV
    <3>3. TurnBase(d)' = TurnBase(d)
      BY <1>1, <2>2, <2>5, <3>1 DEF TurnBase
    <3>4. moved'[Inner(d)] <= ticks'[Inner(d)]["reverse"]
      BY <2>2, <2>3, <2>5 DEF Reversed
    <3>5. Watched(d)' \in Nat /\ Watched(d)' >= Watched(d)
      BY <2>2, <3>1, <3>2
    <3>6. Watched(d)' = Revolutions(Reversed(d)')
      BY <3>1
    <3>7. QED
      BY <3>3, <3>4, <3>5, <3>6
  <2>6. QED
    BY <1>2, <2>4, <2>5
<1>4. TurnCounters'
  <2>1. \A d \in Turning : Watched(d)' = Revolutions(Reversed(d))'
    BY <1>3 DEF Revolutions
  <2>2. dir \in Turning => moved'[Inner(dir)] <= ticks'[Inner(dir)]["reverse"]
    BY <1>3
  <2>3. QED
    BY <1>1, <2>1, <2>2 DEF TurnCounters, Commanded, Reversed
<1>5. QED
  BY <1>3, <1>4

-----------------------------------------------------------------------------
\* What a step keeps of a turn.
TurnKept ==
  TurnCounters' /\ TurnAhead' /\ (TurnNotBeyond /\ TurnsShort => TurnNotBeyond')

LEMMA EdgeKeepsTurn ==
  ASSUME TypeOK, TurnCounters, TurnAhead, NEW wheel \in Wheels, Edge(wheel)
  PROVE  TurnKept
<1>1. /\ pc' = pc /\ recvPacket' = recvPacket /\ low' = low /\ dir' = dir
      /\ deltaTicks' = deltaTicks /\ targetTicks' = targetTicks
  BY DEF Edge, loopVars
<1>2. /\ TurnCounters'
      /\ \A d \in Turning : /\ TurnBase(d)' = TurnBase(d)
                            /\ Watched(d)' \in Nat /\ Watched(d)' >= Watched(d)
  BY EdgeTurnBase
<1>3. Commanded' = Commanded /\ Target' = Target /\ (TurnTargetSet' <=> TurnTargetSet)
  BY <1>1 DEF Commanded, Target, TurnTargetSet
<1>4. TurnTargetSet => Target \in Turning
  BY DEF TurnTargetSet, Target, TurnCounters, Starting
<1>5. Commanded \in Turning =>
        Revolutions(TurnBase(Commanded))' = Revolutions(TurnBase(Commanded))
  <2>1. Commanded \in Turning => TurnBase(Commanded)' = TurnBase(Commanded)
    BY <1>2, <1>3
  <2>2. QED
    BY <2>1 DEF Revolutions
<1>6. TurnTargetSet => Revolutions(TurnBase(Target))' = Revolutions(TurnBase(Target))
  <2>1. TurnTargetSet => TurnBase(Target)' = TurnBase(Target)
    BY <1>2, <1>3, <1>4
  <2>2. QED
    BY <2>1 DEF Revolutions
<1>7. pc = "compareTurn" => low <= Watched(dir)'
  <2> HAVE pc = "compareTurn"
  <2>1. /\ dir \in Turning /\ low <= Watched(dir)
        /\ low \in Nat /\ Watched(dir) \in Nat
    BY WatchedTurns DEF TurnAhead, TypeOK
  <2>2. Watched(dir)' \in Nat /\ Watched(dir)' >= Watched(dir)
    BY <1>1, <1>2, <2>1
  <2>3. QED
    BY <2>1, <2>2
<1>8. QED
  BY <1>1, <1>2, <1>3, <1>5, <1>6, <1>7 DEF TurnKept, TurnAhead, TurnNotBeyond

\* A step that leaves the counters of the edges alone leaves those of turns
\* right, and the bases where they are.
LEMMA CountersKept ==
  ASSUME TypeOK, TurnCounters, UNCHANGED <<ticks, turns, dir, moved>>
  PROVE  \A d \in Turning : /\ Watched(d)' = Watched(d)
                            /\ Reversed(d)' = Reversed(d)
                            /\ TurnBase(d)' = TurnBase(d)
BY DEF Turning, Watched, Reversed, TurnBase

LEMMA HandlerKeepsTurn ==
  ASSUME NeverBackward, TypeOK, TurnCounters, TurnAhead, HandleCommand \/ Handler
  PROVE  TurnKept
<1> USE DEF TurnKept, TurnCounters, TurnAhead, TurnNotBeyond, TurnTargetSet, Target,
            Commanded, Starting
<1>1. ASSUME NEW p \in Packets, Receive(p), StartDistance(p) \/ StartTurn(p)
      PROVE  TurnKept
  <2>1. Heading(p.command) \in Turning \cup {"FORWARD"}
    BY <1>1 DEF StartDistance, StartTurn, NeverBackward, Heading, Turning
  <2>2. /\ pc' = "loadTarget" /\ recvPacket' = p
        /\ UNCHANGED <<low, dir, ticks, turns, moved>>
    BY <1>1 DEF Receive, StartDistance, StartTurn, counterVars
  <2>3. QED
    BY <1>1, <2>1, <2>2, CountersKept DEF Receive, Reversed, Revolutions
<1>2. ASSUME NEW p \in Packets, Receive(p),
             HandleStop(p) \/ HandleOther(p) \/ HandleClear(p)
      PROVE  TurnKept
  <2>1. UNCHANGED <<low, dir, loopVars, counterVars, moved>> /\ pc' = "checkDist"
    BY <1>2 DEF NeverBackward, HandleStop, HandleOther, HandleClear
  <2>2. QED
    BY <1>2, <2>1, CountersKept DEF Receive, loopVars, counterVars, Reversed, Revolutions
<1>3. CASE LoadTarget
  <2>1. /\ dir' = dir /\ recvPacket' = recvPacket /\ pc' = "setTarget"
        /\ ticks' = ticks /\ turns' = turns /\ deltaTicks' = deltaTicks
        /\ moved' = [w \in Wheels |-> 0] /\ low' = Watched(Commanded) % 256
        /\ Commanded \in Turning \cup {"FORWARD"}
    BY <1>3 DEF LoadTarget, loopVars, counterVars
  <2>2. ASSUME NEW d \in Turning
        PROVE  /\ Watched(d)' = Revolutions(Reversed(d)')
               /\ Revolutions(TurnBase(d))' = Watched(d)
               /\ moved'[Inner(d)] <= Reversed(d)'
    <3>1. Reversed(d)' = Reversed(d) /\ Watched(d)' = Watched(d)
      BY <2>1 DEF Turning, Watched, Reversed
    <3>2. Watched(d) = Revolutions(Reversed(d)) /\ Reversed(d) \in Nat
      BY WatchedTurns
    <3>3. moved'[Inner(d)] = 0
      BY <2>1, WatchedTurning
    <3>4. TurnBase(d)' = Reversed(d)
      BY <2>1, <3>1, <3>2, <3>3 DEF TurnBase
    <3>5. QED
      BY <3>1, <3>2, <3>3, <3>4 DEF Revolutions
  <2>3. TurnCounters'
    <3>1. \A d \in Turning : Watched(d)' = Revolutions(Reversed(d))'
      BY <2>2 DEF Revolutions
    <3>2. dir \in Turning => moved'[Inner(dir)] <= ticks'[Inner(dir)]["reverse"]
      BY <2>2 DEF Reversed
    <3>3. QED
      BY <1>3, <2>1, <3>1, <3>2 DEF LoadTarget, Reversed
  <2>4. Commanded \in Turning => low' = Revolutions(TurnBase(Commanded))' % 256
    BY <2>1, <2>2
  <2>5. QED
    BY <2>1, <2>3, <2>4
<1>4. CASE SetTarget
  <2>1. /\ dir' = dir /\ recvPacket' = recvPacket /\ pc' = "setDir"
        /\ ticks' = ticks /\ turns' = turns /\ deltaTicks' = deltaTicks
        /\ moved' = moved
        /\ Commanded \in Turning => targetTicks' = Loaded(Watched(Commanded)) + deltaTicks
    BY <1>4 DEF SetTarget, TargetFrom, counterVars
  <2>2. TurnCounters'
    <3>1. Commanded \in Turning \cup {"FORWARD"}
      BY <1>4 DEF SetTarget
    <3>2. QED
      BY <2>1, <3>1, CountersKept DEF Reversed, Revolutions
  <2>3. ASSUME Commanded \in Turning
        PROVE  /\ targetTicks' >= Revolutions(TurnBase(Commanded))' + deltaTicks
               /\ TurnsShort => targetTicks' = Revolutions(TurnBase(Commanded))' + deltaTicks
    <3>1. low = Revolutions(TurnBase(Commanded)) % 256
      BY <1>4, <2>3 DEF SetTarget
    <3>2. /\ Watched(Commanded) \in Nat /\ Revolutions(TurnBase(Commanded)) \in Nat
          /\ Revolutions(TurnBase(Commanded)) <= Watched(Commanded)
          /\ deltaTicks \in Nat
      BY <2>3, WatchedTurns DEF TypeOK
    <3>3. Loaded(Watched(Commanded)) >= Revolutions(TurnBase(Commanded))
      BY <3>1, <3>2, TornAhead DEF Loaded
    <3>4. TurnsShort => Loaded(Watched(Commanded)) = Revolutions(TurnBase(Commanded))
      <4> HAVE TurnsShort
      <4>1. Watched(Commanded) < 256
        BY <2>3, WatchedTurning DEF TurnsShort
      <4>2. /\ Watched(Commanded) % 256 = Watched(Commanded)
            /\ low = Revolutions(TurnBase(Commanded))
        BY <3>1, <3>2, <4>1, LowByte
      <4>3. QED
        BY <3>2, <4>2 DEF Loaded
    <3>5. Revolutions(TurnBase(Commanded))' = Revolutions(TurnBase(Commanded))
      BY <2>1 DEF TurnBase, Reversed, Revolutions
    <3>6. Loaded(Watched(Commanded)) \in Nat
      BY <2>3, WatchedType DEF Turning, Directions
    <3>7. QED
      BY <2>1, <2>3, <3>2, <3>3, <3>4, <3>5, <3>6
  <2>4. Target' = Commanded /\ Commanded' = Commanded
    BY <2>1
  <2>5. Revolutions(TurnBase(Target))' = Revolutions(TurnBase(Commanded))'
    BY <2>4
  <2>6. (TurnTargetSet' <=> Commanded \in Turning) /\ pc' = "setDir"
    BY <2>1
  <2>7. Commanded \in Turning /\ TurnsShort =>
          targetTicks' <= Revolutions(TurnBase(Commanded))' + deltaTicks
    <3> HAVE Commanded \in Turning /\ TurnsShort
    <3>1. Revolutions(TurnBase(Commanded)) \in Nat /\ deltaTicks \in Nat
      BY WatchedTurns DEF TypeOK
    <3>2. Revolutions(TurnBase(Commanded))' = Revolutions(TurnBase(Commanded))
      BY <2>1 DEF TurnBase, Reversed, Revolutions
    <3>3. QED
      BY <2>3, <3>1, <3>2
  <2>8. TurnAhead'
    BY <2>1, <2>3, <2>5, <2>6
  <2>9. TurnNotBeyond /\ TurnsShort => TurnNotBeyond'
    BY <2>1, <2>5, <2>6, <2>7
  <2>10. QED
    BY <2>2, <2>8, <2>9
<1>5. CASE SetDir
  <2>1. /\ dir' = Commanded /\ recvPacket' = recvPacket /\ pc' = "move"
        /\ ticks' = ticks /\ turns' = turns /\ deltaTicks' = deltaTicks
        /\ targetTicks' = targetTicks
        /\ moved' = IF dir = Commanded THEN moved ELSE [w \in Wheels |-> 0]
        /\ Commanded \in Turning \cup {"FORWARD"}
    BY <1>5 DEF SetDir, counterVars, loopVars
  <2>2. ASSUME NEW d \in Turning
        PROVE  /\ Watched(d)' = Revolutions(Reversed(d)')
               /\ Reversed(d)' = Reversed(d)
               /\ Commanded = d => /\ TurnBase(d)' = TurnBase(d)
                                   /\ moved'[Inner(d)] <= Reversed(d)
    <3>1. Reversed(d)' = Reversed(d) /\ Watched(d)' = Watched(d)
      BY <2>1 DEF Turning, Watched, Reversed
    <3>2. Watched(d) = Revolutions(Reversed(d)) /\ Reversed(d) \in Nat
      BY WatchedTurns
    <3>3. dir = d => moved[Inner(d)] <= Reversed(d)
      OBVIOUS
    <3>4. moved'[Inner(d)] = IF dir = Commanded THEN moved[Inner(d)] ELSE 0
      BY <2>1, WatchedTurning
    <3>5. Commanded = d => TurnBase(d)' = TurnBase(d)
      BY <2>1, <3>1, <3>2, <3>4 DEF TurnBase
    <3>6. Commanded = d => moved'[Inner(d)] <= Reversed(d)
      BY <3>2, <3>3, <3>4
    <3>7. QED
      BY <3>1, <3>2, <3>5, <3>6
  <2>3. TurnCounters'
    <3>1. \A d \in Turning : Watched(d)' = Revolutions(Reversed(d))'
      BY <2>2 DEF Revolutions
    <3>2. ASSUME Commanded \in Turning
          PROVE  moved'[Inner(Commanded)] <= ticks'[Inner(Commanded)]["reverse"]
      BY <2>1, <2>2, <3>2 DEF Reversed
    <3>3. dir' \in Turning => moved'[Inner(dir')] <= Reversed(dir)'
      BY <2>1, <3>2 DEF Reversed
    <3>4. QED
      BY <2>1, <3>1, <3>3 DEF Turning
  <2>4. Target' = Commanded /\ Target = Commanded
    BY <1>5, <2>1 DEF SetDir
  <2>5. Commanded \in Turning =>
          Revolutions(TurnBase(Target))' = Revolutions(TurnBase(Target))
    BY <2>2, <2>4 DEF Revolutions
  <2>6. TurnTargetSet' => TurnTargetSet /\ Commanded \in Turning
    BY <1>5, <2>1 DEF SetDir
  <2>7. QED
    BY <2>1, <2>3, <2>5, <2>6
<1>6. CASE Move
  <2>1. /\ UNCHANGED <<recvPacket, low, dir, deltaTicks, targetTicks, ticks, turns, moved>>
        /\ pc = "move" /\ pc' = "checkDist"
    BY <1>6 DEF Move, counterVars, loopVars
  <2>2. QED
    BY <2>1, CountersKept DEF Reversed, Revolutions
<1>7. CASE ClearRest
  BY <1>7 DEF ClearRest
<1>8. QED
  BY <1>1, <1>2, <1>3, <1>4, <1>5, <1>6, <1>7 DEF HandleCommand, Handler

LEMMA CheckKeepsTurn ==
  ASSUME TypeOK, TurnCounters, TurnAhead, ReadNothing \/ Checks
  PROVE  TurnKept
<1> USE DEF TurnKept, TurnCounters, TurnAhead, TurnNotBeyond, TurnTargetSet, Target,
            Commanded, Starting, LoopFrame
<1>1. /\ UNCHANGED <<recvPacket, dir, ticks, turns, moved>>
      /\ \A d \in Turning : /\ Watched(d)' = Watched(d)
                            /\ Reversed(d)' = Reversed(d)
                            /\ TurnBase(d)' = TurnBase(d)
  <2>1. UNCHANGED <<recvPacket, dir, ticks, turns, moved>>
    BY DEF ReadNothing, Checks, CheckDist, CompareDist, CheckTurn, CompareTurn, counterVars
  <2>2. QED
    BY <2>1, CountersKept
<1>2. CASE ReadNothing
  BY <1>1, <1>2 DEF ReadNothing, loopVars, Reversed, Revolutions
<1>3. CASE CheckDist
  BY <1>1, <1>3 DEF CheckDist, EndDistance, loopVars, Reversed, Revolutions
<1>4. CASE CompareDist
  BY <1>1, <1>4 DEF CompareDist, EndDistance, loopVars, Reversed, Revolutions
<1>5. CASE CheckTurn
  <2>1. CASE deltaTicks > 0 /\ dir \in Turning
    <3>1. Watched(dir) \in Nat /\ Watched(dir) % 256 <= Watched(dir)
      BY <2>1, WatchedTurns, LowByte
    <3>2. QED
      BY <1>1, <1>5, <2>1, <3>1 DEF CheckTurn, loopVars, Reversed, Revolutions
  <2>2. CASE ~(deltaTicks > 0 /\ dir \in Turning)
    BY <1>1, <1>5, <2>2 DEF CheckTurn, EndTurn, loopVars, Reversed, Revolutions
  <2>3. QED
    BY <2>1, <2>2
<1>6. CASE CompareTurn
  BY <1>1, <1>6 DEF CompareTurn, EndTurn, loopVars, Reversed, Revolutions
<1>7. QED
  BY <1>2, <1>3, <1>4, <1>5, <1>6 DEF Checks

LEMMA TurnInit == Init => TurnCounters /\ TurnAhead /\ TurnNotBeyond
BY DEF Init, TurnCounters, TurnAhead, TurnNotBeyond, TurnTargetSet, Starting, Cleared,
       Turning, Watched, Reversed, Inner, Revolutions, COUNTS_PER_REV, Wheels, Senses

LEMMA TurnStep ==
  ASSUME NeverBackward, TypeOK, TurnCounters, TurnAhead, [Next]_vars
  PROVE  TurnKept
<1>1. CASE UNCHANGED vars
  <2>1. /\ UNCHANGED <<pc, recvPacket, low, dir, deltaTicks, targetTicks>>
        /\ UNCHANGED <<ticks, turns, moved>>
    BY <1>1 DEF vars, counterVars, loopVars
  <2>2. QED
    BY <2>1
       DEF TurnKept, TurnCounters, TurnAhead, TurnNotBeyond, TurnTargetSet, Target,
           Commanded, Reversed, Revolutions, TurnBase, Watched, Turning
<1>2. QED
  BY <1>1, EdgeKeepsTurn, HandlerKeepsTurn, CheckKeepsTurn, MotionAssumption
     DEF Next, Loop

\* The invariant of turns that needs no whole loads.
THEOREM TurnCounterAhead ==
  ASSUME NeverBackward
  PROVE  Spec => [](TurnCounters /\ TurnAhead)
<1>1. TypeOK /\ TurnCounters /\ TurnAhead /\ [Next]_vars => (TurnCounters /\ TurnAhead)'
  BY TurnStep DEF TurnKept
<1>2. QED
  BY <1>1, TurnInit, TypeCorrect, PTL DEF Spec

-----------------------------------------------------------------------------
(***************************************************************************)
(* The two sides of the commanded angle                                    *)
(***************************************************************************)

\* A turn never ends before its inner wheel has made all but the last of the
\* ticks asked for, COUNTS_PER_REV edges each.
NoEarlyTurn ==
  [][pc = "compareTurn" /\ speed > 0 /\ speed' = 0
       => moved[Inner(dir)] > COUNTS_PER_REV * (deltaTicks - 1)]_vars

\* Once it has made COUNTS_PER_REV edges for each tick, the counter has reached
\* the target and the next check ends the turn.
ShowsFourfold ==
  /\ speed > 0 /\ dir \in Turning /\ deltaTicks > 0
  /\ pc \in {"readPacket", "checkDist", "checkTurn", "compareTurn"}
  /\ moved[Inner(dir)] >= COUNTS_PER_REV * deltaTicks
  => Watched(dir) >= targetTicks

\* The only step that stops the motors at the comparison is the comparison.
LEMMA OnlyCompareEndsTurn ==
  ASSUME [Next]_vars, pc = "compareTurn", speed > 0, speed' = 0
  PROVE  CompareTurn /\ TurnReached
<1>1. UNCHANGED vars \/ Next
  OBVIOUS
<1>2. ~ UNCHANGED vars
  BY DEF vars, motorVars
<1>3. ASSUME NEW wheel \in Encoders, Edge(wheel) PROVE FALSE
  BY <1>3 DEF Edge
<1>4. CompareTurn
  BY <1>1, <1>2, <1>3
     DEF Next, Loop, ReadNothing, HandleCommand, Receive, Handler, ClearRest,
         LoadTarget, SetTarget, SetDir, Move, Checks, CheckDist, CheckTurn, CompareDist
<1>5. QED
  BY <1>4 DEF CompareTurn, motorVars

\* Without REVERSE, while the counters of turns are below 256 revolutions, no
\* turn ends early.
THEOREM AngleCovered ==
  ASSUME NeverBackward
  PROVE  Spec /\ []TurnsShort => NoEarlyTurn
<1>1. TypeOK /\ TurnCounters /\ TurnAhead /\ TurnsShort /\ [Next]_vars
        => [pc = "compareTurn" /\ speed > 0 /\ speed' = 0
              => moved[Inner(dir)] > COUNTS_PER_REV * (deltaTicks - 1)]_vars
  <2> SUFFICES ASSUME TypeOK, TurnCounters, TurnAhead, TurnsShort, [Next]_vars,
                      pc = "compareTurn", speed > 0, speed' = 0
               PROVE  moved[Inner(dir)] > COUNTS_PER_REV * (deltaTicks - 1)
    OBVIOUS
  <2>1. Loaded(Watched(dir)) >= targetTicks
    BY OnlyCompareEndsTurn DEF TurnReached
  <2>2. /\ dir \in Turning /\ deltaTicks > 0 /\ low <= Watched(dir)
        /\ targetTicks >= Revolutions(TurnBase(dir)) + deltaTicks
    BY DEF TurnAhead, TurnTargetSet, Target, Starting
  <2>3. /\ TurnBase(dir) \in Nat /\ moved[Inner(dir)] \in Nat
        /\ Watched(dir) = Revolutions(TurnBase(dir) + moved[Inner(dir)])
        /\ Watched(dir) \in Nat /\ Revolutions(TurnBase(dir)) \in Nat
    BY <2>2, WatchedTurns
  <2>4. low \in Nat /\ targetTicks \in Nat /\ deltaTicks \in Nat
    BY DEF TypeOK
  <2>5. Watched(dir) < 256
    BY <2>2, WatchedTurning DEF TurnsShort
  <2>6. Watched(dir) % 256 = Watched(dir)
    BY <2>3, <2>5, LowByte
  <2>7. Loaded(Watched(dir)) <= Watched(dir)
    BY <2>2, <2>3, <2>4, <2>6 DEF Loaded
  <2>8. Loaded(Watched(dir)) \in Nat
    BY <2>2, WatchedType DEF Turning, Directions
  <2>9. Watched(dir) >= Revolutions(TurnBase(dir)) + deltaTicks
    BY <2>1, <2>2, <2>3, <2>4, <2>7, <2>8
  <2>10. PICK base, m \in Nat : base = TurnBase(dir) /\ m = moved[Inner(dir)]
    BY <2>3
  <2>11. Revolutions(base + m) >= Revolutions(base) + deltaTicks
    BY <2>3, <2>9, <2>10
  <2>12. m > COUNTS_PER_REV * (deltaTicks - 1)
    BY <2>4, <2>11, RevolutionSum
  <2>13. QED
    BY <2>10, <2>12
<1>2. QED
  BY <1>1, TypeCorrect, TurnCounterAhead, PTL DEF Spec, NoEarlyTurn

\* And none goes on past the first check after COUNTS_PER_REV times its angle:
\* with AngleCovered, loop() ends a turn at four times the angle asked for, or
\* up to three edges before.
THEOREM FourfoldShown ==
  ASSUME NeverBackward
  PROVE  Spec /\ []TurnsShort => []ShowsFourfold
<1>1. TypeOK /\ TurnCounters /\ TurnAhead /\ TurnNotBeyond /\ TurnsShort /\ [Next]_vars
        => TurnNotBeyond'
  BY TurnStep DEF TurnKept
<1>2. TypeOK /\ TurnCounters /\ TurnNotBeyond => ShowsFourfold
  <2> SUFFICES ASSUME TypeOK, TurnCounters, TurnNotBeyond,
                      dir \in Turning, deltaTicks > 0,
                      pc \in {"readPacket", "checkDist", "checkTurn", "compareTurn"},
                      moved[Inner(dir)] >= COUNTS_PER_REV * deltaTicks
               PROVE  Watched(dir) >= targetTicks
    BY DEF ShowsFourfold
  <2>1. targetTicks <= Revolutions(TurnBase(dir)) + deltaTicks
    BY DEF TurnNotBeyond, TurnTargetSet, Target, Starting
  <2>2. /\ TurnBase(dir) \in Nat /\ moved[Inner(dir)] \in Nat
        /\ Watched(dir) = Revolutions(TurnBase(dir) + moved[Inner(dir)])
        /\ Watched(dir) \in Nat /\ Revolutions(TurnBase(dir)) \in Nat
    BY WatchedTurns
  <2>3. targetTicks \in Nat /\ deltaTicks \in Nat
    BY DEF TypeOK
  <2>4. PICK base, m \in Nat : base = TurnBase(dir) /\ m = moved[Inner(dir)]
    BY <2>2
  <2>5. m >= COUNTS_PER_REV * deltaTicks
    BY <2>4
  <2>6. Revolutions(base + m) >= Revolutions(base) + deltaTicks
    BY <2>3, <2>4, <2>5, RevolutionSum
  <2>7. QED
    BY <2>1, <2>2, <2>3, <2>4, <2>6
<1>3. QED
  BY <1>1, <1>2, TurnInit, TypeCorrect, TurnCounterAhead, PTL DEF Spec

=============================================================================
