------------------------------ MODULE MCMotion ------------------------------
(***************************************************************************)
(* Small sets of packets for model checking Motion.                        *)
(***************************************************************************)
EXTENDS Motion

Packet(command, arg, power) ==
  [command |-> command, arg |-> arg, speed |-> power]

\* Straight moves, with the commands that leave the counters alone; arg 0 is
\* the keyboard's "until told to stop", and 7 cm lies between two edges.
StraightPackets ==
  {Packet("FORWARD", 7, 40), Packet("FORWARD", 0, 40), Packet("REVERSE", 12, 100),
   Packet("STOP", 0, 0), Packet("GET_STATS", 0, 0)}

\* Every command; the angles are of one tick or more (20 degrees).
AllPackets ==
  {Packet("FORWARD", 7, 40), Packet("REVERSE", 5, 40),
   Packet("TURN_LEFT", 20, 50), Packet("TURN_RIGHT", 30, 50),
   Packet("STOP", 0, 0), Packet("CLEAR_STATS", 0, 0), Packet("UNKNOWN", 0, 0)}

\* Turns of an angle below one tick as well.
SmallAnglePackets == {Packet("TURN_LEFT", 10, 50), Packet("TURN_RIGHT", 30, 50)}

\* A move that takes the odometer past 256 cm.  A load torn there gives at
\* most 254 + 256: a target below that, so that only the load of 254 counts.
LongPackets == {Packet("FORWARD", 508, 40)}

=============================================================================
