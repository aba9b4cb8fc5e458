SPECIFICATION FairSpec
CONSTANTS
  PacketSize = 3
  RxRing = 2
  RxFifo = 1
  MaxEdges = 2
  UserCommands = {"FORWARD", "GET_STATS"}
  MaxCommands = 1
  MaxAttempts = 2
INVARIANTS TypeOK UndisturbedHeard DamageBounded ExecutedInOrder SkipsNothing
PROPERTIES StillRobotAnswers PromptReached
CHECK_DEADLOCK FALSE
