--------------------------- MODULE AlexClientProofs ---------------------------
(***************************************************************************)
(* Proofs about AlexClient, for any number of keys and replies.            *)
(***************************************************************************)
EXTENDS AlexClient, TLAPS

\* Both ends of the connection are there, and the keyboard is in use.
Live == server = "open" /\ ~exitFlag /\ keyboard # "done"

\* The threads that end do so because the program has been told to stop, or
\* the user has left the keyboard thread.
EndsStopped ==
  /\ ssl = "freed" => exitFlag \/ keyboard = "done"
  /\ reader \in {"exit", "done"} => exitFlag
  /\ clientLoop \in {"free", "done"} => exitFlag
  /\ ~sockfd => exitFlag \/ clientLoop = "connect"

\* The threads are created when there is a session, one after the other.
ConnectedFirst ==
  /\ clientLoop \in {"connect", "startKeyboard"} => keyboard = "none"
  /\ clientLoop \in {"connect", "startKeyboard", "startReader"} => reader = "none"
  /\ ssl = "none" <=> clientLoop = "connect"

\* While both ends are there the flag is up, and both threads are about to
\* assign it what it is.
LiveActive ==
  Live => /\ networkActive
          /\ keyboard = "assign" => written
          /\ reader \in {"assign", "handle"} => got
          /\ reader # "stop"

\* Replies read and not handled yet: the one the reader holds.
InHand == IF reader \in {"assign", "handle"} THEN 1 ELSE 0

\* Nothing has been lost so far.
LiveCounts ==
  Live => dropped = 0 /\ printed + InHand = replies - inbox

\* The types that the argument needs.
Types ==
  /\ replies \in Int /\ inbox \in Int /\ printed \in Int /\ dropped \in Int
  /\ ssl \in {"none", "live", "freed"}
  /\ server \in {"open", "closed"}

IInv == EndsStopped /\ ConnectedFirst /\ LiveActive /\ LiveCounts /\ Types

\* The invariant holds before there is a connection.
LEMMA InitIInv == Init => IInv
BY DEF Init, IInv, EndsStopped, ConnectedFirst, LiveActive, LiveCounts, Types, Live, InHand

\* Steps of the server and of the user preserve it: they end the connection or
\* add a reply to be read.
LEMMA EnvironmentStep ==
  ASSUME IInv, Reply \/ ServerCloses \/ Interrupt
  PROVE  IInv'
<1> USE DEF IInv, EndsStopped, ConnectedFirst, LiveActive, LiveCounts, Types, Live, InHand,
            EnvironmentFrame, keyboardVars, serverVars
<1>1. CASE Reply
  BY <1>1 DEF Reply
<1>2. CASE ServerCloses
  BY <1>2 DEF ServerCloses
<1>3. CASE Interrupt
  BY <1>3 DEF Interrupt
<1>4. QED
  BY <1>1, <1>2, <1>3

\* Steps of the keyboard thread preserve it: while both ends are there its
\* writes succeed, so it never takes the flag down.
LEMMA KeyboardStep ==
  ASSUME IInv, Press \/ KeyboardRuns
  PROVE  IInv'
<1> USE DEF IInv, EndsStopped, ConnectedFirst, LiveActive, LiveCounts, Types, Live, InHand,
            KeyboardFrame, readerVars, serverVars
<1>1. CASE Press
  BY <1>1 DEF Press, Movement, Menu, NoCommand, ExitKey
<1>2. CASE TestsActive
  BY <1>2 DEF TestsActive
<1>3. CASE Writes
  BY <1>3 DEF Writes, Connected
<1>4. CASE KeyboardAssigns
  BY <1>4 DEF KeyboardAssigns, WriteActive
<1>5. CASE KeyboardExits
  BY <1>5 DEF KeyboardExits, FreeSession
<1>6. QED
  BY <1>1, <1>2, <1>3, <1>4, <1>5 DEF KeyboardRuns

\* Steps of the reader thread preserve it: while both ends are there each read
\* brings a reply, and the reply is handled before the next read.
LEMMA ReaderStep ==
  ASSUME IInv, ReaderRuns \/ ReadsFreed
  PROVE  IInv'
<1> USE DEF IInv, EndsStopped, ConnectedFirst, LiveActive, LiveCounts, Types, Live, InHand,
            ReaderFrame, keyboardVars, serverVars
<1>1. CASE ReaderTests
  BY <1>1 DEF ReaderTests
<1>2. CASE Reads
  BY <1>2 DEF Reads, HasReply, NoMoreReplies, Connected
<1>3. CASE ReaderAssigns
  BY <1>3 DEF ReaderAssigns
<1>4. CASE Handles
  BY <1>4 DEF Handles
<1>5. CASE ReaderStops
  BY <1>5 DEF ReaderStops, StopClient
<1>6. CASE ReaderExits
  BY <1>6 DEF ReaderExits, FreeSession
<1>7. CASE ReadsFreed
  BY <1>7 DEF ReadsFreed
<1>8. QED
  BY <1>1, <1>2, <1>3, <1>4, <1>5, <1>6, <1>7 DEF ReaderRuns

\* Steps of the client loop and of main preserve it: they make the session
\* before the threads, and then wait for the flag.
LEMMA LoopStep ==
  ASSUME IInv, \/ Connects \/ ConnectFails \/ StartThreads
               \/ LoopCloses \/ LoopFrees \/ MainReturns
  PROVE  IInv'
<1> USE DEF IInv, EndsStopped, ConnectedFirst, LiveActive, LiveCounts, Types, Live, InHand,
            LoopFrame, keyboardVars, readerVars, serverVars
<1>1. CASE LoopCloses
  BY <1>1 DEF LoopCloses
<1>2. CASE LoopFrees
  BY <1>2 DEF LoopFrees, FreeSession
<1>3. CASE MainReturns
  BY <1>3 DEF MainReturns
<1>4. CASE Connects
  BY <1>4 DEF Connects, NewSession
<1>5. CASE ConnectFails
  BY <1>5 DEF ConnectFails
<1>6. CASE StartKeyboard
  BY <1>6 DEF StartKeyboard
<1>7. CASE StartReader
  BY <1>7 DEF StartReader
<1>8. QED
  BY <1>1, <1>2, <1>3, <1>4, <1>5, <1>6, <1>7 DEF StartThreads

\* The invariant holds always.
THEOREM Invariant == Spec => []IInv
<1>1. ASSUME IInv, [Next]_vars
      PROVE  IInv'
  <2>1. CASE UNCHANGED vars
    BY <1>1, <2>1 DEF vars, keyboardVars, readerVars, serverVars, IInv, EndsStopped,
       ConnectedFirst, LiveActive, LiveCounts, Types, Live, InHand
  <2>2. QED
    BY <1>1, <2>1, EnvironmentStep, KeyboardStep, ReaderStep, LoopStep DEF Next
<1>2. QED
  BY <1>1, InitIInv, PTL DEF Spec

\* While both ends of the connection are there, no command is dropped and each
\* reply is printed once, whatever the order of the two threads' accesses to
\* networkActive.
THEOREM LiveLosesNothing == Spec => []NothingLost
<1>1. IInv => NothingLost
  BY DEF IInv, LiveActive, LiveCounts, Types, Live, InHand, NothingLost
<1>2. QED
  BY <1>1, Invariant, PTL

\* Without a cause nobody has told the program to end, and nothing has ended it.
CausedEnds ==
  ~Cause => ~exitFlag /\ (clientLoop # "connect" => process = "running")

\* Every step keeps it so: as long as both ends are there the reader does not
\* stop, a write does not fail, and the first to free the session is the
\* keyboard thread after x.
LEMMA CauseStep ==
  ASSUME IInv, CausedEnds, Next
  PROVE  CausedEnds'
<1> USE DEF CausedEnds, Cause
<1>1. CASE Reply \/ ServerCloses \/ Interrupt
  BY <1>1 DEF Reply, ServerCloses, Interrupt, EnvironmentFrame, keyboardVars
<1>2. CASE Press \/ TestsActive \/ KeyboardAssigns \/ KeyboardExits
  BY <1>2 DEF Press, TestsActive, KeyboardAssigns, KeyboardExits, Movement, Menu,
              NoCommand, ExitKey, KeyboardFrame, serverVars
<1>3. CASE Writes
  <2>1. keyboard = "write" /\ keyboard' = "assign"
        /\ UNCHANGED <<clientLoop, exitFlag, server, signalled>>
    BY <1>3 DEF Writes, KeyboardFrame, serverVars
  <2>2. ~Cause /\ clientLoop # "connect" => Connected
    BY DEF IInv, EndsStopped, ConnectedFirst, Types, Connected
  <2>3. Connected => UNCHANGED process
    BY <1>3 DEF Writes
  <2>4. QED
    BY <2>1, <2>2, <2>3
<1>4. CASE ReaderTests \/ Reads \/ ReaderAssigns \/ Handles
  BY <1>4 DEF ReaderTests, Reads, ReaderAssigns, Handles, ReaderFrame, keyboardVars,
              serverVars
<1>5. CASE ReaderStops \/ ReaderExits
  <2>1. reader \in {"stop", "exit"} /\ UNCHANGED <<keyboard, server, signalled>>
    BY <1>5 DEF ReaderStops, ReaderExits, ReaderFrame, keyboardVars, serverVars
  <2>2. ~Cause => reader # "stop" /\ reader # "exit"
    BY DEF IInv, LiveActive, EndsStopped, Live, Types
  <2>3. QED
    BY <2>1, <2>2
<1>6. CASE ReadsFreed
  <2>1. ssl = "freed" /\ UNCHANGED <<keyboard, server, signalled>>
    BY <1>6 DEF ReadsFreed, ReaderFrame, keyboardVars, serverVars
  <2>2. ~Cause => ssl # "freed"
    BY DEF IInv, EndsStopped
  <2>3. QED
    BY <2>1, <2>2
<1>7. CASE Connects \/ ConnectFails \/ StartThreads
  BY <1>7 DEF Connects, ConnectFails, StartThreads, StartKeyboard, StartReader,
              LoopFrame, serverVars, Running, IInv, ConnectedFirst
<1>8. CASE LoopCloses \/ LoopFrees \/ MainReturns
  <2>1. exitFlag /\ UNCHANGED <<keyboard, server, signalled>>
    BY <1>8 DEF LoopCloses, LoopFrees, MainReturns, LoopFrame, serverVars, IInv, EndsStopped
  <2>2. QED
    BY <2>1
<1>9. QED
  BY <1>1, <1>2, <1>3, <1>4, <1>5, <1>6, <1>7, <1>8 DEF Next, KeyboardRuns, ReaderRuns

\* Once connected, the client runs on a live session for as long as the user
\* and the server are there: whatever the order of the threads' accesses, none
\* ends, ends the program, or frees the session under the others.
THEOREM NoEndWithoutCause == Spec => []EndsForCause
<1>1. Init => CausedEnds
  BY DEF Init, CausedEnds
<1>2. ASSUME IInv, CausedEnds, [Next]_vars PROVE CausedEnds'
  <2>1. CASE UNCHANGED vars
    BY <1>2, <2>1 DEF vars, CausedEnds, Cause, keyboardVars, serverVars
  <2>2. QED
    BY <1>2, <2>1, CauseStep
<1>3. IInv /\ CausedEnds => EndsForCause
  BY DEF IInv, EndsStopped, ConnectedFirst, LiveActive, CausedEnds, Cause, Types, Live,
         EndsForCause
<1>4. QED
  BY <1>1, <1>2, <1>3, Invariant, PTL DEF Spec

-----------------------------------------------------------------------------
\* Keys whose command is done with, as far as networkActive and the count of
\* dropped commands are concerned.
Assigned == keys - (IF keyboard \in {"test", "write", "assign"} THEN 1 ELSE 0)
Typed == keys - (IF keyboard \in {"test", "write"} THEN 1 ELSE 0)

\* The reader will handle what is in its buffer unless the flag goes down.
ToHandle ==
  IF (reader = "assign" /\ got) \/ (reader = "handle" /\ networkActive) THEN 1 ELSE 0

\* A reply is handled when it was read, or once more for a command whose
\* assignment raised the flag after a read that brought nothing; what a freed
\* session returns stays within the bound.
HandledBounded ==
  /\ ssl # "freed" => printed + ToHandle <= (replies - inbox) + Assigned
  /\ printed + ToHandle <= MaxReplies + Assigned

\* No more commands are dropped or assigned than were typed.
CommandsBounded == dropped <= Typed /\ 0 <= Assigned

\* TypeOK in two parts, for the provers' sake.
Places ==
  /\ keyboard \in {"none", "getchar", "test", "write", "assign", "exit", "done"}
  /\ written \in BOOLEAN
  /\ reader \in {"none", "test", "read", "assign", "handle", "stop", "exit", "done"}
  /\ got \in BOOLEAN
  /\ clientLoop \in {"connect", "startKeyboard", "startReader", "spin", "free", "done"}
  /\ networkActive \in BOOLEAN
  /\ exitFlag \in BOOLEAN
  /\ ssl \in {"none", "live", "freed"}
  /\ sockfd \in BOOLEAN
  /\ process \in {"running", "exited", "crashed"}
  /\ server \in {"open", "closed"}
  /\ signalled \in BOOLEAN

Numbers ==
  /\ keys \in 0 .. MaxKeys
  /\ replies \in 0 .. MaxReplies
  /\ inbox \in 0 .. replies
  /\ printed \in 0 .. MaxReplies + MaxKeys
  /\ dropped \in 0 .. MaxKeys

TInv == TypeOK /\ HandledBounded /\ CommandsBounded

\* Steps of the keyboard thread preserve it: a command is counted as typed when
\* its key is pressed, and as assigned when the flag has been.
LEMMA KeyboardTypes ==
  ASSUME TInv, Press \/ KeyboardRuns
  PROVE  TInv'
<1> USE AlexClientAssumption
    DEF TInv, TypeOK, Places, Numbers, HandledBounded, CommandsBounded,
        Assigned, Typed, ToHandle, KeyboardFrame, readerVars, serverVars
<1>1. CASE Press
  <2>1. TypeOK'
    BY <1>1 DEF Press, Movement, Menu, NoCommand, ExitKey
  <2>2. HandledBounded'
    BY <1>1 DEF Press, Movement, Menu, NoCommand, ExitKey
  <2>3. CommandsBounded'
    BY <1>1 DEF Press, Movement, Menu, NoCommand, ExitKey
  <2>4. QED
    BY <2>1, <2>2, <2>3 DEF TInv, TypeOK
<1>2. CASE TestsActive
  <2>1. TypeOK'
    BY <1>2 DEF TestsActive
  <2>2. HandledBounded'
    BY <1>2 DEF TestsActive
  <2>3. CommandsBounded'
    BY <1>2 DEF TestsActive
  <2>4. QED
    BY <2>1, <2>2, <2>3 DEF TInv, TypeOK
<1>3. CASE Writes
  <2>1. Places'
    <3>1. (written \in BOOLEAN)'
      BY <1>3, Zenon DEF Writes
    <3>2. QED
      BY <1>3, <3>1 DEF Writes
  <2>2. Numbers'
    BY <1>3 DEF Writes
  <2>3. HandledBounded'
    BY <1>3 DEF Writes
  <2>4. CommandsBounded'
    BY <1>3 DEF Writes
  <2>5. QED
    BY <2>1, <2>2, <2>3, <2>4 DEF TInv, TypeOK
<1>4. CASE KeyboardAssigns
  <2>1. Places'
    <3>1. (networkActive \in BOOLEAN)'
      BY <1>4, Zenon DEF KeyboardAssigns, WriteActive
    <3>2. (written \in BOOLEAN)'
      BY <1>4, Zenon DEF KeyboardAssigns, WriteActive
    <3>3. QED
      BY <1>4, <3>1, <3>2 DEF KeyboardAssigns, WriteActive
  <2>2. Numbers'
    BY <1>4 DEF KeyboardAssigns, WriteActive
  <2>3. HandledBounded'
    BY <1>4 DEF KeyboardAssigns, WriteActive
  <2>4. CommandsBounded'
    BY <1>4 DEF KeyboardAssigns, WriteActive
  <2>5. QED
    BY <2>1, <2>2, <2>3, <2>4 DEF TInv, TypeOK
<1>5. CASE KeyboardExits
  <2>1. TypeOK'
    BY <1>5 DEF KeyboardExits, FreeSession
  <2>2. HandledBounded'
    BY <1>5 DEF KeyboardExits, FreeSession
  <2>3. CommandsBounded'
    BY <1>5 DEF KeyboardExits, FreeSession
  <2>4. QED
    BY <2>1, <2>2, <2>3 DEF TInv, TypeOK
<1>6. QED
  BY <1>1, <1>2, <1>3, <1>4, <1>5 DEF KeyboardRuns

\* Steps of the reader preserve it: a read that brings nothing takes the flag
\* down, and only an assignment of the keyboard thread raises it again.
LEMMA ReaderTypes ==
  ASSUME TInv, ReaderRuns \/ ReadsFreed
  PROVE  TInv'
<1> USE AlexClientAssumption
    DEF TInv, TypeOK, Places, Numbers, HandledBounded, CommandsBounded,
        Assigned, Typed, ToHandle, ReaderFrame, keyboardVars, serverVars
<1>1. CASE ReaderTests
  <2>1. TypeOK'
    BY <1>1 DEF ReaderTests
  <2>2. HandledBounded'
    BY <1>1 DEF ReaderTests
  <2>3. CommandsBounded'
    BY <1>1 DEF ReaderTests
  <2>4. QED
    BY <2>1, <2>2, <2>3 DEF TInv, TypeOK
<1>2. CASE Reads
  <2>1. Places'
    <3>1. (got \in BOOLEAN)'
      BY <1>2, Zenon DEF Reads, HasReply, NoMoreReplies
    <3>2. QED
      BY <1>2, <3>1 DEF Reads, HasReply, NoMoreReplies
  <2>2. Numbers'
    BY <1>2 DEF Reads, HasReply, NoMoreReplies
  <2>3. HandledBounded'
    BY <1>2 DEF Reads, HasReply, NoMoreReplies
  <2>4. CommandsBounded'
    BY <1>2 DEF Reads, HasReply, NoMoreReplies
  <2>5. QED
    BY <2>1, <2>2, <2>3, <2>4 DEF TInv, TypeOK
<1>3. CASE ReaderAssigns
  <2>1. TypeOK'
    BY <1>3 DEF ReaderAssigns
  <2>2. HandledBounded'
    BY <1>3 DEF ReaderAssigns
  <2>3. CommandsBounded'
    BY <1>3 DEF ReaderAssigns
  <2>4. QED
    BY <2>1, <2>2, <2>3 DEF TInv, TypeOK
<1>4. CASE Handles
  <2>1. TypeOK'
    BY <1>4 DEF Handles
  <2>2. HandledBounded'
    BY <1>4 DEF Handles
  <2>3. CommandsBounded'
    BY <1>4 DEF Handles
  <2>4. QED
    BY <2>1, <2>2, <2>3 DEF TInv, TypeOK
<1>5. CASE ReaderStops
  <2>1. TypeOK'
    BY <1>5 DEF ReaderStops, StopClient
  <2>2. HandledBounded'
    BY <1>5 DEF ReaderStops, StopClient
  <2>3. CommandsBounded'
    BY <1>5 DEF ReaderStops, StopClient
  <2>4. QED
    BY <2>1, <2>2, <2>3 DEF TInv, TypeOK
<1>6. CASE ReaderExits
  <2>1. TypeOK'
    BY <1>6 DEF ReaderExits, FreeSession
  <2>2. HandledBounded'
    BY <1>6 DEF ReaderExits, FreeSession
  <2>3. CommandsBounded'
    BY <1>6 DEF ReaderExits, FreeSession
  <2>4. QED
    BY <2>1, <2>2, <2>3 DEF TInv, TypeOK
<1>7. CASE ReadsFreed
  <2>1. TypeOK'
    BY <1>7 DEF ReadsFreed
  <2>2. HandledBounded'
    BY <1>7 DEF ReadsFreed
  <2>3. CommandsBounded'
    BY <1>7 DEF ReadsFreed
  <2>4. QED
    BY <2>1, <2>2, <2>3 DEF TInv, TypeOK
<1>8. QED
  BY <1>1, <1>2, <1>3, <1>4, <1>5, <1>6, <1>7 DEF ReaderRuns

\* Steps of the others preserve it; a session is only made before there is one
\* to be freed.
LEMMA OtherTypes ==
  ASSUME TInv, clientLoop = "connect" => ssl = "none",
         \/ Reply \/ ServerCloses \/ Interrupt
         \/ Connects \/ ConnectFails \/ StartThreads
         \/ LoopCloses \/ LoopFrees \/ MainReturns
  PROVE  TInv'
<1> USE AlexClientAssumption
    DEF TInv, TypeOK, Places, Numbers, HandledBounded, CommandsBounded,
        Assigned, Typed, ToHandle, EnvironmentFrame, LoopFrame,
        keyboardVars, readerVars, serverVars
<1>1. CASE Reply
  <2>1. Places'
    BY <1>1 DEF Reply
  <2>2. Numbers'
    BY <1>1 DEF Reply
  <2>3. HandledBounded'
    BY <1>1 DEF Reply
  <2>4. CommandsBounded'
    BY <1>1 DEF Reply
  <2>5. QED
    BY <2>1, <2>2, <2>3, <2>4 DEF TInv, TypeOK
<1>2. CASE ServerCloses \/ Interrupt
  <2>1. TypeOK'
    BY <1>2 DEF ServerCloses, Interrupt
  <2>2. HandledBounded'
    BY <1>2 DEF ServerCloses, Interrupt
  <2>3. CommandsBounded'
    BY <1>2 DEF ServerCloses, Interrupt
  <2>4. QED
    BY <2>1, <2>2, <2>3 DEF TInv, TypeOK
<1>3. CASE Connects
  <2>1. TypeOK'
    BY <1>3 DEF Connects, NewSession
  <2>2. HandledBounded'
    BY <1>3 DEF Connects, NewSession
  <2>3. CommandsBounded'
    BY <1>3 DEF Connects, NewSession
  <2>4. QED
    BY <2>1, <2>2, <2>3 DEF TInv, TypeOK
<1>4. CASE ConnectFails
  <2>1. TypeOK'
    BY <1>4 DEF ConnectFails
  <2>2. HandledBounded'
    BY <1>4 DEF ConnectFails
  <2>3. CommandsBounded'
    BY <1>4 DEF ConnectFails
  <2>4. QED
    BY <2>1, <2>2, <2>3 DEF TInv, TypeOK
<1>5. CASE StartThreads
  <2>1. TypeOK'
    BY <1>5 DEF StartThreads, StartKeyboard, StartReader
  <2>2. HandledBounded'
    BY <1>5 DEF StartThreads, StartKeyboard, StartReader
  <2>3. CommandsBounded'
    BY <1>5 DEF StartThreads, StartKeyboard, StartReader
  <2>4. QED
    BY <2>1, <2>2, <2>3 DEF TInv, TypeOK
<1>6. CASE LoopCloses \/ LoopFrees \/ MainReturns
  <2>1. TypeOK'
    BY <1>6 DEF LoopCloses, LoopFrees, MainReturns, FreeSession
  <2>2. HandledBounded'
    BY <1>6 DEF LoopCloses, LoopFrees, MainReturns, FreeSession
  <2>3. CommandsBounded'
    BY <1>6 DEF LoopCloses, LoopFrees, MainReturns, FreeSession
  <2>4. QED
    BY <2>1, <2>2, <2>3 DEF TInv, TypeOK
<1>7. QED
  BY <1>1, <1>2, <1>3, <1>4, <1>5, <1>6

\* The client's variables keep their types; in particular, however the two
\* threads race for networkActive, replies are not handled more often than
\* there are replies and keys.
THEOREM TypeCorrect == Spec => []TypeOK
<1>1. Init => TInv
  <2> USE AlexClientAssumption
      DEF Init, Places, Numbers, HandledBounded, CommandsBounded, Assigned, Typed, ToHandle
  <2>1. Init => Places
    OBVIOUS
  <2>2. Init => Numbers
    OBVIOUS
  <2>3. Init => HandledBounded
    OBVIOUS
  <2>4. Init => CommandsBounded
    OBVIOUS
  <2>5. QED
    BY <2>1, <2>2, <2>3, <2>4 DEF TInv, TypeOK
<1>2. ASSUME TInv, IInv, [Next]_vars PROVE TInv'
  <2>1. CASE UNCHANGED vars
    BY <1>2, <2>1 DEF vars, keyboardVars, readerVars, serverVars, TInv, TypeOK,
       HandledBounded, CommandsBounded, Assigned, Typed, ToHandle
  <2>2. clientLoop = "connect" => ssl = "none"
    BY <1>2 DEF IInv, ConnectedFirst
  <2>3. QED
    BY <1>2, <2>1, <2>2, KeyboardTypes, ReaderTypes, OtherTypes DEF Next
<1>3. TInv => TypeOK
  BY DEF TInv
<1>4. QED
  BY <1>1, <1>2, <1>3, Invariant, PTL DEF Spec

=============================================================================
