------------------------------- MODULE LocalRun -------------------------------
(***************************************************************************)
(* The robot driven from the Pi's own terminal: the program alex-pi.cpp    *)
(* (its main and its receive thread) with serial.cpp below it, composed    *)
(* with the serial line and the firmware of SerialLink.                    *)
(***************************************************************************)
EXTENDS SerialLink, FiniteSets

CONSTANTS
  UserCommands,  \* the commands the user may type
  MaxCommands,   \* bound: commands typed
  MaxAttempts    \* startSerial() tries so often (5)

ASSUME LocalRunAssumption ==
  /\ UserCommands \subseteq Commands
  /\ MaxCommands \in Nat
  /\ MaxAttempts \in Nat \ {0}

VARIABLES
  main,       \* where main() is
  attempt,    \* attempts to open the port
  port,       \* _fd: "none", "open" or "closed"
  typed,      \* commands typed so far
  receiving,  \* the receive thread runs
  heard       \* bytes of the line that the receive thread has read

localVars == <<main, attempt, port, typed, receiving, heard>>
vars == <<linkVars, localVars>>

TypeOK ==
  /\ LinkTypeOK
  /\ main \in {"startSerial", "sleep", "reboot", "hello", "prompt", "exited"}
  /\ attempt \in 0 .. MaxAttempts
  /\ port \in {"none", "open", "closed"}
  /\ typed \in 0 .. MaxCommands
  /\ receiving \in BOOLEAN
  /\ heard \in 0 .. Len(line)

Init ==
  /\ LinkInit
  /\ main = "startSerial" /\ attempt = 0 /\ port = "none"
  /\ typed = 0 /\ receiving = FALSE /\ heard = 0

-----------------------------------------------------------------------------
(***************************************************************************)
(* startSerial()                                                           *)
(***************************************************************************)
MutantNotCounted == UNCHANGED attempt
CountAttempt == attempt' = attempt + 1

\* The port opens or, after a sleep, is tried again.
Open ==
  /\ main = "startSerial" /\ port = "none" /\ attempt < MaxAttempts
  /\ CountAttempt
  /\ \/ port' = "open" /\ UNCHANGED main
     \/ main' = "sleep" /\ UNCHANGED port
  /\ UNCHANGED <<linkVars, typed, receiving, heard>>

TryAgain ==
  /\ main = "sleep" /\ main' = "startSerial"
  /\ UNCHANGED <<linkVars, attempt, port, typed, receiving, heard>>

\* Open, or given up: the caller is not told, and goes on.
Opened ==
  /\ main = "startSerial" /\ (port = "open" \/ attempt = MaxAttempts)
  /\ main' = "reboot"
  /\ attempt' = 0
  /\ UNCHANGED <<linkVars, port, typed, receiving, heard>>

-----------------------------------------------------------------------------
(***************************************************************************)
(* main() and sendCommand()                                                *)
(***************************************************************************)

\* sendPacket(): serialWrite() does nothing while the port is not open.
SendPacket(command) ==
  /\ IF port = "open" THEN WritePacket(command) ELSE UNCHANGED sent
  /\ UNCHANGED <<arrived, ring, held, lost, robotVars, edges, txVars>>

\* sleep(2), then pthread_create()
StartReceiver ==
  /\ main = "reboot" /\ main' = "hello"
  /\ receiving' = TRUE
  /\ UNCHANGED <<linkVars, attempt, port, typed, heard>>

\* The command field of the HELLO packet is not initialised, and loop() looks
\* at nothing else.
Hello ==
  /\ main = "hello" /\ main' = "prompt"
  /\ \E command \in UserCommands \cup {"UNKNOWN"} : SendPacket(command)
  /\ UNCHANGED <<attempt, port, typed, receiving, heard>>

\* A bad key sends nothing and asks again.
SendCommand(command) ==
  /\ main = "prompt" /\ typed < MaxCommands
  /\ typed' = typed + 1
  /\ SendPacket(command)
  /\ UNCHANGED <<main, attempt, port, receiving, heard>>

\* `q': the loop ends, and endSerial() closes the port under the receive thread
\* that is reading from it.
Quit ==
  /\ main = "prompt" /\ main' = "exited"
  /\ port' = IF port = "open" THEN "closed" ELSE port
  /\ UNCHANGED <<linkVars, attempt, typed, receiving, heard>>

Main == Open \/ TryAgain \/ Opened \/ StartReceiver \/ Hello

-----------------------------------------------------------------------------
(***************************************************************************)
(* receiveThread()                                                         *)
(***************************************************************************)

\* serialRead() blocks on the open port until there is a byte; without one it
\* returns at once, for ever.  It takes what there is, here up to a packet; how
\* the line is cut into chunks makes no difference (PacketStream).
Unheard == Len(line) - heard
Receive ==
  /\ receiving /\ port = "open"
  /\ Unheard > 0
  /\ heard' = heard + IF Unheard < PacketSize THEN Unheard ELSE PacketSize
  /\ UNCHANGED <<linkVars, main, attempt, port, typed, receiving>>

\* What it has printed: the packets, and an error for each damaged one.
Printed ==
  [n \in Slots(heard) |->
     IF IntactSlot(n) THEN packets[Owner(n)] ELSE "PACKET_ERROR"]

-----------------------------------------------------------------------------
\* Opening the port restarts the Arduino; nothing it did before matters, nor
\* what it does when nobody listens any more.
RobotFrame == port = "open" /\ UNCHANGED localVars
Robot == RobotFrame /\ LinkNext

Next ==
  \/ Main \/ Quit
  \/ \E command \in UserCommands : SendCommand(command)
  \/ Receive
  \/ Robot

Spec == Init /\ [][Next]_vars

\* Both programs run, and bytes travel.  The user owes nothing, the wheels
\* need not turn, and a turn need not end.
FairSpec ==
  /\ Spec
  /\ WF_vars(Main)
  /\ WF_vars(Receive)
  /\ WF_vars(RobotFrame /\ Arrive)
  /\ WF_vars(RobotFrame /\ (ReadPacket \/ WriteByte))

-----------------------------------------------------------------------------
(***************************************************************************)
(* Properties                                                              *)
(***************************************************************************)

\* A packet that no interrupt cut in two, and that itself cut none, is handed
\* over by the receive thread once its last byte is read, however many packets
\* before it were damaged: every packet is as long as every other, so debug
\* packets sent in the middle of one never shift the ones that follow.
UndisturbedHeard ==
  \A p \in 1 .. Len(packets) :
    Undisturbed(p) /\ Place(p) + PacketSize - 1 <= heard
      => \E n \in Slots(heard) : IntactSlot(n) /\ Owner(n) = p

\* An interrupt that sends in the middle of a packet spoils that packet and its
\* own, and no other.
DamageBounded ==
  Cardinality({n \in Slots(Len(line)) : ~IntactSlot(n)}) <= 2 * edges

\* Commands are executed in the order they were typed, none of them twice,
\* whatever bytes the receive ring lost in between.
ExecutedInOrder ==
  \A i, j \in 1 .. Len(executed) : i < j => executed[i] < executed[j]

\* As long as the receive ring has lost nothing, the commands executed are the
\* first ones sent, without a gap: packets that interrupts send towards the Pi,
\* and reads that end in the middle of a packet, make the firmware skip none.
SkipsNothing ==
  lost = 0 => \A i \in 1 .. Len(executed) : executed[i] = i

\* A robot that stands still answers every command, unless commands are sent
\* so fast that its replies make it lose bytes.
Answers == {n \in DOMAIN Printed : Printed[n] \in {"RESP_OK", "RESP_BAD_COMMAND"}}
StillRobotAnswers ==
  \A n \in 1 .. MaxCommands + 1 :
    Len(sent) >= n
      ~> Cardinality(Answers) >= n \/ lost > 0 \/ edges > 0 \/ main = "exited"

\* The user gets a prompt, whether or not the port can be opened.
PromptReached == <>(main = "prompt")

=============================================================================
