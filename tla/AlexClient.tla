----------------------------- MODULE AlexClient -----------------------------
(***************************************************************************)
(* The client on the PC: main and the client loop (make_tls_client), which *)
(* connects and creates the keyboard thread and the reader thread          *)
(* (tls-alex-client).  They share networkActive, _exitFlag and one SSL     *)
(* session, with no lock; each step below is one access to shared state.   *)
(*                                                                         *)
(* The session belongs to nobody: three threads free it.  What a thread    *)
(* does with it afterwards is undefined: the call returns anything, or the *)
(* process dies.                                                           *)
(***************************************************************************)
EXTENDS Integers

CONSTANTS
  MaxKeys,     \* bound: keys the user presses
  MaxReplies   \* bound: replies the server sends

ASSUME AlexClientAssumption == MaxKeys \in Nat /\ MaxReplies \in Nat

VARIABLES
  keyboard,       \* where the keyboard thread is
  keys,           \* keys pressed so far
  written,        \* its local c is positive
  reader,         \* where the reader thread is
  got,            \* its local len is positive
  clientLoop,     \* where the client loop is
  networkActive,
  exitFlag,
  ssl,            \* "none", "live" or "freed"
  sockfd,         \* the socket is connected
  process,        \* "running", "exited" or "crashed"
  server,         \* "open" or "closed": the other end of the connection
  replies,        \* sent by the server so far
  inbox,          \* of them, not read yet
  printed,        \* history: replies handled
  dropped,        \* history: commands typed and not written
  signalled       \* history: the user has hit CTRL-C, or sent SIGTERM

keyboardVars == <<keyboard, keys, written, dropped>>
readerVars == <<reader, got, inbox, printed>>
serverVars == <<server, replies>>
vars == <<keyboardVars, readerVars, clientLoop, networkActive, exitFlag, ssl,
          sockfd, process, serverVars, signalled>>

TypeOK ==
  /\ keyboard \in {"none", "getchar", "test", "write", "assign", "exit", "done"}
  /\ keys \in 0 .. MaxKeys
  /\ written \in BOOLEAN
  /\ reader \in {"none", "test", "read", "assign", "handle", "stop", "exit", "done"}
  /\ got \in BOOLEAN
  /\ clientLoop \in {"connect", "startKeyboard", "startReader", "spin", "free", "done"}
  /\ networkActive \in BOOLEAN
  /\ exitFlag \in BOOLEAN
  /\ ssl \in {"none", "live", "freed"}
  /\ sockfd \in BOOLEAN
  /\ process \in {"running", "exited", "crashed"}
  /\ server \in {"open", "closed"}
  /\ replies \in 0 .. MaxReplies
  /\ inbox \in 0 .. replies
  /\ printed \in 0 .. MaxReplies + MaxKeys
  /\ dropped \in 0 .. MaxKeys
  /\ signalled \in BOOLEAN

\* main() has set networkActive, and createClient() the signal handlers.
Init ==
  /\ keyboard = "none" /\ keys = 0 /\ written = FALSE
  /\ reader = "none" /\ got = FALSE
  /\ clientLoop = "connect"
  /\ networkActive = TRUE
  /\ exitFlag = FALSE
  /\ ssl = "none"
  /\ sockfd = FALSE
  /\ process = "running"
  /\ server = "open" /\ replies = 0 /\ inbox = 0
  /\ printed = 0 /\ dropped = 0 /\ signalled = FALSE

Running == process = "running"

\* SSL_free(): freeing the session once more may go unnoticed or be fatal.
FreeSession ==
  /\ ssl' = "freed"
  /\ IF ssl = "live" THEN UNCHANGED process ELSE process' \in {"running", "crashed"}

-----------------------------------------------------------------------------
(***************************************************************************)
(* The server, and the user's CTRL-C                                       *)
(***************************************************************************)
EnvironmentFrame ==
  Running /\ UNCHANGED <<keyboardVars, reader, got, printed, clientLoop,
                        networkActive, ssl, sockfd, process>>

Reply ==
  /\ server = "open" /\ sockfd
  /\ replies < MaxReplies
  /\ replies' = replies + 1
  /\ inbox' = inbox + 1
  /\ UNCHANGED <<server, exitFlag, signalled>>
  /\ EnvironmentFrame

\* The server's end closes when its process ends; a worker that exits leaves
\* the socket open.
ServerCloses ==
  /\ server = "open"
  /\ server' = "closed"
  /\ UNCHANGED <<replies, inbox, exitFlag, signalled>>
  /\ EnvironmentFrame

\* breakHandler and termHandler
Interrupt ==
  /\ exitFlag' = TRUE
  /\ signalled' = TRUE
  /\ UNCHANGED <<serverVars, inbox>>
  /\ EnvironmentFrame

-----------------------------------------------------------------------------
(***************************************************************************)
(* keyboardControlThread                                                   *)
(***************************************************************************)
KeyboardFrame ==
  Running /\ UNCHANGED <<readerVars, clientLoop, exitFlag, sockfd, serverVars,
                        signalled>>

\* Where a key leads.  move(), and so distanceMove() and approxAngle(), ends in
\* sendData(), as does every key that is none of the others.
Movement == keyboard' = "test"

\* getCommand(), behind the key `c': `q' and a bad command send nothing.
Menu == keyboard' \in {"test", "getchar"}

\* The newline and `p' send nothing; `x' leaves the loop.
NoCommand == keyboard' = "getchar"
ExitKey == keyboard' = "exit"

Press ==
  /\ keyboard = "getchar"
  /\ keys < MaxKeys
  /\ keys' = keys + 1
  /\ Movement \/ Menu \/ NoCommand \/ ExitKey
  /\ UNCHANGED <<written, dropped, networkActive, ssl, process>>
  /\ KeyboardFrame

\* sendData(): if(networkActive); if not, the command is dropped silently
TestsActive ==
  /\ keyboard = "test"
  /\ IF networkActive
       THEN keyboard' = "write" /\ UNCHANGED dropped
       ELSE keyboard' = "getchar" /\ dropped' = dropped + 1
  /\ UNCHANGED <<keys, written, networkActive, ssl, process>>
  /\ KeyboardFrame

\* The connection is there: the session, the socket and the server.
Connected == ssl = "live" /\ sockfd /\ server = "open"

\* sslWrite(): into a connection that is gone it may still succeed, fail, or
\* raise SIGPIPE; all the same with a session that has been freed.
Writes ==
  /\ keyboard = "write" /\ keyboard' = "assign"
  /\ \/ written' = TRUE /\ UNCHANGED <<dropped, process>>
     \/ /\ ~Connected
        /\ written' = FALSE /\ dropped' = dropped + 1
        /\ process' \in {"running", "crashed"}
  /\ UNCHANGED <<keys, networkActive, ssl>>
  /\ KeyboardFrame

\* networkActive = (c > 0)
MutantAssignSwapped == ~written
WriteActive == written

KeyboardAssigns ==
  /\ keyboard = "assign" /\ keyboard' = "getchar"
  /\ networkActive' = WriteActive
  /\ written' = FALSE
  /\ UNCHANGED <<keys, dropped, ssl, process>>
  /\ KeyboardFrame

\* EXIT_THREAD, with the call to stopClient() commented out
KeyboardExits ==
  /\ keyboard = "exit" /\ keyboard' = "done"
  /\ FreeSession
  /\ UNCHANGED <<keys, written, dropped, networkActive>>
  /\ KeyboardFrame

KeyboardRuns == TestsActive \/ Writes \/ KeyboardAssigns \/ KeyboardExits

-----------------------------------------------------------------------------
(***************************************************************************)
(* readerThread                                                            *)
(***************************************************************************)
ReaderFrame ==
  Running /\ UNCHANGED <<keyboardVars, clientLoop, sockfd, serverVars, signalled>>

\* while(networkActive)
ReaderTests ==
  /\ reader = "test"
  /\ reader' = IF networkActive THEN "read" ELSE "stop"
  /\ UNCHANGED <<got, inbox, printed, networkActive, exitFlag, ssl, process>>
  /\ ReaderFrame

\* sslRead() blocks until there is a reply or the connection is gone.
MutantNoBlocking == sockfd
HasReply == inbox > 0 /\ sockfd
MutantReadTimesOut == TRUE
NoMoreReplies == ~Connected

Reads ==
  /\ reader = "read" /\ reader' = "assign"
  /\ ssl = "live"
  /\ \/ HasReply /\ got' = TRUE /\ inbox' = inbox - 1
     \/ ~HasReply /\ NoMoreReplies /\ got' = FALSE /\ UNCHANGED inbox
  /\ UNCHANGED <<printed, networkActive, exitFlag, ssl, process>>
  /\ ReaderFrame

\* sslRead() with a session that another thread has freed: if it returns at
\* all, it returns anything (data that no server sent up to MaxReplies times).
ReadsFreed ==
  /\ reader = "read" /\ reader' = "assign"
  /\ ssl = "freed"
  /\ got' \in BOOLEAN /\ (got' => printed < MaxReplies)
  /\ process' \in {"running", "crashed"}
  /\ UNCHANGED <<inbox, printed, networkActive, exitFlag, ssl>>
  /\ ReaderFrame

\* networkActive = (len > 0)
ReaderAssigns ==
  /\ reader = "assign" /\ reader' = "handle"
  /\ networkActive' = got
  /\ UNCHANGED <<got, inbox, printed, exitFlag, ssl, process>>
  /\ ReaderFrame

\* if(networkActive) handleNetwork(): the flag is read once more, so a command
\* written in between has the last reply handled again, or a failed one has
\* this reply ignored.
Handles ==
  /\ reader = "handle" /\ reader' = "test"
  /\ printed' = IF networkActive THEN printed + 1 ELSE printed
  /\ UNCHANGED <<got, inbox, networkActive, exitFlag, ssl, process>>
  /\ ReaderFrame

\* stopClient()
MutantFlagForgotten == UNCHANGED exitFlag
StopClient == exitFlag' = TRUE

ReaderStops ==
  /\ reader = "stop" /\ reader' = "exit"
  /\ StopClient
  /\ UNCHANGED <<got, inbox, printed, networkActive, ssl, process>>
  /\ ReaderFrame

\* EXIT_THREAD
ReaderExits ==
  /\ reader = "exit" /\ reader' = "done"
  /\ FreeSession
  /\ UNCHANGED <<got, inbox, printed, networkActive, exitFlag>>
  /\ ReaderFrame

ReaderRuns ==
  ReaderTests \/ Reads \/ ReaderAssigns \/ Handles \/ ReaderStops \/ ReaderExits

-----------------------------------------------------------------------------
(***************************************************************************)
(* _client_loop and main                                                   *)
(***************************************************************************)
LoopFrame ==
  /\ Running
  /\ UNCHANGED <<keys, written, dropped, got, inbox, printed, networkActive,
                 exitFlag, serverVars, signalled>>

NewSession == ssl' = "live"

Connects ==
  /\ clientLoop = "connect" /\ clientLoop' = "startKeyboard"
  /\ server = "open"
  /\ sockfd' = TRUE
  /\ NewSession
  /\ UNCHANGED <<process, keyboard, reader>>
  /\ LoopFrame

\* No such host, no connection or no handshake: exit(), in the first case after
\* freeing a session that was never made.
ConnectFails ==
  /\ clientLoop = "connect"
  /\ process' \in {"exited", "crashed"}
  /\ UNCHANGED <<clientLoop, ssl, sockfd, keyboard, reader>>
  /\ LoopFrame

StartKeyboard ==
  /\ clientLoop = "startKeyboard" /\ clientLoop' = "startReader"
  /\ keyboard' = "getchar"
  /\ UNCHANGED <<ssl, sockfd, process, reader>>
  /\ LoopFrame

\* By now the keyboard thread may have freed the session.
StartReader ==
  /\ clientLoop = "startReader" /\ clientLoop' = "spin"
  /\ reader' = "test"
  /\ UNCHANGED <<ssl, sockfd, process, keyboard>>
  /\ LoopFrame

\* while(!_exitFlag); then the first statement of _closeAndExit
LoopCloses ==
  /\ clientLoop = "spin" /\ clientLoop' = "free"
  /\ exitFlag
  /\ sockfd' = FALSE
  /\ UNCHANGED <<ssl, process, keyboard, reader>>
  /\ LoopFrame

LoopFrees ==
  /\ clientLoop = "free" /\ clientLoop' = "done"
  /\ FreeSession
  /\ UNCHANGED <<sockfd, keyboard, reader>>
  /\ LoopFrame

\* while(client_is_running()); the end of main ends every thread
MainReturns ==
  /\ exitFlag
  /\ process' = "exited"
  /\ UNCHANGED <<clientLoop, ssl, sockfd, keyboard, reader>>
  /\ LoopFrame

StartThreads == StartKeyboard \/ StartReader

-----------------------------------------------------------------------------
Next ==
  \/ Reply \/ ServerCloses \/ Interrupt
  \/ Press \/ KeyboardRuns
  \/ ReaderRuns \/ ReadsFreed
  \/ Connects \/ ConnectFails \/ StartThreads
  \/ LoopCloses \/ LoopFrees \/ MainReturns

Spec == Init /\ [][Next]_vars

\* Threads that can run do run.  The user and the server need not do anything,
\* and nothing is assumed of a read whose session has been freed, nor of a
\* server that takes its time over the handshake: only that connecting to one
\* that is gone fails in the end.
FairSpec ==
  /\ Spec
  /\ WF_vars(server = "closed" /\ ConnectFails)
  /\ WF_vars(StartThreads)
  /\ WF_vars(KeyboardRuns)
  /\ WF_vars(ReaderRuns)
  /\ WF_vars(MainReturns)

-----------------------------------------------------------------------------
(***************************************************************************)
(* Properties                                                              *)
(***************************************************************************)

\* While the connection is there and the user has not left, no command is
\* dropped and every reply that was read has been printed once: the races on
\* networkActive do no harm as long as both ends are alive.
NothingLost ==
  server = "open" /\ ~exitFlag /\ keyboard # "done"
    => /\ dropped = 0
       /\ reader \notin {"assign", "handle"} => printed = replies - inbox

\* A client that is connected goes on running on a live session until there is
\* a cause: a signal, the key x, or the end of the server.  Each of two threads
\* assigns the flag from its own result, tests what the other has assigned, and
\* three threads free the session; yet without a cause no thread ends, none
\* tells the program to end, and none frees the session under the others.
Cause == signalled \/ keyboard = "done" \/ server = "closed"
EndsForCause ==
  clientLoop # "connect" /\ ~Cause
    => process = "running" /\ ~exitFlag /\ ssl = "live" /\ reader \notin {"stop", "exit", "done"}

\* When the server has gone, the program ends by itself, unless the user has
\* left the keyboard thread and taken the session away from the reader.
ServerGoneEnds ==
  server = "closed" ~> process # "running" \/ keyboard = "done"

=============================================================================
