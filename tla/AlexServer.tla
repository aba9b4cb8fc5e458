----------------------------- MODULE AlexServer -----------------------------
(***************************************************************************)
(* The server on the Raspberry Pi: the listener thread (make_tls_server),  *)
(* one worker thread per accepted client and the thread that receives from *)
(* the serial port (tls-alex-server).  The threads share networkActive and *)
(* tls_conn with no lock; each step below is one access to shared state.   *)
(*                                                                         *)
(* A client is its connection: it connects at most once, and its name      *)
(* stands for the SSL session made for it.  What a thread may do with a    *)
(* session that has been freed is undefined: the call returns anything, or *)
(* the process dies.                                                       *)
(***************************************************************************)
EXTENDS Integers, Sequences

CONSTANTS
  Clients,
  MaxCommands  \* bound: commands a client sends

NULL == "NULL"

ASSUME AlexServerAssumption ==
  /\ NULL \notin Clients
  /\ MaxCommands \in Nat

VARIABLES
  client,         \* the client's end: "away", "queued" (it takes part in the
                  \* handshake, or will), "silent" (it does not), "open", "closed"
  sent, unread,   \* commands each client has sent, and not yet read by its worker
  backlog,        \* connections waiting for accept()
  accepting,      \* the client whose handshake the listener is in
  ssl,            \* "none", "live" or "freed": the client's SSL session
  worker,         \* where each client's worker is
  networkActive,
  tls_conn,
  uart,           \* where the UART receive thread is
  target,         \* the session it has passed to sslWrite()
  written,        \* its local c is positive
  crashed         \* the process has died

clientVars == <<client, sent, unread>>
listenVars == <<backlog, accepting, ssl>>
uartVars == <<uart, target, written>>
vars == <<clientVars, listenVars, worker, networkActive, tls_conn, uartVars, crashed>>

TypeOK ==
  /\ client \in [Clients -> {"away", "queued", "silent", "open", "closed"}]
  /\ sent \in [Clients -> 0 .. MaxCommands]
  /\ unread \in [Clients -> 0 .. MaxCommands]
  /\ backlog \in Seq(Clients)
  /\ accepting \in Clients \cup {NULL}
  /\ ssl \in [Clients -> {"none", "live", "freed"}]
  /\ worker \in [Clients -> {"none", "start", "test", "read", "data", "nodata",
                             "handle", "clear", "free", "done"}]
  /\ networkActive \in BOOLEAN
  /\ tls_conn \in Clients \cup {NULL}
  /\ uart \in {"receive", "test", "check", "load", "write", "assign"}
  /\ target \in Clients \cup {NULL}
  /\ written \in BOOLEAN
  /\ crashed \in BOOLEAN

Init ==
  /\ client = [c \in Clients |-> "away"]
  /\ sent = [c \in Clients |-> 0]
  /\ unread = [c \in Clients |-> 0]
  /\ backlog = << >>
  /\ accepting = NULL
  /\ ssl = [c \in Clients |-> "none"]
  /\ worker = [c \in Clients |-> "none"]
  /\ networkActive = TRUE
  /\ tls_conn = NULL
  /\ uart = "receive"
  /\ target = NULL
  /\ written = FALSE
  /\ crashed = FALSE

-----------------------------------------------------------------------------
(***************************************************************************)
(* The clients, as the server sees them                                    *)
(***************************************************************************)

\* Every step is one of a process that lives; a frame says so, and names what
\* the steps of its thread leave alone.
ClientFrame ==
  ~crashed /\ UNCHANGED <<accepting, ssl, worker, networkActive,
                         tls_conn, uartVars, crashed>>

Connect(c) ==
  /\ client[c] = "away"
  /\ client' = [client EXCEPT ![c] = "queued"]
  /\ backlog' = Append(backlog, c)
  /\ UNCHANGED <<sent, unread>>
  /\ ClientFrame

Send(c) ==
  /\ client[c] = "open"
  /\ sent[c] < MaxCommands
  /\ sent' = [sent EXCEPT ![c] = @ + 1]
  /\ unread' = [unread EXCEPT ![c] = @ + 1]
  /\ UNCHANGED <<client, backlog>>
  /\ ClientFrame

\* A client that waits for its handshake stops answering, for good: it hangs,
\* it is no TLS client, or its network has gone.
FallsSilent(c) ==
  /\ client[c] = "queued"
  /\ client' = [client EXCEPT ![c] = "silent"]
  /\ UNCHANGED <<sent, unread, backlog>>
  /\ ClientFrame

Close(c) ==
  /\ client[c] \in {"queued", "silent", "open"}
  /\ client' = [client EXCEPT ![c] = "closed"]
  /\ UNCHANGED <<sent, unread, backlog>>
  /\ ClientFrame

-----------------------------------------------------------------------------
(***************************************************************************)
(* _tls_listener                                                           *)
(***************************************************************************)
ListenFrame ==
  ~crashed /\ UNCHANGED <<sent, unread, networkActive, tls_conn, uartVars, crashed>>

\* accept(), and SSL_new() in connectSSL(): the listener then waits for the
\* handshake of this client alone.
Accept ==
  /\ accepting = NULL
  /\ backlog # << >>
  /\ accepting' = Head(backlog)
  /\ backlog' = Tail(backlog)
  /\ ssl' = [ssl EXCEPT ![Head(backlog)] = "live"]
  /\ UNCHANGED <<client, worker>>
  /\ ListenFrame

\* The handshake and the certificate are good: a worker is spawned, however
\* many there are.
Spawn(c) ==
  /\ accepting = c
  /\ client[c] = "queued"
  /\ client' = [client EXCEPT ![c] = "open"]
  /\ worker' = [worker EXCEPT ![c] = "start"]
  /\ accepting' = NULL
  /\ UNCHANGED <<backlog, ssl>>
  /\ ListenFrame

\* SSL_accept() fails (a bad certificate included), or the client has shown no
\* certificate: back to accept().  In the second case the session is freed
\* without a word to the client, which takes itself to be connected.  There is
\* no timeout: with a client that is silent SSL_accept() does not return.
MutantStillAccepting == UNCHANGED accepting
BackToAccept == accepting' = NULL

HandshakeFails(c) ==
  /\ accepting = c
  /\ client[c] # "silent"
  /\ \/ client' = [client EXCEPT ![c] = "closed"]
     \/ client[c] = "queued" /\ client' = [client EXCEPT ![c] = "open"]
  /\ ssl' = [ssl EXCEPT ![c] = "freed"]
  /\ BackToAccept
  /\ UNCHANGED <<backlog, worker>>
  /\ ListenFrame

-----------------------------------------------------------------------------
(***************************************************************************)
(* worker                                                                  *)
(***************************************************************************)
Goto(c, from, to) ==
  /\ worker[c] = from
  /\ worker' = [worker EXCEPT ![c] = to]

WorkerFrame ==
  ~crashed /\ UNCHANGED <<client, sent, backlog, accepting, uartVars, crashed>>

WorkerStarts(c) ==
  /\ Goto(c, "start", "test")
  /\ networkActive' = TRUE
  /\ UNCHANGED <<unread, ssl, tls_conn>>
  /\ WorkerFrame

\* while(networkActive)
WorkerStays(c) ==
  /\ networkActive
  /\ Goto(c, "test", "read")
  /\ UNCHANGED <<unread, ssl, networkActive, tls_conn>>
  /\ WorkerFrame

WorkerLeaves(c) ==
  /\ ~networkActive
  /\ Goto(c, "test", "clear")
  /\ UNCHANGED <<unread, ssl, networkActive, tls_conn>>
  /\ WorkerFrame

\* sslRead() returns data, or nothing once the client has closed.
MutantNoBlocking(c) == client[c] = "open"
HasData(c) == unread[c] > 0

ReadData(c) ==
  /\ HasData(c)
  /\ Goto(c, "read", "data")
  /\ unread' = [unread EXCEPT ![c] = @ - 1]
  /\ UNCHANGED <<ssl, networkActive, tls_conn>>
  /\ WorkerFrame

ReadNothing(c) ==
  /\ ~HasData(c) /\ client[c] = "closed"
  /\ Goto(c, "read", "nodata")
  /\ UNCHANGED <<unread, ssl, networkActive, tls_conn>>
  /\ WorkerFrame

\* networkActive = (len > 0)
MutantLenIgnored(c) ==
  (Goto(c, "data", "handle") \/ Goto(c, "nodata", "test")) /\ networkActive' = TRUE
AfterRead(c) ==
  \/ Goto(c, "data", "handle") /\ networkActive' = TRUE
  \/ Goto(c, "nodata", "test") /\ networkActive' = FALSE

WorkerAssigns(c) ==
  /\ AfterRead(c)
  /\ UNCHANGED <<unread, ssl, tls_conn>>
  /\ WorkerFrame

\* handleNetworkData(): the reply of the Arduino goes to this client.
Handle(c) ==
  /\ Goto(c, "handle", "test")
  /\ tls_conn' = c
  /\ UNCHANGED <<unread, ssl, networkActive>>
  /\ WorkerFrame

MutantConnKept == UNCHANGED tls_conn
ResetConn == tls_conn' = NULL

WorkerClears(c) ==
  /\ Goto(c, "clear", "free")
  /\ ResetConn
  /\ UNCHANGED <<unread, ssl, networkActive>>
  /\ WorkerFrame

\* EXIT_THREAD: SSL_free() leaves the socket as it is.
WorkerExits(c) ==
  /\ Goto(c, "free", "done")
  /\ ssl' = [ssl EXCEPT ![c] = "freed"]
  /\ UNCHANGED <<unread, networkActive, tls_conn>>
  /\ WorkerFrame

WorkerRuns(c) ==
  \/ WorkerStarts(c) \/ WorkerStays(c) \/ ReadData(c) \/ ReadNothing(c)
  \/ WorkerAssigns(c) \/ Handle(c) \/ WorkerClears(c) \/ WorkerExits(c)

-----------------------------------------------------------------------------
(***************************************************************************)
(* uartReceiveThread, down to sendNetworkData                              *)
(***************************************************************************)
UartFrame == ~crashed /\ UNCHANGED <<clientVars, listenVars, worker, tls_conn>>

\* A packet of the Arduino that is passed on to the client.
UartReceives ==
  /\ uart = "receive" /\ uart' = "test"
  /\ UNCHANGED <<networkActive, target, written, crashed>>
  /\ UartFrame

\* if(networkActive)
TestsActive ==
  /\ uart = "test"
  /\ uart' = IF networkActive THEN "check" ELSE "receive"
  /\ UNCHANGED <<networkActive, target, written, crashed>>
  /\ UartFrame

\* if(tls_conn != NULL); if it is, c keeps what the stack held
ChecksConn ==
  /\ uart = "check"
  /\ \/ tls_conn # NULL /\ uart' = "load" /\ UNCHANGED written
     \/ tls_conn = NULL /\ uart' = "assign" /\ written' \in BOOLEAN
  /\ UNCHANGED <<networkActive, target, crashed>>
  /\ UartFrame

\* The argument of sslWrite(): tls_conn is loaded again.
LoadsConn ==
  /\ uart = "load" /\ uart' = "write"
  /\ target' = tls_conn
  /\ UNCHANGED <<networkActive, written, crashed>>
  /\ UartFrame

\* SSL_write() on a live session succeeds, or fails once the client has
\* closed; the SIGPIPE of a closed socket, which nobody ignores, kills the
\* process, and so may a session that is NULL or freed.
Writes ==
  /\ uart = "write" /\ uart' = "assign"
  /\ \/ target # NULL /\ written' = TRUE /\ UNCHANGED crashed
     \/ /\ target # NULL /\ (client[target] = "closed" \/ ssl[target] = "freed")
        /\ written' = FALSE /\ crashed' \in BOOLEAN
     \/ target = NULL /\ crashed' = TRUE /\ UNCHANGED written
  /\ target' = NULL
  /\ UNCHANGED networkActive
  /\ UartFrame

\* networkActive = (c > 0)
UartAssigns ==
  /\ uart = "assign" /\ uart' = "receive"
  /\ networkActive' = written
  /\ written' = FALSE
  /\ UNCHANGED <<target, crashed>>
  /\ UartFrame

UartRuns == TestsActive \/ ChecksConn \/ LoadsConn \/ Writes \/ UartAssigns

-----------------------------------------------------------------------------
Next ==
  \/ Accept \/ UartReceives \/ UartRuns
  \/ \E c \in Clients :
       \/ Connect(c) \/ Send(c) \/ FallsSilent(c) \/ Close(c)
       \/ Spawn(c) \/ HandshakeFails(c)
       \/ WorkerRuns(c) \/ WorkerLeaves(c)

Spec == Init /\ [][Next]_vars

\* Threads that can run do run: SSL_accept() returns for a client that answers
\* or closes.  Clients owe nothing: one that is silent may stay so for ever.
\* The flag that a worker tests may be set again by another thread each time
\* before the test: a race, and strong fairness says that it is not lost for
\* ever.
FairSpec ==
  /\ Spec
  /\ WF_vars(Accept)
  /\ WF_vars(UartRuns)
  /\ \A c \in Clients :
       /\ WF_vars(Spawn(c) \/ HandshakeFails(c))
       /\ WF_vars(WorkerRuns(c))
       /\ SF_vars(WorkerLeaves(c))

-----------------------------------------------------------------------------
(***************************************************************************)
(* Properties                                                              *)
(***************************************************************************)

\* The connection that replies go to is never one that has been freed: a
\* worker resets tls_conn before it frees its session, whoever's it was, and
\* no other thread can set it back.
FreedNotCurrent == \A c \in Clients : ssl[c] = "freed" => tls_conn # c

\* A client that has closed has its session freed in the end, whatever the
\* other threads do to the flag its worker loops on.
ClosedFreed ==
  \A c \in Clients :
    client[c] = "closed" /\ worker[c] # "none" ~> ssl[c] = "freed" \/ crashed

\* The listener waits for a client that says nothing.
ListenerHeld == accepting # NULL /\ client[accepting] = "silent"

\* A client that connects gets a worker or is turned away, however many are
\* being served or waiting, but for one thing: a silent client that the
\* listener has accepted and that never closes keeps all others waiting.  One
\* that closes in the end does not.
QueuedServed ==
  \A c \in Clients :
    []<>(client[c] # "queued" \/ crashed) \/ <>[]ListenerHeld

\* A worker leaves its loop only when its own client has closed.
ActiveWorkerKept ==
  [][\A c \in Clients : worker[c] = "test" /\ worker'[c] = "clear"
       => client[c] = "closed"]_vars

=============================================================================
