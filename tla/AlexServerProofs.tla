-------------------------- MODULE AlexServerProofs --------------------------
(***************************************************************************)
(* Proofs about AlexServer, for every set of clients.                      *)
(***************************************************************************)
EXTENDS AlexServer, TLAPS

WorkerStates == {"none", "start", "test", "read", "data", "nodata", "handle",
                 "clear", "free", "done"}

\* A worker is in its loop, from its first test to the reset of tls_conn.
Serving == {"test", "read", "data", "nodata", "handle", "clear"}

\* A connection waits once, in the backlog or with the listener, and before it
\* has a worker.
WaitsOnce ==
  /\ \A i \in 1 .. Len(backlog) :
       /\ client[backlog[i]] # "away"
       /\ worker[backlog[i]] = "none"
       /\ backlog[i] # accepting
  /\ \A i, j \in 1 .. Len(backlog) : backlog[i] = backlog[j] => i = j
  /\ accepting # NULL => client[accepting] # "away" /\ worker[accepting] = "none"

\* A connection nobody has made has no worker.
AwayUnserved == \A c \in Clients : client[c] = "away" => worker[c] = "none"

\* Only a worker past its loop, or a failed handshake, leaves a freed session.
FreedUnserved ==
  \A c \in Clients : ssl[c] = "freed" => worker[c] \in {"none", "done"} /\ accepting # c

\* tls_conn names a client whose worker is in its loop.
ConnServed == tls_conn # NULL => worker[tls_conn] \in Serving

\* The types that the argument needs.
Types ==
  /\ client \in [Clients -> {"away", "queued", "silent", "open", "closed"}]
  /\ worker \in [Clients -> WorkerStates]
  /\ ssl \in [Clients -> {"none", "live", "freed"}]
  /\ backlog \in Seq(Clients)
  /\ accepting \in Clients \cup {NULL}
  /\ tls_conn \in Clients \cup {NULL}

IInv == Types /\ WaitsOnce /\ AwayUnserved /\ FreedUnserved /\ ConnServed

\* The initial state has no connection at all.
LEMMA InitIInv == Init => IInv
BY AlexServerAssumption
   DEF Init, IInv, Types, WorkerStates, WaitsOnce, AwayUnserved, FreedUnserved, ConnServed

\* Steps that leave the connections' state alone preserve the invariant.
LEMMA OtherSteps ==
  ASSUME IInv, UNCHANGED <<client, worker, ssl, backlog, accepting, tls_conn>>
  PROVE  IInv'
BY DEF IInv, Types, WaitsOnce, AwayUnserved, FreedUnserved, ConnServed

\* A new connection joins the backlog: it was away, so it waits there once.
LEMMA ConnectStep ==
  ASSUME IInv, NEW c \in Clients, Connect(c)
  PROVE  IInv'
<1> USE DEF IInv, Types
<1>1. /\ client[c] = "away"
      /\ client' = [client EXCEPT ![c] = "queued"]
      /\ backlog' = Append(backlog, c)
      /\ UNCHANGED <<accepting, ssl, worker, tls_conn>>
  BY DEF Connect, ClientFrame
<1>2. /\ Len(backlog) \in Nat /\ Len(backlog') = Len(backlog) + 1
      /\ \A i \in 1 .. Len(backlog) : backlog'[i] = backlog[i] /\ backlog[i] \in Clients
      /\ backlog'[Len(backlog) + 1] = c
      /\ backlog' \in Seq(Clients)
  BY <1>1
<1>3. \A i \in 1 .. Len(backlog) : backlog[i] # c
  BY <1>1 DEF WaitsOnce
<1>4. accepting # c /\ worker[c] = "none"
  BY <1>1, AlexServerAssumption DEF WaitsOnce, AwayUnserved
<1>5. Types'
  BY <1>1, <1>2
<1>6. ASSUME NEW i \in 1 .. Len(backlog')
      PROVE  /\ client'[backlog'[i]] # "away"
             /\ worker'[backlog'[i]] = "none"
             /\ backlog'[i] # accepting'
  <2>1. CASE i = Len(backlog) + 1
    BY <1>1, <1>2, <1>4, <2>1
  <2>2. CASE i \in 1 .. Len(backlog)
    BY <1>1, <1>2, <1>3, <2>2 DEF WaitsOnce
  <2>3. QED
    BY <1>2, <2>1, <2>2
<1>7. \A i, j \in 1 .. Len(backlog') : backlog'[i] = backlog'[j] => i = j
  BY <1>2, <1>3 DEF WaitsOnce
<1>8. accepting' # NULL => client'[accepting'] # "away" /\ worker'[accepting'] = "none"
  BY <1>1, <1>4 DEF WaitsOnce
<1>9. AwayUnserved' /\ FreedUnserved' /\ ConnServed'
  BY <1>1 DEF AwayUnserved, FreedUnserved, ConnServed
<1>10. QED
  BY <1>5, <1>6, <1>7, <1>8, <1>9 DEF WaitsOnce

\* The listener takes the head of the backlog.
LEMMA AcceptStep ==
  ASSUME IInv, Accept
  PROVE  IInv'
<1> USE DEF IInv, Types
<1> DEFINE h == Head(backlog)
<1>1. /\ accepting = NULL /\ backlog # << >>
      /\ accepting' = h /\ backlog' = Tail(backlog)
      /\ ssl' = [ssl EXCEPT ![h] = "live"]
      /\ UNCHANGED <<client, worker, tls_conn>>
  BY DEF Accept, ListenFrame
<1>2. /\ Len(backlog) \in Nat \ {0} /\ h = backlog[1] /\ h \in Clients
      /\ Len(backlog') = Len(backlog) - 1
      /\ \A i \in 1 .. Len(backlog') : backlog'[i] = backlog[i + 1] /\ i + 1 \in 1 .. Len(backlog)
      /\ backlog' \in Seq(Clients)
  BY <1>1
<1>3. client[h] # "away" /\ worker[h] = "none"
  BY <1>2 DEF WaitsOnce
<1>4. \A i \in 1 .. Len(backlog') : backlog'[i] # h
  BY <1>2 DEF WaitsOnce
<1>5. Types'
  BY <1>1, <1>2
<1>6. \A i \in 1 .. Len(backlog') :
        client'[backlog'[i]] # "away" /\ worker'[backlog'[i]] = "none"
  BY <1>1, <1>2 DEF WaitsOnce
<1>7. ASSUME NEW i \in 1 .. Len(backlog'), NEW j \in 1 .. Len(backlog'),
             backlog'[i] = backlog'[j]
      PROVE  i = j
  <2>1. i + 1 \in 1 .. Len(backlog) /\ j + 1 \in 1 .. Len(backlog)
    BY <1>2
  <2>2. backlog[i + 1] = backlog[j + 1]
    BY <1>2, <1>7
  <2>3. i + 1 = j + 1
    BY <2>1, <2>2 DEF WaitsOnce
  <2>4. QED
    BY <2>3
<1>8. WaitsOnce'
  BY <1>1, <1>3, <1>4, <1>6, <1>7 DEF WaitsOnce
<1>9. AwayUnserved' /\ ConnServed'
  BY <1>1 DEF AwayUnserved, ConnServed
<1>10. FreedUnserved'
  BY <1>1, <1>2 DEF FreedUnserved
<1>11. QED
  BY <1>5, <1>8, <1>9, <1>10

\* The handshake ends, with a worker or without one.
LEMMA HandshakeStep ==
  ASSUME IInv, NEW c \in Clients, Spawn(c) \/ HandshakeFails(c)
  PROVE  IInv'
<1> USE DEF IInv, Types
<1>1. accepting = c /\ accepting # NULL /\ client[c] # "away" /\ worker[c] = "none"
  BY AlexServerAssumption DEF Spawn, HandshakeFails, WaitsOnce
<1>2. tls_conn # c
  BY <1>1, AlexServerAssumption DEF ConnServed, Serving
<1>3. \A i \in 1 .. Len(backlog) : backlog[i] # c /\ backlog[i] \in Clients
  BY <1>1 DEF WaitsOnce
<1>4. ssl[c] # "freed"
  BY <1>1 DEF FreedUnserved
<1>5. CASE Spawn(c)
  <2>1. /\ client' = [client EXCEPT ![c] = "open"]
        /\ worker' = [worker EXCEPT ![c] = "start"]
        /\ accepting' = NULL /\ UNCHANGED <<backlog, ssl, tls_conn>>
    BY <1>5 DEF Spawn, ListenFrame
  <2>2. Types'
    BY <2>1 DEF WorkerStates
  <2>3. WaitsOnce'
    BY <1>3, <2>1, AlexServerAssumption DEF WaitsOnce
  <2>4. AwayUnserved' /\ FreedUnserved' /\ ConnServed'
    BY <1>2, <1>4, <2>1, AlexServerAssumption
       DEF AwayUnserved, FreedUnserved, ConnServed
  <2>5. QED
    BY <2>2, <2>3, <2>4
<1>6. CASE HandshakeFails(c)
  <2>1. /\ \/ client' = [client EXCEPT ![c] = "closed"]
           \/ client' = [client EXCEPT ![c] = "open"]
        /\ ssl' = [ssl EXCEPT ![c] = "freed"]
        /\ accepting' = NULL /\ UNCHANGED <<backlog, worker, tls_conn>>
    BY <1>6 DEF HandshakeFails, ListenFrame, BackToAccept
  <2>2. Types'
    BY <2>1
  <2>3. WaitsOnce'
    BY <1>3, <2>1, AlexServerAssumption DEF WaitsOnce
  <2>4. AwayUnserved' /\ FreedUnserved' /\ ConnServed'
    BY <1>1, <1>2, <2>1, AlexServerAssumption
       DEF AwayUnserved, FreedUnserved, ConnServed
  <2>5. QED
    BY <2>2, <2>3, <2>4
<1>7. QED
  BY <1>5, <1>6

\* A worker moves on inside its loop, leaving tls_conn alone or taking it.
LEMMA WorkerLoopStep ==
  ASSUME IInv, NEW c \in Clients, NEW to \in Serving,
         worker[c] \in Serving \cup {"start"},
         worker' = [worker EXCEPT ![c] = to],
         UNCHANGED <<client, ssl, backlog, accepting>>,
         tls_conn' \in {tls_conn, c}
  PROVE  IInv'
<1> USE DEF IInv, Types
<1>1. to \in WorkerStates /\ to # "none" /\ worker[c] \notin {"none", "done"}
  BY DEF Serving, WorkerStates
<1>2. accepting # c /\ client[c] # "away" /\ ssl[c] # "freed"
  BY <1>1, AlexServerAssumption DEF WaitsOnce, AwayUnserved, FreedUnserved
<1>3. \A i \in 1 .. Len(backlog) : backlog[i] # c /\ backlog[i] \in Clients
  BY <1>1 DEF WaitsOnce
<1>4. Types'
  BY <1>1
<1>5. WaitsOnce'
  BY <1>2, <1>3 DEF WaitsOnce
<1>6. AwayUnserved' /\ FreedUnserved' /\ ConnServed'
  BY <1>2, AlexServerAssumption DEF AwayUnserved, FreedUnserved, ConnServed
<1>7. QED
  BY <1>4, <1>5, <1>6

\* A worker leaves: it resets tls_conn, then frees its session.
LEMMA WorkerExitStep ==
  ASSUME IInv, NEW c \in Clients, WorkerClears(c) \/ WorkerExits(c)
  PROVE  IInv'
<1> USE DEF IInv, Types
<1>1. worker[c] \in {"clear", "free"}
  BY DEF WorkerClears, WorkerExits, Goto
<1>2. accepting # c /\ client[c] # "away"
  BY <1>1, AlexServerAssumption DEF WaitsOnce, AwayUnserved
<1>3. \A i \in 1 .. Len(backlog) : backlog[i] # c /\ backlog[i] \in Clients
  BY <1>1 DEF WaitsOnce
<1>4. CASE WorkerClears(c)
  <2>1. /\ worker' = [worker EXCEPT ![c] = "free"] /\ tls_conn' = NULL
        /\ worker[c] = "clear"
        /\ UNCHANGED <<client, ssl, backlog, accepting>>
    BY <1>4 DEF WorkerClears, WorkerFrame, Goto, ResetConn
  <2>2. Types'
    BY <2>1 DEF WorkerStates
  <2>3. WaitsOnce'
    BY <1>2, <1>3, <2>1 DEF WaitsOnce
  <2>4. AwayUnserved' /\ FreedUnserved' /\ ConnServed'
    BY <1>2, <2>1 DEF AwayUnserved, FreedUnserved, ConnServed
  <2>5. QED
    BY <2>2, <2>3, <2>4
<1>5. CASE WorkerExits(c)
  <2>1. /\ worker' = [worker EXCEPT ![c] = "done"] /\ worker[c] = "free"
        /\ ssl' = [ssl EXCEPT ![c] = "freed"]
        /\ UNCHANGED <<client, tls_conn, backlog, accepting>>
    BY <1>5 DEF WorkerExits, WorkerFrame, Goto
  <2>2. tls_conn # c
    BY <2>1, AlexServerAssumption DEF ConnServed, Serving
  <2>3. Types'
    BY <2>1 DEF WorkerStates
  <2>4. WaitsOnce'
    BY <1>2, <1>3, <2>1 DEF WaitsOnce
  <2>5. AwayUnserved' /\ FreedUnserved' /\ ConnServed'
    BY <1>2, <2>1, <2>2 DEF AwayUnserved, FreedUnserved, ConnServed
  <2>6. QED
    BY <2>3, <2>4, <2>5
<1>6. QED
  BY <1>4, <1>5

\* The connection that replies go to has not been freed, for every number of
\* clients and every interleaving of listener, workers and receive thread.
THEOREM CurrentNotFreed == Spec => []FreedNotCurrent
<1>1. IInv /\ [Next]_vars => IInv'
  <2> SUFFICES ASSUME IInv, [Next]_vars PROVE IInv'
    OBVIOUS
  <2>1. CASE UNCHANGED vars
    BY <2>1, OtherSteps DEF vars, clientVars, listenVars
  <2>2. CASE UartReceives \/ UartRuns
    BY <2>2, OtherSteps
       DEF UartReceives, UartRuns, TestsActive, ChecksConn, LoadsConn, Writes,
           UartAssigns, UartFrame, clientVars, listenVars
  <2>3. ASSUME NEW c \in Clients, Send(c) PROVE IInv'
    BY <2>3, OtherSteps DEF Send, ClientFrame
  <2>4. ASSUME NEW c \in Clients, FallsSilent(c) \/ Close(c) PROVE IInv'
    <3>1. PICK end \in {"silent", "closed"} :
            /\ client' = [client EXCEPT ![c] = end] /\ client[c] # "away"
            /\ UNCHANGED <<worker, ssl, backlog, accepting, tls_conn>>
      BY <2>4 DEF FallsSilent, Close, ClientFrame
    <3>2. Types'
      BY <3>1 DEF IInv, Types
    <3>3. \A i \in 1 .. Len(backlog) : backlog[i] \in Clients
      BY DEF IInv, Types
    <3>4. WaitsOnce' /\ AwayUnserved' /\ FreedUnserved' /\ ConnServed'
      BY <3>1, <3>3 DEF IInv, Types, WaitsOnce, AwayUnserved, FreedUnserved, ConnServed
    <3>5. QED
      BY <3>2, <3>4 DEF IInv
  <2>5. ASSUME NEW c \in Clients, WorkerRuns(c) \/ WorkerLeaves(c) PROVE IInv'
    <3>1. CASE WorkerClears(c) \/ WorkerExits(c)
      BY <3>1, WorkerExitStep
    <3>2. CASE ~(WorkerClears(c) \/ WorkerExits(c))
      <4>1. PICK to \in Serving : worker' = [worker EXCEPT ![c] = to]
        BY <2>5, <3>2
           DEF WorkerRuns, WorkerLeaves, WorkerStarts, WorkerStays, ReadData,
               ReadNothing, WorkerAssigns, AfterRead, Handle, Goto, Serving
      <4>2. worker[c] \in Serving \cup {"start"}
        BY <2>5, <3>2
           DEF WorkerRuns, WorkerLeaves, WorkerStarts, WorkerStays, ReadData,
               ReadNothing, WorkerAssigns, AfterRead, Handle, Goto, Serving
      <4>3. /\ UNCHANGED <<client, ssl, backlog, accepting>>
            /\ tls_conn' \in {tls_conn, c}
        BY <2>5, <3>2
           DEF WorkerRuns, WorkerLeaves, WorkerStarts, WorkerStays, ReadData,
               ReadNothing, WorkerAssigns, Handle, WorkerFrame
      <4>4. QED
        BY <4>1, <4>2, <4>3, WorkerLoopStep
    <3>3. QED
      BY <3>1, <3>2
  <2>6. QED
    BY <2>1, <2>2, <2>3, <2>4, <2>5, AcceptStep, ConnectStep, HandshakeStep DEF Next
<1>2. IInv => FreedNotCurrent
  BY AlexServerAssumption
     DEF IInv, Types, FreedUnserved, ConnServed, Serving, FreedNotCurrent
<1>3. QED
  BY <1>1, <1>2, InitIInv, PTL DEF Spec

-----------------------------------------------------------------------------
\* A worker reads no more commands than its client has sent.
ReadSent == \A c \in Clients : unread[c] <= sent[c]

TInv == TypeOK /\ ReadSent

\* Steps of the clients and of the listener keep the types.
LEMMA ConnectionTypes ==
  ASSUME TInv, NEW c \in Clients,
         \/ Connect(c) \/ Send(c) \/ FallsSilent(c) \/ Close(c)
         \/ Spawn(c) \/ HandshakeFails(c) \/ Accept
  PROVE  TInv'
<1> USE DEF TInv, TypeOK, ReadSent, ClientFrame, ListenFrame, uartVars
<1>1. CASE Connect(c)
  BY <1>1 DEF Connect
<1>2. CASE Send(c)
  <2>1. /\ sent' = [sent EXCEPT ![c] = @ + 1] /\ unread' = [unread EXCEPT ![c] = @ + 1]
        /\ sent[c] < MaxCommands
        /\ UNCHANGED <<client, backlog, accepting, ssl, worker, networkActive, tls_conn,
                       uart, target, written, crashed>>
    BY <1>2 DEF Send
  <2>2. \A d \in Clients : sent'[d] \in 0 .. MaxCommands /\ unread'[d] <= sent'[d]
                           /\ unread'[d] \in 0 .. MaxCommands
    BY <2>1, AlexServerAssumption
  <2>3. sent' \in [Clients -> 0 .. MaxCommands] /\ unread' \in [Clients -> 0 .. MaxCommands]
    BY <2>1, <2>2
  <2>4. QED
    BY <2>1, <2>2, <2>3
<1>3. CASE FallsSilent(c) \/ Close(c)
  BY <1>3 DEF FallsSilent, Close
<1>4. CASE Spawn(c)
  BY <1>4 DEF Spawn
<1>5. CASE HandshakeFails(c)
  BY <1>5 DEF HandshakeFails, BackToAccept
<1>6. CASE Accept
  <2>1. Head(backlog) \in Clients /\ Tail(backlog) \in Seq(Clients)
    BY <1>6 DEF Accept
  <2>2. QED
    BY <1>6, <2>1 DEF Accept
<1>7. QED
  BY <1>1, <1>2, <1>3, <1>4, <1>5, <1>6

\* Steps of a worker keep them: it takes a command only when there is one.
LEMMA WorkerTypes ==
  ASSUME TInv, NEW c \in Clients, WorkerRuns(c) \/ WorkerLeaves(c)
  PROVE  TInv'
<1> USE DEF TInv, TypeOK, ReadSent, WorkerFrame, Goto, uartVars
<1>1. CASE WorkerStarts(c) \/ WorkerStays(c) \/ WorkerLeaves(c) \/ ReadNothing(c)
  BY <1>1 DEF WorkerStarts, WorkerStays, WorkerLeaves, ReadNothing
<1>2. CASE ReadData(c)
  <2>1. unread' = [unread EXCEPT ![c] = @ - 1] /\ unread[c] > 0 /\ sent' = sent
    BY <1>2 DEF ReadData, HasData
  <2>2. unread' \in [Clients -> 0 .. MaxCommands] /\ \A d \in Clients : unread'[d] <= sent'[d]
    BY <2>1, AlexServerAssumption
  <2>3. QED
    BY <1>2, <2>2 DEF ReadData
<1>3. CASE WorkerAssigns(c) \/ Handle(c) \/ WorkerClears(c) \/ WorkerExits(c)
  BY <1>3 DEF WorkerAssigns, AfterRead, Handle, WorkerClears, ResetConn, WorkerExits
<1>4. QED
  BY <1>1, <1>2, <1>3 DEF WorkerRuns

\* The server's variables keep their types: no worker is lost between two
\* states, and tls_conn and the session being written to are clients or none.
THEOREM TypeCorrect == Spec => []TypeOK
<1>1. Init => TInv
  <2> SUFFICES ASSUME Init PROVE TInv
    OBVIOUS
  <2>1. 0 \in 0 .. MaxCommands
    BY AlexServerAssumption
  <2>2. /\ sent \in [Clients -> 0 .. MaxCommands]
        /\ unread \in [Clients -> 0 .. MaxCommands]
        /\ \A c \in Clients : unread[c] = 0 /\ sent[c] = 0
    BY <2>1 DEF Init
  <2>3. backlog \in Seq(Clients) /\ accepting = NULL /\ tls_conn = NULL /\ target = NULL
    BY DEF Init
  <2>4. /\ client \in [Clients -> {"away", "queued", "silent", "open", "closed"}]
        /\ ssl \in [Clients -> {"none", "live", "freed"}]
        /\ worker \in [Clients -> {"none", "start", "test", "read", "data", "nodata",
                                   "handle", "clear", "free", "done"}]
    BY DEF Init
  <2>5. /\ networkActive \in BOOLEAN /\ written \in BOOLEAN /\ crashed \in BOOLEAN
        /\ uart \in {"receive", "test", "check", "load", "write", "assign"}
    BY DEF Init
  <2>6. QED
    BY <2>2, <2>3, <2>4, <2>5 DEF TInv, TypeOK, ReadSent
<1>2. TInv /\ [Next]_vars => TInv'
  <2> SUFFICES ASSUME TInv, [Next]_vars PROVE TInv'
    OBVIOUS
  <2> USE DEF TInv, TypeOK, ReadSent, UartFrame, clientVars, listenVars
  <2>1. CASE UNCHANGED vars
    BY <2>1 DEF vars, uartVars
  <2>2. CASE UartReceives
    BY <2>2 DEF UartReceives
  <2>3. CASE UartRuns
    BY <2>3 DEF UartRuns, TestsActive, ChecksConn, LoadsConn, Writes, UartAssigns
  <2>4. CASE Accept
    <3>1. PICK c \in Clients : TRUE
      BY <2>4 DEF Accept
    <3>2. QED
      BY <2>4, <3>1, ConnectionTypes
  <2>5. QED
    BY <2>1, <2>2, <2>3, <2>4, ConnectionTypes, WorkerTypes DEF Next
<1>3. TInv => TypeOK
  BY DEF TInv
<1>4. QED
  BY <1>1, <1>2, <1>3, PTL DEF Spec

=============================================================================
