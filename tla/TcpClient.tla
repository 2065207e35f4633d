------------------------------ MODULE TcpClient ------------------------------
(***************************************************************************)
(* tunnel_tcp_service.cpp tcp_client with connecting.cpp async_connector:  *)
(* the client connects, serves the connection until it is lost, waits and  *)
(* connects again.  Objects are slots that are reused once nothing refers  *)
(* to them, so a behaviour may reconnect for ever.  The reconnect timer is *)
(* taken as the one-shot timer AsyncTimer is checked to be, and a write as *)
(* one unit (Transport looks inside it).                                   *)
(*                                                                         *)
(* The client is created while the configuration is parsed; a later "tcp"  *)
(* line destroys it before the io_service runs, with its connect under     *)
(* way, unless a udp line between the two refers to it (tunnel.cpp         *)
(* create_tcp_sender).                                                     *)
(***************************************************************************)
EXTENDS TransportOps

CONSTANTS Connectors,  \* async_connector::impl objects alive at once
          Sockets,     \* transports alive at once
          None,
          Faults,      \* unexpected things that may happen: see below
          QueueBound   \* bound on the messages queued behind the one being written

AllFaults == {"error",   \* a completion with an unexpected code
              "throw"}   \* the peer left before remote_endpoint()

ASSUME NoneAssumption == None \notin Connectors \union Sockets
ASSUME FaultsAssumption == Faults \subseteq AllFaults
ASSUME QueueBoundAssumption == QueueBound \in Nat

VARIABLES running,     \* io_service::run() has been called
          alive,       \* the tcp_client exists
          exit,        \* why the process ended, or "none"
          connector,   \* [Connectors -> Resource]
          connector_,  \* the connector the client owns, or None
          moved,       \* connectors whose socket has been moved out
          socket,      \* [Sockets -> TransportState]
          sock_,       \* the transport of the client's connection, or None
          armed,       \* reconnect_timer_ is waiting
          traced       \* an error_tracer has printed something

vars == <<running, alive, exit, connector, connector_, moved, socket, sock_,
          armed, traced>>

Msg == {1}

\* The types, with the bound that the model sets to the queues, and: an object is
\* owned exactly while the client's member points to it.
TypeOK == /\ running \in BOOLEAN /\ alive \in BOOLEAN
          /\ exit \in {"none", "remote_endpoint", "cancel"}
          /\ connector \in [Connectors -> Resource]
          /\ connector_ \in Connectors \union {None}
          /\ moved \subseteq Connectors
          /\ socket \in [Sockets -> TransportState(Msg, 1)]
          /\ sock_ \in Sockets \union {None}
          /\ armed \in BOOLEAN /\ traced \in BOOLEAN
          /\ \A c \in Connectors : connector[c].owned <=> c = connector_
          /\ \A s \in Sockets : /\ socket[s].owned <=> s = sock_
                                /\ Len(socket[s].msgs) <= QueueBound

\* async_connector::impl::create(): the connect is under way.
CreateConnector == NewResource

\* The constructor has called start_connect().
Init == /\ running = FALSE /\ alive = TRUE /\ exit = "none"
        /\ connector_ \in Connectors
        /\ connector = [c \in Connectors |->
                            IF c = connector_ THEN CreateConnector ELSE NoResource]
        /\ moved = {}
        /\ socket = [s \in Sockets |-> NoTransport] /\ sock_ = None
        /\ armed = FALSE /\ traced = FALSE

-----------------------------------------------------------------------------
\* Members of tcp_client: what each leaves in the objects it touches.
WithoutConnector == [c \in Connectors |->
                        IF c = connector_ THEN Release(connector[c]) ELSE connector[c]]

WithoutSock(socks) == [s \in Sockets |->
                          IF s = sock_ THEN ReleaseTransport(socks[s]) ELSE socks[s]]

\* The cancel() of a socket that was moved out throws out of io_service::run().
CancelThrows == /\ connector_ \in moved
                /\ connector[connector_].attached

\* start_connect(): connector_.reset(), then a new connector.
StartConnect ==
    IF CancelThrows
    THEN exit' = "cancel" /\ UNCHANGED <<connector, connector_, moved>>
    ELSE \E c \in Connectors :
            /\ Destroyed(WithoutConnector[c])
            /\ connector' = [WithoutConnector EXCEPT ![c] = CreateConnector]
            /\ connector_' = c
            /\ moved' = moved \ {c}
            /\ UNCHANGED exit

\* A faulty on_disconnected(): it waits, and leaves the connection in place.
KeepsSock(socks) == /\ socket' = socks
                    /\ armed' = TRUE
                    /\ UNCHANGED <<sock_, traced>>

\* A faulty on_disconnected(): the connection goes, and nobody waits.
ForgetsToWait(socks) == /\ socket' = [s \in Sockets |-> Reclaim(WithoutSock(socks)[s])]
                        /\ sock_' = None
                        /\ UNCHANGED <<armed, traced>>

\* on_disconnected(): sock_.reset(), then wait; socks is what the transports
\* are by then.
OnDisconnected(socks) == /\ socket' = [s \in Sockets |-> Reclaim(WithoutSock(socks)[s])]
                         /\ sock_' = None
                         /\ armed' = TRUE
                         /\ UNCHANGED traced

\* error_tracer: the error is printed, and that is all.
OnError(socks) == /\ socket' = socks
                  /\ traced' = TRUE
                  /\ UNCHANGED <<sock_, armed>>

-----------------------------------------------------------------------------
\* The process.
Run == /\ ~running
       /\ running' = TRUE
       /\ UNCHANGED <<alive, exit, connector, connector_, moved, socket, sock_,
                      armed, traced>>

\* A second "tcp" line replaces the client before anything has run.
Replaced == /\ ~running /\ alive
            /\ alive' = FALSE
            /\ connector' = WithoutConnector
            /\ connector_' = None
            /\ UNCHANGED <<running, exit, moved, socket, sock_, armed, traced>>

\* The io_service runs handlers until an exception ends the process.
Handling == running /\ exit = "none"

-----------------------------------------------------------------------------
\* async_connector.
ConnectCodes == {"ok", "refused"} \union (IF "error" \in Faults THEN {"other"} ELSE {})

ConnectCompletes(c, code) ==
    /\ exit = "none"
    /\ connector[c].op = "pending"
    /\ connector' = [connector EXCEPT ![c].op = code]
    /\ UNCHANGED <<running, alive, exit, connector_, moved, socket, sock_, armed, traced>>

\* The handler of c is about to run; it holds c no longer when it returns.
Connecting(c) == Handling /\ connector[c].op \in Queued

ConnectEnds(c) == connector' = [connector EXCEPT ![c].op = "none"]

OnConnectIgnored(c) ==
    /\ Connecting(c) /\ Cancelled(connector[c])
    /\ ConnectEnds(c)
    /\ UNCHANGED <<running, alive, exit, connector_, moved, socket, sock_, armed, traced>>

OnConnectRefused(c) ==
    /\ Connecting(c) /\ ~Cancelled(connector[c])
    /\ connector[c].op = "refused"
    /\ ConnectEnds(c)
    /\ OnDisconnected(socket)
    /\ UNCHANGED <<running, alive, exit, connector_, moved>>

OnConnectError(c) ==
    /\ Connecting(c) /\ ~Cancelled(connector[c])
    /\ connector[c].op \in {"other", "aborted"}
    /\ ConnectEnds(c)
    /\ OnError(socket)
    /\ UNCHANGED <<running, alive, exit, connector_, moved>>

\* sock_.remote_endpoint() throws: the peer has closed the connection already.
OnConnectThrows(c) ==
    /\ Connecting(c) /\ ~Cancelled(connector[c])
    /\ connector[c].op = "ok"
    /\ "throw" \in Faults
    /\ exit' = "remote_endpoint"
    /\ ConnectEnds(c)
    /\ UNCHANGED <<running, alive, connector_, moved, socket, sock_, armed, traced>>

\* A faulty on_connected(): it counts on the connector being deleted "after
\* establishing connection", and does not detach the socket.
StillAttached(r) == [r EXCEPT !.op = "none"]

HandedOver(r) == Detach([r EXCEPT !.op = "none"])

\* on_connected_ moves the socket into the client's sock_, then
\* detach_resource().
OnConnectOk(c) ==
    /\ Connecting(c) /\ ~Cancelled(connector[c])
    /\ connector[c].op = "ok"
    /\ connector' = [connector EXCEPT ![c] = HandedOver(@)]
    /\ moved' = moved \union {c}
    /\ \E s \in Sockets :
          /\ Closed(WithoutSock(socket)[s])
          /\ socket' = [WithoutSock(socket) EXCEPT ![s] = NewTransport]
          /\ sock_' = s
    /\ UNCHANGED <<running, alive, exit, connector_, armed, traced>>

-----------------------------------------------------------------------------
\* The connection.
SocketCodes == {"ok", "drop"} \union (IF "error" \in Faults THEN {"other"} ELSE {})

SocketCompletes(s) ==
    /\ exit = "none"
    /\ \E t \in Completions(socket[s], SocketCodes) : socket' = [socket EXCEPT ![s] = t]
    /\ UNCHANGED <<running, alive, exit, connector, connector_, moved, sock_, armed, traced>>

\* tcp_client::send(), called by a udp_receiver; without sock_ it does nothing.
ClientSend ==
    /\ Handling /\ alive /\ sock_ # None
    /\ socket[sock_].ready \/ Len(socket[sock_].msgs) < QueueBound
    /\ socket' = [socket EXCEPT ![sock_] = Send(@, 1)]
    /\ UNCHANGED <<running, alive, exit, connector, connector_, moved, sock_, armed, traced>>

\* A handler that does nothing, or that goes on with the transport.
Quietly(s, t) == /\ socket' = [socket EXCEPT ![s] = Reclaim(t)]
                 /\ UNCHANGED <<sock_, armed, traced>>

\* on_error(): a lost connection goes to the client, the rest to the tracer.
Reports(s, t, code) == IF code = "drop"
                       THEN OnDisconnected([socket EXCEPT ![s] = t])
                       ELSE OnError([socket EXCEPT ![s] = t])

OnSend(s, w) ==
    LET t == socket[s]
    IN IF Cancelled(t) THEN Quietly(s, OnSendEnds(t, w))
       ELSE IF w.code = "ok" THEN Quietly(s, OnSendOk(t, w))
       ELSE Reports(s, OnSendEnds(t, w), w.code)

OnReceive(s) ==
    LET t == socket[s]
    IN IF Cancelled(t) THEN Quietly(s, OnReceiveEnds(t))
       ELSE IF t.op = "ok" THEN Quietly(s, OnReceiveOk(t))
       ELSE Reports(s, OnReceiveEnds(t), t.op)

HandleSocket(s) ==
    /\ Handling
    /\ \/ ReceiveQueued(socket[s]) /\ OnReceive(s)
       \/ \E w \in QueuedSends(socket[s]) : OnSend(s, w)
    /\ UNCHANGED <<running, alive, exit, connector, connector_, moved>>

-----------------------------------------------------------------------------
\* The reconnect timer fires: start_connect().
OnTimer == /\ Handling /\ armed
           /\ armed' = FALSE
           /\ StartConnect
           /\ UNCHANGED <<running, alive, socket, sock_, traced>>

HandleConnect(c) == \/ OnConnectIgnored(c)
                    \/ OnConnectRefused(c)
                    \/ OnConnectError(c)
                    \/ OnConnectThrows(c)
                    \/ OnConnectOk(c)

Next == \/ Run
        \/ Replaced
        \/ ClientSend
        \/ OnTimer
        \/ \E c \in Connectors :
              \/ \E code \in ConnectCodes : ConnectCompletes(c, code)
              \/ HandleConnect(c)
        \/ \E s \in Sockets : SocketCompletes(s) \/ HandleSocket(s)

\* The parser comes to its end, the io_service runs what is queued, timers
\* fire (AsyncTimer), and the kernel answers every connect in the end.  A
\* receive need not complete and nobody has to send.
Fairness ==
    /\ WF_vars(Run)
    /\ WF_vars(OnTimer)
    /\ \A c \in Connectors :
          /\ WF_vars(HandleConnect(c))
          /\ WF_vars(\E code \in ConnectCodes : ConnectCompletes(c, code))
    /\ \A s \in Sockets : WF_vars(HandleSocket(s))

Spec == Init /\ [][Next]_vars /\ Fairness

\* A server that is up again and again: a connect that is tried for ever
\* succeeds in the end.
ServerReturns ==
    \A c \in Connectors : SF_vars(ConnectCompletes(c, "ok"))

FairSpec == Spec /\ ServerReturns
-----------------------------------------------------------------------------
InAttempt == connector_ # None /\ connector[connector_].op # "none"
InSession == sock_ # None
InWait == armed

\* At most one of the three things that move the client on is under way: a
\* connect, a session, a wait.  Two of them would each start a connection of
\* its own, and the later one would replace the earlier.
SingleDriver == /\ ~(InAttempt /\ InSession)
                /\ ~(InAttempt /\ InWait)
                /\ ~(InSession /\ InWait)

\* connecting.cpp:17 "the object will be deleted automatically after
\* establishing connection": no connector is left while a session lasts.
ConnectorDeletedOnceConnected ==
    InSession => \A c \in Connectors : Destroyed(connector[c])

Idle == ~InAttempt /\ ~InSession /\ ~InWait
Deaf == InSession /\ socket[sock_].op = "none"

\* A client that will never do anything again, or that will never hear that
\* its connection is lost, has at least printed an error.
NeverForgotten == alive /\ exit = "none" /\ (Idle \/ Deaf) => traced

\* The socket that was moved out of the connector is never cancelled through
\* it: that would throw out of io_service::run() at the next reconnection.
NoCancelOfMovedSocket == exit # "cancel"

Phase == IF exit # "none" \/ ~alive THEN "gone"
         ELSE IF InSession THEN "connected"
         ELSE IF InWait THEN "waiting"
         ELSE IF InAttempt THEN "connecting" ELSE "stuck"

\* The client goes round the reconnection cycle and leaves no phase of it by
\* a way that does not exist; an attempt ends and a wait is followed by an
\* attempt.
Cycle == INSTANCE Reconnector WITH phase <- Phase
ImplementsReconnector == Cycle!Spec

-----------------------------------------------------------------------------
\* Giving an object up raises its flag, and nothing else does: a handler that
\* finds no flag runs for the object that the client's member points to.
CancelledWhenReleased ==
    /\ \A c \in Connectors : connector[c].cancelled <=> c # connector_
    /\ \A s \in Sockets : socket[s].cancelled <=> s # sock_

\* detach_resource() comes with every move.
MovedIsDetached == \A c \in moved : ~connector[c].attached

\* Before run() there is the first connect, and nothing else.
NothingBeforeRun ==
    ~running => /\ exit = "none" /\ ~InSession /\ ~InWait
                /\ alive => InAttempt

\* The inductive invariant.
IInv == /\ TypeOK
        /\ \A s \in Sockets : Fits(socket[s], QueueBound)
        /\ CancelledWhenReleased
        /\ MovedIsDetached
        /\ NothingBeforeRun
        /\ SingleDriver
        /\ NeverForgotten
        /\ NoCancelOfMovedSocket
-----------------------------------------------------------------------------
\* As long as the server keeps coming back the client is connected again after
\* every loss.
Reconnects == (running /\ alive /\ ~InSession) ~> InSession
=============================================================================
