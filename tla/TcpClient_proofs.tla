--------------------------- MODULE TcpClient_proofs ---------------------------
(***************************************************************************)
(* The client for any number of connectors and transports whose handlers   *)
(* are still to run, any bound on the queue, and all or none of the        *)
(* faults: it never has two drivers, never stops without a printed error,  *)
(* never cancels the socket it has moved away, and goes round the cycle    *)
(* of Reconnector.  At the end: its reconnect timer is the one-shot timer  *)
(* that it is taken for.                                                   *)
(***************************************************************************)
EXTENDS TcpClient, AsyncTimer, Operators_proofs

\* The connectors are what TypeOK and CancelledWhenReleased say, when the client
\* owns `own`; and so are the transports.
ConnectorsOf(f, own) ==
    /\ f \in [Connectors -> Resource]
    /\ \A c \in Connectors : (f[c].owned <=> c = own) /\ (f[c].cancelled <=> c # own)

SocketsOf(f, own) ==
    /\ f \in [Sockets -> TransportState(Msg, 1)]
    /\ \A s \in Sockets : /\ Fits(f[s], QueueBound)
                          /\ f[s].owned <=> s = own
                          /\ f[s].cancelled <=> s # own

\* The variables that are no objects.
Scalars == /\ running \in BOOLEAN /\ alive \in BOOLEAN
           /\ exit \in {"none", "remote_endpoint", "cancel"}
           /\ connector_ \in Connectors \union {None}
           /\ moved \subseteq Connectors
           /\ sock_ \in Sockets \union {None}
           /\ armed \in BOOLEAN /\ traced \in BOOLEAN

LEMMA Parts ==
    ASSUME IInv
    PROVE  /\ ConnectorsOf(connector, connector_) /\ SocketsOf(socket, sock_)
           /\ Scalars
BY DEF IInv, TypeOK, CancelledWhenReleased, ConnectorsOf, SocketsOf, Scalars

LEMMA Whole ==
    ASSUME ConnectorsOf(connector, connector_)', SocketsOf(socket, sock_)', Scalars',
           MovedIsDetached', NothingBeforeRun', SingleDriver', NeverForgotten',
           NoCancelOfMovedSocket'
    PROVE  IInv'
<1>1. TypeOK'
  BY DEF TypeOK, ConnectorsOf, SocketsOf, Scalars, Fits
<1>2. CancelledWhenReleased' /\ \A s \in Sockets : Fits(socket'[s], QueueBound)
  BY DEF CancelledWhenReleased, ConnectorsOf, SocketsOf
<1> QED
  BY <1>1, <1>2 DEF IInv

-----------------------------------------------------------------------------
LEMMA WithoutConnectorFields ==
    ASSUME ConnectorsOf(connector, connector_)
    PROVE  /\ WithoutConnector \in [Connectors -> Resource]
           /\ \A c \in Connectors :
                 /\ ~WithoutConnector[c].owned /\ WithoutConnector[c].cancelled
                 /\ WithoutConnector[c].attached = connector[c].attached
<1>1. ASSUME NEW c \in Connectors
      PROVE  /\ WithoutConnector[c] \in Resource
             /\ ~WithoutConnector[c].owned /\ WithoutConnector[c].cancelled
             /\ WithoutConnector[c].attached = connector[c].attached
  BY DEF ConnectorsOf, WithoutConnector, Release, Cancel, Abort, Resource,
         OpState, Queued
<1> QED
  BY <1>1 DEF WithoutConnector

\* sock_.reset() leaves no transport owned, and giving the memory back keeps it so.
LEMMA WithoutSockFields ==
    ASSUME NEW f, SocketsOf(f, sock_), sock_ \in Sockets \union {None}
    PROVE  /\ SocketsOf(WithoutSock(f), None)
           /\ SocketsOf([s \in Sockets |-> Reclaim(WithoutSock(f)[s])], None)
<1>1. ASSUME NEW s \in Sockets
      PROVE  /\ WithoutSock(f)[s] \in TransportState(Msg, 1)
             /\ Fits(WithoutSock(f)[s], QueueBound)
             /\ ~WithoutSock(f)[s].owned /\ WithoutSock(f)[s].cancelled
  <2>1. f[s] \in TransportState(Msg, 1) /\ Fits(f[s], QueueBound)
    BY DEF SocketsOf
  <2>2. CASE s = sock_
    BY <2>1, <2>2, ReleaseFits, QueueBoundAssumption DEF WithoutSock
  <2>3. CASE s # sock_
    BY <2>1, <2>3 DEF WithoutSock, SocketsOf
  <2> QED
    BY <2>2, <2>3
<1>2. SocketsOf(WithoutSock(f), None)
  <2>1. WithoutSock(f) \in [Sockets -> TransportState(Msg, 1)]
    BY <1>1 DEF WithoutSock
  <2> QED
    BY <1>1, <2>1, NoneAssumption DEF SocketsOf
<1>3. ASSUME NEW s \in Sockets
      PROVE  /\ Reclaim(WithoutSock(f)[s]) \in TransportState(Msg, 1)
             /\ Fits(Reclaim(WithoutSock(f)[s]), QueueBound)
             /\ ~Reclaim(WithoutSock(f)[s]).owned
             /\ Reclaim(WithoutSock(f)[s]).cancelled
  <2> DEFINE x == WithoutSock(f)[s]
  <2>1. /\ x \in TransportState(Msg, 1) /\ Fits(x, QueueBound)
        /\ ~x.owned /\ x.cancelled
    BY <1>1
  <2> HIDE DEF x
  <2>2. x.owned \/ x.cancelled
    BY <2>1
  <2>3. 1 \in Nat \ {0} /\ QueueBound \in Nat
    BY QueueBoundAssumption
  <2>4. Reclaim(x) \in TransportState(Msg, 1) /\ Fits(Reclaim(x), QueueBound)
    BY <2>1, <2>2, <2>3, ReclaimFits
  <2>5. ~Reclaim(x).owned /\ Reclaim(x).cancelled
    BY <2>1, <2>2, <2>3, ReclaimFits
  <2> QED
    BY <2>1, <2>4, <2>5 DEF x
<1>4. SocketsOf([s \in Sockets |-> Reclaim(WithoutSock(f)[s])], None)
  BY <1>3, NoneAssumption DEF SocketsOf
<1> QED
  BY <1>2, <1>4

\* A step of one transport that leaves its owner and its flag alone.
LEMMA OneSocketFields ==
    ASSUME NEW own, SocketsOf(socket, own), NEW s \in Sockets,
           NEW y \in TransportState(Msg, 1), Fits(y, QueueBound),
           y.owned <=> socket[s].owned, y.cancelled <=> socket[s].cancelled
    PROVE  SocketsOf([socket EXCEPT ![s] = y], own)
BY DEF SocketsOf

\* The end of a connector's handler.
LEMMA ConnectEndsFields ==
    ASSUME IInv, NEW c \in Connectors, NEW op \in OpState,
           connector' = [connector EXCEPT ![c].op = op]
    PROVE  /\ ConnectorsOf(connector', connector_)
           /\ \A d \in moved : ~connector'[d].attached
           /\ connector'[c].op = op
           /\ \A d \in Connectors : d # c => connector'[d] = connector[d]
<1>1. ConnectorsOf(connector, connector_) /\ moved \subseteq Connectors
  BY Parts DEF Scalars
<1>2. \A d \in moved : ~connector[d].attached
  BY DEF IInv, MovedIsDetached
<1> QED
  BY <1>1, <1>2 DEF ConnectorsOf, Resource

-----------------------------------------------------------------------------
\* The steps of Next, gathered by what they do to the client.

\* One transport takes a step and the client hears of nothing but an error: it
\* must be an error if nobody reads from the connection any more.
LEMMA TransportStep ==
    ASSUME IInv, NEW s \in Sockets, NEW y \in TransportState(Msg, 1),
           Fits(y, QueueBound),
           y.owned <=> socket[s].owned, y.cancelled <=> socket[s].cancelled,
           y.op = "none" => socket[s].op = "none" \/ s # sock_ \/ traced',
           socket' = [socket EXCEPT ![s] = y],
           traced' \in BOOLEAN, traced => traced',
           UNCHANGED <<running, alive, exit, connector, connector_, moved, sock_, armed>>
    PROVE  IInv'
<1>1. /\ ConnectorsOf(connector, connector_) /\ SocketsOf(socket, sock_)
      /\ Scalars
  BY Parts
<1>2. SocketsOf(socket, sock_)'
  BY <1>1, OneSocketFields
<1>3. ConnectorsOf(connector, connector_)' /\ Scalars'
  BY <1>1 DEF ConnectorsOf, Scalars
<1>4. MovedIsDetached' /\ NothingBeforeRun' /\ SingleDriver' /\ NoCancelOfMovedSocket'
  BY DEF IInv, MovedIsDetached, NothingBeforeRun, SingleDriver, InAttempt, InSession,
         InWait, NoCancelOfMovedSocket
<1>5. NeverForgotten'
  <2>1. Idle' <=> Idle
    BY DEF Idle, InAttempt, InSession, InWait
  <2>2. Deaf' => Deaf \/ traced'
    <3> SUFFICES ASSUME Deaf' PROVE Deaf \/ traced'
      OBVIOUS
    <3>1. sock_ \in Sockets
      BY <1>1 DEF Deaf, InSession, Scalars
    <3> QED
      BY <1>1, <3>1 DEF Deaf, InSession, SocketsOf
  <2> QED
    BY <2>1, <2>2 DEF IInv, NeverForgotten
<1> QED
  BY <1>2, <1>3, <1>4, <1>5, Whole

\* The connect or the session is over, and the client waits.
LEMMA DisconnectedStep ==
    ASSUME IInv, running, NEW f, SocketsOf(f, sock_), OnDisconnected(f),
           ConnectorsOf(connector', connector_),
           \A d \in moved : ~connector'[d].attached,
           connector_ # None => connector'[connector_].op = "none",
           UNCHANGED <<running, alive, exit, connector_, moved>>
    PROVE  IInv'
<1>1. Scalars
  BY Parts
<1>2. /\ socket' = [s \in Sockets |-> Reclaim(WithoutSock(f)[s])]
      /\ sock_' = None /\ armed' /\ traced' = traced
  BY DEF OnDisconnected
<1>3. SocketsOf(socket, sock_)'
  BY <1>1, <1>2, WithoutSockFields DEF Scalars
<1>4. ConnectorsOf(connector, connector_)' /\ Scalars'
  BY <1>1, <1>2 DEF ConnectorsOf, Scalars, OnDisconnected
<1>5. MovedIsDetached' /\ NothingBeforeRun' /\ NoCancelOfMovedSocket'
  BY DEF IInv, MovedIsDetached, NothingBeforeRun, NoCancelOfMovedSocket
<1>6. SingleDriver' /\ NeverForgotten'
  BY <1>2 DEF SingleDriver, NeverForgotten, Idle, Deaf, InAttempt, InSession, InWait
<1> QED
  BY <1>3, <1>4, <1>5, <1>6, Whole

\* A handler of a connector that does not move the client on.
LEMMA ConnectorStep ==
    ASSUME IInv, NEW c \in Connectors, NEW op \in OpState,
           connector' = [connector EXCEPT ![c].op = op],
           c = connector_ /\ op = "none" => traced' \/ exit' # "none",
           op # "none" => connector[c].op # "none",
           ~running => op # "none",
           exit' \in {exit, "remote_endpoint"}, traced' \in BOOLEAN,
           traced => traced', exit' = "none" => exit = "none",
           ~running => exit' = exit,
           UNCHANGED <<running, alive, connector_, moved, socket, sock_, armed>>
    PROVE  IInv'
<1>1. Scalars /\ SocketsOf(socket, sock_)
  BY Parts
<1>2. /\ ConnectorsOf(connector', connector_) /\ \A d \in moved : ~connector'[d].attached
      /\ connector'[c].op = op
      /\ \A d \in Connectors : d # c => connector'[d] = connector[d]
  BY ConnectEndsFields
<1>3. ConnectorsOf(connector, connector_)' /\ SocketsOf(socket, sock_)' /\ Scalars'
  BY <1>1, <1>2 DEF ConnectorsOf, SocketsOf, Scalars
<1>4. MovedIsDetached' /\ NoCancelOfMovedSocket'
  BY <1>2 DEF IInv, MovedIsDetached, NoCancelOfMovedSocket
<1>5. /\ InAttempt' => InAttempt
      /\ InAttempt => InAttempt' \/ (c = connector_ /\ op = "none")
  BY <1>1, <1>2, NoneAssumption DEF InAttempt, Scalars
<1>6. SingleDriver'
  BY <1>5 DEF IInv, SingleDriver, InSession, InWait
<1>7. NothingBeforeRun'
  BY <1>5 DEF IInv, NothingBeforeRun, InSession, InWait
<1>8. NeverForgotten'
  BY <1>5 DEF IInv, NeverForgotten, Idle, Deaf, InSession, InWait
<1> QED
  BY <1>3, <1>4, <1>6, <1>7, <1>8, Whole

LEMMA InitInv == Init => IInv
<1> SUFFICES ASSUME Init PROVE IInv
  OBVIOUS
<1>1. /\ NewResource \in Resource /\ NoResource \in Resource
      /\ NewResource.owned /\ ~NewResource.cancelled /\ NewResource.op # "none"
      /\ ~NoResource.owned /\ NoResource.cancelled
  BY DEF NewResource, NoResource, Resource, OpState
<1>2. /\ NoTransport \in TransportState(Msg, 1) /\ Fits(NoTransport, QueueBound)
      /\ ~NoTransport.owned /\ NoTransport.cancelled
  BY NewTransportTyped, QueueBoundAssumption
<1>3. TypeOK
  BY <1>1, <1>2, NoneAssumption DEF Init, TypeOK, CreateConnector, Fits
<1>4. InAttempt /\ ~InSession /\ ~InWait
  BY <1>1, NoneAssumption DEF Init, InAttempt, InSession, InWait, CreateConnector
<1>5. CancelledWhenReleased /\ \A s \in Sockets : Fits(socket[s], QueueBound)
  BY <1>1, <1>2, NoneAssumption DEF Init, CancelledWhenReleased, CreateConnector
<1> QED
  BY <1>3, <1>4, <1>5
  DEF Init, IInv, MovedIsDetached, NothingBeforeRun, SingleDriver, NeverForgotten,
      Idle, Deaf, NoCancelOfMovedSocket

\* The client that is replaced has its first connect under way, and nothing else.
LEMMA ReplacedInv == IInv /\ Replaced => IInv'
<1> SUFFICES ASSUME IInv, Replaced PROVE IInv'
  OBVIOUS
<1>1. /\ ConnectorsOf(connector, connector_) /\ SocketsOf(socket, sock_) /\ Scalars
  BY Parts
<1>2. ConnectorsOf(connector, connector_)'
  BY <1>1, WithoutConnectorFields, NoneAssumption DEF Replaced, ConnectorsOf
<1>3. SocketsOf(socket, sock_)' /\ Scalars'
  BY <1>1 DEF Replaced, SocketsOf, Scalars
<1>4. MovedIsDetached'
  BY <1>1, WithoutConnectorFields DEF IInv, MovedIsDetached, Replaced, Scalars
<1>5. NothingBeforeRun' /\ SingleDriver' /\ NeverForgotten' /\ NoCancelOfMovedSocket'
  BY DEF IInv, Replaced, NothingBeforeRun, SingleDriver, InAttempt, InSession, InWait,
         NeverForgotten, NoCancelOfMovedSocket
<1> QED
  BY <1>2, <1>3, <1>4, <1>5, Whole

\* start_connect(): the connector that is given up has been detached if its
\* socket was moved out, so its cancel() does not throw.
LEMMA OnTimerConnects ==
    ASSUME IInv, OnTimer
    PROVE  /\ \E c \in Connectors :
                 /\ connector' = [WithoutConnector EXCEPT ![c] = NewResource]
                 /\ connector_' = c
                 /\ moved' = moved \ {c}
           /\ UNCHANGED exit
           /\ InAttempt' /\ ~InWait' /\ ~InSession'
<1>1. ConnectorsOf(connector, connector_) /\ Scalars
  BY Parts
<1>2. ~CancelThrows
  BY <1>1, NoneAssumption DEF IInv, MovedIsDetached, CancelThrows, Scalars
<1>3. PICK c \in Connectors :
          /\ connector' = [WithoutConnector EXCEPT ![c] = NewResource]
          /\ connector_' = c
          /\ moved' = moved \ {c}
          /\ UNCHANGED exit
  BY <1>2 DEF OnTimer, StartConnect, CreateConnector
<1>4. connector'[c].op = "pending"
  BY <1>1, <1>3, WithoutConnectorFields DEF NewResource
<1>5. InAttempt' /\ ~InWait' /\ ~InSession'
  BY <1>3, <1>4, NoneAssumption
  DEF IInv, SingleDriver, OnTimer, InAttempt, InWait, InSession
<1> QED
  BY <1>3, <1>5

LEMMA OnTimerInv == IInv /\ OnTimer => IInv'
<1> SUFFICES ASSUME IInv, OnTimer PROVE IInv'
  OBVIOUS
<1>1. /\ ConnectorsOf(connector, connector_) /\ SocketsOf(socket, sock_) /\ Scalars
  BY Parts
<1>2. PICK c \in Connectors :
          /\ connector' = [WithoutConnector EXCEPT ![c] = NewResource]
          /\ connector_' = c
          /\ moved' = moved \ {c}
  BY OnTimerConnects
<1>3. NewResource \in Resource /\ NewResource.owned /\ ~NewResource.cancelled
  BY DEF NewResource, Resource, OpState
<1>4. ConnectorsOf(connector, connector_)'
  BY <1>1, <1>2, <1>3, WithoutConnectorFields DEF ConnectorsOf
<1>5. exit' = exit /\ InAttempt' /\ ~InWait' /\ ~InSession'
  BY OnTimerConnects
<1>6. SocketsOf(socket, sock_)' /\ Scalars'
  BY <1>1, <1>2, <1>5 DEF OnTimer, SocketsOf, Scalars
<1>7. MovedIsDetached'
  BY <1>1, <1>2, WithoutConnectorFields DEF IInv, MovedIsDetached, Scalars
<1>8. NothingBeforeRun' /\ SingleDriver' /\ NeverForgotten' /\ NoCancelOfMovedSocket'
  BY <1>5 DEF IInv, OnTimer, Handling, NothingBeforeRun, SingleDriver,
              NeverForgotten, Idle, Deaf, NoCancelOfMovedSocket
<1> QED
  BY <1>4, <1>6, <1>7, <1>8, Whole

\* A connector whose flag is not raised is the client's.
LEMMA PresentConnector ==
    ASSUME IInv, NEW c \in Connectors, ~Cancelled(connector[c])
    PROVE  c = connector_
BY DEF IInv, CancelledWhenReleased, Cancelled

LEMMA OnConnectOkInv ==
    ASSUME IInv, NEW c \in Connectors, OnConnectOk(c) PROVE IInv'
<1>1. /\ ConnectorsOf(connector, connector_) /\ SocketsOf(socket, sock_) /\ Scalars
  BY Parts
<1>2. c = connector_ /\ InAttempt
  BY PresentConnector, NoneAssumption DEF OnConnectOk, Connecting, Queued, InAttempt
<1>3. ~InSession /\ ~InWait /\ running /\ exit = "none"
  BY <1>2 DEF IInv, SingleDriver, OnConnectOk, Connecting, Handling
<1>4. PICK s \in Sockets :
          /\ socket' = [WithoutSock(socket) EXCEPT ![s] = NewTransport]
          /\ sock_' = s
  BY DEF OnConnectOk
<1>5. SocketsOf(socket, sock_)'
  <2>1. SocketsOf(WithoutSock(socket), None)
    BY <1>1, WithoutSockFields DEF Scalars
  <2>2. /\ NewTransport \in TransportState(Msg, 1) /\ Fits(NewTransport, QueueBound)
        /\ NewTransport.owned /\ ~NewTransport.cancelled
    BY NewTransportTyped, QueueBoundAssumption
  <2> QED
    BY <1>4, <2>1, <2>2, NoneAssumption DEF SocketsOf
<1>6. /\ connector' = [connector EXCEPT ![c] = HandedOver(@)]
      /\ moved' = moved \union {c} /\ UNCHANGED <<running, alive, exit, connector_, armed, traced>>
  BY DEF OnConnectOk
<1>7. /\ HandedOver(connector[c]) \in Resource
      /\ HandedOver(connector[c]).owned <=> connector[c].owned
      /\ HandedOver(connector[c]).cancelled <=> connector[c].cancelled
      /\ ~HandedOver(connector[c]).attached
      /\ HandedOver(connector[c]).op = "none"
  BY <1>1 DEF ConnectorsOf, HandedOver, Detach, Resource, OpState
<1>8. ConnectorsOf(connector, connector_)' /\ Scalars'
  BY <1>1, <1>4, <1>6, <1>7 DEF ConnectorsOf, Scalars
<1>9. MovedIsDetached'
  BY <1>1, <1>6, <1>7 DEF IInv, MovedIsDetached, ConnectorsOf, Scalars
<1>10. InSession' /\ ~InAttempt' /\ ~InWait' /\ ~Deaf'
  <2>1. socket'[sock_'].op = "pending"
    BY <1>1, <1>4, WithoutSockFields DEF NewTransport, WithoutSock
  <2>2. connector'[connector_'].op = "none"
    BY <1>1, <1>2, <1>6, <1>7 DEF ConnectorsOf
  <2> QED
    BY <1>3, <1>4, <1>6, <2>1, <2>2, NoneAssumption
    DEF InSession, InAttempt, InWait, Deaf
<1>11. NothingBeforeRun' /\ SingleDriver' /\ NeverForgotten' /\ NoCancelOfMovedSocket'
  BY <1>3, <1>6, <1>10
  DEF IInv, NothingBeforeRun, SingleDriver, NeverForgotten, Idle, NoCancelOfMovedSocket
<1> QED
  BY <1>5, <1>8, <1>9, <1>11, Whole

LEMMA HandleConnectInv ==
    ASSUME IInv, NEW c \in Connectors, HandleConnect(c) PROVE IInv'
<1>1. ConnectorsOf(connector, connector_) /\ SocketsOf(socket, sock_) /\ Scalars
  BY Parts
<1>2. "none" \in OpState
  BY DEF OpState
<1>3. running /\ exit = "none" /\ connector[c].op # "none"
  BY DEF HandleConnect, OnConnectIgnored, OnConnectRefused, OnConnectError,
         OnConnectThrows, OnConnectOk, Connecting, Handling, Queued
<1>4. CASE OnConnectIgnored(c)
  <2>1. c # connector_
    BY <1>4 DEF OnConnectIgnored, Cancelled, IInv, CancelledWhenReleased
  <2>2. traced \in BOOLEAN
    BY <1>1 DEF Scalars
  <2> QED
    BY <1>2, <1>3, <1>4, <2>1, <2>2, ConnectorStep DEF OnConnectIgnored, ConnectEnds
<1>5. CASE OnConnectRefused(c)
  <2>1. c = connector_
    BY <1>5, PresentConnector DEF OnConnectRefused
  <2>2. connector' = [connector EXCEPT ![c].op = "none"]
    BY <1>5 DEF OnConnectRefused, ConnectEnds
  <2>3. /\ ConnectorsOf(connector', connector_)
        /\ \A d \in moved : ~connector'[d].attached
        /\ connector'[c].op = "none"
    BY <1>2, <2>2, ConnectEndsFields
  <2> QED
    BY <1>1, <1>3, <1>5, <2>1, <2>3, DisconnectedStep DEF OnConnectRefused
<1>6. CASE OnConnectError(c)
  BY <1>2, <1>3, <1>6, ConnectorStep DEF OnConnectError, ConnectEnds, OnError
<1>7. CASE OnConnectThrows(c)
  <2>1. traced \in BOOLEAN
    BY <1>1 DEF Scalars
  <2> QED
    BY <1>2, <1>3, <1>7, <2>1, ConnectorStep DEF OnConnectThrows, ConnectEnds
<1>8. CASE OnConnectOk(c)
  BY <1>8, OnConnectOkInv
<1> QED
  BY <1>4, <1>5, <1>6, <1>7, <1>8 DEF HandleConnect

\* A transport whose flag is not raised is the client's: it may be told of the
\* loss, and nobody else is.
LEMMA ReportsInv ==
    ASSUME IInv, running, NEW s \in Sockets, ~Cancelled(socket[s]),
           NEW y \in TransportState(Msg, 1), Fits(y, QueueBound),
           y.owned <=> socket[s].owned, y.cancelled <=> socket[s].cancelled,
           NEW code, Reports(s, y, code),
           UNCHANGED <<running, alive, exit, connector, connector_, moved>>
    PROVE  IInv'
<1>1. /\ ConnectorsOf(connector, connector_) /\ SocketsOf(socket, sock_) /\ Scalars
  BY Parts
<1>2. s = sock_ /\ InSession
  BY <1>1, NoneAssumption DEF SocketsOf, Cancelled, InSession
<1>3. CASE code = "drop"
  <2>1. SocketsOf([socket EXCEPT ![s] = y], sock_)
    BY <1>1, OneSocketFields
  <2>2. OnDisconnected([socket EXCEPT ![s] = y])
    BY <1>3 DEF Reports
  <2>3. connector_ # None => connector'[connector_].op = "none"
    BY <1>2 DEF IInv, SingleDriver, InAttempt
  <2>4. \A d \in moved : ~connector'[d].attached
    BY DEF IInv, MovedIsDetached
  <2> QED
    BY <1>1, <2>1, <2>2, <2>3, <2>4, DisconnectedStep
<1>4. CASE code # "drop"
  <2>1. OnError([socket EXCEPT ![s] = y])
    BY <1>4 DEF Reports
  <2> QED
    BY <2>1, TransportStep DEF OnError
<1> QED
  BY <1>3, <1>4

LEMMA QuietlyInv ==
    ASSUME IInv, NEW s \in Sockets,
           NEW y \in TransportState(Msg, 1), Fits(y, QueueBound),
           y.owned <=> socket[s].owned, y.cancelled <=> socket[s].cancelled,
           y.op = "none" => socket[s].op = "none" \/ s # sock_,
           Quietly(s, y),
           UNCHANGED <<running, alive, exit, connector, connector_, moved>>
    PROVE  IInv'
<1>1. SocketsOf(socket, sock_) /\ Scalars
  BY Parts
<1>2. y.owned \/ y.cancelled
  BY <1>1 DEF SocketsOf
<1> DEFINE z == Reclaim(y)
<1>3. 1 \in Nat \ {0} /\ QueueBound \in Nat
  BY QueueBoundAssumption
<1>4. /\ z \in TransportState(Msg, 1) /\ Fits(z, QueueBound)
      /\ z.owned <=> y.owned
      /\ z.cancelled <=> y.cancelled
      /\ z.op = y.op
  BY <1>2, <1>3, ReclaimFits
<1>5. socket' = [socket EXCEPT ![s] = z] /\ UNCHANGED <<sock_, armed, traced>>
  BY DEF Quietly
<1> HIDE DEF z
<1>6. /\ z.owned <=> socket[s].owned
      /\ z.cancelled <=> socket[s].cancelled
      /\ z.op = "none" => socket[s].op = "none" \/ s # sock_ \/ traced'
  BY <1>4
<1>7. traced' \in BOOLEAN /\ (traced => traced')
  BY <1>1, <1>5 DEF Scalars
<1> QED
  BY <1>4, <1>5, <1>6, <1>7, TransportStep

LEMMA HandleSocketInv ==
    ASSUME IInv, NEW s \in Sockets, HandleSocket(s) PROVE IInv'
<1> DEFINE t == socket[s]
<1>1. /\ t \in TransportState(Msg, 1) /\ Fits(t, QueueBound)
      /\ Cancelled(t) => s # sock_
  BY Parts DEF SocketsOf, Cancelled
<1>2. /\ running
      /\ UNCHANGED <<running, alive, exit, connector, connector_, moved>>
  BY DEF HandleSocket, Handling
<1>3. 1 \in Nat \ {0} /\ QueueBound \in Nat
  BY QueueBoundAssumption
<1>4. ASSUME ReceiveQueued(t), OnReceive(s) PROVE IInv'
  <2> DEFINE e == OnReceiveEnds(t)
             k == OnReceiveOk(t)
  <2>1. /\ e \in TransportState(Msg, 1) /\ Fits(e, QueueBound)
        /\ e.owned <=> t.owned
        /\ e.cancelled <=> t.cancelled
        /\ k \in TransportState(Msg, 1) /\ Fits(k, QueueBound)
        /\ k.owned <=> t.owned
        /\ k.cancelled <=> t.cancelled
        /\ k.op = "pending"
    BY <1>1, <1>3, EndsFit
  <2>2. \/ Cancelled(t) /\ Quietly(s, e)
        \/ Quietly(s, k)
        \/ ~Cancelled(t) /\ Reports(s, e, t.op)
    BY <1>4 DEF OnReceive
  <2> HIDE DEF e, k
  <2> QED
    BY <1>1, <1>2, <2>1, <2>2, QuietlyInv, ReportsInv
<1>5. ASSUME NEW w \in QueuedSends(t), OnSend(s, w) PROVE IInv'
  <2> DEFINE e == OnSendEnds(t, w)
             k == OnSendOk(t, w)
  <2>1. /\ e \in TransportState(Msg, 1) /\ Fits(e, QueueBound)
        /\ e.owned <=> t.owned
        /\ e.cancelled <=> t.cancelled
        /\ e.op = t.op
    BY <1>1, <1>3, EndsFit
  <2>2. /\ k \in TransportState(Msg, 1) /\ Fits(k, QueueBound)
        /\ k.owned <=> t.owned
        /\ k.cancelled <=> t.cancelled
        /\ k.op = t.op
    BY <1>1, <1>3, OnSendOkFits
  <2>3. \/ Quietly(s, e)
        \/ Quietly(s, k)
        \/ ~Cancelled(t) /\ Reports(s, e, w.code)
    BY <1>5 DEF OnSend
  <2> HIDE DEF e, k
  <2> QED
    BY <1>1, <1>2, <2>1, <2>2, <2>3, QuietlyInv, ReportsInv
<1> QED
  BY <1>4, <1>5 DEF HandleSocket

\* What the kernel does, and send(), change one transport.
LEMMA SocketCompletesInv ==
    ASSUME IInv, NEW s \in Sockets, SocketCompletes(s) PROVE IInv'
<1>1. PICK y \in Completions(socket[s], SocketCodes) : socket' = [socket EXCEPT ![s] = y]
  BY DEF SocketCompletes
<1>2. /\ socket[s] \in TransportState(Msg, 1) /\ Fits(socket[s], QueueBound)
      /\ SocketCodes \in SUBSET {"ok", "drop", "other"}
      /\ 1 \in Nat \ {0} /\ QueueBound \in Nat
      /\ traced \in BOOLEAN
  BY Parts, QueueBoundAssumption DEF SocketsOf, SocketCodes, Scalars
<1>3. /\ y \in TransportState(Msg, 1) /\ Fits(y, QueueBound)
      /\ y.owned <=> socket[s].owned
      /\ y.cancelled <=> socket[s].cancelled
      /\ y.op = "none" <=> socket[s].op = "none"
  BY <1>1, <1>2, CompletionsFit
<1> QED
  BY <1>1, <1>2, <1>3, TransportStep DEF SocketCompletes

LEMMA ClientSendInv == IInv /\ ClientSend => IInv'
<1> SUFFICES ASSUME IInv, ClientSend PROVE IInv'
  OBVIOUS
<1> DEFINE x == socket[sock_]
           y == Send(x, 1)
<1>1. /\ sock_ \in Sockets /\ 1 \in Msg /\ 1 \in Nat \ {0} /\ QueueBound \in Nat
      /\ traced \in BOOLEAN
  BY Parts, QueueBoundAssumption DEF ClientSend, Scalars, Msg
<1>2. /\ x \in TransportState(Msg, 1) /\ Fits(x, QueueBound)
      /\ x.ready \/ Len(x.msgs) < QueueBound
  BY <1>1, Parts DEF SocketsOf, ClientSend
<1>3. /\ y \in TransportState(Msg, 1) /\ Fits(y, QueueBound)
      /\ y.owned <=> x.owned
      /\ y.cancelled <=> x.cancelled
      /\ y.op = x.op
  BY <1>1, <1>2, SendFits
<1>4. socket' = [socket EXCEPT ![sock_] = y]
  BY DEF ClientSend
<1> HIDE DEF y
<1> QED
  BY <1>1, <1>3, <1>4, TransportStep DEF ClientSend

LEMMA NextInv == IInv /\ [Next]_vars => IInv'
<1> SUFFICES ASSUME IInv, [Next]_vars PROVE IInv'
  OBVIOUS
<1>1. CASE Run
  BY <1>1 DEF Run, IInv, TypeOK, CancelledWhenReleased, MovedIsDetached,
              NothingBeforeRun, SingleDriver, NeverForgotten, Idle, Deaf,
              InAttempt, InSession, InWait, NoCancelOfMovedSocket
<1>2. ASSUME NEW c \in Connectors, NEW code \in ConnectCodes, ConnectCompletes(c, code)
      PROVE  IInv'
  <2>1. code \in OpState /\ code # "none" /\ traced \in BOOLEAN
    BY Parts DEF ConnectCodes, OpState, Queued, Scalars
  <2> QED
    BY <1>2, <2>1, ConnectorStep DEF ConnectCompletes
<1>3. CASE UNCHANGED vars
  BY <1>3 DEF vars, IInv, TypeOK, CancelledWhenReleased, MovedIsDetached,
              NothingBeforeRun, SingleDriver, NeverForgotten, Idle, Deaf,
              InAttempt, InSession, InWait, NoCancelOfMovedSocket
<1> QED
  BY <1>1, <1>2, <1>3, ReplacedInv, ClientSendInv, OnTimerInv, HandleConnectInv,
     SocketCompletesInv, HandleSocketInv
  DEF Next

-----------------------------------------------------------------------------
\* The inductive invariant holds in every state the client reaches.
THEOREM Invariance == Spec => []IInv
BY InitInv, NextInv, PTL DEF Spec

\* The client owns what its members point to, and its queues keep their bound.
THEOREM TypeCorrect == Spec => []TypeOK
BY Invariance, PTL DEF IInv

\* At most one of connect, session and wait is under way.
THEOREM OneDriver == Spec => []SingleDriver
BY Invariance, PTL DEF IInv

\* A client that does nothing any more, or does not hear of its connection, has
\* printed an error.
THEOREM Remembered == Spec => []NeverForgotten
BY Invariance, PTL DEF IInv

\* The next reconnection never cancels the socket that was moved away, which
\* would throw out of run().
THEOREM ReconnectDoesNotThrow == Spec => []NoCancelOfMovedSocket
BY Invariance, PTL DEF IInv

-----------------------------------------------------------------------------
\* A client that is gone stays gone.
LEMMA GoneForEver ==
    [Next]_vars => /\ ~alive => ~alive'
                   /\ exit # "none" => exit' # "none"
<1> SUFFICES ASSUME [Next]_vars
             PROVE  /\ ~alive => ~alive'
                    /\ exit # "none" => exit' # "none"
  OBVIOUS
<1>1. ASSUME NEW c \in Connectors,
             HandleConnect(c) \/ \E code \in ConnectCodes : ConnectCompletes(c, code)
      PROVE  alive' = alive /\ exit = "none"
  BY <1>1 DEF HandleConnect, OnConnectIgnored, OnConnectRefused, OnConnectError,
              OnConnectThrows, OnConnectOk, Connecting, Handling, ConnectCompletes
<1>2. ASSUME NEW s \in Sockets, SocketCompletes(s) \/ HandleSocket(s)
      PROVE  alive' = alive /\ exit' = exit
  BY <1>2 DEF SocketCompletes, HandleSocket
<1>3. CASE OnTimer
  BY <1>3 DEF OnTimer, Handling
<1> QED
  BY <1>1, <1>2, <1>3 DEF Next, Run, Replaced, ClientSend, vars

\* on_disconnected() leads from a connect or a session to the wait.
LEMMA DisconnectedIsCycle ==
    ASSUME IInv, NEW f, OnDisconnected(f), InAttempt \/ InSession,
           UNCHANGED <<alive, exit>>, alive, exit = "none"
    PROVE  Cycle!Next
<1>1. InWait' /\ ~InSession'
  BY DEF OnDisconnected, InWait, InSession
<1>2. Phase' = "waiting" /\ Phase \in {"connecting", "connected"}
  BY <1>1 DEF IInv, SingleDriver, Phase
<1> QED
  BY <1>2 DEF Cycle!Next, Cycle!Lost, Cycle!Refused

LEMMA ConnectIsCycle ==
    ASSUME IInv, NEW c \in Connectors, HandleConnect(c), alive, exit = "none"
    PROVE  Cycle!Next \/ UNCHANGED Phase
<1>1. connector[c].op # "none" /\ alive' = alive
  BY DEF HandleConnect, OnConnectIgnored, OnConnectRefused, OnConnectError,
         OnConnectThrows, OnConnectOk, Connecting, Queued
<1>2. CASE OnConnectIgnored(c)
  <2>1. c # connector_
    BY <1>2 DEF OnConnectIgnored, Cancelled, IInv, CancelledWhenReleased
  <2>2. connector' = [connector EXCEPT ![c].op = "none"]
    BY <1>2 DEF OnConnectIgnored, ConnectEnds
  <2>3. InAttempt' <=> InAttempt
    BY <1>2, <2>1, <2>2, Parts DEF OnConnectIgnored, InAttempt, ConnectorsOf, Scalars
  <2> QED
    BY <1>2, <2>3 DEF OnConnectIgnored, Phase, InSession, InWait
<1>3. ASSUME ~Cancelled(connector[c])
      PROVE  /\ c = connector_ /\ InAttempt /\ ~InSession /\ ~InWait
             /\ Phase = "connecting"
  <2>1. c = connector_ /\ InAttempt
    BY <1>1, <1>3, PresentConnector, NoneAssumption DEF InAttempt
  <2> QED
    BY <2>1 DEF IInv, SingleDriver, Phase
<1>4. CASE OnConnectRefused(c)
  BY <1>3, <1>4, DisconnectedIsCycle DEF OnConnectRefused
<1>5. CASE OnConnectError(c)
  <2>1. connector' = [connector EXCEPT ![c].op = "none"]
    BY <1>5 DEF OnConnectError, ConnectEnds
  <2>2. ~InAttempt' /\ ~InSession' /\ ~InWait'
    BY <1>3, <1>5, <2>1, Parts
    DEF OnConnectError, OnError, InAttempt, InSession, InWait, ConnectorsOf
  <2> QED
    BY <1>3, <1>5, <2>2 DEF OnConnectError, Phase, Cycle!Next, Cycle!Failed
<1>6. CASE OnConnectThrows(c)
  BY <1>3, <1>6 DEF OnConnectThrows, Phase, Cycle!Next, Cycle!Ends
<1>7. CASE OnConnectOk(c)
  <2>1. InSession'
    BY <1>7, NoneAssumption DEF OnConnectOk, InSession
  <2> QED
    BY <1>3, <1>7, <2>1 DEF OnConnectOk, Phase, Cycle!Next, Cycle!Connected
<1> QED
  BY <1>2, <1>4, <1>5, <1>6, <1>7 DEF HandleConnect

LEMMA SocketIsCycle ==
    ASSUME IInv, NEW s \in Sockets, HandleSocket(s), alive, exit = "none"
    PROVE  Cycle!Next \/ UNCHANGED Phase
<1>1. UNCHANGED <<alive, exit, connector, connector_>>
  BY DEF HandleSocket
<1>2. \/ UNCHANGED <<sock_, armed>>
      \/ \E f : OnDisconnected(f) /\ ~Cancelled(socket[s])
  BY DEF HandleSocket, OnReceive, OnSend, Quietly, Reports, OnError
<1>3. CASE UNCHANGED <<sock_, armed>>
  BY <1>1, <1>3 DEF Phase, InAttempt, InSession, InWait
<1>4. ASSUME NEW f, OnDisconnected(f), ~Cancelled(socket[s]) PROVE Cycle!Next
  <2>1. InSession
    BY <1>4, NoneAssumption DEF IInv, CancelledWhenReleased, Cancelled, InSession
  <2> QED
    BY <1>1, <1>4, <2>1, DisconnectedIsCycle
<1> QED
  BY <1>2, <1>3, <1>4

\* The client goes round the reconnection cycle and leaves no phase of it but by
\* the ways that Reconnector has: only an error that is no refusal leaves it
\* stuck, and only its end takes it out.
THEOREM FollowsCycle == Spec => Cycle!Safety
<1>1. Init => Cycle!Init
  <2> SUFFICES ASSUME Init PROVE Phase = "connecting"
    BY DEF Cycle!Init
  <2>1. connector_ \in Connectors /\ connector[connector_].op = "pending"
    BY DEF Init, CreateConnector, NewResource
  <2> QED
    BY <2>1, NoneAssumption DEF Init, Phase, InSession, InWait, InAttempt
<1>2. IInv /\ [Next]_vars => [Cycle!Next]_Phase
  <2> SUFFICES ASSUME IInv, [Next]_vars PROVE Cycle!Next \/ UNCHANGED Phase
    OBVIOUS
  <2>1. CASE exit # "none" \/ ~alive
    BY <2>1, GoneForEver DEF Phase
  <2>2. CASE exit = "none" /\ alive
    <3>1. CASE Replaced
      BY <2>2, <3>1 DEF Replaced, IInv, NothingBeforeRun, Phase, Cycle!Next, Cycle!Ends
    <3>2. CASE OnTimer
      <4>1. Phase = "waiting"
        BY <2>2, <3>2 DEF OnTimer, IInv, SingleDriver, InWait, Phase
      <4>2. Phase' = "connecting"
        BY <2>2, <3>2, OnTimerConnects DEF OnTimer, Phase
      <4> QED
        BY <4>1, <4>2 DEF Cycle!Next, Cycle!Retry
    <3>3. ASSUME NEW c \in Connectors, NEW code \in ConnectCodes,
                 ConnectCompletes(c, code)
          PROVE  UNCHANGED Phase
      <4>1. connector' = [connector EXCEPT ![c].op = code] /\ connector[c].op = "pending"
            /\ code # "none"
        BY <3>3 DEF ConnectCompletes, ConnectCodes
      <4>2. InAttempt' <=> InAttempt
        BY <3>3, <4>1, Parts DEF ConnectCompletes, InAttempt, ConnectorsOf, Scalars
      <4> QED
        BY <3>3, <4>2 DEF ConnectCompletes, Phase, InSession, InWait
    <3>4. ASSUME Run \/ ClientSend \/ UNCHANGED vars
                 \/ \E s \in Sockets : SocketCompletes(s)
          PROVE  UNCHANGED Phase
      BY <3>4 DEF Run, ClientSend, SocketCompletes, vars, Phase, InAttempt,
                  InSession, InWait
    <3> QED
      BY <2>2, <3>1, <3>2, <3>3, <3>4, ConnectIsCycle, SocketIsCycle DEF Next
  <2> QED
    BY <2>1, <2>2
<1> QED
  BY <1>1, <1>2, Invariance, PTL DEF Spec, Cycle!Safety

-----------------------------------------------------------------------------
(***************************************************************************)
(* The reconnect timer.  The client takes it as the one-shot timer that    *)
(* async_timer is shown to be here, for any number of impls whose handlers *)
(* are still to run.  TimerTypeOK is inductive: it says which impl the     *)
(* timer owns and that every other one carries the flag.                   *)
(***************************************************************************)
\* What is left of the impls when the timer gives the one it owns up.
LEMMA ReleaseImplFields ==
    ASSUME TimerTypeOK
    PROVE  /\ ReleaseImpl \in [Impls -> Resource]
           /\ \A i \in Impls :
                 /\ ~ReleaseImpl[i].owned /\ ReleaseImpl[i].cancelled
                 /\ ReleaseImpl[i].op = "none" <=> impl[i].op = "none"
                 /\ i # pimpl_ => ReleaseImpl[i] = impl[i]
<1>1. ASSUME NEW i \in Impls
      PROVE  /\ ReleaseImpl[i] \in Resource
             /\ ~ReleaseImpl[i].owned /\ ReleaseImpl[i].cancelled
             /\ ReleaseImpl[i].op = "none" <=> impl[i].op = "none"
  BY DEF TimerTypeOK, ReleaseImpl, Release, Cancel, Abort, Resource, OpState, Queued
<1> QED
  BY <1>1 DEF ReleaseImpl

\* A step of one impl that leaves its owner and its flag alone.
LEMMA TimerOpStep ==
    ASSUME TimerTypeOK, NEW i \in Impls, NEW op \in OpState,
           impl' = [impl EXCEPT ![i].op = op], pimpl_' = pimpl_, parity' \in 0..1
    PROVE  TimerTypeOK'
BY DEF TimerTypeOK, Resource

\* TimerTypeOK is inductive.
LEMMA TimerTypeStep == TimerTypeOK /\ [TimerNext]_timerVars => TimerTypeOK'
<1> SUFFICES ASSUME TimerTypeOK, [TimerNext]_timerVars PROVE TimerTypeOK'
  OBVIOUS
<1>1. CASE CancelTimer
  BY <1>1, ReleaseImplFields, ImplsAssumption DEF CancelTimer, TimerTypeOK
<1>2. ASSUME NEW i \in Impls, Wait(i) PROVE TimerTypeOK'
  <2>1. NewResource \in Resource /\ NewResource.owned /\ ~NewResource.cancelled
    BY DEF NewResource, Resource, OpState
  <2>2. /\ impl' = [ReleaseImpl EXCEPT ![i] = NewResource]
        /\ pimpl_' = i /\ parity' = parity
    BY <1>2 DEF Wait, CreateImpl
  <2> QED
    BY <2>1, <2>2, ReleaseImplFields DEF TimerTypeOK
<1>3. ASSUME NEW i \in Impls, Expire(i) \/ OnTimerIgnored(i) \/ OnTimerFires(i)
      PROVE  TimerTypeOK'
  <2>1. "ok" \in OpState /\ "none" \in OpState
    BY DEF OpState, Queued
  <2>2. parity' \in 0..1
    BY <1>3 DEF Expire, OnTimerIgnored, OnTimerFires, TimerTypeOK
  <2> QED
    BY <1>3, <2>1, <2>2, TimerOpStep DEF Expire, OnTimerIgnored, OnTimerFires
<1>4. CASE UNCHANGED timerVars
  BY <1>4 DEF timerVars, TimerTypeOK
<1> QED
  BY <1>1, <1>2, <1>3, <1>4 DEF TimerNext

\* The timer owns the impl that pimpl_ points to, and every other impl, whose
\* handler may be queued, carries the flag.
THEOREM TimerTypeCorrect == TimerSpec => []TimerTypeOK
<1>1. TimerInit => TimerTypeOK
  BY ImplsAssumption DEF TimerInit, TimerTypeOK, NoResource, Resource, OpState
<1> QED
  BY <1>1, TimerTypeStep, PTL DEF TimerSpec

\* async_timer is a one-shot timer: a wait that was replaced or cancelled never
\* runs the callback, though its handler may be queued with a good code, and one
\* that was not runs it at most once.
THEOREM TimerRefinement == TimerSpec => RefinesOneShot
<1>1. TimerInit => Timer!Init
  BY DEF TimerInit, Timer!Init, Armed
<1>2. TimerTypeOK /\ [TimerNext]_timerVars => [Timer!Next]_<<Armed, parity>>
  <2> SUFFICES ASSUME TimerTypeOK, [TimerNext]_timerVars
               PROVE  Timer!Next \/ UNCHANGED <<Armed, parity>>
    OBVIOUS
  <2>1. CASE CancelTimer
    BY <2>1 DEF CancelTimer, Armed, Timer!Next, Timer!Cancel
  <2>2. ASSUME NEW i \in Impls, Wait(i) PROVE Timer!Wait
    <3>1. Armed'
      BY <2>2, ReleaseImplFields, ImplsAssumption
      DEF Wait, CreateImpl, NewResource, Armed
    <3> QED
      BY <2>2, <3>1 DEF Wait, Timer!Wait
  \* The handler of an impl that is not owned any more changes nothing.
  <2>3. ASSUME NEW i \in Impls, Expire(i) \/ OnTimerIgnored(i)
        PROVE  Timer!Cancel \/ UNCHANGED <<Armed, parity>>
    <3>1. CASE Expire(i)
      BY <3>1 DEF Expire, Armed, TimerTypeOK
    <3>2. CASE OnTimerIgnored(i)
      BY <3>2 DEF OnTimerIgnored, Armed, TimerTypeOK, Queued, Timer!Cancel
    <3> QED
      BY <2>3, <3>1, <3>2
  <2>4. ASSUME NEW i \in Impls, OnTimerFires(i) PROVE Timer!Fire
    <3>1. i = pimpl_
      BY <2>4 DEF OnTimerFires, Superseded, Cancelled, TimerTypeOK
    <3> QED
      BY <2>4, <3>1, ImplsAssumption
      DEF OnTimerFires, Armed, TimerTypeOK, Queued, Timer!Fire
  <2>5. CASE UNCHANGED timerVars
    BY <2>5 DEF timerVars, Armed
  <2> QED
    BY <2>1, <2>2, <2>3, <2>4, <2>5 DEF TimerNext, Timer!Next
<1> QED
  BY <1>1, <1>2, TimerTypeCorrect, PTL DEF TimerSpec, RefinesOneShot, Timer!Spec
=============================================================================
