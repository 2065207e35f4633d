--------------------------- MODULE TcpServer_proofs ---------------------------
(***************************************************************************)
(* The server for any number of client addresses and of transports, any    *)
(* bound on the queues, with and without unexpected errors.                *)
(***************************************************************************)
EXTENDS TcpServer, Operators_proofs

\* What IInv says of the transports, and of the map with its keys.
Sound(f) ==
    /\ f \in [Sockets -> TransportState(Msg, 1)]
    /\ \A s \in Sockets : Fits(f[s], QueueBound) /\ (f[s].cancelled <=> ~f[s].owned)

Registry(f, k, m) ==
    /\ k \in [Sockets -> Addrs \union {None}]
    /\ m \in [Addrs -> Sockets \union {None}]
    /\ \A s \in Sockets : f[s].owned => k[s] \in Addrs /\ m[k[s]] = s
    /\ \A a \in Addrs : m[a] # None => f[m[a]].owned /\ k[m[a]] = a

\* The rest of it.
Rest == /\ running \in BOOLEAN /\ alive \in BOOLEAN /\ traced \in BOOLEAN
        /\ acceptor \in Resource
        /\ acceptor.owned <=> alive
        /\ acceptor.cancelled <=> ~alive
        /\ NeverDeaf

LEMMA Parts ==
    ASSUME IInv PROVE Sound(socket) /\ Registry(socket, key, clients_) /\ Rest
<1>1. Sound(socket) /\ Rest
  BY DEF IInv, TypeOK, CancelledWhenReleased, Sound, Rest
<1>2. Registry(socket, key, clients_)
  BY DEF IInv, TypeOK, EntryIsOwned, OwnedIsRegistered, Registry
<1> QED
  BY <1>1, <1>2

LEMMA Whole ==
    ASSUME Sound(socket'), Registry(socket', key', clients_'), Rest' PROVE IInv'
<1>1. TypeOK' /\ NeverDeaf'
  BY DEF TypeOK, Sound, Registry, Rest, Fits
<1>2. CancelledWhenReleased' /\ \A s \in Sockets : Fits(socket'[s], QueueBound)
  BY DEF CancelledWhenReleased, Sound
<1>3. EntryIsOwned' /\ OwnedIsRegistered'
  BY NoneAssumption DEF EntryIsOwned, OwnedIsRegistered, Registry
<1> QED
  BY <1>1, <1>2, <1>3 DEF IInv

-----------------------------------------------------------------------------
\* A step of one transport that leaves its owner and its flag alone.
LEMMA OneSocket ==
    ASSUME NEW f, Sound(f), NEW s \in Sockets,
           NEW y \in TransportState(Msg, 1), Fits(y, QueueBound),
           y.owned <=> f[s].owned, y.cancelled <=> f[s].cancelled
    PROVE  /\ Sound([f EXCEPT ![s] = y])
           /\ \A r \in Sockets : [f EXCEPT ![s] = y][r].owned <=> f[r].owned
BY DEF Sound

\* Dropping an entry of the map gives up the transport it holds, and no other.
LEMMA WithoutClientFields ==
    ASSUME NEW f, Sound(f), NEW a \in Addrs
    PROVE  /\ Sound(WithoutClient(f, a))
           /\ \A s \in Sockets :
                 WithoutClient(f, a)[s].owned <=> f[s].owned /\ s # clients_[a]
<1>1. ASSUME NEW s \in Sockets
      PROVE  /\ WithoutClient(f, a)[s] \in TransportState(Msg, 1)
             /\ Fits(WithoutClient(f, a)[s], QueueBound)
             /\ WithoutClient(f, a)[s].cancelled <=> ~WithoutClient(f, a)[s].owned
             /\ WithoutClient(f, a)[s].owned <=> f[s].owned /\ s # clients_[a]
  <2>1. f[s] \in TransportState(Msg, 1) /\ Fits(f[s], QueueBound)
    BY DEF Sound
  <2>2. CASE s = clients_[a]
    BY <2>1, <2>2, ReleaseFits, QueueBoundAssumption DEF WithoutClient
  <2>3. CASE s # clients_[a]
    BY <2>1, <2>3 DEF WithoutClient, Sound
  <2> QED
    BY <2>2, <2>3
<1> QED
  BY <1>1 DEF Sound, WithoutClient

LEMMA ReclaimAll ==
    ASSUME NEW f, Sound(f)
    PROVE  /\ Sound([s \in Sockets |-> Reclaim(f[s])])
           /\ \A s \in Sockets : Reclaim(f[s]).owned <=> f[s].owned
<1>1. ASSUME NEW s \in Sockets
      PROVE  /\ Reclaim(f[s]) \in TransportState(Msg, 1)
             /\ Fits(Reclaim(f[s]), QueueBound)
             /\ Reclaim(f[s]).cancelled <=> ~Reclaim(f[s]).owned
             /\ Reclaim(f[s]).owned <=> f[s].owned
  <2> DEFINE x == f[s]
  <2>1. /\ x \in TransportState(Msg, 1) /\ Fits(x, QueueBound)
        /\ x.cancelled <=> ~x.owned
    BY DEF Sound
  <2> HIDE DEF x
  <2>2. x.owned \/ x.cancelled
    BY <2>1
  <2>3. 1 \in Nat \ {0} /\ QueueBound \in Nat
    BY QueueBoundAssumption
  <2>4. /\ Reclaim(x) \in TransportState(Msg, 1) /\ Fits(Reclaim(x), QueueBound)
        /\ Reclaim(x).owned <=> x.owned
        /\ Reclaim(x).cancelled <=> x.cancelled
    BY <2>1, <2>2, <2>3, ReclaimFits
  <2> QED
    BY <2>1, <2>4 DEF x
<1> QED
  BY <1>1 DEF Sound

\* A transport that is gone takes its key with it; one that is owned keeps it.
LEMMA KeyGoesFields ==
    ASSUME NEW m, NEW k, Registry(socket', k, m), k = key, KeyGoes
    PROVE  Registry(socket', key', m)
BY DEF Registry, KeyGoes, Closed, Destroyed

-----------------------------------------------------------------------------
\* Transports take steps, and no owner changes.
LEMMA TransportStep ==
    ASSUME IInv, Sound(socket'),
           \A s \in Sockets : socket'[s].owned <=> socket[s].owned,
           key' = key \/ KeyGoes,
           UNCHANGED <<running, alive, acceptor, clients_, traced>>
    PROVE  IInv'
<1>1. Registry(socket, key, clients_) /\ Rest
  BY Parts
<1>2. Registry(socket', key, clients_)
  BY <1>1 DEF Registry
<1>3. Registry(socket', key', clients_')
  BY <1>2, KeyGoesFields
<1>4. Rest'
  BY <1>1 DEF Rest, NeverDeaf
<1> QED
  BY <1>3, <1>4, Whole

\* The acceptor takes a step, or the process or the server does.
LEMMA AcceptorStep ==
    ASSUME IInv, Rest', UNCHANGED <<socket, key, clients_>> PROVE IInv'
BY Parts, Whole

LEMMA InitInv == Init => IInv
<1> SUFFICES ASSUME Init PROVE IInv
  OBVIOUS
<1>1. /\ NewResource \in Resource /\ NewResource.owned /\ ~NewResource.cancelled
      /\ NewResource.op # "none"
  BY DEF NewResource, Resource, OpState
<1>2. /\ NoTransport \in TransportState(Msg, 1) /\ Fits(NoTransport, QueueBound)
      /\ ~NoTransport.owned /\ NoTransport.cancelled
  BY NewTransportTyped, QueueBoundAssumption
<1>3. TypeOK /\ NeverDeaf
  BY <1>1, <1>2 DEF Init, TypeOK, NeverDeaf, CreateAcceptor, Fits
<1>4. CancelledWhenReleased /\ \A s \in Sockets : Fits(socket[s], QueueBound)
  BY <1>2 DEF Init, CancelledWhenReleased
<1>5. EntryIsOwned /\ OwnedIsRegistered
  BY <1>2, NoneAssumption DEF Init, EntryIsOwned, OwnedIsRegistered
<1> QED
  BY <1>3, <1>4, <1>5 DEF IInv

LEMMA ReplacedInv == IInv /\ Replaced => IInv'
<1> SUFFICES ASSUME IInv, Replaced PROVE IInv'
  OBVIOUS
<1>1. Rest
  BY Parts
<1>2. Release(acceptor) \in Resource /\ ~Release(acceptor).owned /\ Release(acceptor).cancelled
  BY <1>1 DEF Rest, Release, Cancel, Abort, Resource, OpState, Queued
<1>3. Rest'
  BY <1>1, <1>2 DEF Replaced, Rest, NeverDeaf
<1> QED
  BY <1>3, AcceptorStep DEF Replaced

LEMMA AcceptorInv ==
    ASSUME IInv, AcceptCompletes \/ OnAcceptIgnored \/ OnAcceptError PROVE IInv'
<1>1. Rest
  BY Parts
<1>2. PICK op \in OpState : /\ acceptor' = [acceptor EXCEPT !.op = op]
                            /\ op = "none" => ~alive \/ traced'
  <2>1. {"ok"} \union Errs \subseteq OpState \ {"none"} /\ "none" \in OpState
    BY ErrsAssumption DEF OpState, Queued
  <2>2. CASE AcceptCompletes
    BY <2>1, <2>2 DEF AcceptCompletes
  <2>3. CASE OnAcceptIgnored
    BY <1>1, <2>1, <2>3 DEF OnAcceptIgnored, Cancelled, Rest
  <2>4. CASE OnAcceptError
    BY <2>1, <2>4 DEF OnAcceptError
  <2> QED
    BY <2>2, <2>3, <2>4
<1>3. traced' \in BOOLEAN /\ (traced => traced')
      /\ UNCHANGED <<running, alive, socket, key, clients_>>
  BY <1>1 DEF AcceptCompletes, OnAcceptIgnored, OnAcceptError, Rest
<1>4. Rest'
  BY <1>1, <1>2, <1>3 DEF Rest, NeverDeaf, Resource
<1> QED
  BY <1>3, <1>4, AcceptorStep

\* A connection from an address takes the place of the one before, which is
\* given up in the same step.
LEMMA OnAcceptOkInv == ASSUME IInv, NEW a \in Addrs, OnAcceptOk(a) PROVE IInv'
<1>1. Sound(socket) /\ Registry(socket, key, clients_) /\ Rest
  BY Parts
<1>2. PICK s \in Sockets :
          /\ Closed(socket[s])
          /\ socket' = [WithoutClient(socket, a) EXCEPT ![s] = NewTransport]
          /\ key' = [key EXCEPT ![s] = a]
          /\ clients_' = [clients_ EXCEPT ![a] = s]
  BY DEF OnAcceptOk, Displaced
<1>3. /\ NewTransport \in TransportState(Msg, 1) /\ Fits(NewTransport, QueueBound)
      /\ NewTransport.owned /\ ~NewTransport.cancelled
  BY NewTransportTyped, QueueBoundAssumption
<1>4. Sound(socket')
  BY <1>1, <1>2, <1>3, WithoutClientFields DEF Sound
<1>5. /\ socket'[s].owned
      /\ \A r \in Sockets \ {s} :
            socket'[r].owned <=> socket[r].owned /\ r # clients_[a]
      /\ ~socket[s].owned
  BY <1>1, <1>2, <1>3, WithoutClientFields DEF WithoutClient, Closed, Destroyed
<1>6. Registry(socket', key', clients_')
  <2>1. /\ key' \in [Sockets -> Addrs \union {None}]
        /\ clients_' \in [Addrs -> Sockets \union {None}]
    BY <1>1, <1>2 DEF Registry
  <2>2. ASSUME NEW r \in Sockets, socket'[r].owned
        PROVE  key'[r] \in Addrs /\ clients_'[key'[r]] = r
    <3>1. CASE r = s
      BY <1>1, <1>2, <3>1 DEF Registry
    <3>2. CASE r # s
      BY <1>1, <1>2, <1>5, <2>2, <3>2 DEF Registry
    <3> QED
      BY <3>1, <3>2
  <2>3. ASSUME NEW b \in Addrs, clients_'[b] # None
        PROVE  socket'[clients_'[b]].owned /\ key'[clients_'[b]] = b
    <3>1. CASE b = a
      BY <1>1, <1>2, <1>5, <3>1 DEF Registry
    <3>2. CASE b # a
      <4>1. /\ clients_'[b] = clients_[b] /\ clients_[b] \in Sockets
            /\ socket[clients_[b]].owned /\ key[clients_[b]] = b
        BY <1>1, <1>2, <2>3, <3>2 DEF Registry
      <4>2. clients_[b] # s /\ clients_[b] # clients_[a]
        BY <1>1, <1>5, <3>2, <4>1, NoneAssumption DEF Registry
      <4> QED
        BY <1>2, <1>5, <4>1, <4>2
    <3> QED
      BY <3>1, <3>2
  <2> QED
    BY <2>1, <2>2, <2>3 DEF Registry
<1>7. Rest'
  BY <1>1 DEF OnAcceptOk, Rearmed, Rest, NeverDeaf, Resource, OpState
<1> QED
  BY <1>4, <1>6, <1>7, Whole

\* Only send() and broadcasting have room in every queue they use.
LEMMA SentTo ==
    ASSUME IInv, NEW s \in Sockets, HasRoom(s)
    PROVE  /\ Send(socket[s], 1) \in TransportState(Msg, 1)
           /\ Fits(Send(socket[s], 1), QueueBound)
           /\ Send(socket[s], 1).owned <=> socket[s].owned
           /\ Send(socket[s], 1).cancelled <=> socket[s].cancelled
<1>1. /\ socket[s] \in TransportState(Msg, 1) /\ Fits(socket[s], QueueBound)
      /\ 1 \in Msg /\ 1 \in Nat \ {0} /\ QueueBound \in Nat
  BY Parts, QueueBoundAssumption DEF Sound, Msg
<1> QED
  BY <1>1, SendFits DEF HasRoom

LEMMA SendInv == ASSUME IInv, Broadcast \/ \E a \in Addrs : SendTo(a) PROVE IInv'
<1>1. Sound(socket) /\ Registry(socket, key, clients_)
  BY Parts
<1>2. ASSUME NEW a \in Addrs, SendTo(a)
      PROVE  /\ Sound(socket')
             /\ \A s \in Sockets : socket'[s].owned <=> socket[s].owned
             /\ UNCHANGED <<running, alive, acceptor, clients_, traced, key>>
  <2>1. clients_[a] \in Sockets /\ HasRoom(clients_[a])
    BY <1>1, <1>2 DEF SendTo, Registry
  <2> DEFINE y == Send(socket[clients_[a]], 1)
  <2>2. /\ y \in TransportState(Msg, 1) /\ Fits(y, QueueBound)
        /\ y.owned <=> socket[clients_[a]].owned
        /\ y.cancelled <=> socket[clients_[a]].cancelled
    BY <2>1, SentTo
  <2>3. socket' = [socket EXCEPT ![clients_[a]] = y]
    BY <1>2 DEF SendTo
  <2> HIDE DEF y
  <2>4. Sound(socket') /\ \A s \in Sockets : socket'[s].owned <=> socket[s].owned
    BY <1>1, <2>1, <2>2, <2>3, OneSocket
  <2> QED
    BY <1>2, <2>4 DEF SendTo
<1>3. CASE Broadcast
  <2>1. ASSUME NEW s \in Sockets
        PROVE  /\ socket'[s] \in TransportState(Msg, 1)
               /\ Fits(socket'[s], QueueBound)
               /\ socket'[s].owned <=> socket[s].owned
               /\ socket'[s].cancelled <=> socket[s].cancelled
    <3>1. CASE s \in Connected
      BY <1>3, <3>1, SentTo DEF Broadcast
    <3>2. CASE s \notin Connected
      BY <1>1, <1>3, <3>2 DEF Broadcast, Sound
    <3> QED
      BY <3>1, <3>2
  <2>2. socket' \in [Sockets -> TransportState(Msg, 1)]
    <3>1. socket' = [s \in Sockets |-> IF s \in Connected THEN Send(socket[s], 1)
                                                          ELSE socket[s]]
      BY <1>3 DEF Broadcast
    <3> QED
      BY <2>1, <3>1
  <2>3. Sound(socket')
    BY <1>1, <2>1, <2>2 DEF Sound
  <2> QED
    BY <1>3, <2>1, <2>3, TransportStep DEF Broadcast
<1>4. ASSUME NEW a \in Addrs, SendTo(a) PROVE IInv'
  BY <1>2, <1>4, TransportStep
<1> QED
  BY <1>3, <1>4

LEMMA SocketCompletesInv ==
    ASSUME IInv, NEW s \in Sockets, SocketCompletes(s) PROVE IInv'
<1> DEFINE codes == {"ok", "drop"} \union Errs
<1>1. PICK y \in Completions(socket[s], codes) : socket' = [socket EXCEPT ![s] = y]
  BY DEF SocketCompletes
<1>2. /\ Sound(socket) /\ socket[s] \in TransportState(Msg, 1)
      /\ Fits(socket[s], QueueBound)
      /\ codes \in SUBSET {"ok", "drop", "other"}
      /\ 1 \in Nat \ {0} /\ QueueBound \in Nat
  BY Parts, QueueBoundAssumption, ErrsAssumption DEF Sound
<1> HIDE DEF codes
<1>3. /\ y \in TransportState(Msg, 1) /\ Fits(y, QueueBound)
      /\ y.owned <=> socket[s].owned
      /\ y.cancelled <=> socket[s].cancelled
  BY <1>2, CompletionsFit
<1>4. Sound(socket') /\ \A r \in Sockets : socket'[r].owned <=> socket[r].owned
  BY <1>1, <1>2, <1>3, OneSocket
<1> QED
  BY <1>4, TransportStep DEF SocketCompletes

-----------------------------------------------------------------------------
\* A handler that is not ignored is one of a transport in the map.
LEMMA NotIgnoredIsRegistered ==
    ASSUME IInv, NEW s \in Sockets, ~Ignores(socket[s])
    PROVE  key[s] \in Addrs /\ clients_[key[s]] = s
BY Parts DEF Sound, Registry, Ignores, Cancelled

LEMMA QuietlyInv ==
    ASSUME IInv, NEW s \in Sockets,
           NEW y \in TransportState(Msg, 1), Fits(y, QueueBound),
           y.owned <=> socket[s].owned, y.cancelled <=> socket[s].cancelled,
           Quietly(s, y), KeyGoes,
           UNCHANGED <<running, alive, acceptor, traced>>
    PROVE  IInv'
<1>1. Sound(socket)
  BY Parts
<1> DEFINE z == Reclaim(y)
<1>2. y.owned \/ y.cancelled
  BY <1>1 DEF Sound
<1>3. 1 \in Nat \ {0} /\ QueueBound \in Nat
  BY QueueBoundAssumption
<1>4. /\ z \in TransportState(Msg, 1) /\ Fits(z, QueueBound)
      /\ z.owned <=> y.owned
      /\ z.cancelled <=> y.cancelled
  BY <1>2, <1>3, ReclaimFits
<1>5. socket' = [socket EXCEPT ![s] = z] /\ UNCHANGED clients_
  BY DEF Quietly
<1> HIDE DEF z
<1>6. Sound(socket') /\ \A r \in Sockets : socket'[r].owned <=> socket[r].owned
  BY <1>1, <1>4, <1>5, OneSocket
<1> QED
  BY <1>5, <1>6, TransportStep

\* The report of a loss takes the reporting transport out of the map, and
\* destroys no other.
LEMMA ReportsInv ==
    ASSUME IInv, NEW s \in Sockets, ~Ignores(socket[s]),
           NEW y \in TransportState(Msg, 1), Fits(y, QueueBound),
           y.owned <=> socket[s].owned, y.cancelled <=> socket[s].cancelled,
           NEW code, Reports(s, y, code), KeyGoes,
           UNCHANGED <<running, alive, acceptor, traced>>
    PROVE  IInv'
<1> DEFINE f == [socket EXCEPT ![s] = y]
           g == WithoutClient(f, key[s])
<1>1. Sound(socket) /\ Registry(socket, key, clients_) /\ Rest
  BY Parts
<1>2. Sound(f) /\ \A r \in Sockets : f[r].owned <=> socket[r].owned
  BY <1>1, OneSocket
<1>3. key[s] \in Addrs /\ clients_[key[s]] = s
  BY NotIgnoredIsRegistered
<1> HIDE DEF f
<1>4. CASE code = "drop"
  <2>1. Sound(g) /\ \A r \in Sockets : g[r].owned <=> f[r].owned /\ r # s
    BY <1>2, <1>3, WithoutClientFields
  <2>2. /\ socket' = [r \in Sockets |-> Reclaim(g[r])]
        /\ clients_' = [clients_ EXCEPT ![key[s]] = None]
    BY <1>4 DEF Reports, OnDisconnected, f
  <2> HIDE DEF g
  <2>3. Sound(socket') /\ \A r \in Sockets : socket'[r].owned <=> socket[r].owned /\ r # s
    BY <1>2, <2>1, <2>2, ReclaimAll
  <2>4. Registry(socket', key, clients_')
    BY <1>1, <1>3, <2>2, <2>3 DEF Registry
  <2>5. Registry(socket', key', clients_')
    BY <2>4, KeyGoesFields
  <2>6. Rest'
    BY <1>1 DEF Rest, NeverDeaf
  <2> QED
    BY <2>3, <2>5, <2>6, Whole
<1>5. CASE code # "drop"
  <2>1. socket' = f /\ UNCHANGED clients_
    BY <1>5 DEF Reports, OnError, f
  <2> QED
    BY <1>2, <2>1, TransportStep
<1> QED
  BY <1>4, <1>5

LEMMA HandleReceiveInv ==
    ASSUME IInv, NEW s \in Sockets, HandleReceive(s) PROVE IInv'
<1> DEFINE t == socket[s]
           e == OnReceiveEnds(t)
           k == OnReceiveOk(t)
<1>1. t \in TransportState(Msg, 1) /\ Fits(t, QueueBound)
  BY Parts DEF Sound
<1>2. 1 \in Nat \ {0} /\ QueueBound \in Nat
  BY QueueBoundAssumption
<1>3. /\ e \in TransportState(Msg, 1) /\ Fits(e, QueueBound)
      /\ e.owned <=> t.owned
      /\ e.cancelled <=> t.cancelled
      /\ k \in TransportState(Msg, 1) /\ Fits(k, QueueBound)
      /\ k.owned <=> t.owned
      /\ k.cancelled <=> t.cancelled
  BY <1>1, <1>2, EndsFit
<1>4. \/ Quietly(s, e)
      \/ Quietly(s, k)
      \/ ~Ignores(t) /\ Reports(s, e, t.op)
  BY DEF HandleReceive, OnReceive
<1>5. KeyGoes /\ UNCHANGED <<running, alive, acceptor, traced>>
  BY DEF HandleReceive
<1> HIDE DEF e, k
<1> QED
  BY <1>3, <1>4, <1>5, QuietlyInv, ReportsInv

LEMMA HandleSendInv ==
    ASSUME IInv, NEW s \in Sockets, NEW w, HandleSend(s, w) PROVE IInv'
<1> DEFINE t == socket[s]
           e == OnSendEnds(t, w)
           k == OnSendOk(t, w)
<1>1. t \in TransportState(Msg, 1) /\ Fits(t, QueueBound)
  BY Parts DEF Sound
<1>2. 1 \in Nat \ {0} /\ QueueBound \in Nat
  BY QueueBoundAssumption
<1>3. /\ e \in TransportState(Msg, 1) /\ Fits(e, QueueBound)
      /\ e.owned <=> t.owned
      /\ e.cancelled <=> t.cancelled
  BY <1>1, <1>2, EndsFit
<1>4. /\ k \in TransportState(Msg, 1) /\ Fits(k, QueueBound)
      /\ k.owned <=> t.owned
      /\ k.cancelled <=> t.cancelled
  BY <1>1, <1>2, OnSendOkFits
<1>5. \/ Quietly(s, e)
      \/ Quietly(s, k)
      \/ ~Ignores(t) /\ Reports(s, e, w.code)
  BY DEF HandleSend, OnSend
<1>6. KeyGoes /\ UNCHANGED <<running, alive, acceptor, traced>>
  BY DEF HandleSend
<1> HIDE DEF e, k
<1> QED
  BY <1>3, <1>4, <1>5, <1>6, QuietlyInv, ReportsInv

LEMMA NextInv == IInv /\ [Next]_vars => IInv'
<1> SUFFICES ASSUME IInv, [Next]_vars PROVE IInv'
  OBVIOUS
<1>1. CASE Run
  <2>1. Rest'
    BY <1>1, Parts DEF Run, Rest, NeverDeaf
  <2> QED
    BY <1>1, <2>1, AcceptorStep DEF Run
<1>2. CASE UNCHANGED vars
  <2>1. Rest'
    BY <1>2, Parts DEF vars, Rest, NeverDeaf
  <2> QED
    BY <1>2, <2>1, AcceptorStep DEF vars
<1>3. ASSUME HandleAccept PROVE IInv'
  BY <1>3, AcceptorInv, OnAcceptOkInv DEF HandleAccept
<1>4. ASSUME NEW s \in Sockets, HandleSocket(s) PROVE IInv'
  BY <1>4, HandleReceiveInv, HandleSendInv DEF HandleSocket
<1> QED
  BY <1>1, <1>2, <1>3, <1>4, ReplacedInv, AcceptorInv, SendInv, SocketCompletesInv
  DEF Next

-----------------------------------------------------------------------------
\* The inductive invariant holds in every state the server reaches.
THEOREM Invariance == Spec => []IInv
BY InitInv, NextInv, PTL DEF Spec

\* The queues of every connection keep their bound, and the acceptor is given
\* up with the server and only so.
THEOREM TypeCorrect == Spec => []TypeOK
BY Invariance, PTL DEF IInv

\* The map holds the transports that are owned, each under the address its loss
\* is reported by.
THEOREM OwnedRegistered == Spec => []OwnedIsRegistered
BY Invariance, PTL DEF IInv

\* A server that no longer accepts has printed an error.
THEOREM AcceptsOrTraced == Spec => []NeverDeaf
BY Invariance, PTL DEF IInv

-----------------------------------------------------------------------------
\* The one step that empties an entry is on_disconnected(): a report of the
\* transport the entry holds, of a completion with "drop".
LEMMA OnlyReportsForget ==
    ASSUME IInv, [Next]_vars, NEW a \in Addrs, clients_[a] # None, clients_'[a] = None
    PROVE  \E s \in Sockets : /\ ~Ignores(socket[s]) /\ a = key[s]
                              /\ Lost(socket[s])
<1>1. Registry(socket, key, clients_)
  BY Parts
<1>2. ~UNCHANGED clients_
  OBVIOUS
<1>3. ASSUME NEW b \in Addrs, OnAcceptOk(b) PROVE FALSE
  BY <1>1, <1>3, NoneAssumption DEF OnAcceptOk, Registry
<1>4. PICK s \in Sockets : HandleSocket(s)
  BY <1>2, <1>3 DEF Next, Run, Replaced, AcceptCompletes, HandleAccept,
     OnAcceptIgnored, OnAcceptError, SendTo, Broadcast, SocketCompletes, vars
<1>5. PICK y, code : /\ Reports(s, y, code) /\ ~Ignores(socket[s])
                     /\ \/ code = socket[s].op
                        \/ \E w \in socket[s].writes : code = w.code
  BY <1>2, <1>4 DEF HandleSocket, HandleReceive, HandleSend, OnReceive, OnSend, Quietly
<1>6. code = "drop" /\ clients_' = [clients_ EXCEPT ![key[s]] = None]
  BY <1>2, <1>5 DEF Reports, OnError, OnDisconnected
<1>7. a = key[s]
  BY <1>1, <1>6 DEF Registry
<1> QED
  BY <1>5, <1>6, <1>7 DEF Lost

\* A client leaves the map by the loss of its present connection, and not by
\* the late report of one that it has replaced.
THEOREM ForgottenByOwnFailure == Spec => LostByOwnFailure
<1>1. ASSUME IInv, [Next]_vars, NEW a \in Addrs, clients_[a] # None, clients_'[a] = None
      PROVE  Lost(socket[clients_[a]])
  BY <1>1, OnlyReportsForget, NotIgnoredIsRegistered
<1>2. IInv /\ [Next]_vars =>
          [\A a \in Addrs :
              clients_[a] # None /\ clients_'[a] = None => Lost(socket[clients_[a]])]_vars
  BY <1>1
<1> QED
  BY <1>2, Invariance, PTL DEF Spec, LostByOwnFailure
=============================================================================
