------------------------------ MODULE TcpServer ------------------------------
(***************************************************************************)
(* tunnel_tcp_service.cpp tcp_server with connecting.cpp async_acceptor:   *)
(* one connection per client address.  A client that connects again        *)
(* replaces its old connection, whose handlers may still be queued; every  *)
(* connection reports its loss by the address it was accepted from.        *)
(***************************************************************************)
EXTENDS TransportOps, FiniteSets

CONSTANTS Addrs,       \* addresses of clients (the key leaves the port out)
          Sockets,     \* transports alive at once
          None,
          Errs,        \* unexpected completion codes that may occur
          QueueBound   \* bound on the messages queued behind the one being written

ASSUME NoneAssumption == None \notin Sockets \union Addrs
ASSUME ErrsAssumption == Errs \subseteq {"other"}
ASSUME QueueBoundAssumption == QueueBound \in Nat

VARIABLES running,     \* io_service::run() has been called
          alive,       \* the tcp_server exists
          acceptor,    \* the async_acceptor::impl
          socket,      \* [Sockets -> TransportState]
          key,         \* the address a transport's on_disconnected is bound to
          clients_,    \* the map: [Addrs -> a transport, or None]
          traced       \* error_tracer("server acceptor") has printed

vars == <<running, alive, acceptor, socket, key, clients_, traced>>

Msg == {1}

\* The types, with the bound that the model sets to the queues, and: the acceptor
\* is given up with the server and only so.
TypeOK == /\ running \in BOOLEAN /\ alive \in BOOLEAN
          /\ acceptor \in Resource
          /\ socket \in [Sockets -> TransportState(Msg, 1)]
          /\ key \in [Sockets -> Addrs \union {None}]
          /\ clients_ \in [Addrs -> Sockets \union {None}]
          /\ traced \in BOOLEAN
          /\ acceptor.owned <=> alive
          /\ acceptor.cancelled <=> ~alive
          /\ \A s \in Sockets : Len(socket[s].msgs) <= QueueBound

\* async_acceptor::impl::create(): it listens and accepts.
CreateAcceptor == NewResource

\* The acceptor listens from its construction on.
Init == /\ running = FALSE /\ alive = TRUE
        /\ acceptor = CreateAcceptor
        /\ socket = [s \in Sockets |-> NoTransport]
        /\ key = [s \in Sockets |-> None]
        /\ clients_ = [a \in Addrs |-> None]
        /\ traced = FALSE

-----------------------------------------------------------------------------
\* The process: see TcpClient.
Run == /\ ~running
       /\ running' = TRUE
       /\ UNCHANGED <<alive, acceptor, socket, key, clients_, traced>>

Replaced == /\ ~running /\ alive
            /\ alive' = FALSE
            /\ acceptor' = Release(acceptor)
            /\ UNCHANGED <<running, socket, key, clients_, traced>>

-----------------------------------------------------------------------------
\* async_acceptor.
AcceptCompletes ==
    /\ acceptor.op = "pending"
    /\ \E code \in {"ok"} \union Errs : acceptor' = [acceptor EXCEPT !.op = code]
    /\ UNCHANGED <<running, alive, socket, key, clients_, traced>>

Accepting == running /\ acceptor.op \in Queued

OnAcceptIgnored ==
    /\ Accepting /\ Cancelled(acceptor)
    /\ acceptor' = [acceptor EXCEPT !.op = "none"]
    /\ UNCHANGED <<running, alive, socket, key, clients_, traced>>

\* The error is traced and nothing is accepted any more.
OnAcceptError ==
    /\ Accepting /\ ~Cancelled(acceptor) /\ acceptor.op # "ok"
    /\ acceptor' = [acceptor EXCEPT !.op = "none"]
    /\ traced' = TRUE
    /\ UNCHANGED <<running, alive, socket, key, clients_>>

\* A faulty on_accept(): it accepts once.
Unarmed(r) == [r EXCEPT !.op = "none"]

\* start_async_accept() again.
Rearmed(r) == [r EXCEPT !.op = "pending"]

\* The transports when the map's entry for a is dropped.
WithoutClient(socks, a) ==
    [s \in Sockets |-> IF s = clients_[a] THEN ReleaseTransport(socks[s]) ELSE socks[s]]

\* A faulty on_accept(): the map is assigned, the old transport lives on.
OldLivesOn(socks, a) == socks

\* What is left of the old connection of a once the map holds a new one.
Displaced(socks, a) == WithoutClient(socks, a)

\* tcp_server::on_accept() for a connection from a: it takes the place of an
\* old one from the same address, which is destroyed.
OnAcceptOk(a) ==
    /\ Accepting /\ ~Cancelled(acceptor) /\ acceptor.op = "ok"
    /\ acceptor' = Rearmed(acceptor)
    /\ \E s \in Sockets :
          /\ Closed(socket[s])
          /\ socket' = [Displaced(socket, a) EXCEPT ![s] = NewTransport]
          /\ key' = [key EXCEPT ![s] = a]
          /\ clients_' = [clients_ EXCEPT ![a] = s]
    /\ UNCHANGED <<running, alive, traced>>

-----------------------------------------------------------------------------
\* The connections.
SocketCompletes(s) ==
    /\ \E t \in Completions(socket[s], {"ok", "drop"} \union Errs) :
          socket' = [socket EXCEPT ![s] = t]
    /\ UNCHANGED <<running, alive, acceptor, key, clients_, traced>>

HasRoom(s) == socket[s].ready \/ Len(socket[s].msgs) < QueueBound

\* tcp_server::send() to one client; an unknown name is dropped.
SendTo(a) ==
    /\ running /\ clients_[a] # None /\ HasRoom(clients_[a])
    /\ socket' = [socket EXCEPT ![clients_[a]] = Send(@, 1)]
    /\ UNCHANGED <<running, alive, acceptor, key, clients_, traced>>

\* tcp_server::send() without a name: to every client in the map.
Connected == {s \in Sockets : \E a \in Addrs : clients_[a] = s}

Broadcast ==
    /\ running /\ Cardinality(Connected) > 1
    /\ \A s \in Connected : HasRoom(s)
    /\ socket' = [s \in Sockets |-> IF s \in Connected THEN Send(socket[s], 1)
                                                       ELSE socket[s]]
    /\ UNCHANGED <<running, alive, acceptor, key, clients_, traced>>

\* tcp_server::on_disconnected(): erase the entry; socks is what the
\* transports are by then.
OnDisconnected(socks, a) ==
    /\ socket' = [s \in Sockets |-> Reclaim(WithoutClient(socks, a)[s])]
    /\ clients_' = [clients_ EXCEPT ![a] = None]

\* error_tracer("tcp_client"): the connection stays in the map.
OnError(socks) == socket' = socks /\ UNCHANGED clients_

Reports(s, t, code) == IF code = "drop"
                       THEN OnDisconnected([socket EXCEPT ![s] = t], key[s])
                       ELSE OnError([socket EXCEPT ![s] = t])

\* A faulty transport: it does not look at the flag.
NeverIgnores(t) == FALSE

Ignores(t) == Cancelled(t)

Quietly(s, t) == socket' = [socket EXCEPT ![s] = Reclaim(t)] /\ UNCHANGED clients_

\* A transport that is gone has taken its on_disconnected with it.
KeyGoes == key' = [s \in Sockets |-> IF Closed(socket'[s]) THEN None ELSE key[s]]

OnSend(s, w) ==
    LET t == socket[s]
    IN IF Ignores(t) THEN Quietly(s, OnSendEnds(t, w))
       ELSE IF w.code = "ok" THEN Quietly(s, OnSendOk(t, w))
       ELSE Reports(s, OnSendEnds(t, w), w.code)

OnReceive(s) ==
    LET t == socket[s]
    IN IF Ignores(t) THEN Quietly(s, OnReceiveEnds(t))
       ELSE IF t.op = "ok" THEN Quietly(s, OnReceiveOk(t))
       ELSE Reports(s, OnReceiveEnds(t), t.op)

HandleReceive(s) ==
    /\ running /\ ReceiveQueued(socket[s])
    /\ OnReceive(s)
    /\ KeyGoes
    /\ UNCHANGED <<running, alive, acceptor, traced>>

HandleSend(s, w) ==
    /\ running /\ w \in QueuedSends(socket[s])
    /\ OnSend(s, w)
    /\ KeyGoes
    /\ UNCHANGED <<running, alive, acceptor, traced>>

HandleAccept == OnAcceptIgnored \/ OnAcceptError \/ \E a \in Addrs : OnAcceptOk(a)

HandleSocket(s) == \/ HandleReceive(s)
                   \/ \E w \in socket[s].writes : HandleSend(s, w)

Next == \/ Run
        \/ Replaced
        \/ AcceptCompletes
        \/ HandleAccept
        \/ \E a \in Addrs : SendTo(a)
        \/ Broadcast
        \/ \E s \in Sockets : SocketCompletes(s) \/ HandleSocket(s)

Spec == Init /\ [][Next]_vars
-----------------------------------------------------------------------------
\* A transport is owned exactly while the map holds it, under the one address
\* its loss will be reported by: an owned transport outside the map would
\* serve a connection nobody can reach, and a second key would erase another
\* client.
OwnedIsRegistered ==
    \A s \in Sockets :
        socket[s].owned <=> \E a \in Addrs : clients_[a] = s /\ key[s] = a

\* A server that no longer accepts has printed an error.
NeverDeaf == alive => acceptor.op # "none" \/ traced

Lost(t) == t.op = "drop" \/ \E w \in t.writes : w.code = "drop"

\* A client is taken out of the map by the loss of its present connection, and
\* never by the late report of a connection that it has replaced.
LostByOwnFailure ==
    [][\A a \in Addrs :
          clients_[a] # None /\ clients_'[a] = None => Lost(socket[clients_[a]])]_vars
-----------------------------------------------------------------------------
CancelledWhenReleased == \A s \in Sockets : socket[s].cancelled <=> ~socket[s].owned

\* What the map holds is owned, and will be reported by the address it has
\* there: no two entries share a transport.
EntryIsOwned ==
    \A a \in Addrs : clients_[a] # None =>
        socket[clients_[a]].owned /\ key[clients_[a]] = a

\* The inductive invariant.
IInv == /\ TypeOK
        /\ \A s \in Sockets : Fits(socket[s], QueueBound)
        /\ CancelledWhenReleased
        /\ EntryIsOwned
        /\ OwnedIsRegistered
        /\ NeverDeaf
=============================================================================
