-------------------------------- MODULE Relay --------------------------------
(***************************************************************************)
(* The tunnel end to end and in both directions: what the udp_receivers of *)
(* one side are given comes out of the udp_sender of the other.  Several   *)
(* clients reach the server from one address, as behind a NAT: the server  *)
(* knows one connection for all of them (clients with an address of their  *)
(* own do not meet in its map).  The transport is the FIFO that Transport  *)
(* is checked to be, the stream is cut at the borders of sizes and data    *)
(* (FrameCodec cuts it anywhere).  Of the errors that are no lost          *)
(* connection those are here that a cut network brings about; the other    *)
(* unexpected errors of TcpClient and TcpServer are left out.              *)
(***************************************************************************)
EXTENDS Naturals, Sequences, FiniteSets

CONSTANTS Clients,   \* tcp_clients behind the one address
          MaxSent,   \* bound on the datagrams of a behaviour
          MaxConns,  \* bound on its connections
          MaxCuts    \* bound on those that the network cuts

ASSUME BoundsAssumption == MaxSent \in Nat /\ MaxConns \in Nat \ {0} /\ MaxCuts \in Nat

VARIABLES
    sent,    \* datagrams received by the udp_receivers of both sides
    made,    \* connections the kernel has established
    peer,    \* [Conns -> the client that made it, or NoClient]
    cut,     \* connections over which the network carries nothing any more
    end,     \* [Conns \X Sides -> the state of the connection's end]
    client,  \* the connection in the server's map, or None
    got      \* [Clients \X Sides -> last datagram that came out on this side]

vars == <<sent, made, peer, cut, end, client, got>>

None == 0
CONSTANT NoClient
ASSUME NoClientAssumption == NoClient \notin Clients

Conns == 1..MaxConns
Sides == {"client", "server"}
Other(s) == IF s = "client" THEN "server" ELSE "client"

Msgs == 1..MaxSent
Piece == [part : {"size", "data"}, msg : Msgs]

\* An end: whether the kernel has it ("up"), or a tcp_fragment_wrapper
\* ("open"); what the next operation that fails is told: a "loss" of the
\* connection, or an "error"; the operations of the transport that have ended
\* with an error; its queue, what has arrived and is not read, and the size in
\* partial_msg_.  taken is a history: the last datagram that send() was given.
End == [stage : {"none", "up", "open", "closed"}, told : {"nothing", "loss", "error"},
        ended : SUBSET {"receive", "send"},
        msgs : Seq(Piece), inbox : Seq(Piece), partial : Msgs \union {None},
        taken : 0..MaxSent]

EndAt(stage, taken) == [stage |-> stage, told |-> "nothing", ended |-> {}, msgs |-> <<>>,
                        inbox |-> <<>>, partial |-> None, taken |-> taken]

Open(n, s) == end[n, s].stage = "open"
Live(n, s) == end[n, s].stage \in {"up", "open"}

\* The types, and: the wrappers of the server are those its map holds, and a
\* client serves one connection.
TypeOK == /\ sent \in 0..MaxSent
          /\ made \in 0..MaxConns
          /\ peer \in [Conns -> Clients \union {NoClient}]
          /\ cut \subseteq 1..made
          /\ end \in [Conns \X Sides -> End]
          /\ client \in Conns \union {None}
          /\ {n \in Conns : Open(n, "server")} = {client} \ {None}
          /\ \A m, n \in Conns : Live(m, "client") /\ Live(n, "client")
                                 /\ peer[m] = peer[n] => m = n
          /\ got \in [Clients \X Sides -> 0..MaxSent]

Init == /\ sent = 0 /\ made = 0
        /\ peer = [n \in Conns |-> NoClient]
        /\ cut = {}
        /\ end = [e \in Conns \X Sides |-> EndAt("none", 0)]
        /\ client = None
        /\ got = [c \in Clients \X Sides |-> 0]

-----------------------------------------------------------------------------
\* tcp_fragment_wrapper::send(): the size, and then the data.
Frame(m) == << [part |-> "size", msg |-> m], [part |-> "data", msg |-> m] >>

\* One more datagram, put into the queue of the ends `to`, or dropped.
Relayed(to) == /\ sent < MaxSent
               /\ sent' = sent + 1
               /\ end' = [e \in Conns \X Sides |->
                             IF e \in to THEN [end[e] EXCEPT !.msgs = @ \o Frame(sent'),
                                                                   !.taken = sent']
                                         ELSE end[e]]
               /\ UNCHANGED <<made, peer, cut, client, got>>

\* udp_receiver::on_receive() -> tcp_client::send(): to sock_ if there is one.
ClientDatagram(c) == Relayed({<<n, "client">> : n \in {m \in Conns : peer[m] = c /\ Open(m, "client")}})

\* udp_receiver::on_receive() -> tcp_server::send(): to the client in the map.
ServerDatagram == Relayed({<<n, "server">> : n \in {client} \ {None}})

\* A client without a connection asks for one, and the kernels establish it:
\* they need no accept() for it.
Establish(c) == /\ made < MaxConns
                /\ \A n \in Conns : peer[n] = c => ~Live(n, "client")
                /\ made' = made + 1
                /\ peer' = [peer EXCEPT ![made'] = c]
                /\ end' = [end EXCEPT ![<<made + 1, "client">>] = EndAt("up", 0),
                                      ![<<made + 1, "server">>] = EndAt("up", 0)]
                /\ UNCHANGED <<sent, cut, client, got>>

\* tcp_client::on_connected().
OnConnected(n) == /\ end[n, "client"].stage = "up"
                  /\ end' = [end EXCEPT ![<<n, "client">>].stage = "open"]
                  /\ UNCHANGED <<sent, made, peer, cut, client, got>>

\* The kernel has given the connection up, for no answer came: it takes no more
\* bytes, and every operation fails.
GivenUp(e) == e.told = "error" \/ e.ended # {}

\* The transport of an end writes its next message; nothing arrives where the
\* network is cut or the other end is closed.
Write(n, s) ==
    /\ Open(n, s) /\ end[n, s].msgs # <<>> /\ ~GivenUp(end[n, s])
    /\ end' = [end EXCEPT
                  ![<<n, s>>].msgs = Tail(@),
                  ![<<n, Other(s)>>].inbox = IF n \notin cut /\ Live(n, Other(s))
                                         THEN Append(@, Head(end[n, s].msgs)) ELSE @]
    /\ UNCHANGED <<sent, made, peer, cut, client, got>>

-----------------------------------------------------------------------------
\* What is left of an end whose wrapper is destroyed.
AfterReset(n, s) == EndAt("closed", end[n, s].taken)

\* The wrapper of end s of connection n is destroyed, and its socket closed.
\* The other end is told, if the network carries it; the rest of what it has
\* to read is there, or lost to a reset.
Closed(n, s, rest) ==
    [end EXCEPT
        ![<<n, s>>] = AfterReset(n, s),
        ![<<n, Other(s)>>] = IF n \in cut \/ ~Live(n, Other(s)) THEN @
                         ELSE [@ EXCEPT !.told = "loss", !.inbox = rest]]

Rest(n, s) == {<<>>, end[n, s].inbox}

\* The operations of an end that may fail: what has arrived is read before the
\* receive sees the end of it.
Failing(n, s) == {op \in {"receive", "send"} \ end[n, s].ended :
                     IF op = "receive" THEN end[n, s].inbox = <<>>
                                       ELSE end[n, s].msgs # <<>>}

\* A faulty on_error(): broken_pipe, which only a send is told, is no loss.
OnlyReceiveReports(n, s) == /\ Open(n, s) /\ end[n, s].told = "loss"
                            /\ "receive" \in Failing(n, s)

\* tcp_socket::impl::on_error() for eof, connection_reset and broken_pipe: the
\* report of a lost connection.
Reports(n, s) == /\ Open(n, s) /\ end[n, s].told = "loss"
                 /\ Failing(n, s) # {}

\* What is left of an end whose operation op has ended with an error: on_send()
\* has popped its message.
AfterError(e, op, next) == [e EXCEPT !.told = next,
                                     !.ended = e.ended \union {op},
                                     !.msgs = IF op = "send" THEN Tail(e.msgs) ELSE e.msgs]

\* on_error() for any other code: it is printed.  The connection stays, and the
\* operation that has failed is not started again: nothing is received, or
\* nothing is sent any more.  The other operation fails in its turn, with the
\* code its kernel has for it.
OnError(n, s) ==
    /\ Open(n, s) /\ end[n, s].told = "error"
    /\ \E op \in Failing(n, s), next \in {"loss", "error"} :
          end' = [end EXCEPT ![<<n, s>>] = AfterError(@, op, next)]
    /\ UNCHANGED <<sent, made, peer, cut, client, got>>

\* tcp_client::on_disconnected(): sock_.reset().
OnClientDisconnected(n) ==
    /\ Reports(n, "client")
    /\ \E rest \in Rest(n, "server") : end' = Closed(n, "client", rest)
    /\ UNCHANGED <<sent, made, peer, cut, client, got>>

\* clients_.erase(client): whatever the map holds for the address.
EraseEntry == /\ client' = None
              /\ IF client = None THEN UNCHANGED end
                 ELSE \E rest \in Rest(client, "client") : end' = Closed(client, "server", rest)

\* tcp_server::on_disconnected(), reported by connection n.
OnServerDisconnected(n) == /\ Reports(n, "server")
                           /\ EraseEntry
                           /\ UNCHANGED <<sent, made, peer, cut, got>>

\* A faulty on_accept(): the connection that is replaced is not destroyed.
OldStays(n) == {end}

\* clients_[address] = ...: the wrapper that was there is destroyed.
Displaced(n) == IF client = None THEN {end}
                ELSE {Closed(client, "server", rest) : rest \in Rest(client, "client")}

\* A faulty wrapper: what is partly received is kept with the address.
InheritsPartial(ends, n) ==
    [ends EXCEPT ![<<n, "server">>].stage = "open",
                 ![<<n, "server">>].partial = IF client = None THEN None
                                          ELSE end[client, "server"].partial]

\* A new wrapper, with nothing received.
Wrapped(ends, n) == [ends EXCEPT ![<<n, "server">>].stage = "open"]

\* tcp_server::on_accept(): connections are accepted in the order in which
\* they were made.
OnAccept(n) ==
    /\ end[n, "server"].stage = "up"
    /\ \A m \in 1..(n - 1) : end[m, "server"].stage # "up"
    /\ client' = n
    /\ \E ends \in Displaced(n) : end' = Wrapped(ends, n)
    /\ UNCHANGED <<sent, made, peer, cut, got>>

\* tcp_fragment_wrapper::on_receive(): the size; then the data, which goes
\* through the owner's on_receive() to udp_sender::send().
OnReceive(n, s) ==
    /\ Open(n, s) /\ end[n, s].inbox # <<>> /\ "receive" \notin end[n, s].ended
    /\ LET m == Head(end[n, s].inbox).msg
           whole == end[n, s].partial # None
       IN /\ end' = [end EXCEPT ![<<n, s>>].inbox = Tail(@),
                                ![<<n, s>>].partial = IF whole THEN None ELSE m]
          /\ got' = IF whole THEN [got EXCEPT ![<<peer[n], s>>] = m] ELSE got
    /\ UNCHANGED <<sent, made, peer, cut, client>>

-----------------------------------------------------------------------------
\* The network stops to carry connection n: what is written later is gone.
Cut(n) == /\ n \in (1..made) \ cut /\ Cardinality(cut) < MaxCuts
          /\ cut' = cut \union {n}
          /\ UNCHANGED <<sent, made, peer, end, client, got>>

\* An end of it is told, sooner or later or never, for nothing makes an idle
\* connection speak: of an error, timed_out or host_unreachable, by its own
\* kernel, which has had no answer; or of a loss, by a reset from somebody on
\* the way who has forgotten the connection.
Tell(n, s) == /\ n \in cut /\ Live(n, s) /\ end[n, s].told = "nothing"
              /\ \E code \in {"loss", "error"} : end' = [end EXCEPT ![<<n, s>>].told = code]
              /\ UNCHANGED <<sent, made, peer, cut, client, got>>

\* What the io_services of the two sides run.
Handle == \/ \E n \in Conns : \/ OnConnected(n) \/ OnAccept(n)
                              \/ OnClientDisconnected(n) \/ OnServerDisconnected(n)
          \/ \E n \in Conns, s \in Sides : Write(n, s) \/ OnReceive(n, s) \/ OnError(n, s)

Next == \/ Handle
        \/ ServerDatagram
        \/ \E c \in Clients : ClientDatagram(c) \/ Establish(c)
        \/ \E n \in Conns : Cut(n) \/ Tell(n, "client") \/ Tell(n, "server")

\* As long as there is a handler to run one is run, and the peer of a
\* connection that is not cut reads.  No datagram has to come, and no
\* connection has to be made, cut, or told of it.
Fairness == WF_vars(Handle)

Spec == Init /\ [][Next]_vars /\ Fairness
-----------------------------------------------------------------------------
\* Between a client and the server datagrams come out in the order they went
\* in and at most once, each way and over all the client's connections, also
\* while other clients take its place: the connection that is read last is the
\* one made last, on both sides.
Channel(c, s) == INSTANCE LossyFifo WITH last <- got[c, s]
ImplementsLossyFifo ==
    /\ \A c \in Clients, s \in Sides : Channel(c, s)!Init
    /\ [][\A c \in Clients, s \in Sides : [Channel(c, s)!Next]_<<sent, got[c, s]>>]_vars

\* What a tcp_fragment_wrapper waits for, with the size `partial` in its hands.
Expects(partial, piece) == IF partial = None
                           THEN piece.part = "size"
                           ELSE piece = [part |-> "data", msg |-> partial]

\* What an end reads next is what it waits for: a size, or the data whose size
\* it has read.  A message that a loss has cut in two is never completed by a
\* piece of another connection.
Framed == \A n \in Conns, s \in Sides :
              Open(n, s) /\ end[n, s].inbox # <<>>
                  => Expects(end[n, s].partial, Head(end[n, s].inbox))

\* A datagram that was given to a connection comes out on the other side,
\* unless the network cuts the connection or the server accepts another one
\* from the same address: the late report of an older connection does not take
\* it away.
DeliveredOrLost ==
    []<>\A n \in 1..made, s \in Sides :
           \/ n \in cut
           \/ \E k \in (n + 1)..made : end[k, "server"].stage # "up"
           \/ got[peer[n], Other(s)] >= end[n, s].taken

\* What is left of an end that nothing can wake any more: its receive has ended
\* with an error, and its transport has nothing to write or does not write.
Deaf(n, s) == /\ "receive" \in end[n, s].ended
              /\ "send" \in end[n, s].ended \/ end[n, s].msgs = <<>>

\* No half-open connection: an end whose other end is closed, by a loss or
\* because another client took the place, is closed in the end.  Only a network
\* that carries nothing may leave one for ever: an end that is never told, and
\* one whose receive was told timed_out or host_unreachable, which on_error()
\* does not take for a loss; that one is closed as soon as it has a datagram to
\* send and its kernel says broken_pipe.
NoGhost == []<>\A n \in Conns, s \in Sides :
                  Open(n, s) => \/ /\ end[n, s].told = "nothing"
                                   /\ end[n, Other(s)].stage = "closed" => n \in cut
                                \/ n \in cut /\ Deaf(n, s)
-----------------------------------------------------------------------------
\* One direction of a connection: `to` is the end that reads, `from` the end
\* that writes.  What `to` has in its hands after it has read a piece, or all
\* the pieces of q:
Pending(piece) == IF piece.part = "size" THEN piece.msg ELSE None

After(partial, q) == IF q = <<>> THEN partial ELSE Pending(q[Len(q)])

Framing(partial, q) ==
    /\ q # <<>> => Expects(partial, q[1])
    /\ \A i \in 1..(Len(q) - 1) : Expects(Pending(q[i]), q[i + 1])

Before(x, y) == \/ x.msg < y.msg
                \/ x.msg = y.msg /\ x.part = "size" /\ y.part = "data"

Rising(q) == \A i, j \in 1..Len(q) : i < j => Before(q[i], q[j])

AllBefore(q, r) == \A i \in 1..Len(q), j \in 1..Len(r) : Before(q[i], r[j])

IsOpen(e) == e.stage = "open"
IsLive(e) == e.stage \in {"up", "open"}

\* The size that an end has in its hands, as the piece it was.
Held(partial) == IF partial = None THEN <<>>
                 ELSE << [part |-> "size", msg |-> partial] >>

\* Whatever is lost, the end that reads never finds anything but whole messages
\* in order.
Flow(partial, inbox, msgs) ==
    /\ Framing(partial, inbox)
    /\ Rising(inbox) /\ Rising(msgs) /\ AllBefore(inbox, msgs)
    /\ AllBefore(Held(partial), inbox) /\ AllBefore(Held(partial), msgs)

\* What has arrived goes on in the queue of the other end, which ends with a
\* whole message.
Joined(partial, inbox, msgs) ==
    /\ Framing(After(partial, inbox), msgs)
    /\ After(After(partial, inbox), msgs) = None

\* While nothing is lost, the two ends are joined; and no kernel gives up a
\* connection that is not cut.
Direction(n, to, from) ==
    /\ Flow(to.partial, to.inbox, from.msgs)
    /\ GivenUp(to) => n \in cut
    /\ n \notin cut /\ IsLive(to) /\ IsLive(from)
           => Joined(to.partial, to.inbox, from.msgs)

MsgsOf(q) == {q[i].msg : i \in 1..Len(q)}

Coming(to, from) == MsgsOf(to.inbox) \union MsgsOf(from.msgs)
                    \union ({to.partial} \ {None})

ComingTo(n, s) == Coming(end[n, s], end[n, Other(s)])

\* Only an open wrapper has anything queued or partly received.
Shape(e) == /\ ~IsOpen(e) => e.msgs = <<>> /\ e.partial = None
            /\ ~IsLive(e) => e.inbox = <<>>

EndsInShape == \A n \in Conns, s \in Sides : Shape(end[n, s])

MadeInOrder == \A n \in Conns :
                   IF n <= made
                   THEN peer[n] \in Clients /\ \A s \in Sides : end[n, s].stage # "none"
                   ELSE \A s \in Sides : end[n, s].stage = "none"

\* The client serves the last of its connections, and the server accepts them
\* all in order.
LatestOfClient == \A m, n \in 1..made : m < n /\ peer[m] = peer[n] => ~Live(m, "client")

AcceptedInOrder == \A m, n \in 1..made :
    m < n /\ end[n, "server"].stage # "up" => end[m, "server"].stage = "closed"

Directions == \A n \in Conns, s \in Sides :
                  Direction(n, end[n, s], end[n, Other(s)])

\* What is on its way is later than what has come out, on every connection that
\* may still be read; and earlier than what is on its way on a later one.
Ahead == \A n \in Conns, s \in Sides : \A x \in ComingTo(n, s) :
             /\ x <= sent
             /\ Live(n, s) => got[peer[n], s] < x

InSequence == \A s \in Sides : \A m, n \in 1..made :
    m < n /\ peer[m] = peer[n] /\ Live(m, s) /\ Live(n, s)
        => \A x \in ComingTo(m, s), y \in ComingTo(n, s) : x < y

\* The inductive invariant.
IInv == /\ TypeOK
        /\ EndsInShape
        /\ MadeInOrder
        /\ LatestOfClient
        /\ AcceptedInOrder
        /\ Directions
        /\ Ahead
        /\ InSequence
        /\ \A c \in Clients, s \in Sides : got[c, s] <= sent
=============================================================================
