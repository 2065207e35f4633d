# Verification of udp2tcp_tunnel

TLA+ models of the tunnel, TLC runs that check them on small instances, and
TLAPS proofs of their safety for every value of the constants. The tunnel receives UDP datagrams, carries
them as messages over a TCP connection and sends them on as UDP at the other
end. One thread runs `io_service::run()`; every object is a set of handlers
that the io_service calls, and what is hard is the order in which they run.

## 1. The system

| part | state | operations | talks to |
|---|---|---|---|
| `enable_cancel_resource`, `auto_cancel_ptr` (auto_cancel.h) | a flag, the attached socket or timer, the owner | cancel, detach, reset | every asynchronous object |
| `async_timer` | the impl it owns, and older impls whose handlers are queued | wait, cancel, on_timer | tcp_client |
| `underlying_transport_impl` with a TCP or UDP strategy | send queue, ready flag, write under way, receive under way | send, on_send, on_receive, release | kernel, its owner's callbacks |
| `tcp_socket`, `tcp_fragment_wrapper` | callbacks, partially received message | send, on_receive, on_error | transport below, client or server above |
| `async_connector`, `async_acceptor` | one operation, the socket that is moved out | create, on_connected / on_accept, release | tcp_client, tcp_server |
| `tcp_client` | connector, connection, reconnect timer | start_connect, on_connected, on_disconnected, send | connector, transport, timer |
| `tcp_server` | map from client address to connection | on_accept, on_disconnected, send | acceptor, transports |
| `udp_receiver`, `udp_sender` | a UDP transport each; where to relay to | on_receive, send | tcp_client or tcp_server |
| `endpoint` (net_common.h) | address, port | conversion, order, serialisation | all of the above |
| `tunnel`, `config_parser`, `main` | the present sender, the map of receivers | one per kind of line, run | all of the above |
| `async_pinger` (compiled in, called by nothing) | request, timeout, receive | on_send, on_timeout, on_receive, release | kernel, its owner's callback |

Not built by the project file and left out: client.cpp, server.cpp. Taken from
the Boost samples: icmp_header.h, ipv4_header.h.

### What is hard

* **A handler that is already queued cannot be cancelled.** `cancel()` aborts
  what the kernel has; a completion that is queued keeps its code and runs
  later, when its owner may be gone. Only the flag tells it to do nothing.
* **Queue and ready flag.** `send()` and `on_send()` decide together who writes
  the next message.
* **Composed writes.** `async_write` hands a message to the socket in parts,
  and between two parts nobody tells it that the transport was cancelled.
* **A loss is seen twice**, by the receive and by the write, and by the two ends
  at different times, or by one of them never.
* **A socket that has been moved** out of a connector must not be cancelled
  through it.
* **A client that comes back** replaces its connection at the server while
  handlers of the old one are queued; so does another client behind the same
  address.
* **What is given up lives on** until its aborted handler has run: a replaced
  server keeps its port while the configuration is read.
* **A port has more values than the kernel has for it**, and a datagram's header
  is read back by another process.
* **Errors nobody expected** are printed and end an activity for good.

`PROJECT.json` lists every hazard at its line, with the property that covers it,
or why none does.

### What makes each part correct

* timer: a replaced or cancelled wait never fires, any other fires once;
* transport: a FIFO; one write at a time; no message left behind; one report of
  one loss; silent and closed once it is given up;
* framing: messages come out whole and in order however the stream is cut;
* client: one of connect, session and wait at a time; it is never forgotten
  without a printed error; it reconnects as long as the server comes back;
* server: a connection is owned exactly while it is in the map, and leaves it
  by its own failure only; the acceptor stops only after a printed error;
* end to end, both ways and for every client of an address: datagrams come out
  in order, once, whole, and unless their connection is lost or replaced, all of
  them; no end of a connection is left open by the program, unless an error it
  did not expect leaves it with nothing to hear and nothing to send;
* configuration: the tunnel starts unless a line is refused, it is the one the
  text means, and a datagram goes where its line says;
* pinger: an answer comes, and of all packets only the reply is taken for it.

## 2. The modules

| module | models | notes |
|---|---|---|
| AutoCancel | auto_cancel.h | operators on a resource record: owner, flag, attached, operation |
| OneShot, AsyncTimer | async_timer | OneShot is abstract; AsyncTimer implements it |
| TransportOps | underlying_transport_impl.h, both strategies | operators on a transport record; used by Transport, TcpClient, TcpServer |
| FifoLink, Transport | one transport, its owner and the kernel | FifoLink is abstract |
| MessageFifo, FrameCodec | tcp_fragment_wrapper | MessageFifo is abstract |
| Reconnector, TcpClient | tcp_client with async_connector | Reconnector is abstract |
| TcpServer, MCTcpServer | tcp_server with async_acceptor | MCTcpServer gives values and symmetry |
| LossyFifo, Relay | clients and server end to end, both ways | LossyFifo is abstract, once for each client and direction |
| HostBytes | numbers as bytes of the host | used by FrameCodec and Endpoint |
| Endpoint | net_common.h, the header of a datagram, the destination of a UDP message | pure operators |
| Tunnel, MCTunnel | config_parser, tunnel, and a datagram's way through it | MCTunnel gives values; uses Endpoint and AutoCancel |
| PingPacket | icmp_header.h, ipv4_header.h | pure operators |
| Pinger | async_pinger | uses AutoCancel and PingPacket |
| Operators_proofs | lemmas about TransportOps and HostBytes | used by the next five |
| Transport_proofs, TcpClient_proofs, TcpServer_proofs, FrameCodec_proofs, Tunnel_proofs | theorems about the module each is named after | TcpClient_proofs also has those about AsyncTimer, the client's timer |
| Relay_proofs, Pinger_proofs | theorems about the module each is named after | |

**Operations.** An asynchronous operation is `none`, `pending` (the kernel has
it) or carries the code of its completion (its handler is queued). The kernel
moves it from `pending` to a code, `cancel()` from `pending` to `aborted`, and
the action of the handler back to `none` or, rearmed, to `pending`. An action
is one handler or one call from outside with all it calls: when a transport
reports a lost connection, the same action gives the transport up, as
`tcp_socket::impl::on_error` -> `on_disconnected` -> `sock_.reset()` does on one
stack. Handlers that are queued run in any order; the io_service keeps the order
of completion for one thread, so the models have more behaviours than the
program, and what holds of them holds of it.

**Objects.** An object lives while its owner or a queued or pending handler
refers to it. In TcpClient and TcpServer objects are slots that are used again
once nothing refers to them, so behaviours may be infinite.

**Codes.** `drop` stands for the three codes that tcp_socket takes for a lost
connection (eof, connection_reset, broken_pipe), `refused` for the two that the
connector takes for a refusal, `other` for the rest.

**Transport.** `Units` is the number of parts in which the kernel takes a
message: several for TCP, one for UDP. `DropOn` is the set of codes on which the
owner gives the transport up: `{"drop"}` for TCP, none for UDP, whose owners
only print. `wire` is the last part the kernel has taken; messages are numbered
as they are accepted.

**TcpClient** takes the timer as the one-shot timer that AsyncTimer is shown to
be, and a write as one unit. `Faults` adds completions with unexpected codes and
peers that leave before `remote_endpoint()`. The client may be replaced by a
later line of the configuration before `run()`.

**TcpServer** knows clients by address. A transport carries the address to which
its `on_disconnected` is bound (`key`), so a wrong or late report is visible.

**FrameCodec** has bytes; `Base` and `HdrSize` are the number of values of a
byte and the bytes of the size. The order of the bytes is that of the host, the
same on both ends.

**Relay** has clients that share an address, so that the server's map has one
entry for them (clients with addresses of their own do not meet in the map;
TcpServer has those). Connections are numbered as the kernels establish them and
wait in the accept queue. Each has two ends with the state of the wrapper there:
queue, bytes that have arrived, and the part of a message that is read. `cut`
holds the connections over which the network carries nothing any more; an end of
such a connection may be told of a loss (a reset by somebody on the way), of
another error (timed_out or host_unreachable, by its own kernel), or never hear of
it (`Tell`). `tcp_socket::impl::on_error()` takes only a loss for one (`Reports`);
any other error is printed, the operation that had it is not started again, and
the connection stays (`OnError`), until its other operation fails too and, if it is
told broken_pipe, reports the loss. When an end is closed by its program, what the other has not read is there or lost to a reset. A
message is two pieces, its size and its data, as `tcp_fragment_wrapper::send()`
writes them. `taken` of an end is a history that the liveness property needs.

**Tunnel** reads a file chosen at the start. A line is its meaning; `long` is the
first line that does not fit in the buffer of `getline()`. A receiver is its line
and its sender, `receivers_` a set of them with one for each key. `acceptors` are
resources of AutoCancel: that of a replaced server is cancelled, not closed, and
is destroyed only when its handler runs, after `run()`. Once the tunnel runs
`Datagram` takes one datagram through the receiver that the kernel chooses and
the header out to the other side; what lies between is Relay's. Ports and
addresses have the few bytes that `Base`, `AddrBytes` and `PortBytes` give them.

**Pinger** receives packets that are built byte by byte as the hosts would send
them (`PingPacket!Ipv4`, external) and parsed as the code does, with real widths.

**Faulty operators.** Next to some operators stands one with a comment that
begins "A faulty ...": the form a plausible bug would give it. Nothing uses it
in the model. Put in the place of the operator that follows it, it breaks the
properties that PROJECT.json pairs it with.

**Invariants to prove with.** A module that is proved about has at its end `IInv`,
its inductive invariant, and the named parts of it. `IInv` begins with `TypeOK`,
so a run that checks `IInv` checks both. For AsyncTimer `TimerTypeOK` is
inductive. `Frame` and `Frames` of FrameCodec stand with its `IInv`: they say
which bytes a sequence of messages is, and no action uses them.

## 3. The runs

| run | cfg | bounds | states | shows |
|---|---|---|---|---|
| async_timer | AsyncTimer | 4 impls | 2047 | implements OneShot; a wait nobody replaces fires |
| transport_tcp | TransportTcp | 3 units, 4 messages | 5040 | FIFO, nothing stranded, one write, one report, silence and closing after release |
| tcp_client | TcpClient | 2 connectors, 2 sockets, queue 1 | 8366 | reconnects for ever; the moved socket is never cancelled |
| tcp_client_faults | TcpClientFaults | the same, queue 2, all faults | 95876 | implements Reconnector; one driver; stuck only after an error |
| tcp_server | TcpServer | 2 addresses, 3 transports, symmetry | 375146 | map and ownership agree; late reports are harmless |
| frame_codec | FrameCodec | 2-byte size, 2 byte values, sizes 0..2, 3 messages | 25870 | implements MessageFifo; nothing held back; no byte lost or sent twice |
| relay | Relay | 2 clients, 2 datagrams, 3 connections, 1 cut | 599079 | implements LossyFifo each way; whole; delivered or lost; no ghosts but deaf ones |
| tunnel | Tunnel | 3 local points (two alike for the kernel), 2 server points, 2 routes, 4 lines | 367936 | starts unless refused; the receivers are those that the text means; datagrams go where their line says |
| pinger | Pinger | 2 process numbers, 3 times, 0, 4 or 40 bytes of options | 13830 | an answer, none of a kind twice, an end after release, the reply recognised |
| pinger_assert | PingerAssert | none | violation | finding 1 |
| pinger_timeout | PingerTimeout | none | violation | finding 2 |
| connector_comment | TcpClientConnector | as tcp_client | violation | finding 3 |

Why the bounds are enough. Timer: one impl owned and three superseded ones in
different stages. Transport: three units give a write that is before, inside and
at the end of a message, four messages a queue of three behind the one being
written; the theorems cover all values. Client: a connector and a transport in
use and one of each with handlers that have not run; their
slots are used again, so reconnections are not bounded. Server: both clients connected and a
replaced connection besides. Codec: a size in two bytes can be cut, an empty
message, a chunk with several messages. Relay: the connection being read,
the one the client uses and one in the accept queue, with a connection of the
other client between two of the first; one cut, of any of them (two would take the
run past its time; safety is proved for any number, `DeliveredOrLost` and
`NoGhost` are checked for one); two datagrams are enough for one to overtake the
other or to be cut in two. Tunnel: replaced sender, replaced receiver, skipped line and over-long line
in one file. Pinger: numbers above 16 bits, and sums that carry once and twice.

**Deadlock** is checked for the timer only: the others may come to their end
(given up and closed, answered, everything sent, process gone).

### Fairness

Weak fairness of handlers that are queued: the io_service runs until it has no
work. Weak fairness of the deadline of a timer, and of the answer of the kernel
to a connect: both come in bounded time. Weak fairness of `PutUnit` in Transport
and of `Handle`, which includes the writes, in Relay: the peer reads, as a peer does that runs this program;
without it neither delivery nor the closing of a cancelled composed write holds.
Relay's is one weak fairness of all handlers together, as the
io_service gives it (there is always one of them run while there are any); its
handlers run out without new input, so nothing can starve one. For the same
reason `DeliveredOrLost` and `NoGhost` are stated with `[]<>`: again and again
there is a moment at which every datagram is delivered or lost and no end is a
ghost: a connection whose other end is closed, or whose loss is known to its
kernel, is closed here too. `NoGhost` leaves out two ends of a cut connection: the
one that is never told, and the one whose receive has ended with an error that
`on_error()` only prints and that has nothing to write or writes no more. These
the code keeps (`Deaf`), which no text of the repository speaks against. Nothing obliges a user to send, a connection to fail or a datagram to come.
`TcpClient!FairSpec` adds strong fairness of a successful connect, which is what
"the server comes back again and again" means; only `Reconnects` uses it, and
that run has no faults, because after an unexpected error the code does not try
again (`NeverForgotten` says how far it may go).

### Findings

1. `ping.cpp:65` asserts that the request was sent; line 82 drops the error code
   and a failed or aborted send fails the assertion.
2. `ping.cpp:84` "Wait up to timeout seconds for a reply": a reply that is
   queued when the timeout is handled is reported after it.
3. `connecting.cpp:17` says that the connector is deleted when the connection is
   established; `tcp_client` keeps it until the next connect.

## 4. The proofs

Every theorem holds for all values of the constants that satisfy the named
assumptions of the module, and those say only what the constants are: numbers,
widths that are positive, `None` that is none of the others, codes and faults
that the code tells apart, payloads that are bytes, options of a length that an
IP header can have. Every run evaluates those of its module.

| module | theorem | states |
|---|---|---|
| Transport_proofs | Invariance | `IInv` |
| | TypeCorrect, WritesOneAtATime, NothingStranded, LossReportedOnce, FailureSilences | `TypeOK`, `OneWriteAtATime`, `NoStrandedMessage`, `OneLossReported`, `SilencedByFailure` |
| | ReleasedIsSilent | `SilentOnceReleased`, an action property |
| | Refinement | `ImplementsFifoLink` |
| TcpClient_proofs | Invariance, TypeCorrect | `IInv`, `TypeOK` |
| | OneDriver, Remembered, ReconnectDoesNotThrow | `SingleDriver`, `NeverForgotten`, `NoCancelOfMovedSocket` |
| | FollowsCycle | the safety of Reconnector (`ImplementsReconnector` is that and its fairness) |
| | TimerTypeCorrect, TimerRefinement | `TimerTypeOK`, `RefinesOneShot` of AsyncTimer |
| TcpServer_proofs | Invariance, TypeCorrect | `IInv`, `TypeOK` |
| | OwnedRegistered, AcceptsOrTraced | `OwnedIsRegistered`, `NeverDeaf` |
| | ForgottenByOwnFailure | `LostByOwnFailure`, an action property |
| FrameCodec_proofs | Invariance, TypeCorrect | `IInv`, `TypeOK` |
| | NoneHeldBack | `NothingHeldBack` |
| | DeliversInOrder | the safety of MessageFifo (`ImplementsMessageFifo` is that and its fairness) |
| Relay_proofs | Invariance, TypeCorrect | `IInv`, `TypeOK` |
| | WholeMessages | `Framed` |
| | InOrderAtMostOnce | `ImplementsLossyFifo`, for every client and direction |
| Tunnel_proofs | Invariance, TypeCorrect | `IInv`, `TypeOK` |
| | WrittenIsRun, StartsOrRefuses, RelayedAsWritten | `RunsAsWritten`, `StartsUnlessRefused`, `RelayedToConfigured` |
| Pinger_proofs | Invariance, TypeCorrect | `IInv`, `TypeOK` |
| | AnsweredOnce, RepliesRecognised | `OneAnswerOfAKind`, `RepliesAreRecognised` |

A proof of `Spec => []IInv` has a lemma for each action, or for each kind of
change that several actions share, and under it a step for each part of `IInv`
that it can disturb. What the invariants need beyond the properties:

**Transport.** That `on_send()` writes the right message needs to know what the
queue holds. `IInv` says that the queue holds the messages accepted last, in
order (`QueueInOrder`); that the write under way is of the message just before
the queue, and the wire ends with the part of it that the kernel has taken
(`WriteAligned`); that a ready transport is idle and one that is not ready is
busy, has failed or was given up (`ReadyIsIdle`, `NotReadyIsBusy`); that the
flag follows the owner (`CancelledWhenReleased`); that only cancellation aborts
(`AbortedWhenCancelled`, which keeps the reported codes errors of the kernel);
and that a reported loss has released the transport (`LossReleases`), so a
second report would find the flag set. `SilencedByFailure` is carried along with
`IInv`: the failed write was the only one of a transport that was not ready, and
from then on no step can start one. The refinement maps `PutUnit` to the step of
FifoLink and every other action to acceptance or to a stutter.

**AsyncTimer.** `TimerTypeOK` is inductive: the impl that the timer owns is the
only one without the flag. So a handler that fires is that of the last `wait()`.
The proofs stand with those of the client, which takes its timer as OneShot; for
the two modules to meet there, the names of AsyncTimer begin with Timer.

**TcpClient.** `SingleDriver` and `NeverForgotten` need to know that a handler
that finds no flag runs for the object the client's member points to
(`CancelledWhenReleased`), otherwise a late handler of an older connector could
start a session besides the present one; and that before `run()` there is the
first connect and nothing else (`NothingBeforeRun`), since a client that is
replaced then leaves the cycle. `NoCancelOfMovedSocket` rests on
`MovedIsDetached`. `FollowsCycle` takes each action to the step of Reconnector
that its effect on the three members makes.

**TcpServer.** `OwnedIsRegistered` alone would let two entries hold one
transport, and the replacement of one would then close the other's:
`EntryIsOwned` says that the key under which a transport reports is the one it
is found by. `ForgottenByOwnFailure` then follows for every action: only a
report that no flag stops empties an entry, and such a report is the failure of
what the entry holds.

**FrameCodec.** That a turn of the loop finds the next message where `send()` put
it needs to know what all the bytes under way are: the frames of the messages
delivered, then the buffer, the chunk and the stream, are the frames of all the
messages sent (`InTransit`). While there is a chunk some message is not
delivered, and what follows the delivered ones begins with its frame (`Due`). So
a buffer that holds the size holds the size of that message (`HeaderFirst`, which
rests on the bytes of a number being the number again), and one that is as long
as its frame holds that frame and no byte of the next. `BufferIncomplete` says
that this is noticed at once: no turn leaves a whole message in the buffer,
which also keeps `Missing` from being negative. `Frames` is a recursive function
of the number of messages; `FramesAre` gets its values from the lemmas about
such functions below.

**Relay.** That what comes out rises needs an order over everything that is
under way. For each direction of each connection (`Directions`) what the reading
end has in its hands, what has arrived and what the writing end has queued
follow each other, whole messages in rising order; if the connection is cut or
one end is gone, what remains of it still does (`Flow`), but need not join any
more (`Joined`); an end that an error has silenced belongs to a cut connection
(`GivenUp`). All of it is later than what has come out and not later than
what was sent (`Ahead`). Of two connections of a client that may both still be
read, what is on its way on the older is earlier than what is on the newer
(`InSequence`). That is kept because a client writes to the last of its
connections only (`LatestOfClient`), and because the server reads a connection
only when those before it are closed (`AcceptedInOrder`).

**Tunnel.** Until the tunnel runs, the receivers are those the lines above mean
(`receivers_ = Meaning(next)`), the sender is that of the last tcp line
(`SenderAsWritten`), and every server that was made has an acceptor, or what is
left of one (`AcceptorsAsWritten`): this is why a repeated port is refused
although its server is gone. `RelayedAsWritten` needs besides that the header is
taken off as it was put on. That rests on the powers of the base and on the
bytes of a number being the number again, which the recursive functions of
HostBytes compute. Both are proved in Operators_proofs, by the least
counterexample, from the library's theorem that `<` on the naturals is
well-founded; the lemmas `RecursExists`, `RecursTyped` and `RecursUnique` say that
a recursive function of a number exists, stays in a set that its step does not
leave, and is the only one.

**Pinger.** `OneAnswerOfAKind` needs that an answer ends the operation it came
from (`AnswerEndsItsSource`). `RepliesRecognised` goes through a packet byte by
byte: where the header ends for every length of the options, that the two bytes
of a number are the number modulo 2^16, and that the sum of the words with its
complement leaves nothing.

### Model-checked only

Liveness, which needs fairness and ENABLED: `AcceptedIsSent`,
`ReleasedIsClosed`, `ArmedWaitFires`, `Reconnects`, `DeliveredOrLost`, `NoGhost`,
`Answered`, `ReleasedPingerEnds`, and the fairness of Reconnector and MessageFifo
in `ImplementsReconnector` and `ImplementsMessageFifo`. Every other property that
a passing run checks is proved.

## 5. Not modelled

* Text: splitting, trimming and parsing of lines and endpoints, printing. It
  keeps no state; what a line means, or that it has no meaning, is in Tunnel.
* Options of sockets, other than reuse_address of UDP sockets (which Tunnel
  relies on), and the limits of the kernel's buffers. A wildcard address that
  takes a port from all others.
* Hosts with another byte order: sizes, addresses and ports are sent as they lie
  in memory, and both sides of the models have the same.
* Sizes that do not fit in 32 bits. Datagrams have 64 KB at most.
* Buffers (asio_helper.h), whose life is that of a shared_ptr: each holder has
  one, and no step of the program could take it away.
* A callback that destroys the function object it was called through: the code
  survives it because it copies its arguments first, which is C++ and not state.
* client.cpp and server.cpp, test programs that are not built and do not match
  the interfaces any more; common headers (includes and using declarations).
* Memory or descriptors that run out (an accept that fails for it is in
  TcpServer). Threads: there is one.

## 6. Plan

Done: AutoCancel, AsyncTimer, TransportOps, Transport, TcpClient, TcpServer,
FrameCodec, Relay both ways with clients that share an address, Endpoint and
Tunnel with the way of a datagram, Pinger with its packets; the theorems of
section 4, which cover every safety property of the passing runs.

Left: liveness, which stays with TLC, and what section 5 leaves out. A refinement
that shows the pieces of Relay to be those that FrameCodec cuts would join the
two in one theorem; as it is, Relay takes a message as its size and its data,
which is what FrameCodec is shown to put together.
