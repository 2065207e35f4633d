------------------------------- MODULE Tunnel -------------------------------
(***************************************************************************)
(* config_parser.cpp and tunnel.cpp: the configuration is read line by     *)
(* line; a "tcp" line replaces the sender, and every later udp line makes  *)
(* a receiver that relays to it.  Senders are shared: one that is replaced *)
(* lives on as long as a receiver relays to it, and the acceptor of one    *)
(* that is gone until the io_service runs.  A line is what it means; one   *)
(* that is too long for the buffer of getline() ends the reading.          *)
(* Once the tunnel runs, datagrams go from a receiver through its sender   *)
(* to the udp_sender of the other side (Relay has what lies between).      *)
(***************************************************************************)
EXTENDS Endpoint, AutoCancel, FiniteSetsExt

CONSTANTS Locals,    \* endpoints that udp lines bind
          Points,    \* endpoints that server lines bind
          Routes,    \* where a udp line relays to: [remote, to]
          Payloads,  \* data of a datagram
          MaxLines   \* bound on the lines of the configuration

ASSUME EndpointsAssumption == /\ Locals \subseteq Endpoint /\ Points \subseteq Endpoint
                              /\ Routes \subseteq [remote : Endpoint, to : STRING]
ASSUME PayloadsAssumption == Payloads \subseteq Seq(0..(Base - 1))
ASSUME MaxLinesAssumption == MaxLines \in Nat

VARIABLES lines,      \* the file
          long,       \* its first line that getline() cannot hold, or 0
          next,       \* the line to be read
          sender_,    \* the line that made the present sender, or NullSender
          receivers_, \* the receivers in the map, whose keys are their lines' local
          acceptors,  \* [LineNos -> the acceptor of the server that the line made]
          phase,      \* parsing, running, or failed with an exception
          out         \* the datagram that came out last, or Nothing

vars == <<lines, long, next, sender_, receivers_, acceptors, phase, out>>

\* Blank lines and comments; tcp_client; lines that make the parser, or a
\* constructor it calls, throw; tcp_server; and udp points.
Line == [kind : {"blank", "client", "invalid"}]
        \union [kind : {"server"}, point : Points]
        \union [kind : {"udp"}, local : Locals, route : Routes]

NullSender == 0
LineNos == 1..MaxLines
Receiver == [sender : LineNos, line : LineNos]
Local(r) == lines[r.line].local

Nothing == [at |-> 0]

Held == {r.sender : r \in receivers_}

\* The senders that exist: shared_ptr keeps those that are referred to.
Senders == Held \union ({sender_} \ {NullSender})

\* The types, and: a receiver always has a sender, a key is there once, and an
\* acceptor is owned by a server that exists.
TypeOK == /\ lines \in Seq(Line) /\ Len(lines) <= MaxLines
          /\ long \in 0..Len(lines)
          /\ next \in 1..(MaxLines + 1)
          /\ sender_ \in LineNos \union {NullSender}
          /\ receivers_ \subseteq Receiver
          /\ \A q, r \in receivers_ : Local(q) = Local(r) => q = r
          /\ acceptors \in [LineNos -> Resource]
          /\ {i \in LineNos : acceptors[i].owned}
                 = {s \in Senders : lines[s].kind = "server"}
          /\ phase \in {"parsing", "running", "failed"}
          /\ out = Nothing \/ phase = "running"

Init == /\ \E n \in 0..MaxLines : lines \in [1..n -> Line]
        /\ long \in 0..Len(lines)
        /\ next = 1
        /\ sender_ = NullSender
        /\ receivers_ = {}
        /\ acceptors = [i \in LineNos |-> NoResource]
        /\ phase = "parsing"
        /\ out = Nothing

-----------------------------------------------------------------------------
\* A faulty acceptor: it is closed when it is given up.
ClosedAtOnce(acceptor) == NoResource

\* The acceptor of a server that is gone: its accept is cancelled, and lives on
\* in the aborted handler, which nobody calls before run().
GivenUp(acceptor) == Release(acceptor)

\* The acceptors `made`, of which only the senders of the next state keep theirs.
Kept(made) == [i \in LineNos |-> IF i \in Senders' THEN made[i] ELSE GivenUp(made[i])]

\* The kernel lets only one acceptor listen on a port.
PointTaken(point) == \E i \in LineNos : /\ ~Destroyed(acceptors[i])
                                        /\ Kernel(lines[i].point) = Kernel(point)

\* The loop over the file goes on while in.good().
Reading(kind) == /\ phase = "parsing" /\ next <= Len(lines)
                 /\ lines[next].kind = kind

\* getline() fails on a line that does not fit; what it has read of the line is
\* processed, and then the loop ends.
NextLine == IF next = long THEN Len(lines) + 1 ELSE next + 1

Blank == /\ Reading("blank")
         /\ next' = NextLine
         /\ UNCHANGED <<lines, long, sender_, receivers_, acceptors, phase, out>>

\* cfg_error, or what the constructor of an endpoint throws.
Invalid == /\ Reading("invalid")
           /\ phase' = "failed"
           /\ UNCHANGED <<lines, long, next, sender_, receivers_, acceptors, out>>

\* create_tcp_sender(): the new sender is made, and then the old one released.
CreateClient == /\ Reading("client")
                /\ sender_' = next
                /\ next' = NextLine
                /\ UNCHANGED <<lines, long, receivers_, phase, out>>
                /\ acceptors' = Kept(acceptors)

CreateServer == /\ Reading("server") /\ ~PointTaken(lines[next].point)
                /\ sender_' = next
                /\ next' = NextLine
                /\ UNCHANGED <<lines, long, receivers_, phase, out>>
                /\ acceptors' = Kept([acceptors EXCEPT ![next] = NewResource])

\* bind() fails: the port is not free.
CreateServerFails == /\ Reading("server") /\ PointTaken(lines[next].point)
                     /\ phase' = "failed"
                     /\ UNCHANGED <<lines, long, next, sender_, receivers_, acceptors, out>>

\* create_udp_receiver(): a line before any sender is skipped.
SkipReceiver == /\ Reading("udp") /\ sender_ = NullSender
                /\ next' = NextLine
                /\ UNCHANGED <<lines, long, sender_, receivers_, acceptors, phase, out>>

ThisReceiver == [sender |-> sender_, line |-> next]

\* A faulty insertion: map::insert keeps the receiver that is there.
Inserted == IF \E r \in receivers_ : SameKey(Local(r), lines[next].local)
            THEN receivers_ ELSE receivers_ \union {ThisReceiver}

\* receivers_[local_bind] = ...: a receiver that is there is replaced.
Assigned == {r \in receivers_ : ~SameKey(Local(r), lines[next].local)} \union {ThisReceiver}

\* connected_udp_socket() binds with reuse_address: the receiver that is
\* replaced still has the port, and that is no error.
CreateReceiver == /\ Reading("udp") /\ sender_ # NullSender
                  /\ receivers_' = Assigned
                  /\ next' = NextLine
                  /\ UNCHANGED <<lines, long, sender_, phase, out>>
                  /\ acceptors' = Kept(acceptors)

\* tunnel::run().
Run == /\ phase = "parsing" /\ next > Len(lines)
       /\ phase' = "running"
       /\ UNCHANGED <<lines, long, next, sender_, receivers_, acceptors, out>>

-----------------------------------------------------------------------------
\* on_accept() of an acceptor that was given up, which is destroyed with it.
OnAcceptIgnored(i) == /\ phase = "running" /\ acceptors[i].op = "aborted"
                      /\ acceptors' = [acceptors EXCEPT ![i] = NoResource]
                      /\ UNCHANGED <<lines, long, next, sender_, receivers_, phase, out>>

\* The receivers whose sockets the kernel has bound to this point and whose
\* handlers do more than end a receiver that was replaced.
BoundTo(point) == {r \in receivers_ : Kernel(Local(r)) = point}

\* A datagram comes to a UDP port.  The kernel gives it to one of the sockets
\* that are bound there; it goes through the receiver's sender, to one client
\* or to all, and out of the udp_sender of the other side.
Datagram(point, data) ==
    /\ phase = "running"
    /\ \E r \in BoundTo(point) :
          LET route == lines[r.line].route
          IN out' = [at |-> point, sender |-> r.sender, to |-> route.to,
                     sent |-> data, came |-> Split(Unite(data, route.remote))]
    /\ UNCHANGED <<lines, long, next, sender_, receivers_, acceptors, phase>>

Next == \/ Blank \/ Invalid \/ CreateClient \/ CreateServer \/ CreateServerFails
        \/ SkipReceiver \/ CreateReceiver \/ Run
        \/ \E i \in LineNos : OnAcceptIgnored(i)
        \/ \E p \in Locals, data \in Payloads : Datagram(Kernel(p), data)

Spec == Init /\ [][Next]_vars
-----------------------------------------------------------------------------
\* The reference: the lines that are read, and what those before line n mean.
Read(n) == {i \in 1..(n - 1) : i \in DOMAIN lines /\ (long = 0 \/ i <= long)}

SenderLines(n) == {i \in Read(n) : lines[i].kind \in {"client", "server"}}

UdpLines(n) == {i \in Read(n) : lines[i].kind = "udp" /\ SenderLines(i) # {}}

\* For every local endpoint the last udp line for it, and the sender above it.
Meaning(n) == {[sender |-> Max(SenderLines(i)), line |-> i] :
                  i \in {j \in UdpLines(n) : \A k \in UdpLines(n) :
                            lines[k].local = lines[j].local => k <= j}}

\* Line i cannot be carried out: it is no line of a configuration, or has the
\* port of an earlier server, be that replaced or not.
Refused(i) == \/ lines[i].kind = "invalid"
              \/ /\ lines[i].kind = "server"
                 /\ \E j \in SenderLines(i) :
                       /\ lines[j].kind = "server"
                       /\ Kernel(lines[j].point) = Kernel(lines[i].point)

\* Once the tunnel runs it has for every local endpoint the receiver of the
\* last udp line for it, which relays to the sender of the last tcp line above,
\* whatever was replaced or skipped on the way.
RunsAsWritten == phase = "running" => receivers_ = Meaning(Len(lines) + 1)

\* The program starts exactly if no line that it reads is refused, and fails at
\* the first one that is: a tcp_server line cannot be repeated, not even when
\* another tcp line has replaced the server and nothing relays to it; a udp line
\* can be repeated always.
StartsUnlessRefused ==
    /\ phase = "running" => \A i \in Read(Len(lines) + 1) : ~Refused(i)
    /\ phase = "failed" => Refused(next) /\ \A i \in Read(next) : ~Refused(i)

\* A datagram comes out whole, at the remote endpoint of the last line for a
\* local endpoint that the kernel cannot tell from the one it came to, through
\* the sender and to the client of that line.
RelayedToConfigured ==
    out # Nothing =>
        \E r \in Meaning(Len(lines) + 1) :
            /\ Kernel(Local(r)) = out.at
            /\ out.sender = r.sender /\ out.to = lines[r.line].route.to
            /\ out.came = [dest |-> Kernel(lines[r.line].route.remote), data |-> out.sent]
-----------------------------------------------------------------------------
\* How far the file has been read.
Position == /\ next <= Len(lines) + 1
            /\ long = 0 \/ next <= long \/ next = Len(lines) + 1
            /\ phase = "running" => next > Len(lines)
            /\ phase = "failed" => next <= Len(lines)

\* The sender is that of the last tcp line.
SenderAsWritten == /\ sender_ \in SenderLines(next) \union {NullSender}
                   /\ \A i \in SenderLines(next) : i <= sender_

\* Every server that was made has an acceptor, or what is left of one, until the
\* io_service runs.
ServerLines(n) == {i \in SenderLines(n) : lines[i].kind = "server"}

AcceptorsAsWritten ==
    \A i \in LineNos :
        /\ acceptors[i] \in {NoResource, NewResource, Release(NewResource)}
        /\ acceptors[i] # NoResource => i \in ServerLines(next)
        /\ phase # "running" /\ i \in ServerLines(next) => acceptors[i] # NoResource

\* A datagram that came out went in at a receiver of the map, and through its
\* sender.
OutAsRelayed ==
    out # Nothing =>
        /\ out.sent \in Payloads
        /\ \E r \in receivers_ :
              LET route == lines[r.line].route
              IN /\ Kernel(Local(r)) = out.at
                 /\ out.sender = r.sender /\ out.to = route.to
                 /\ out.came = Split(Unite(out.sent, route.remote))

\* The inductive invariant: at every line the tunnel is what the lines above it
\* mean, and none of them is refused.
IInv == /\ TypeOK
        /\ Position
        /\ SenderAsWritten
        /\ AcceptorsAsWritten
        /\ OutAsRelayed
        /\ receivers_ = Meaning(next)
        /\ \A i \in Read(next) : ~Refused(i)
        /\ phase = "failed" => Refused(next)
=============================================================================
