-------------------------------- MODULE Pinger --------------------------------
(***************************************************************************)
(* ping.cpp async_pinger: an echo request, a timeout and a receive race    *)
(* each other.  The owner's cancel() reaches the socket and not the timer. *)
(* The pinger is compiled into the tunnel, and nothing calls it yet.       *)
(***************************************************************************)
EXTENDS AutoCancel, PingPacket

CONSTANTS Pids,    \* identifiers of the process
          Times,   \* milliseconds since 1970 when the request is sent
          Options  \* bytes of options in the header of a packet

ASSUME NumbersAssumption ==
    /\ Pids \subseteq Nat /\ Times \subseteq Nat
    /\ Options \subseteq {n \in 0..40 : n % 4 = 0}

VARIABLES pinger,   \* the impl; its operation is the receive
          send,     \* the operation that sends the echo request
          timer,    \* the operation that waits for the timeout
          request,  \* what the request is made of: getpid() and time_sent_
          packet,   \* the packet in reply_buffer_, or NoPacket
          answers,  \* the calls of on_pinged_, in order: was it a success?
          aborted   \* an assertion has failed and the process is gone

vars == <<pinger, send, timer, request, packet, answers, aborted>>

Destination == <<10, 0, 0, 1>>
Elsewhere == <<10, 0, 0, 2>>

get_identifier == Short(request.pid)
unique_number == Short(request.time_sent_)

\* The ICMP messages a host receives while it pings: replies to this request, to
\* one of another process and to an earlier one; the request, if the host pings
\* itself; and that a destination is unreachable.  Some packets are cut short.
Message == [type : {echo_reply}, identifier : {get_identifier, Short(request.pid + 1)},
            number : {unique_number, Short(request.time_sent_ + 1)}]
           \union {[type |-> echo_request, identifier |-> get_identifier,
                    number |-> unique_number],
                   [type |-> 3, identifier |-> 0, number |-> 0]}
Packet == [source : {Destination, Elsewhere}, options : Options, icmp : Message,
           whole : BOOLEAN]
NoPacket == [whole |-> FALSE]

\* The bytes in reply_buffer_.
Bytes(p) ==
    IF p = NoPacket THEN <<>>
    ELSE LET icmp == Sealed(p.icmp.type, p.icmp.identifier, p.icmp.number)
         IN Ipv4(p.source, p.options, IF p.whole THEN icmp ELSE SubSeq(icmp, 1, 7))

\* The types, and: the flag is raised by giving the pinger up, and only so.
TypeOK == /\ pinger \in Resource
          /\ pinger.cancelled <=> ~pinger.owned
          /\ send \in OpState /\ timer \in OpState
          /\ request \in [pid : Pids, time_sent_ : Times]
          /\ IF pinger.op = "ok" THEN packet \in Packet ELSE packet = NoPacket
          /\ answers \in Seq(BOOLEAN)
          /\ aborted \in BOOLEAN

\* create(): start_ping() has sent the request, armed the timer and started to
\* receive.
Init == /\ pinger = NewResource
        /\ send = "pending" /\ timer = "pending"
        /\ request \in [pid : Pids, time_sent_ : Times]
        /\ packet = NoPacket
        /\ answers = <<>>
        /\ aborted = FALSE

-----------------------------------------------------------------------------
\* The owner, in a callback of another object.
GiveUp == /\ ~aborted /\ pinger.owned
          /\ pinger' = Release(pinger)
          /\ send' = Abort(send)
          /\ UNCHANGED <<timer, answers, aborted, request, packet>>

\* The kernel.
SendCompletes == /\ ~aborted /\ send = "pending"
                 /\ send' \in {"ok", "other"}
                 /\ UNCHANGED <<pinger, timer, answers, aborted, request, packet>>

TimerExpires == /\ ~aborted /\ timer = "pending"
                /\ timer' = "ok"
                /\ UNCHANGED <<pinger, send, answers, aborted, request, packet>>

\* Any ICMP packet that the host receives completes the receive.
ReceiveCompletes == /\ ~aborted /\ pinger.op = "pending"
                    /\ \/ /\ pinger' = [pinger EXCEPT !.op = "ok"]
                          /\ packet' \in Packet
                       \/ /\ pinger' = [pinger EXCEPT !.op = "other"]
                          /\ UNCHANGED packet
                    /\ UNCHANGED <<send, timer, request, answers, aborted>>

-----------------------------------------------------------------------------
\* on_send(): assert(bytes_transferred == sizeof(icmp_header)); a send that
\* failed or was aborted has transferred nothing.
OnSend == /\ ~aborted /\ send \in Queued
          /\ send' = "none"
          /\ aborted' = (send # "ok")
          /\ UNCHANGED <<pinger, timer, answers, request, packet>>

\* A faulty on_timeout(): an expired timer says nothing.
NoAnswer(ok) == UNCHANGED answers

Answer(ok) == answers' = Append(answers, ok)

\* on_timeout() without an error: the answer is no, and the socket is cancelled.
OnTimeoutExpired == /\ ~aborted /\ timer = "ok"
                    /\ timer' = "none"
                    /\ Answer(FALSE)
                    /\ pinger' = [pinger EXCEPT !.op = Abort(@)]
                    /\ send' = Abort(send)
                    /\ UNCHANGED <<request, packet, aborted>>

OnTimeoutAborted == /\ ~aborted /\ timer = "aborted"
                    /\ timer' = "none"
                    /\ UNCHANGED <<pinger, send, answers, aborted, request, packet>>

\* A faulty on_receive(): it goes on receiving whatever has happened.
NeverIgnored == FALSE

\* on_receive(): "if (cancelled()) return; if (code) return;"
Ignored == Cancelled(pinger) \/ pinger.op # "ok"

OnReceiveIgnored == /\ ~aborted /\ pinger.op \in Queued
                    /\ Ignored
                    /\ pinger' = [pinger EXCEPT !.op = "none"]
                    /\ packet' = NoPacket
                    /\ UNCHANGED <<send, timer, request, answers, aborted>>

\* A faulty reply: the next packet is received although the reply is there.
KeepsReceiving(r) == [r EXCEPT !.op = "pending"]

EndsReceiving(r) == [r EXCEPT !.op = "none"]

Found == IsReply(Bytes(packet), Destination, get_identifier, unique_number)

\* The packet is the reply: the timer is cancelled, and the answer is yes.
OnReceiveReply == /\ ~aborted /\ pinger.op \in Queued
                  /\ ~Ignored /\ Found
                  /\ pinger' = EndsReceiving(pinger)
                  /\ timer' = Abort(timer)
                  /\ Answer(TRUE)
                  /\ packet' = NoPacket
                  /\ UNCHANGED <<send, request, aborted>>

\* The packet is another one: start_receive() again, with an empty buffer.
OnReceiveForeign == /\ ~aborted /\ pinger.op \in Queued
                    /\ ~Ignored /\ ~Found
                    /\ pinger' = [pinger EXCEPT !.op = "pending"]
                    /\ packet' = NoPacket
                    /\ UNCHANGED <<send, timer, request, answers, aborted>>

HandleReceive == OnReceiveIgnored \/ OnReceiveReply \/ OnReceiveForeign

HandleTimer == OnTimeoutExpired \/ OnTimeoutAborted

Next == \/ GiveUp
        \/ SendCompletes \/ TimerExpires \/ ReceiveCompletes
        \/ OnSend \/ HandleTimer \/ HandleReceive

\* The kernel sends, the timeout passes and the io_service runs the handlers;
\* nobody has to answer.
Fairness == /\ WF_vars(SendCompletes)
            /\ WF_vars(TimerExpires)
            /\ WF_vars(OnSend)
            /\ WF_vars(HandleTimer)
            /\ WF_vars(HandleReceive)

Spec == Init /\ [][Next]_vars /\ Fairness
-----------------------------------------------------------------------------
\* The owner is told of a success once at most and of a timeout once at most:
\* a second receive is never started once the reply has been found.
OneAnswerOfAKind == \A i, j \in 1..Len(answers) : answers[i] = answers[j] => i = j

\* The owner that waits gets an answer, unless the process is gone.
Answered == <>(answers # <<>> \/ ~pinger.owned \/ aborted)

\* A pinger that is given up ends all its operations and is destroyed.
Ended == pinger.op = "none" /\ send = "none" /\ timer = "none"
ReleasedPingerEnds == ~pinger.owned ~> Ended \/ aborted

\* The answer to this request: the destination's, whole, with its numbers.
Genuine(p) == p = [source |-> Destination, options |-> p.options, whole |-> TRUE,
                   icmp |-> [type |-> echo_reply, identifier |-> get_identifier,
                             number |-> unique_number]]

\* A host that is pinged accepts the request, and its reply ends the ping
\* whatever options the packet has; no other ICMP packet that the raw socket
\* receives is taken for the reply or stops the receiving.
RepliesAreRecognised ==
    /\ ChecksOut(EchoRequest(get_identifier, unique_number))
    /\ [][/\ OnReceiveReply => Genuine(packet)
          /\ OnReceiveForeign => ~Genuine(packet)]_vars

\* ping.cpp:65 asserts that the request has been sent; the handler is not told
\* when it has not.
RequestIsSent == ~aborted

\* ping.cpp:84 "Wait up to timeout seconds for a reply": the owner that was
\* told of the timeout is not told of a reply any more.
NoReplyAfterTimeout ==
    \A i, j \in 1..Len(answers) : answers[i] = FALSE /\ answers[j] = TRUE => j < i
-----------------------------------------------------------------------------
Given == {answers[i] : i \in 1..Len(answers)}

\* An answer ends what gives it: after the reply nothing is received any more,
\* after the timeout no timer runs.
AnswerEndsItsSource == /\ TRUE \in Given => pinger.op = "none"
                       /\ FALSE \in Given => timer = "none"

\* The inductive invariant.
IInv == /\ TypeOK
        /\ OneAnswerOfAKind
        /\ AnswerEndsItsSource
=============================================================================
