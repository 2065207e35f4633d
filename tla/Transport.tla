------------------------------ MODULE Transport ------------------------------
(***************************************************************************)
(* One underlying_transport_impl with its owner, its socket and the        *)
(* io_service.  The owner sends and gives the transport up at any time, as *)
(* a callback of another object; when the transport reports a lost         *)
(* connection the owner gives it up inside the report, as the TCP client   *)
(* and the TCP server of the tunnel do (tcp_service.cpp on_error ->        *)
(* on_disconnected).  Queued handlers run in any order.                    *)
(***************************************************************************)
EXTENDS TransportOps

CONSTANTS Units,    \* units of a message: several for TCP, 1 for UDP
          DropOn,   \* codes on which the owner gives the transport up
          MaxMsgs   \* bound on the messages accepted in a behaviour

ASSUME UnitsAssumption == Units \in Nat \ {0}
ASSUME DropOnAssumption == DropOn \subseteq {"drop", "other"}
ASSUME MaxMsgsAssumption == MaxMsgs \in Nat

VARIABLES t,          \* the transport
          accepted,   \* messages send() has taken
          wire,       \* last unit the kernel has taken: <<message, unit>>
          received,   \* flipped by every call of on_receive_
          reported    \* the calls of on_error_, in order

vars == <<t, accepted, wire, received, reported>>

Errors == {"drop", "other"}

\* Who calls on_error_, and with what.
Report == [by : {"send", "receive"}, code : Errors]

TypeOK == /\ t \in TransportState(1..MaxMsgs, Units)
          /\ accepted \in 0..MaxMsgs
          /\ wire \in (0..MaxMsgs) \X (1..Units)
          /\ received \in BOOLEAN
          /\ reported \in Seq(Report)

Init == /\ t = NewTransport
        /\ accepted = 0
        /\ wire = <<0, Units>>
        /\ received = FALSE
        /\ reported = <<>>

-----------------------------------------------------------------------------
\* The owner.
AcceptMsg == /\ t.owned
             /\ accepted < MaxMsgs
             /\ accepted' = accepted + 1
             /\ t' = Send(t, accepted + 1)
             /\ UNCHANGED <<wire, received, reported>>

GiveUp == /\ t.owned
          /\ t' = ReleaseTransport(t)
          /\ UNCHANGED <<accepted, wire, received, reported>>

-----------------------------------------------------------------------------
\* The kernel and the composed write of boost::asio.
WriteSteps(w, code) == [t EXCEPT !.writes = (@ \ {w}) \union {[w EXCEPT !.code = code]}]

\* The socket takes one unit of the message being written.
PutUnit(w) ==
    /\ w.code = "pending"
    /\ wire' = <<w.msg, w.sent + 1>>
    /\ t' = [t EXCEPT !.writes = (@ \ {w}) \union
                {[w EXCEPT !.sent = @ + 1,
                           !.code = IF w.sent + 1 = Units THEN "ok" ELSE "again"]}]
    /\ UNCHANGED <<accepted, received, reported>>

\* async_write's own handler: ask the socket for the rest, cancelled or not.
Continue(w) == /\ w.code = "again"
               /\ t' = WriteSteps(w, "pending")
               /\ UNCHANGED <<accepted, wire, received, reported>>

WriteFails(w) == /\ w.code = "pending"
                 /\ \E code \in Errors : t' = WriteSteps(w, code)
                 /\ UNCHANGED <<accepted, wire, received, reported>>

\* Data, end of file or an error: the receive completes.
ReadCompletes == /\ t.op = "pending"
                 /\ \E code \in Errors \union {"ok"} : t' = [t EXCEPT !.op = code]
                 /\ UNCHANGED <<accepted, wire, received, reported>>

-----------------------------------------------------------------------------
\* The handlers.
Handlable(w) == w.code \notin {"pending", "again"}

\* A faulty on_error(): tcp_socket tells the owner, which keeps the transport.
ReportKeeps(ended, by, code) ==
    /\ t' = ended
    /\ reported' = Append(reported, [by |-> by, code |-> code])

\* on_error_(code): tcp_socket::impl::on_error sorts the code, and the owner
\* gives the transport up inside the callback for those of DropOn.
ReportError(ended, by, code) ==
    /\ t' = IF code \in DropOn /\ t.owned THEN ReleaseTransport(ended) ELSE ended
    /\ reported' = Append(reported, [by |-> by, code |-> code])

\* Faulty handlers: on_send() and on_receive() without their first line.
NeverIgnored == FALSE

\* The first line of on_send() and of on_receive().
Ignored == Cancelled(t)

OnSendIgnored(w) == /\ Handlable(w) /\ Ignored
                    /\ t' = OnSendEnds(t, w)
                    /\ UNCHANGED <<accepted, wire, received, reported>>

OnSendError(w) == /\ Handlable(w) /\ ~Ignored /\ w.code # "ok"
                  /\ ReportError(OnSendEnds(t, w), "send", w.code)
                  /\ UNCHANGED <<accepted, wire, received>>

OnSendDone(w) == /\ w.code = "ok" /\ ~Ignored
                 /\ t' = OnSendOk(t, w)
                 /\ UNCHANGED <<accepted, wire, received, reported>>

OnReceiveIgnored == /\ t.op \in Queued /\ Ignored
                    /\ t' = OnReceiveEnds(t)
                    /\ UNCHANGED <<accepted, wire, received, reported>>

OnReceiveError == /\ t.op \in Queued \ {"ok"} /\ ~Ignored
                  /\ ReportError(OnReceiveEnds(t), "receive", t.op)
                  /\ UNCHANGED <<accepted, wire, received>>

OnReceiveData == /\ t.op = "ok" /\ ~Ignored
                 /\ received' = ~received
                 /\ t' = OnReceiveOk(t)
                 /\ UNCHANGED <<accepted, wire, reported>>

HandleSend(w) == OnSendIgnored(w) \/ OnSendError(w) \/ OnSendDone(w)

HandleReceive == OnReceiveIgnored \/ OnReceiveError \/ OnReceiveData

Next == \/ AcceptMsg
        \/ GiveUp
        \/ ReadCompletes
        \/ HandleReceive
        \/ \E w \in t.writes : \/ PutUnit(w)
                               \/ Continue(w)
                               \/ WriteFails(w)
                               \/ HandleSend(w)

\* The io_service runs every queued handler, and the peer reads: the kernel
\* always takes the next unit in the end.  Nobody has to send, to fail, to
\* answer or to give the transport up.
Fairness == /\ WF_vars(HandleReceive)
            /\ WF_vars(\E w \in t.writes : PutUnit(w))
            /\ WF_vars(\E w \in t.writes : Continue(w))
            /\ WF_vars(\E w \in t.writes : HandleSend(w))

Spec == Init /\ [][Next]_vars /\ Fairness
-----------------------------------------------------------------------------
\* send() and on_send() keep the accepted messages in order, whole and
\* unmixed on the wire, whatever the interleaving of calls, completions,
\* failures and cancellation.
Link == INSTANCE FifoLink
ImplementsFifoLink == Link!Spec

SendFailed == \E i \in 1..Len(reported) : reported[i].by = "send"

\* ready_send_ and msgs_ agree: a message is never left in the queue with no
\* write under way that would pick it up, unless a send has failed or the
\* transport is given up.
NoStrandedMessage == t.msgs # <<>> => t.writes # {} \/ SendFailed \/ ~t.owned

\* At most one write at a time: the parts of two composed writes would mix on
\* the stream.
OneWriteAtATime == \A v, w \in t.writes : v = w

\* The owner hears of a lost connection at most once: the handler that is
\* queued behind the first report finds the flag set, though its own code
\* says "connection reset".
OneLossReported ==
    \A i, j \in 1..Len(reported) :
        reported[i].code \in DropOn /\ reported[j].code \in DropOn => i = j

\* A failed send silences the transport for good: it is not ready any more and
\* nothing is under way, so what send() takes is queued and never written.  No
\* message follows one that was cut off; an owner that only prints the error
\* keeps a transport whose queue grows.
SilencedByFailure == SendFailed => ~t.ready /\ t.writes = {}

-----------------------------------------------------------------------------
\* Once given up the transport calls nobody and starts nothing: its callbacks
\* and its strategy belong to an owner that is gone.
SilentOnceReleased ==
    [][~t.owned => /\ UNCHANGED <<accepted, received, reported>>
                   /\ t'.op = "pending" => t.op = "pending"
                   /\ \A w \in t'.writes : \E v \in t.writes : v.msg = w.msg]_vars

\* Every accepted message is written in full unless a send fails or the owner
\* gives the transport up.
AcceptedIsSent ==
    \A m \in 1..MaxMsgs :
        accepted >= m ~> \/ wire[1] > m
                         \/ wire = <<m, Units>>
                         \/ SendFailed
                         \/ ~t.owned

\* A transport given up closes its socket: no handler keeps it for ever.
ReleasedIsClosed == ~t.owned ~> Closed(t)
-----------------------------------------------------------------------------
\* The queue holds the messages accepted last, in order.
QueueInOrder ==
    /\ Len(t.msgs) <= accepted
    /\ \A k \in 1..Len(t.msgs) : t.msgs[k] = accepted - Len(t.msgs) + k

\* The message before the queue is the one being written, and the wire ends
\* with the part of it that the kernel has taken.
WriteAligned ==
    \A w \in t.writes :
        /\ w.msg = accepted - Len(t.msgs)
        /\ wire = IF w.sent = 0 THEN <<w.msg - 1, Units>> ELSE <<w.msg, w.sent>>
        /\ w.code \in {"pending", "again"} => w.sent < Units
        /\ w.code = "ok" => w.sent = Units

\* ready_send_ is set exactly when there is nothing to do.
ReadyIsIdle ==
    t.ready => t.writes = {} /\ t.msgs = <<>> /\ wire = <<accepted, Units>>

\* A sender that is neither ready nor writing has failed or been given up.
NotReadyIsBusy ==
    ~t.ready => t.writes # {} \/ SendFailed \/ ~t.owned

CancelledWhenReleased == t.cancelled <=> ~t.owned

LossReleases ==
    \A i \in 1..Len(reported) : reported[i].code \in DropOn => ~t.owned

\* Only cancel() aborts an operation.
AbortedWhenCancelled ==
    /\ t.op # "refused"
    /\ t.op = "aborted" => t.cancelled
    /\ \A w \in t.writes : w.code = "aborted" => t.cancelled

\* The inductive invariant: what ties the queue, the write under way, the
\* ready flag and the wire together at every moment.
IInv == /\ TypeOK
        /\ QueueInOrder
        /\ OneWriteAtATime
        /\ WriteAligned
        /\ ReadyIsIdle
        /\ NotReadyIsBusy
        /\ CancelledWhenReleased
        /\ AbortedWhenCancelled
        /\ LossReleases
        /\ OneLossReported
=============================================================================
