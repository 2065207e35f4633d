---------------------------- MODULE TransportOps ----------------------------
(***************************************************************************)
(* underlying_transport_impl.h as operators on one transport: a cancel     *)
(* resource whose operation is the outstanding receive, with a send queue  *)
(* and the outstanding writes beside it.  TCP writes are composed: the     *)
(* kernel takes a message unit by unit, and between two units the          *)
(* intermediate handler of async_write is queued (code "again").  A UDP    *)
(* datagram is one unit.                                                   *)
(***************************************************************************)
EXTENDS Naturals, Sequences, AutoCancel

WriteCode == (Queued \ {"refused"}) \union {"pending", "again"}

Write(Msg, Units) == [msg : Msg, sent : 0..Units, code : WriteCode]

TransportState(Msg, Units) ==
    [owned : BOOLEAN, cancelled : BOOLEAN, attached : BOOLEAN, op : OpState,
     ready : BOOLEAN, msgs : Seq(Msg), writes : SUBSET Write(Msg, Units)]

\* create(): nothing queued, ready to send, and the first receive started.
NewTransport == [owned |-> TRUE, cancelled |-> FALSE, attached |-> TRUE,
                 op |-> "pending",
                 ready |-> TRUE, msgs |-> <<>>, writes |-> {}]

NoTransport == [owned |-> FALSE, cancelled |-> TRUE, attached |-> FALSE,
                op |-> "none",
                ready |-> FALSE, msgs |-> <<>>, writes |-> {}]

\* Neither the owner nor a handler holds the transport: its socket is closed.
Closed(t) == Destroyed(t) /\ t.writes = {}

\* The memory of a transport nobody holds is given back.
Reclaim(t) == IF Closed(t) THEN NoTransport ELSE t

-----------------------------------------------------------------------------
\* strat_.async_send(): pop one message and hand it to the socket.
StartWrite(t) ==
    [t EXCEPT !.msgs = Tail(@),
              !.writes = @ \union {[msg |-> Head(t.msgs), sent |-> 0,
                                    code |-> "pending"]}]

\* A faulty send(): every message goes straight to the socket.
SendAtOnce(t, m) ==
    [StartWrite([t EXCEPT !.msgs = Append(@, m)]) EXCEPT !.ready = FALSE]

\* send(): queue the message, and write it now if nothing is under way.
Send(t, m) ==
    LET queued == [t EXCEPT !.msgs = Append(@, m)]
    IN IF t.msgs = <<>> /\ t.ready
       THEN [StartWrite(queued) EXCEPT !.ready = FALSE]
       ELSE queued

Done(t, w) == [t EXCEPT !.writes = @ \ {w}]

\* A faulty on_send(): it becomes ready again without looking at the queue.
OnSendOkForgets(t, w) == [Done(t, w) EXCEPT !.ready = TRUE]

\* on_send() without an error: the next message, or ready again.
OnSendOk(t, w) == IF t.msgs # <<>>
                  THEN StartWrite(Done(t, w))
                  ELSE [Done(t, w) EXCEPT !.ready = TRUE]

\* A faulty on_send(): after an error it goes on with the next message.
OnSendEndsReady(t, w) == [Done(t, w) EXCEPT !.ready = TRUE]

\* on_send() when it does nothing (cancelled), or after it called on_error_.
OnSendEnds(t, w) == Done(t, w)

\* A faulty on_receive(): it starts the next receive whatever has happened.
OnReceiveRearms(t) == [t EXCEPT !.op = "pending"]

\* on_receive() when it does nothing (cancelled), or after on_error_: the
\* receive is not started again.
OnReceiveEnds(t) == [t EXCEPT !.op = "none"]

\* on_receive() after the callback: start the next receive.
OnReceiveOk(t) == [t EXCEPT !.op = "pending"]

\* auto_cancel_ptr gives the transport up: the socket's cancel() aborts the
\* receive and the write the kernel has.  A composed write whose
\* intermediate handler is queued goes on: nobody tells it.
ReleaseTransport(t) ==
    [Release(t) EXCEPT
        !.writes = {[w EXCEPT !.code = Abort(@)] : w \in t.writes}]

-----------------------------------------------------------------------------
\* The kernel completes the receive or the write of a transport with one of
\* these codes: the transports it may turn into.  (For the modules that do
\* not look inside a message: a write is one unit.)
Completions(t, codes) ==
    {[t EXCEPT !.op = c] : c \in IF t.op = "pending" THEN codes ELSE {}}
    \union
    {[t EXCEPT !.writes = (@ \ {w}) \union {[w EXCEPT !.code = c]}] :
        w \in {v \in t.writes : v.code = "pending"}, c \in codes}

\* Handlers that the io_service has queued for a transport.
QueuedSends(t) == {w \in t.writes : w.code \in Queued}
ReceiveQueued(t) == t.op \in Queued

-----------------------------------------------------------------------------
\* A queue within its bound, which send() and on_send() keep in step with the
\* ready flag.  (For the invariants of the modules that hold transports.)
Fits(t, bound) == /\ Len(t.msgs) <= bound
                  /\ t.ready => t.msgs = <<>>
=============================================================================
