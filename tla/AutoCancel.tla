----------------------------- MODULE AutoCancel -----------------------------
(***************************************************************************)
(* auto_cancel.h: the cancellation protocol every asynchronous object of   *)
(* the tunnel follows.  An object that starts operations on a timer or a   *)
(* socket is a resource: it is kept alive by the handlers bound to it and  *)
(* by the auto_cancel_ptr that owns it.  Giving it up sets a flag and      *)
(* cancels the operations; a handler that was already queued still runs,   *)
(* and only the flag tells it to do nothing.                               *)
(*                                                                         *)
(* An operation is "none" while it is not started, "pending" while the     *)
(* kernel has it, and carries its completion code while its handler is     *)
(* queued in the io_service.  cancel() of a socket or of a timer turns     *)
(* only a pending operation into an aborted one: a queued completion       *)
(* keeps its code (boost::asio's contract).                                *)
(***************************************************************************)

Queued == {"ok", "refused", "drop", "other", "aborted"}
OpState == {"none", "pending"} \union Queued

Resource == [owned : BOOLEAN, cancelled : BOOLEAN, attached : BOOLEAN,
             op : OpState]

\* A freshly created resource, its first operation just started.
NewResource == [owned |-> TRUE, cancelled |-> FALSE, attached |-> TRUE,
                op |-> "pending"]

\* What is left of a resource whose memory has been given back.
NoResource == [owned |-> FALSE, cancelled |-> TRUE, attached |-> FALSE,
               op |-> "none"]

\* No owner and no handler refers to the object: it has been destroyed.
Destroyed(r) == ~r.owned /\ r.op = "none"

\* boost::asio: cancel() of one operation.
Abort(op) == IF op = "pending" THEN "aborted" ELSE op

Cancelled(r) == r.cancelled

\* cancel(): raise the flag and cancel the attached timer or socket.
Cancel(r) == [r EXCEPT !.cancelled = TRUE,
                       !.op = IF r.attached THEN Abort(@) ELSE @]

\* detach_resource(): the socket has been moved out of the object.
Detach(r) == [r EXCEPT !.attached = FALSE]

\* auto_cancel_ptr::reset() and its destructor.
Release(r) == [Cancel(r) EXCEPT !.owned = FALSE]
=============================================================================
