----------------------------- MODULE MessageFifo -----------------------------
(***************************************************************************)
(* What a pair of tcp_fragment_wrappers promises on one connection: the    *)
(* receiver gets the messages that were sent, each whole, in order, once.  *)
(***************************************************************************)
EXTENDS Naturals, Sequences

CONSTANT Payload

VARIABLES sent, delivered

Init == sent = <<>> /\ delivered = <<>>

SendMsg == /\ \E p \in Payload : sent' = Append(sent, p)
           /\ UNCHANGED delivered

Deliver == /\ Len(delivered) < Len(sent)
           /\ delivered' = Append(delivered, sent[Len(delivered) + 1])
           /\ UNCHANGED sent

Next == SendMsg \/ Deliver

Safety == Init /\ [][Next]_<<sent, delivered>>

Spec == Safety /\ WF_<<sent, delivered>>(Deliver)
=============================================================================
