------------------------------ MODULE LossyFifo ------------------------------
(***************************************************************************)
(* What the tunnel promises to the users of UDP: datagrams may be lost,    *)
(* and those that come out come out whole, in order and at most once.      *)
(***************************************************************************)
EXTENDS Naturals

VARIABLES sent,   \* datagrams put in, numbered from 1
          last    \* the one that came out last

Init == sent = 0 /\ last = 0

Put == sent' = sent + 1 /\ UNCHANGED last

Get == last' \in (last + 1)..sent /\ UNCHANGED sent

Next == Put \/ Get

Spec == Init /\ [][Next]_<<sent, last>>
=============================================================================
