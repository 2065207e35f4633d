------------------------------ MODULE FifoLink ------------------------------
(***************************************************************************)
(* What a transport promises its owner: the messages it accepts appear on  *)
(* the wire in the order of the calls, each whole, none twice, none        *)
(* between the parts of another.  The wire is summed up by its last unit:  *)
(* <<m, u>> is part u of the m-th accepted message.                        *)
(***************************************************************************)
EXTENDS Naturals

CONSTANT Units      \* parts of a message on the wire

VARIABLES accepted, \* number of messages accepted
          wire      \* last unit on the wire

Next1(u) == IF u[2] = Units THEN <<u[1] + 1, 1>> ELSE <<u[1], u[2] + 1>>

Init == accepted = 0 /\ wire = <<0, Units>>

Accept == accepted' = accepted + 1 /\ UNCHANGED wire

Emit == /\ Next1(wire)[1] <= accepted
        /\ wire' = Next1(wire)
        /\ UNCHANGED accepted

Next == Accept \/ Emit

Spec == Init /\ [][Next]_<<accepted, wire>>
=============================================================================
