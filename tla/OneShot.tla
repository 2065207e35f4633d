------------------------------- MODULE OneShot -------------------------------
(***************************************************************************)
(* What async_timer promises its user: at most one wait is armed; a wait   *)
(* replaces the one before, cancel() disarms it, and the callback runs     *)
(* once for a wait that was neither replaced nor cancelled.                *)
(***************************************************************************)
EXTENDS Naturals

VARIABLES armed,    \* a wait is due
          parity    \* flipped by every call of the callback

Init == armed = FALSE /\ parity = 0

Wait == armed' = TRUE /\ UNCHANGED parity

Cancel == armed /\ armed' = FALSE /\ UNCHANGED parity

Fire == armed /\ armed' = FALSE /\ parity' = 1 - parity

Next == Wait \/ Cancel \/ Fire

Spec == Init /\ [][Next]_<<armed, parity>>
=============================================================================
