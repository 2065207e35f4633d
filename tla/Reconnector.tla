----------------------------- MODULE Reconnector -----------------------------
(***************************************************************************)
(* What tcp_client promises: it is always in exactly one of the phases of  *)
(* a reconnection cycle and moves around it; only an error that is not a   *)
(* refusal can leave it stuck, and only its end can take it out.           *)
(***************************************************************************)
VARIABLE phase

Init == phase = "connecting"

Connected == phase = "connecting" /\ phase' = "connected"

Refused == phase = "connecting" /\ phase' = "waiting"

\* An error nobody expected: reported, and never tried again.
Failed == phase = "connecting" /\ phase' = "stuck"

Lost == phase = "connected" /\ phase' = "waiting"

Retry == phase = "waiting" /\ phase' = "connecting"

Ends == phase \in {"connecting", "waiting"} /\ phase' = "gone"

Next == Connected \/ Refused \/ Failed \/ Lost \/ Retry \/ Ends

\* The cycle without the promise to go on.
Safety == Init /\ [][Next]_phase

\* An attempt comes to an end, and every wait is followed by a new attempt.
Fairness == WF_phase(Connected \/ Refused \/ Failed \/ Ends) /\ WF_phase(Retry \/ Ends)

Spec == Safety /\ Fairness
=============================================================================
