----------------------------- MODULE MCTcpServer -----------------------------
(***************************************************************************)
(* Two client addresses and three transports: both clients connected, and  *)
(* one replaced connection whose handlers have not run yet.                *)
(***************************************************************************)
EXTENDS TcpServer, TLC

CONSTANTS a1, a2, s1, s2, s3

MCAddrs == {a1, a2}
MCSockets == {s1, s2, s3}

\* Addresses and transports are interchangeable.
MCSymmetry == Permutations(MCAddrs) \union Permutations(MCSockets)
=============================================================================
