------------------------------ MODULE MCTunnel ------------------------------
(***************************************************************************)
(* Values for model checking Tunnel: with two bits for a port the kernel   *)
(* cannot tell 1 from 5, nor 2 from 6.                                     *)
(***************************************************************************)
EXTENDS Tunnel

MCLocals == [addr : {0}, port : {1, 5}] \union [addr : {1}, port : {1}]
MCPoints == [addr : {0}, port : {1, 5}]
MCRoutes == {[remote |-> [addr |-> 1, port |-> 2], to |-> ""],
             [remote |-> [addr |-> 0, port |-> 6], to |-> "client"]}
MCPayloads == {<<>>, <<0, 1>>}
=============================================================================
