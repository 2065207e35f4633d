------------------------------ MODULE HostBytes ------------------------------
(***************************************************************************)
(* Numbers as the bytes of a little-endian host, which the program sends   *)
(* as they lie in memory: the size of a message (tcp_service.cpp) and the  *)
(* endpoint in front of a datagram (net_common.h).                         *)
(***************************************************************************)
EXTENDS Integers, Sequences

\* The powers of the number of values of a byte.
Power(base, k) ==
    LET p[i \in Nat] == IF i = 0 THEN 1 ELSE base * p[i - 1] IN p[k]

\* The lowest `width` bytes of n: a conversion to a narrower type cuts n.
ToBytes(n, width, base) == [i \in 1..width |-> (n \div Power(base, i - 1)) % base]

FromBytes(bytes, base) ==
    LET upTo[i \in 0..Len(bytes)] ==
            IF i = 0 THEN 0 ELSE upTo[i - 1] + bytes[i] * Power(base, i - 1)
    IN upTo[Len(bytes)]
=============================================================================
