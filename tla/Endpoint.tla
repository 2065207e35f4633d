------------------------------- MODULE Endpoint -------------------------------
(***************************************************************************)
(* net_common.h endpoint, and the header that tunnel_udp_service.cpp puts  *)
(* in front of a datagram.  A port is kept as wide as it was written; the  *)
(* kernel and the header have PortBytes bytes for it.                      *)
(***************************************************************************)
EXTENDS HostBytes

CONSTANTS Base,       \* number of values of a byte
          AddrBytes,  \* sizeof(uint32_t)
          PortBytes   \* sizeof(uint16_t)

ASSUME WidthsAssumption ==
    Base \in Nat \ {0, 1} /\ AddrBytes \in Nat \ {0} /\ PortBytes \in Nat \ {0}

Endpoint == [addr : 0..(Power(Base, AddrBytes) - 1), port : Nat]

\* endpoint(): no address and no port.
NoPoint == [addr |-> 0, port |-> 0]

\* operator tcp::endpoint(), operator udp::endpoint(): the point that the kernel
\* is asked for.
Kernel(p) == [p EXCEPT !.port = @ % Power(Base, PortBytes)]

\* operator<, the order of a map's keys.
Less(p, q) == p.addr < q.addr \/ (p.addr = q.addr /\ p.port < q.port)

SameKey(p, q) == ~Less(p, q) /\ ~Less(q, p)

serialize_size == AddrBytes + PortBytes

Serialize(p) == ToBytes(p.addr, AddrBytes, Base) \o ToBytes(p.port, PortBytes, Base)

\* A faulty endpoint(bytes): the port is read first.
DeserializeSwapped(bytes) ==
    [addr |-> FromBytes(SubSeq(bytes, PortBytes + 1, serialize_size), Base),
     port |-> FromBytes(SubSeq(bytes, 1, PortBytes), Base)]

\* endpoint(bytes).
Deserialize(bytes) ==
    [addr |-> FromBytes(SubSeq(bytes, 1, AddrBytes), Base),
     port |-> FromBytes(SubSeq(bytes, AddrBytes + 1, serialize_size), Base)]

-----------------------------------------------------------------------------
\* An optional is the set of its value, or empty.
ValueOr(optional, default) == IF optional = {} THEN default
                              ELSE CHOOSE value \in optional : TRUE

\* The peer of a udp_socket that is made with this remote_server.
remote_peer(remote_server) == Kernel(ValueOr(remote_server, NoPoint))

\* udp_transfer_strategy::async_send(): where the kernel is asked to send a
\* message with this destination.
SentTo(dest, peer) == ValueOr({Kernel(p) : p \in dest}, peer)

\* unite_with_endpoint(), and what udp_sender::send() takes apart again; the
\* socket of a udp_sender has no peer.
Unite(data, point) == Serialize(point) \o data

Split(msg) == [dest |-> SentTo({Deserialize(msg)}, remote_peer({})),
               data |-> SubSeq(msg, serialize_size + 1, Len(msg))]
=============================================================================
