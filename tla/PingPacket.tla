------------------------------ MODULE PingPacket ------------------------------
(***************************************************************************)
(* icmp_header.h and ipv4_header.h as ping.cpp uses them: the bytes of an  *)
(* echo request, and the test whether a packet is the reply to it.  A raw  *)
(* socket receives every ICMP packet of the host, with its IPv4 header.    *)
(***************************************************************************)
EXTENDS Naturals, Sequences

echo_reply == 0
echo_request == 8

\* unsigned short, which the identifier and the number are cast to.
Short(n) == n % 65536

encode(n) == <<n \div 256, n % 256>>

\* decode(a, b): bytes are counted from 0.
decode(rep, a, b) == rep[a + 1] * 256 + rep[b + 1]

Icmp(type, code, checksum, identifier, number) ==
    <<type, code>> \o encode(checksum) \o encode(identifier) \o encode(number)

\* compute_checksum() without a body: the sum of the 16-bit words, with its
\* carries added, inverted.
compute_checksum(type, code, identifier, number) ==
    LET sum == type * 256 + code + identifier + number
        folded == (sum \div 65536) + (sum % 65536)
    IN 65535 - Short(folded + (folded \div 65536))

\* A header with its checksum.
Sealed(type, identifier, number) ==
    Icmp(type, 0, compute_checksum(type, 0, identifier, number), identifier, number)

\* send_request().
EchoRequest(identifier, number) == Sealed(echo_request, identifier, number)

-----------------------------------------------------------------------------
version(packet) == packet[1] \div 16
header_length(packet) == (packet[1] % 16) * 4
source_address(packet) == SubSeq(packet, 13, 16)

\* "is >> ipv4_hdr >> icmp_hdr" has read all that it wants.
Readable(packet) == /\ Len(packet) >= 20
                    /\ version(packet) = 4
                    /\ header_length(packet) >= 20
                    /\ Len(packet) >= header_length(packet) + 8

\* A faulty parser: it does not read the options of the IPv4 header.
HeaderAfter20(packet) == SubSeq(packet, 21, 28)

icmp_hdr(packet) == SubSeq(packet, header_length(packet) + 1, header_length(packet) + 8)

\* The condition of on_receive().
IsReply(packet, destination, identifier, number) ==
    /\ Readable(packet)
    /\ source_address(packet) = destination
    /\ icmp_hdr(packet)[1] = echo_reply
    /\ decode(icmp_hdr(packet), 4, 5) = identifier
    /\ decode(icmp_hdr(packet), 6, 7) = number

-----------------------------------------------------------------------------
\* The other hosts: the 16-bit words of a valid ICMP header add up to all ones
\* (that is a multiple of 65535), and a host ignores any other.
ChecksOut(icmp) == (decode(icmp, 0, 1) + decode(icmp, 2, 3)
                    + decode(icmp, 4, 5) + decode(icmp, 6, 7)) % 65535 = 0

Zeros(n) == [i \in 1..n |-> 0]

\* An IPv4 packet, with `options` bytes of options (a multiple of 4).
Ipv4(source, options, icmp) ==
    <<64 + 5 + (options \div 4)>> \o Zeros(11) \o source \o Zeros(4 + options) \o icmp
=============================================================================
