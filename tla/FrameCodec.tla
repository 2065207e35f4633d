------------------------------ MODULE FrameCodec ------------------------------
(***************************************************************************)
(* tcp_service.cpp tcp_fragment_wrapper: messages over a byte stream.  The *)
(* sender writes the size and then the data; the receiver is handed the    *)
(* stream in chunks cut anywhere and puts the messages together again.     *)
(* The transport and TCP keep the bytes in order (Transport).              *)
(***************************************************************************)
EXTENDS HostBytes

CONSTANTS HdrSize,   \* sizeof(size_hdr_t)
          Base,      \* number of values of a byte
          MaxSize,   \* bound on the size of a message
          MaxSent    \* bound on the messages sent in a behaviour

ASSUME SizesAssumption ==
    /\ HdrSize \in Nat \ {0} /\ Base \in Nat \ {0, 1} /\ MaxSent \in Nat
    /\ MaxSize \in 0..(Power(Base, HdrSize) - 1)

VARIABLES sent,        \* payloads given to send()
          stream,      \* bytes sent and not yet received
          chunk,       \* the rest of the data on_receive() is looping over
          partial_msg_,
          delivered    \* payloads given to on_receive_

vars == <<sent, stream, chunk, partial_msg_, delivered>>

Byte == 0..(Base - 1)
Payload == UNION {[1..n -> Byte] : n \in 0..MaxSize}

\* The types, and: the buffer never holds more than one whole message.
TypeOK == /\ sent \in Seq(Payload) /\ Len(sent) <= MaxSent
          /\ stream \in Seq(Byte) /\ chunk \in Seq(Byte)
          /\ partial_msg_ \in Seq(Byte) /\ Len(partial_msg_) <= HdrSize + MaxSize
          /\ delivered \in Seq(Payload)

Init == /\ sent = <<>> /\ stream = <<>> /\ chunk = <<>>
        /\ partial_msg_ = <<>> /\ delivered = <<>>

-----------------------------------------------------------------------------
\* A size as bytes, the lowest first, and back.
Header(n) == ToBytes(n, HdrSize, Base)

SizeOf(bytes) == FromBytes(SubSeq(bytes, 1, HdrSize), Base)

\* send(): two messages for the transport, the size and then the data.
SendMsg == /\ Len(sent) < MaxSent
           /\ \E p \in Payload : /\ sent' = Append(sent, p)
                                 /\ stream' = stream \o Header(Len(p)) \o p
           /\ UNCHANGED <<chunk, partial_msg_, delivered>>

\* The transport calls on_receive() with the next bytes, as many as it likes.
Receive == /\ chunk = <<>>
           /\ \E n \in 1..Len(stream) :
                 /\ chunk' = SubSeq(stream, 1, n)
                 /\ stream' = SubSeq(stream, n + 1, Len(stream))
           /\ UNCHANGED <<sent, partial_msg_, delivered>>

-----------------------------------------------------------------------------
Least(a, b) == IF a <= b THEN a ELSE b

\* fill_buffer(): move up to toFill bytes of the chunk c to the buffer p.
FillBuffer(toFill, p, c) ==
    LET offset == Least(toFill, Len(c))
    IN [partial  |-> p \o SubSeq(c, 1, offset),
        rest     |-> SubSeq(c, offset + 1, Len(c)),
        complete |-> toFill = offset]

\* A faulty loop: a turn that has read the size leaves the data to the next.
ReadSizeStops == IF Len(partial_msg_) < HdrSize
                 THEN [FillBuffer(HdrSize - Len(partial_msg_), partial_msg_, chunk)
                          EXCEPT !.complete = FALSE]
                 ELSE [partial |-> partial_msg_, rest |-> chunk, complete |-> TRUE]

\* One turn of the loop of on_receive(), first part: the size, if it is not
\* there yet.
ReadSize == IF Len(partial_msg_) < HdrSize
            THEN FillBuffer(HdrSize - Len(partial_msg_), partial_msg_, chunk)
            ELSE [partial |-> partial_msg_, rest |-> chunk, complete |-> TRUE]

\* A faulty loop: it forgets what the buffer holds already.
MissingAll(p) == HdrSize + SizeOf(p)

Missing(p) == HdrSize + SizeOf(p) - Len(p)

\* A faulty loop: it leaves the message that was delivered in the buffer.
AfterMessageKeeps(b) == b.partial

\* What partial_msg_ holds after a message was delivered: clear().
AfterMessage(b) == <<>>

\* The turn ends inside the size, inside the data, or with a message.
LoopTurn ==
    /\ chunk # <<>>
    /\ LET hdr  == ReadSize
           body == FillBuffer(Missing(hdr.partial), hdr.partial, hdr.rest)
       IN \/ /\ ~hdr.complete
             /\ partial_msg_' = hdr.partial /\ chunk' = hdr.rest
             /\ UNCHANGED delivered
          \/ /\ hdr.complete /\ ~body.complete
             /\ partial_msg_' = body.partial /\ chunk' = body.rest
             /\ UNCHANGED delivered
          \/ /\ hdr.complete /\ body.complete
             /\ delivered' = Append(delivered,
                    SubSeq(body.partial, HdrSize + 1, HdrSize + SizeOf(hdr.partial)))
             /\ partial_msg_' = AfterMessage(body) /\ chunk' = body.rest
    /\ UNCHANGED <<sent, stream>>

Next == SendMsg \/ Receive \/ LoopTurn

\* The bytes that were sent arrive, and the loop runs to its end.
Fairness == WF_vars(Receive) /\ WF_vars(LoopTurn)

Spec == Init /\ [][Next]_vars /\ Fairness
-----------------------------------------------------------------------------
\* However the stream is cut into chunks the receiver gets the messages that
\* were sent, in order, each whole and once, and in the end all of them.
Fifo == INSTANCE MessageFifo
ImplementsMessageFifo == Fifo!Spec

\* Between two calls of on_receive() the buffer never holds a whole message:
\* what has arrived has been delivered.
NothingHeldBack ==
    chunk = <<>> /\ Len(partial_msg_) >= HdrSize => Missing(partial_msg_) > 0
-----------------------------------------------------------------------------
\* A message as it goes over the stream, and the first k of msgs.
Frame(p) == Header(Len(p)) \o p

Frames(msgs, k) ==
    LET bytes[i \in 0..Len(msgs)] ==
            IF i = 0 THEN <<>> ELSE bytes[i - 1] \o Frame(msgs[i])
    IN bytes[k]

\* The bytes that are neither sent twice nor lost: what has been delivered, what
\* the buffer holds and what is to come are what was sent.
InTransit == Frames(sent, Len(delivered)) \o (partial_msg_ \o (chunk \o stream))
                 = Frames(sent, Len(sent))

BufferIncomplete == Len(partial_msg_) >= HdrSize => Missing(partial_msg_) > 0

\* The inductive invariant.
IInv == /\ TypeOK
        /\ Len(delivered) <= Len(sent)
        /\ InTransit
        /\ BufferIncomplete
=============================================================================
