---------------------------- MODULE Tunnel_proofs ----------------------------
(***************************************************************************)
(* Theorems about Tunnel, for configurations of any length and any         *)
(* endpoints, routes and widths.                                           *)
(***************************************************************************)
EXTENDS Tunnel, Operators_proofs

-----------------------------------------------------------------------------
(***************************************************************************)
(* The lines of the configuration.                                         *)
(***************************************************************************)
\* A map has one key for every endpoint.
LEMMA SameKeyIsEqual ==
    ASSUME NEW p \in Endpoint, NEW q \in Endpoint
    PROVE SameKey(p, q) <=> p = q
  <1>1. /\ p = [addr |-> p.addr, port |-> p.port] /\ p.addr \in Int /\ p.port \in Nat
        /\ q = [addr |-> q.addr, port |-> q.port] /\ q.addr \in Int /\ q.port \in Nat
    BY DEF Endpoint
  <1>2. SameKey(p, q) <=> p.addr = q.addr /\ p.port = q.port
    BY <1>1 DEF SameKey, Less
  <1> QED
    BY <1>1, <1>2

\* The numbers of the lines, and what a line is.
LEMMA LinesTyped ==
    ASSUME IInv
    PROVE /\ MaxLines \in Nat /\ Len(lines) \in Nat /\ Len(lines) <= MaxLines
          /\ DOMAIN lines = 1..Len(lines) /\ long \in Nat /\ long <= Len(lines)
          /\ next \in Nat /\ next >= 1 /\ next <= Len(lines) + 1
          /\ \A i \in 1..Len(lines) : i \in LineNos /\ i \in Nat /\ lines[i] \in Line
          /\ \A i \in 1..Len(lines) : lines[i].kind = "udp" => lines[i].local \in Endpoint
          /\ NullSender \notin LineNos
  <1>1. /\ MaxLines \in Nat /\ lines \in Seq(Line) /\ Len(lines) <= MaxLines
        /\ long \in 0..Len(lines) /\ next \in 1..(MaxLines + 1) /\ next <= Len(lines) + 1
    BY MaxLinesAssumption DEF IInv, TypeOK, Position
  <1>2. Len(lines) \in Nat /\ DOMAIN lines = 1..Len(lines)
    BY <1>1, LenProperties
  <1>3. \A i \in 1..Len(lines) : lines[i] \in Line
    BY <1>1, ElementOfSeq
  <1>4. \A l \in Line : l.kind = "udp" => l.local \in Locals
    BY DEF Line
  <1>5. Locals \subseteq Endpoint
    BY EndpointsAssumption
  <1>6. \A i \in 1..Len(lines) : i \in LineNos /\ i \in Nat
    BY <1>1, <1>2 DEF LineNos
  <1>7. NullSender \notin LineNos
    BY <1>1 DEF NullSender, LineNos
  <1> QED
    BY <1>1, <1>2, <1>3, <1>4, <1>5, <1>6, <1>7

\* The lines above n are read before it, and n is read by the step to NextLine.
LEMMA ReadOn ==
    ASSUME IInv, next <= Len(lines)
    PROVE /\ Read(NextLine) = Read(next) \union {next}
          /\ next \notin Read(next)
          /\ \A i \in Read(next) : i \in 1..Len(lines) /\ i \in Nat /\ i < next
          /\ NextLine \in 1..(MaxLines + 1) /\ NextLine <= Len(lines) + 1
          /\ long = 0 \/ NextLine <= long \/ NextLine = Len(lines) + 1
  <1>1. /\ MaxLines \in Nat /\ Len(lines) \in Nat /\ Len(lines) <= MaxLines
        /\ DOMAIN lines = 1..Len(lines) /\ long \in Nat /\ long <= Len(lines)
        /\ next \in Nat /\ next >= 1 /\ next <= Len(lines) + 1
        /\ \A i \in 1..Len(lines) : i \in Nat
    BY LinesTyped
  <1>2. long = 0 \/ next <= long
    BY <1>1 DEF IInv, Position
  <1>3. \A i : i \in Read(next) <=> i \in 1..(next - 1)
    BY <1>1, <1>2 DEF Read
  <1>4. \A i : i \in Read(NextLine) <=> i \in 1..next
    <2>1. CASE next = long
      <3>1. NextLine = Len(lines) + 1
        BY <2>1 DEF NextLine
      <3> QED
        BY <1>1, <2>1, <3>1 DEF Read
    <2>2. CASE next # long
      <3>1. NextLine = next + 1
        BY <2>2 DEF NextLine
      <3> QED
        BY <1>1, <1>2, <2>2, <3>1 DEF Read
    <2> QED
      BY <2>1, <2>2
  <1>5. \A i : i \in 1..next <=> i \in 1..(next - 1) \/ i = next
    BY <1>1
  <1>6. Read(NextLine) = Read(next) \union {next}
    BY <1>3, <1>4, <1>5
  <1>7. /\ next \notin Read(next)
        /\ \A i \in Read(next) : i \in 1..Len(lines) /\ i \in Nat /\ i < next
    BY <1>1, <1>3
  <1>8. /\ NextLine \in 1..(MaxLines + 1) /\ NextLine <= Len(lines) + 1
        /\ long = 0 \/ NextLine <= long \/ NextLine = Len(lines) + 1
    BY <1>1, <1>2 DEF NextLine
  <1> QED
    BY <1>6, <1>7, <1>8

\* What the line that is read adds to the tcp lines and to the udp lines.
LEMMA LinesOn ==
    ASSUME IInv, next <= Len(lines)
    PROVE /\ SenderLines(NextLine) = SenderLines(next) \union
                 (IF lines[next].kind \in {"client", "server"} THEN {next} ELSE {})
          /\ UdpLines(NextLine) = UdpLines(next) \union
                 (IF lines[next].kind = "udp" /\ SenderLines(next) # {} THEN {next} ELSE {})
          /\ \A i \in SenderLines(next) : i \in LineNos /\ i < next
          /\ \A i \in UdpLines(next) : i \in LineNos /\ i < next /\ lines[i].local \in Endpoint
  <1>1. /\ Read(NextLine) = Read(next) \union {next}
        /\ \A i \in Read(next) : i \in 1..Len(lines) /\ i < next
    BY ReadOn
  <1>2. \A i \in 1..Len(lines) : i \in LineNos /\ (lines[i].kind = "udp" => lines[i].local \in Endpoint)
    BY LinesTyped
  <1>3. SenderLines(NextLine) = SenderLines(next) \union
            (IF lines[next].kind \in {"client", "server"} THEN {next} ELSE {})
    BY <1>1 DEF SenderLines
  <1>4. UdpLines(NextLine) = UdpLines(next) \union
            (IF lines[next].kind = "udp" /\ SenderLines(next) # {} THEN {next} ELSE {})
    BY <1>1 DEF UdpLines
  <1> QED
    BY <1>1, <1>2, <1>3, <1>4 DEF SenderLines, UdpLines

\* The last tcp line above the one that is read made the present sender.
LEMMA LastSender ==
    ASSUME IInv, SenderLines(next) # {}, next <= Len(lines)
    PROVE Max(SenderLines(next)) = sender_ /\ sender_ \in SenderLines(next) /\ sender_ # NullSender
  <1> DEFINE S == SenderLines(next)
  <1>1. \A i \in S : i \in LineNos /\ i \in Nat /\ i > 0
    <2>1. MaxLines \in Nat
      BY LinesTyped
    <2>2. \A i \in S : i \in LineNos
      BY LinesOn
    <2> QED
      BY <2>1, <2>2 DEF LineNos
  <1>2. sender_ \in S \union {0} /\ (\A i \in S : i <= sender_) /\ S # {}
    BY DEF IInv, SenderAsWritten, NullSender
  <1> HIDE DEF S
  <1>3. sender_ \in S /\ sender_ # 0
    BY <1>1, <1>2
  <1>4. \A i \in S : sender_ >= i
    BY <1>1, <1>2, <1>3
  <1>5. Max(S) \in S /\ \A i \in S : Max(S) >= i
    BY <1>3, <1>4 DEF Max
  <1>6. Max(S) = sender_
    BY <1>1, <1>3, <1>4, <1>5
  <1> QED
    BY <1>3, <1>6 DEF S, NullSender

\* What the lines mean depends on them alone.
LEMMA Steady ==
    ASSUME UNCHANGED <<lines, long>>, NEW n, next' = n
    PROVE /\ Read(next)' = Read(n) /\ SenderLines(next)' = SenderLines(n)
          /\ ServerLines(next)' = ServerLines(n)
          /\ Meaning(next)' = Meaning(n)
          /\ \A i : Refused(i)' <=> Refused(i)
  <1>1. lines' = lines /\ long' = long /\ next' = n
    OBVIOUS
  <1>2. Read(next)' = Read(n)
    BY <1>1 DEF Read
  <1>3. SenderLines(next)' = SenderLines(n)
    BY <1>1 DEF SenderLines, Read
  <1>4. ServerLines(next)' = ServerLines(n)
    BY <1>1 DEF ServerLines, SenderLines, Read
  <1>5. Meaning(next)' = Meaning(n)
    BY <1>1 DEF Meaning, UdpLines, SenderLines, Read
  <1>6. \A i : Refused(i)' <=> Refused(i)
    BY <1>1 DEF Refused, SenderLines, Read
  <1> QED
    BY <1>2, <1>3, <1>4, <1>5, <1>6

\* A line that is not a udp line, or stands above every tcp line, leaves the
\* receivers as they are.
LEMMA SameReceivers ==
    ASSUME IInv, next <= Len(lines), lines[next].kind # "udp" \/ SenderLines(next) = {}
    PROVE Meaning(NextLine) = receivers_
  <1>1. UdpLines(NextLine) = UdpLines(next)
    BY LinesOn
  <1>2. receivers_ = Meaning(next)
    BY DEF IInv
  <1> QED
    BY <1>1, <1>2 DEF Meaning

\* A receiver of the map comes from the last udp line for its endpoint.
LEMMA ReceiversAre ==
    ASSUME IInv, NEW r
    PROVE r \in receivers_ <=>
             \E i \in UdpLines(next) :
                 /\ \A k \in UdpLines(next) : lines[k].local = lines[i].local => k <= i
                 /\ r = [sender |-> Max(SenderLines(i)), line |-> i]
  BY DEF IInv, Meaning

\* The udp line that is read replaces the receiver of its endpoint.
LEMMA AnotherReceiver ==
    ASSUME IInv, next <= Len(lines), lines[next].kind = "udp", SenderLines(next) # {}
    PROVE Meaning(NextLine) = Assigned
  <1> DEFINE U == UdpLines(next)
             of(i) == [sender |-> Max(SenderLines(i)), line |-> i]
             here == lines[next].local
  <1>1. /\ UdpLines(NextLine) = U \union {next}
        /\ \A i \in U : i \in LineNos /\ i < next /\ lines[i].local \in Endpoint
    BY LinesOn
  <1>2. here \in Endpoint /\ next \in Nat /\ MaxLines \in Nat
    BY LinesTyped
  <1>3. ThisReceiver = of(next)
    BY LastSender DEF ThisReceiver
  <1>4. \A i \in U : of(i).line = i /\ of(next).line = next
    OBVIOUS
  <1>5. \A i \in U : SameKey(lines[i].local, here) <=> lines[i].local = here
    BY <1>1, <1>2, SameKeyIsEqual
  <1>6. \A r : r \in receivers_ <=>
            \E i \in U : (\A k \in U : lines[k].local = lines[i].local => k <= i) /\ r = of(i)
    BY ReceiversAre
  <1>7. \A r : r \in Meaning(NextLine) <=>
            \E i \in U \union {next} :
                /\ \A k \in U \union {next} : lines[k].local = lines[i].local => k <= i
                /\ r = of(i)
    BY <1>1 DEF Meaning
  <1> HIDE DEF U, of, here
  <1>8. \A i \in U : i \in Nat /\ i < next
    BY <1>1, <1>2 DEF LineNos
  <1>9. ASSUME NEW i \in U
        PROVE (\A k \in U \union {next} : lines[k].local = lines[i].local => k <= i)
              <=> /\ \A k \in U : lines[k].local = lines[i].local => k <= i
                  /\ lines[i].local # here
    BY <1>2, <1>8 DEF here
  <1>10. \A k \in U \union {next} : lines[k].local = lines[next].local => k <= next
    BY <1>2, <1>8
  <1>11. \A r : r \in Meaning(NextLine) <=>
            \/ r = of(next)
            \/ \E i \in U : /\ \A k \in U : lines[k].local = lines[i].local => k <= i
                            /\ lines[i].local # here
                            /\ r = of(i)
    BY <1>7, <1>9, <1>10
  <1>12. \A r : r \in Assigned <=>
            \/ r = of(next)
            \/ r \in receivers_ /\ ~SameKey(lines[r.line].local, here)
    BY <1>3 DEF Assigned, Local, here
  <1>13. \A r : r \in Assigned <=>
            \/ r = of(next)
            \/ \E i \in U : /\ \A k \in U : lines[k].local = lines[i].local => k <= i
                            /\ lines[i].local # here
                            /\ r = of(i)
    BY <1>4, <1>5, <1>6, <1>12
  <1> QED
    BY <1>11, <1>13

-----------------------------------------------------------------------------
(***************************************************************************)
(* The acceptors.                                                          *)
(***************************************************************************)
LEMMA Released ==
    ASSUME NEW r \in Resource, NEW q \in Resource,
           ~q.owned, q.cancelled, q.attached <=> r.attached,
           q.op = IF r.attached THEN Abort(r.op) ELSE r.op
    PROVE Release(r) = q
  <1>1. /\ Release(r) \in Resource /\ ~Release(r).owned /\ Release(r).cancelled
        /\ Release(r).attached <=> r.attached
        /\ Release(r).op = IF r.attached THEN Abort(r.op) ELSE r.op
    BY DEF Release, Cancel, Abort, Resource, OpState, Queued
  <1>2. \A a, b \in Resource : /\ a.owned <=> b.owned
                               /\ a.cancelled <=> b.cancelled
                               /\ a.attached <=> b.attached
                               /\ a.op = b.op
                               => a = b
    BY DEF Resource
  <1> QED
    BY <1>1, <1>2

Acceptor == {NoResource, NewResource, Release(NewResource)}

LEMMA AcceptorIs ==
    ASSUME NEW a \in Acceptor
    PROVE /\ a \in Resource
          /\ a.owned <=> a = NewResource
          /\ Destroyed(a) <=> a = NoResource
          /\ a.op = "aborted" => a = Release(NewResource)
          /\ GivenUp(a) = IF a = NoResource THEN NoResource ELSE Release(NewResource)
          /\ GivenUp(a) \in Acceptor /\ GivenUp(a) # NewResource
          /\ NewResource # NoResource /\ Release(NewResource) # NoResource
  <1> DEFINE ended == [owned |-> FALSE, cancelled |-> TRUE, attached |-> TRUE, op |-> "aborted"]
  <1>1. NoResource \in Resource /\ NewResource \in Resource /\ ended \in Resource
    BY DEF NoResource, NewResource, Resource, OpState, Queued
  <1>2. /\ ~NoResource.owned /\ NoResource.cancelled /\ ~NoResource.attached
        /\ NewResource.owned /\ ~NewResource.cancelled /\ NewResource.attached
        /\ ~ended.owned /\ ended.cancelled /\ ended.attached
        /\ NoResource.op = "none" /\ NewResource.op = "pending" /\ ended.op = "aborted"
    BY DEF NoResource, NewResource
  <1> HIDE DEF ended
  <1>3. /\ Release(NewResource) = ended
        /\ Release(NoResource) = NoResource /\ Release(ended) = ended
    BY <1>1, <1>2, Released DEF Abort
  <1>4. a = NoResource \/ a = NewResource \/ a = ended
    BY <1>3 DEF Acceptor
  <1>5. NewResource # NoResource /\ ended # NoResource /\ ended # NewResource
    BY <1>2
  <1>6. Destroyed(NoResource) /\ ~Destroyed(NewResource) /\ ~Destroyed(ended)
    BY <1>2 DEF Destroyed
  <1> QED
    BY <1>1, <1>2, <1>3, <1>4, <1>5, <1>6 DEF GivenUp, Acceptor

\* An acceptor is owned by a sender, and only that of a tcp_server.
LEMMA AcceptorsAre ==
    ASSUME IInv, NEW i \in LineNos
    PROVE /\ acceptors[i] \in Acceptor
          /\ acceptors[i] = NewResource <=> i \in Senders /\ lines[i].kind = "server"
          /\ acceptors[i] # NoResource => i \in ServerLines(next)
          /\ phase # "running" /\ i \in ServerLines(next) => acceptors[i] # NoResource
  <1>1. acceptors[i] \in Acceptor
    BY DEF IInv, AcceptorsAsWritten, Acceptor
  <1>2. acceptors[i].owned <=> i \in Senders /\ lines[i].kind = "server"
    BY DEF IInv, TypeOK
  <1> QED
    BY <1>1, <1>2, AcceptorIs DEF IInv, AcceptorsAsWritten

\* The senders are tcp lines above the one that is read.
LEMMA SendersAre ==
    ASSUME IInv
    PROVE Senders \subseteq LineNos /\ Held \subseteq LineNos
  BY DEF IInv, TypeOK, Senders, Held, Receiver

\* Once a line is read, the acceptors are those of the servers among the senders,
\* and what is left of the others.
LEMMA AcceptorsOn ==
    ASSUME IInv, next <= Len(lines), phase # "running",
           UNCHANGED <<lines, long, phase>>, next' = NextLine,
           Senders' \subseteq Senders \union {next},
           lines[next].kind = "server" => next \in Senders',
           NEW made \in [LineNos -> Acceptor], acceptors' = Kept(made),
           made[next] = IF lines[next].kind = "server" THEN NewResource ELSE NoResource,
           \A i \in LineNos : i # next => made[i] = acceptors[i]
    PROVE /\ AcceptorsAsWritten' /\ acceptors' \in [LineNos -> Resource]
          /\ {i \in LineNos : acceptors'[i].owned}
                 = {s \in Senders' : lines'[s].kind = "server"}
  <1>1. next \in LineNos
    BY LinesTyped
  <1>2. Senders' \subseteq LineNos
    BY <1>1, SendersAre
  <1>3. \A i \in LineNos : acceptors'[i] = IF i \in Senders' THEN made[i] ELSE GivenUp(made[i])
    BY DEF Kept
  <1>4. ServerLines(NextLine) = ServerLines(next) \union
            (IF lines[next].kind = "server" THEN {next} ELSE {})
    BY LinesOn DEF ServerLines
  <1>5. ServerLines(next)' = ServerLines(NextLine)
    BY Steady
  <1>6. next \notin ServerLines(next)
    BY ReadOn DEF ServerLines, SenderLines
  <1>7. ASSUME NEW i \in LineNos
        PROVE /\ acceptors'[i] \in Acceptor /\ acceptors'[i] \in Resource
              /\ acceptors'[i].owned <=> i \in Senders' /\ lines[i].kind = "server"
              /\ acceptors'[i] # NoResource <=> made[i] # NoResource
              /\ made[i] # NoResource <=> i \in ServerLines(NextLine)
    <2>1. made[i] \in Acceptor /\ GivenUp(made[i]) \in Acceptor
      BY AcceptorIs
    <2>2. acceptors'[i] \in Acceptor
      BY <1>3, <2>1
    <2>3. acceptors'[i] # NoResource <=> made[i] # NoResource
      BY <1>3, <2>1, AcceptorIs
    <2>4. acceptors'[i] = NewResource <=> i \in Senders' /\ made[i] = NewResource
      BY <1>3, <2>1, AcceptorIs
    <2>5. CASE i = next
      BY <1>1, <1>4, <1>6, <2>1, <2>2, <2>3, <2>4, <2>5, AcceptorIs
    <2>6. CASE i # next
      <3>1. /\ made[i] = acceptors[i]
            /\ acceptors[i] = NewResource <=> i \in Senders /\ lines[i].kind = "server"
            /\ acceptors[i] # NoResource <=> i \in ServerLines(next)
        BY <2>6, AcceptorsAre
      <3>2. i \in Senders' => i \in Senders
        BY <2>6
      <3>3. i \in ServerLines(NextLine) <=> i \in ServerLines(next)
        BY <1>4, <2>6
      <3> QED
        BY <2>2, <2>3, <2>4, <3>1, <3>2, <3>3, AcceptorIs
    <2> QED
      BY <2>5, <2>6
  <1>8. acceptors' \in [LineNos -> Resource]
    BY <1>7 DEF Kept
  <1>9. AcceptorsAsWritten'
    BY <1>5, <1>7 DEF AcceptorsAsWritten, Acceptor
  <1>10. {i \in LineNos : acceptors'[i].owned} = {s \in Senders' : lines'[s].kind = "server"}
    BY <1>2, <1>7
  <1> QED
    BY <1>8, <1>9, <1>10

-----------------------------------------------------------------------------
(***************************************************************************)
(* The steps.                                                              *)
(***************************************************************************)
\* A line is refused if it is no line, or if an acceptor has its port.
LEMMA RefusedIs ==
    ASSUME IInv, phase = "parsing", next <= Len(lines)
    PROVE /\ lines[next].kind = "server" => (Refused(next) <=> PointTaken(lines[next].point))
          /\ lines[next].kind # "server" => (Refused(next) <=> lines[next].kind = "invalid")
  <1>1. \A i \in LineNos : ~Destroyed(acceptors[i]) <=> i \in ServerLines(next)
    BY AcceptorsAre, AcceptorIs
  <1>2. ServerLines(next) = {j \in SenderLines(next) : lines[j].kind = "server"}
        /\ ServerLines(next) \subseteq LineNos
    BY LinesOn DEF ServerLines
  <1>3. ASSUME lines[next].kind = "server"
        PROVE Refused(next) <=> PointTaken(lines[next].point)
    <2>1. PointTaken(lines[next].point) <=>
            \E i \in ServerLines(next) : Kernel(lines[i].point) = Kernel(lines[next].point)
      BY <1>1, <1>2 DEF PointTaken
    <2> QED
      BY <1>2, <1>3, <2>1 DEF Refused
  <1> QED
    BY <1>3 DEF Refused

\* Once a line is read that is not refused, the tunnel is what it means.
LEMMA LineRead ==
    ASSUME IInv, phase = "parsing", next <= Len(lines), ~Refused(next),
           UNCHANGED <<lines, long, phase, out>>, next' = NextLine,
           sender_' = IF lines[next].kind \in {"client", "server"} THEN next ELSE sender_,
           receivers_' = Meaning(NextLine), receivers_' \subseteq Receiver,
           AcceptorsAsWritten', acceptors' \in [LineNos -> Resource],
           {i \in LineNos : acceptors'[i].owned} = {s \in Senders' : lines'[s].kind = "server"}
    PROVE IInv'
  <1>1. /\ Read(NextLine) = Read(next) \union {next}
        /\ NextLine \in 1..(MaxLines + 1) /\ NextLine <= Len(lines) + 1
        /\ long = 0 \/ NextLine <= long \/ NextLine = Len(lines) + 1
    BY ReadOn
  <1>2. /\ Read(next)' = Read(NextLine) /\ SenderLines(next)' = SenderLines(NextLine)
        /\ Meaning(next)' = Meaning(NextLine) /\ \A i : Refused(i)' <=> Refused(i)
    BY Steady
  <1>3. next \in LineNos /\ next \in Nat
    BY LinesTyped
  <1>4. Position'
    BY <1>1 DEF Position
  <1>5. SenderAsWritten'
    <2>1. /\ SenderLines(NextLine) = SenderLines(next) \union
                 (IF lines[next].kind \in {"client", "server"} THEN {next} ELSE {})
          /\ \A i \in SenderLines(next) : i < next /\ i \in LineNos
      BY LinesOn
    <2>2. sender_ \in SenderLines(next) \union {NullSender} /\ \A i \in SenderLines(next) : i <= sender_
      BY DEF IInv, SenderAsWritten
    <2>3. CASE lines[next].kind \in {"client", "server"}
      <3>1. SenderLines(NextLine) = SenderLines(next) \union {next} /\ sender_' = next
        BY <2>1, <2>3
      <3>2. \A i \in SenderLines(next) \union {next} : i <= next
        <4>1. \A i \in SenderLines(next) : i \in Nat
          BY <2>1, LinesTyped DEF LineNos
        <4> QED
          BY <1>3, <2>1, <4>1
      <3> QED
        BY <1>2, <3>1, <3>2 DEF SenderAsWritten
    <2>4. CASE lines[next].kind \notin {"client", "server"}
      <3>1. SenderLines(NextLine) = SenderLines(next) /\ sender_' = sender_
        BY <2>1, <2>4
      <3> QED
        BY <1>2, <2>2, <3>1 DEF SenderAsWritten
    <2> QED
      BY <2>3, <2>4
  <1>6. TypeOK'
    <2>1. sender_' \in LineNos \union {NullSender}
      BY <1>3 DEF IInv, TypeOK
    <2>2. \A q, r \in receivers_' : Local(q)' = Local(r)' => q = r
      <3>1. ASSUME NEW q \in receivers_', NEW r \in receivers_',
                   lines[q.line].local = lines[r.line].local
            PROVE q = r
        <4> DEFINE U == UdpLines(NextLine)
                   of(i) == [sender |-> Max(SenderLines(i)), line |-> i]
        <4>1. PICK i \in U : q = of(i) /\ \A k \in U : lines[k].local = lines[i].local => k <= i
          BY DEF Meaning
        <4>2. PICK j \in U : r = of(j) /\ \A k \in U : lines[k].local = lines[j].local => k <= j
          BY DEF Meaning
        <4>3. q.line = i /\ r.line = j
          BY <4>1, <4>2
        <4> HIDE DEF of
        <4>4. U \subseteq Nat
          <5>1. Read(next) \subseteq Nat
            BY ReadOn
          <5> QED
            BY <1>1, <1>3, <5>1 DEF UdpLines
        <4> HIDE DEF U
        <4>5. i <= j /\ j <= i
          BY <3>1, <4>1, <4>2, <4>3
        <4>6. i = j
          BY <4>4, <4>5
        <4> QED
          BY <4>1, <4>2, <4>6
      <3> QED
        BY <3>1 DEF Local
    <2>3. /\ lines' \in Seq(Line) /\ Len(lines') <= MaxLines /\ long' \in 0..Len(lines')
          /\ phase' \in {"parsing", "running", "failed"} /\ (out' = Nothing \/ phase' = "running")
      BY DEF IInv, TypeOK, Nothing
    <2> QED
      BY <1>1, <2>1, <2>2, <2>3 DEF TypeOK, Nothing
  <1>7. \A i \in Read(next)' : ~Refused(i)'
    BY <1>1, <1>2 DEF IInv
  <1>8. receivers_' = Meaning(next)' /\ phase' # "failed"
    BY <1>2
  <1>9. OutAsRelayed'
    BY DEF IInv, TypeOK, OutAsRelayed, Nothing
  <1> QED
    BY <1>4, <1>5, <1>6, <1>7, <1>8, <1>9 DEF IInv

\* A step that reads a line and leaves the acceptors alone.
LEMMA SameAcceptors ==
    ASSUME IInv, next <= Len(lines), lines[next].kind \notin {"client", "server"},
           UNCHANGED <<lines, long, sender_, receivers_, acceptors, phase>>, next' = NextLine
    PROVE /\ AcceptorsAsWritten' /\ acceptors' \in [LineNos -> Resource]
          /\ {i \in LineNos : acceptors'[i].owned}
                 = {s \in Senders' : lines'[s].kind = "server"}
  <1>1. ServerLines(next)' = ServerLines(next)
    BY Steady, LinesOn DEF ServerLines
  <1>2. AcceptorsAsWritten'
    BY <1>1 DEF IInv, AcceptorsAsWritten
  <1>3. Senders' = Senders
    BY DEF Senders, Held
  <1> QED
    BY <1>2, <1>3 DEF IInv, TypeOK

LEMMA BlankKeeps ==
    ASSUME IInv, Blank
    PROVE IInv'
  <1>1. /\ phase = "parsing" /\ next <= Len(lines) /\ lines[next].kind = "blank"
        /\ next' = NextLine
        /\ UNCHANGED <<lines, long, sender_, receivers_, acceptors, phase, out>>
    BY DEF Blank, Reading
  <1>2. ~Refused(next) /\ Meaning(NextLine) = receivers_ /\ receivers_ \subseteq Receiver
    BY <1>1, RefusedIs, SameReceivers DEF IInv, TypeOK
  <1> QED
    BY <1>1, <1>2, SameAcceptors, LineRead

LEMMA SkipKeeps ==
    ASSUME IInv, SkipReceiver
    PROVE IInv'
  <1>1. /\ phase = "parsing" /\ next <= Len(lines) /\ lines[next].kind = "udp"
        /\ sender_ = NullSender /\ next' = NextLine
        /\ UNCHANGED <<lines, long, sender_, receivers_, acceptors, phase, out>>
    BY DEF SkipReceiver, Reading
  <1>2. SenderLines(next) = {}
    BY <1>1, LastSender
  <1>3. ~Refused(next) /\ Meaning(NextLine) = receivers_ /\ receivers_ \subseteq Receiver
    BY <1>1, <1>2, RefusedIs, SameReceivers DEF IInv, TypeOK
  <1> QED
    BY <1>1, <1>3, SameAcceptors, LineRead

LEMMA CreateClientKeeps ==
    ASSUME IInv, CreateClient
    PROVE IInv'
  <1>1. /\ phase = "parsing" /\ next <= Len(lines) /\ lines[next].kind = "client"
        /\ sender_' = next /\ next' = NextLine /\ acceptors' = Kept(acceptors)
        /\ UNCHANGED <<lines, long, receivers_, phase, out>>
    BY DEF CreateClient, Reading
  <1>2. ~Refused(next) /\ Meaning(NextLine) = receivers_ /\ receivers_ \subseteq Receiver
    BY <1>1, RefusedIs, SameReceivers DEF IInv, TypeOK
  <1>3. Senders' \subseteq Senders \union {next}
    BY <1>1 DEF Senders, Held
  <1>4. acceptors \in [LineNos -> Acceptor]
    <2>1. acceptors \in [LineNos -> Resource]
      BY DEF IInv, TypeOK
    <2> QED
      BY <2>1, AcceptorsAre
  <1>5. acceptors[next] = NoResource
    <2>1. next \notin ServerLines(next) /\ next \in LineNos
      BY <1>1, LinesTyped, ReadOn DEF ServerLines, SenderLines
    <2> QED
      BY <2>1, AcceptorsAre
  <1>6. /\ AcceptorsAsWritten' /\ acceptors' \in [LineNos -> Resource]
        /\ {i \in LineNos : acceptors'[i].owned} = {s \in Senders' : lines'[s].kind = "server"}
    BY <1>1, <1>3, <1>4, <1>5, AcceptorsOn
  <1> QED
    BY <1>1, <1>2, <1>6, LineRead

LEMMA CreateServerKeeps ==
    ASSUME IInv, CreateServer
    PROVE IInv'
  <1> DEFINE made == [acceptors EXCEPT ![next] = NewResource]
  <1>1. /\ phase = "parsing" /\ next <= Len(lines) /\ lines[next].kind = "server"
        /\ ~PointTaken(lines[next].point)
        /\ sender_' = next /\ next' = NextLine /\ acceptors' = Kept(made)
        /\ UNCHANGED <<lines, long, receivers_, phase, out>>
    BY DEF CreateServer, Reading
  <1>2. ~Refused(next) /\ Meaning(NextLine) = receivers_ /\ receivers_ \subseteq Receiver
    BY <1>1, RefusedIs, SameReceivers DEF IInv, TypeOK
  <1>3. next \in LineNos /\ NullSender \notin LineNos
    BY <1>1, LinesTyped
  <1>4. Senders' \subseteq Senders \union {next} /\ next \in Senders'
    BY <1>1, <1>3 DEF Senders, Held
  <1>5. acceptors \in [LineNos -> Acceptor]
    <2>1. acceptors \in [LineNos -> Resource]
      BY DEF IInv, TypeOK
    <2> QED
      BY <2>1, AcceptorsAre
  <1>6. /\ made \in [LineNos -> Acceptor] /\ made[next] = NewResource
        /\ \A i \in LineNos : i # next => made[i] = acceptors[i]
    BY <1>3, <1>5 DEF Acceptor
  <1> HIDE DEF made
  <1>7. /\ AcceptorsAsWritten' /\ acceptors' \in [LineNos -> Resource]
        /\ {i \in LineNos : acceptors'[i].owned} = {s \in Senders' : lines'[s].kind = "server"}
    BY <1>1, <1>4, <1>6, AcceptorsOn
  <1> QED
    BY <1>1, <1>2, <1>7, LineRead

LEMMA CreateReceiverKeeps ==
    ASSUME IInv, CreateReceiver
    PROVE IInv'
  <1>1. /\ phase = "parsing" /\ next <= Len(lines) /\ lines[next].kind = "udp"
        /\ sender_ # NullSender /\ receivers_' = Assigned
        /\ next' = NextLine /\ acceptors' = Kept(acceptors)
        /\ UNCHANGED <<lines, long, sender_, phase, out>>
    BY DEF CreateReceiver, Reading
  <1>2. SenderLines(next) # {} /\ sender_ \in LineNos /\ next \in LineNos
    BY <1>1, LinesTyped DEF IInv, SenderAsWritten, TypeOK
  <1>3. ~Refused(next) /\ Meaning(NextLine) = Assigned
    BY <1>1, <1>2, RefusedIs, AnotherReceiver
  <1>4. Assigned \subseteq Receiver
    BY <1>2 DEF IInv, TypeOK, Assigned, ThisReceiver, Receiver
  <1>5. Senders' \subseteq Senders \union {next}
    <2>1. \A r \in Assigned : r \in receivers_ \/ r.sender = sender_
      BY DEF Assigned, ThisReceiver
    <2>2. Held' \subseteq Held \union {sender_}
      BY <1>1, <2>1 DEF Held
    <2> QED
      BY <1>1, <2>2 DEF Senders
  <1>6. acceptors \in [LineNos -> Acceptor]
    <2>1. acceptors \in [LineNos -> Resource]
      BY DEF IInv, TypeOK
    <2> QED
      BY <2>1, AcceptorsAre
  <1>7. acceptors[next] = NoResource
    <2>1. next \notin ServerLines(next)
      BY <1>1, ReadOn DEF ServerLines, SenderLines
    <2> QED
      BY <1>2, <2>1, AcceptorsAre
  <1>8. /\ AcceptorsAsWritten' /\ acceptors' \in [LineNos -> Resource]
        /\ {i \in LineNos : acceptors'[i].owned} = {s \in Senders' : lines'[s].kind = "server"}
    BY <1>1, <1>5, <1>6, <1>7, AcceptorsOn
  <1> QED
    BY <1>1, <1>3, <1>4, <1>8, LineRead

\* A step that reads no line.
LEMMA NoLineRead ==
    ASSUME IInv, UNCHANGED <<lines, long, next, sender_, receivers_>>,
           phase' \in {"parsing", "running", "failed"},
           phase' = "running" => next > Len(lines),
           phase' = "failed" => next <= Len(lines) /\ Refused(next),
           out' = Nothing \/ phase' = "running", OutAsRelayed',
           acceptors' \in [LineNos -> Resource],
           \A i \in LineNos : /\ acceptors'[i] \in Acceptor
                              /\ acceptors'[i].owned <=> acceptors[i].owned
                              /\ acceptors'[i] # NoResource => acceptors[i] # NoResource
                              /\ phase' # "running" => phase # "running" /\ acceptors'[i] = acceptors[i]
    PROVE IInv'
  <1>1. /\ Read(next)' = Read(next) /\ SenderLines(next)' = SenderLines(next)
        /\ ServerLines(next)' = ServerLines(next)
        /\ Meaning(next)' = Meaning(next) /\ \A i : Refused(i)' <=> Refused(i)
    BY Steady
  <1>2. Position'
    BY DEF IInv, Position
  <1>3. SenderAsWritten'
    BY <1>1 DEF IInv, SenderAsWritten
  <1>4. AcceptorsAsWritten'
    BY <1>1 DEF IInv, AcceptorsAsWritten, Acceptor
  <1>5. TypeOK'
    <2>1. Senders' = Senders
      BY DEF Senders, Held
    <2>2. {i \in LineNos : acceptors'[i].owned} = {s \in Senders' : lines'[s].kind = "server"}
      BY <2>1 DEF IInv, TypeOK
    <2>3. \A q, r \in receivers_' : Local(q)' = Local(r)' => q = r
      BY DEF IInv, TypeOK, Local
    <2> QED
      BY <2>2, <2>3 DEF IInv, TypeOK, Nothing
  <1> QED
    BY <1>1, <1>2, <1>3, <1>4, <1>5 DEF IInv

LEMMA SameOut ==
    ASSUME IInv, UNCHANGED <<lines, receivers_, out>>
    PROVE OutAsRelayed'
  BY DEF IInv, OutAsRelayed, Nothing, Local

\* A step that leaves the acceptors alone, too.
LEMMA OnlyPhase ==
    ASSUME IInv, UNCHANGED <<lines, long, next, sender_, receivers_, acceptors>>,
           phase' \in {"parsing", "running", "failed"},
           phase' # "running" => phase # "running",
           phase' = "running" => next > Len(lines),
           phase' = "failed" => next <= Len(lines) /\ Refused(next),
           out' = Nothing \/ phase' = "running", OutAsRelayed'
    PROVE IInv'
  <1>1. acceptors' = acceptors /\ acceptors \in [LineNos -> Resource]
    BY DEF IInv, TypeOK
  <1>2. \A i \in LineNos : /\ acceptors'[i] \in Acceptor
                           /\ acceptors'[i].owned <=> acceptors[i].owned
                           /\ acceptors'[i] # NoResource => acceptors[i] # NoResource
                           /\ phase' # "running" => phase # "running" /\ acceptors'[i] = acceptors[i]
    BY <1>1, AcceptorsAre
  <1> QED
    BY <1>1, <1>2, NoLineRead

LEMMA NextInv ==
    ASSUME IInv, [Next]_vars
    PROVE IInv'
  <1> USE DEF Nothing
  <1>1. CASE Invalid
    BY <1>1, RefusedIs, SameOut, OnlyPhase DEF Invalid, Reading, IInv, TypeOK
  <1>2. CASE CreateServerFails
    BY <1>2, RefusedIs, SameOut, OnlyPhase DEF CreateServerFails, Reading, IInv, TypeOK
  <1>3. CASE Run
    BY <1>3, SameOut, OnlyPhase DEF Run
  <1>4. ASSUME NEW point, NEW data \in Payloads, Datagram(point, data)
        PROVE IInv'
    <2>1. OutAsRelayed'
      BY <1>4 DEF Datagram, OutAsRelayed, BoundTo, Local
    <2> QED
      BY <1>4, <2>1, OnlyPhase DEF Datagram, IInv, Position
  <1>5. ASSUME NEW i \in LineNos, OnAcceptIgnored(i)
        PROVE IInv'
    <2>1. /\ phase = "running" /\ acceptors' = [acceptors EXCEPT ![i] = NoResource]
          /\ acceptors[i].op = "aborted"
          /\ UNCHANGED <<lines, long, next, sender_, receivers_, phase, out>>
      BY <1>5 DEF OnAcceptIgnored
    <2>2. acceptors[i] = Release(NewResource)
      BY <2>1, AcceptorsAre, AcceptorIs
    <2>3. acceptors \in [LineNos -> Resource] /\ (out = Nothing \/ phase = "running")
          /\ next > Len(lines)
      BY <2>1 DEF IInv, TypeOK, Position
    <2>4. /\ NoResource \in Acceptor /\ NoResource \in Resource
          /\ ~NoResource.owned /\ ~Release(NewResource).owned
      <3>1. NoResource \in Acceptor /\ Release(NewResource) \in Acceptor
        BY DEF Acceptor
      <3> QED
        BY <3>1, AcceptorIs
    <2>5. \A k \in LineNos : /\ acceptors'[k] \in Acceptor
                             /\ acceptors'[k].owned <=> acceptors[k].owned
                             /\ acceptors'[k] # NoResource => acceptors[k] # NoResource
      BY <2>1, <2>2, <2>3, <2>4, AcceptorsAre
    <2>6. acceptors' \in [LineNos -> Resource]
      BY <2>1, <2>3, <2>4
    <2> QED
      BY <2>1, <2>3, <2>5, <2>6, SameOut, NoLineRead
  <1>6. CASE UNCHANGED vars
    BY <1>6, SameOut, OnlyPhase DEF vars, IInv, TypeOK, Position
  <1> QED
    BY <1>1, <1>2, <1>3, <1>4, <1>5, <1>6, BlankKeeps, SkipKeeps, CreateClientKeeps,
       CreateServerKeeps, CreateReceiverKeeps DEF Next

\* No line is read at first.
LEMMA InitInv ==
    ASSUME Init
    PROVE IInv
  <1>1. /\ long \in 0..Len(lines) /\ next = 1 /\ sender_ = NullSender /\ receivers_ = {}
        /\ acceptors = [i \in LineNos |-> NoResource] /\ phase = "parsing" /\ out = Nothing
    BY DEF Init
  <1>2. MaxLines \in Nat
    BY MaxLinesAssumption
  <1>3. lines \in Seq(Line) /\ Len(lines) \in Nat /\ Len(lines) <= MaxLines
    <2>1. PICK n \in 0..MaxLines : lines \in [1..n -> Line]
      BY DEF Init
    <2>2. n \in Nat /\ n <= MaxLines
      BY <1>2, <2>1
    <2>3. lines \in Seq(Line) /\ Len(lines) = n
      BY <2>1, <2>2
    <2> QED
      BY <2>2, <2>3
  <1>4. Read(next) = {} /\ 1..0 = {}
    BY <1>1 DEF Read
  <1>5. SenderLines(next) = {} /\ ServerLines(next) = {} /\ UdpLines(next) = {}
    BY <1>4 DEF SenderLines, ServerLines, UdpLines
  <1>6. Meaning(next) = {}
    BY <1>5 DEF Meaning
  <1>7. Position
    BY <1>1, <1>3 DEF Position
  <1>8. SenderAsWritten
    BY <1>1, <1>5 DEF SenderAsWritten
  <1>9. NoResource \in Acceptor /\ NoResource \in Resource /\ ~NoResource.owned
    <2>1. NoResource \in Acceptor
      BY DEF Acceptor
    <2>2. NewResource # NoResource
      BY <2>1, AcceptorIs
    <2> QED
      BY <2>1, <2>2, AcceptorIs
  <1>10. AcceptorsAsWritten
    BY <1>1, <1>5, <1>9 DEF AcceptorsAsWritten
  <1>11. TypeOK
    <2>1. {i \in LineNos : acceptors[i].owned} = {}
      BY <1>1, <1>9
    <2>2. Senders = {}
      BY <1>1 DEF Senders, Held
    <2>3. acceptors \in [LineNos -> Resource]
      BY <1>1, <1>9
    <2> QED
      BY <1>1, <1>2, <1>3, <2>1, <2>2, <2>3 DEF TypeOK
  <1>12. OutAsRelayed
    BY <1>1 DEF OutAsRelayed
  <1> QED
    BY <1>1, <1>4, <1>6, <1>7, <1>8, <1>10, <1>11, <1>12 DEF IInv

-----------------------------------------------------------------------------
\* The inductive invariant holds in every state the program reaches.
THEOREM Invariance == Spec => []IInv
  BY InitInv, NextInv, PTL DEF Spec

\* A receiver has a sender, an endpoint one receiver, and an acceptor is owned by
\* a server that some receiver relays to, or the next one will.
THEOREM TypeCorrect == Spec => []TypeOK
  BY Invariance, PTL DEF IInv

\* The tunnel that runs is the one that is written: of the udp lines for an
\* endpoint the last, with the last tcp line above it.
THEOREM WrittenIsRun == Spec => []RunsAsWritten
  <1>1. IInv => RunsAsWritten
    <2> SUFFICES ASSUME IInv, phase = "running"
                 PROVE receivers_ = Meaning(Len(lines) + 1)
      BY DEF RunsAsWritten
    <2>1. next = Len(lines) + 1
      BY LinesTyped DEF IInv, Position
    <2> QED
      BY <2>1 DEF IInv
  <1> QED
    BY <1>1, Invariance, PTL

\* The program fails at the first line that it refuses, and runs if there is
\* none.
THEOREM StartsOrRefuses == Spec => []StartsUnlessRefused
  <1>1. IInv => StartsUnlessRefused
    <2> SUFFICES ASSUME IInv
                 PROVE StartsUnlessRefused
      OBVIOUS
    <2>1. phase = "running" => next = Len(lines) + 1
      BY LinesTyped DEF IInv, Position
    <2> QED
      BY <2>1 DEF IInv, StartsUnlessRefused
  <1> QED
    BY <1>1, Invariance, PTL

-----------------------------------------------------------------------------
(***************************************************************************)
(* The way of a datagram.                                                  *)
(***************************************************************************)
\* A sequence that lies in another.
LEMMA PartIs ==
    ASSUME NEW s \in Seq(Nat), NEW t \in Seq(Nat), NEW m \in Nat, m + Len(t) <= Len(s),
           \A i \in 1..Len(t) : s[m + i] = t[i],
           NEW lo, NEW hi, lo = m + 1, hi = m + Len(t)
    PROVE SubSeq(s, lo, hi) = t
  <1> DEFINE u == SubSeq(s, lo, hi)
  <1>1. Len(t) \in Nat /\ lo \in Int /\ hi \in Int /\ hi - lo + 1 = Len(t)
        /\ \A i \in 1..Len(t) : lo + i - 1 = m + i
        /\ lo <= hi <=> Len(t) > 0
    BY LenProperties
  <1>2. \A i \in lo..hi : s[i] \in Nat
    <2>1. m + Len(t) <= Len(s) /\ Len(s) \in Nat
      BY LenProperties
    <2>2. \A i \in (m + 1)..(m + Len(t)) : i \in 1..Len(s)
      BY <1>1, <2>1
    <2> QED
      BY <2>2, ElementOfSeq
  <1>3. /\ u \in Seq(Nat)
        /\ Len(u) = IF lo <= hi THEN hi - lo + 1 ELSE 0
        /\ \A i \in 1..(hi - lo + 1) : u[i] = s[lo + i - 1]
    BY <1>1, <1>2, SubSeqProperties
  <1> HIDE DEF u
  <1>4. Len(u) = Len(t)
    BY <1>1, <1>3
  <1>5. ASSUME NEW i \in 1..Len(u)
        PROVE u[i] = t[i]
    <2>1. u[i] = s[lo + i - 1] /\ lo + i - 1 = m + i
      BY <1>1, <1>3, <1>4
    <2>2. s[m + i] = t[i]
      BY <1>4
    <2> QED
      BY <2>1, <2>2
  <1>6. u = t
    BY <1>3, <1>4, <1>5, SeqEqual
  <1> QED
    BY <1>6 DEF u

ConsistsOf(s, a, b, c) == /\ SubSeq(s, 1, Len(a)) = a
                          /\ SubSeq(s, Len(a) + 1, Len(a) + Len(b)) = b
                          /\ SubSeq(s, Len(a) + Len(b) + 1, Len(s)) = c

\* Sequences that are put together are taken apart by their lengths.
LEMMA Parts ==
    ASSUME NEW a \in Seq(Nat), NEW b \in Seq(Nat), NEW c \in Seq(Nat)
    PROVE ConsistsOf((a \o b) \o c, a, b, c)
  <1> DEFINE ab == a \o b
             s == ab \o c
  <1>1. ab \in Seq(Nat) /\ Len(ab) = Len(a) + Len(b)
    BY ConcatProperties
  <1>2. Len(a) \in Nat /\ Len(b) \in Nat /\ Len(c) \in Nat /\ Len(s) = Len(ab) + Len(c)
    BY <1>1, ConcatProperties, LenProperties
  <1>3. \A i \in 1..Len(s) : s[i] = IF i <= Len(ab) THEN ab[i] ELSE c[i - Len(ab)]
    BY <1>1, <1>2, ConcatProperties
  <1>4. \A i \in 1..Len(ab) : ab[i] = IF i <= Len(a) THEN a[i] ELSE b[i - Len(a)]
    BY <1>1, ConcatProperties
  <1>5. s \in Seq(Nat)
    BY <1>1, ConcatProperties
  <1> HIDE DEF ab, s
  <1>6. SubSeq(s, 1, Len(a)) = a
    <2>1. \A i \in 1..Len(a) : i \in 1..Len(ab) /\ i \in 1..Len(s) /\ i <= Len(ab) /\ 0 + i = i
      BY <1>1, <1>2
    <2> DEFINE m == 0
               lo == 1
               hi == Len(a)
    <2>2. \A i \in 1..Len(a) : s[m + i] = a[i]
      BY <1>3, <1>4, <2>1
    <2>3. m \in Nat /\ lo = m + 1 /\ hi = m + Len(a) /\ m + Len(a) <= Len(s)
      BY <1>1, <1>2
    <2> HIDE DEF m, lo, hi
    <2>4. SubSeq(s, lo, hi) = a
      BY <1>5, <2>2, <2>3, PartIs
    <2> QED
      BY <2>4 DEF lo, hi
  <1>7. SubSeq(s, Len(a) + 1, Len(a) + Len(b)) = b
    <2>1. ASSUME NEW i \in 1..Len(b)
          PROVE s[Len(a) + i] = b[i]
      <3>1. /\ Len(a) + i \in 1..Len(ab) /\ Len(a) + i \in 1..Len(s)
            /\ Len(a) + i <= Len(ab) /\ ~(Len(a) + i <= Len(a))
            /\ (Len(a) + i) - Len(a) = i
        BY <1>1, <1>2
      <3>2. s[Len(a) + i] = ab[Len(a) + i]
        BY <1>3, <3>1
      <3>3. ab[Len(a) + i] = b[(Len(a) + i) - Len(a)]
        BY <1>4, <3>1
      <3> QED
        BY <3>1, <3>2, <3>3
    <2>2. Len(a) + Len(b) <= Len(s)
      BY <1>1, <1>2
    <2> DEFINE m == Len(a)
               lo == m + 1
               hi == m + Len(b)
    <2>3. m \in Nat /\ m + Len(b) <= Len(s) /\ \A i \in 1..Len(b) : s[m + i] = b[i]
      BY <1>2, <2>1, <2>2
    <2>4. lo = m + 1 /\ hi = m + Len(b)
      OBVIOUS
    <2> HIDE DEF m, lo, hi
    <2>5. SubSeq(s, lo, hi) = b
      BY <1>5, <2>3, <2>4, PartIs
    <2> QED
      BY <2>5 DEF m, lo, hi
  <1>8. SubSeq(s, Len(a) + Len(b) + 1, Len(s)) = c
    <2>1. ASSUME NEW i \in 1..Len(c)
          PROVE s[Len(ab) + i] = c[i]
      <3>1. /\ Len(ab) + i \in 1..Len(s)
            /\ ~(Len(ab) + i <= Len(ab)) /\ (Len(ab) + i) - Len(ab) = i
        BY <1>1, <1>2
      <3>2. s[Len(ab) + i] = c[(Len(ab) + i) - Len(ab)]
        BY <1>3, <3>1
      <3> QED
        BY <3>1, <3>2
    <2> DEFINE m == Len(ab)
               lo == Len(a) + Len(b) + 1
               hi == Len(s)
    <2>2. m \in Nat /\ m + Len(c) <= Len(s) /\ lo = m + 1 /\ hi = m + Len(c)
      BY <1>1, <1>2
    <2>3. \A i \in 1..Len(c) : s[m + i] = c[i]
      BY <2>1
    <2> HIDE DEF m, lo, hi
    <2>4. SubSeq(s, lo, hi) = c
      BY <1>5, <2>2, <2>3, PartIs
    <2> QED
      BY <2>4 DEF lo, hi
  <1> QED
    BY <1>6, <1>7, <1>8 DEF s, ab, ConsistsOf

\* The header of a datagram is taken off as it was put on.
LEMMA HeaderTakenOff ==
    ASSUME NEW p \in Endpoint, NEW data \in Payloads
    PROVE Split(Unite(data, p)) = [dest |-> Kernel(p), data |-> data]
  <1> DEFINE a == ToBytes(p.addr, AddrBytes, Base)
             b == ToBytes(p.port, PortBytes, Base)
             msg == Unite(data, p)
  <1>1. /\ AddrBytes \in Nat \ {0} /\ PortBytes \in Nat \ {0} /\ Base \in Nat \ {0, 1}
    BY WidthsAssumption
  <1>2. /\ p = [addr |-> p.addr, port |-> p.port] /\ p.port \in Nat
        /\ p.addr \in 0..(Power(Base, AddrBytes) - 1)
    BY DEF Endpoint
  <1>3. p.addr \in Nat /\ p.addr % Power(Base, AddrBytes) = p.addr
    <2> DEFINE d == Power(Base, AddrBytes)
    <2>1. d \in Nat \ {0}
      BY <1>1, Powers
    <2>2. p.addr \in 0..(d - 1)
      BY <1>2
    <2> HIDE DEF d
    <2>3. p.addr \in Nat /\ p.addr % d = p.addr
      BY <2>1, <2>2
    <2> QED
      BY <2>3 DEF d
  <1>4. FromBytes(a, Base) = p.addr /\ FromBytes(b, Base) = p.port % Power(Base, PortBytes)
    <2>1. FromBytes(a, Base) = p.addr % Power(Base, AddrBytes)
      BY <1>1, <1>3, DigitsOf
    <2>2. FromBytes(b, Base) = p.port % Power(Base, PortBytes)
      BY <1>1, <1>2, DigitsOf
    <2> QED
      BY <1>3, <2>1, <2>2
  <1>5. a \in Seq(Nat) /\ Len(a) = AddrBytes /\ b \in Seq(Nat) /\ Len(b) = PortBytes
    <2>1. /\ a \in Seq(0..(Base - 1)) /\ Len(a) = AddrBytes
          /\ b \in Seq(0..(Base - 1)) /\ Len(b) = PortBytes
      BY <1>1, <1>2, <1>3, BytesTyped
    <2>2. 0..(Base - 1) \subseteq Nat
      BY <1>1
    <2> QED
      BY <2>1, <2>2, SeqMonotonic
  <1>6. data \in Seq(Nat)
    <2>1. data \in Seq(0..(Base - 1)) /\ 0..(Base - 1) \subseteq Nat
      BY <1>1, PayloadsAssumption
    <2> QED
      BY <2>1, SeqMonotonic
  <1> HIDE DEF a, b
  <1>7. msg = (a \o b) \o data
    BY DEF Unite, Serialize, a, b
  <1>8. /\ SubSeq(msg, 1, AddrBytes) = a
        /\ SubSeq(msg, AddrBytes + 1, serialize_size) = b
        /\ SubSeq(msg, serialize_size + 1, Len(msg)) = data
    <2>1. /\ SubSeq(msg, 1, Len(a)) = a
          /\ SubSeq(msg, Len(a) + 1, Len(a) + Len(b)) = b
          /\ SubSeq(msg, Len(a) + Len(b) + 1, Len(msg)) = data
      <3>1. ConsistsOf((a \o b) \o data, a, b, data)
        BY <1>5, <1>6, Parts
      <3>2. ConsistsOf(msg, a, b, data)
        BY <1>7, <3>1
      <3> HIDE DEF msg
      <3> QED
        BY <3>2 DEF ConsistsOf
    <2> HIDE DEF msg
    <2>2. Len(a) = AddrBytes /\ Len(a) + Len(b) = serialize_size
      BY <1>5 DEF serialize_size
    <2> QED
      BY <2>1, <2>2
  <1> HIDE DEF msg
  <1>9. Deserialize(msg) = [addr |-> p.addr, port |-> p.port % Power(Base, PortBytes)]
    BY <1>4, <1>8 DEF Deserialize
  <1>10. Kernel(Deserialize(msg)) = Kernel(p)
    <2> DEFINE d == Power(Base, PortBytes)
    <2>1. d \in Nat \ {0}
      BY <1>1, Powers
    <2>2. /\ Deserialize(msg) = [addr |-> p.addr, port |-> p.port % d]
          /\ \A e : e.port = e.port => Kernel(e) = [e EXCEPT !.port = e.port % d]
      BY <1>9 DEF Kernel
    <2> HIDE DEF d
    <2>3. (p.port % d) % d = p.port % d
      BY <1>2, <2>1
    <2> QED
      BY <1>2, <2>2, <2>3
  <1>11. SentTo({Deserialize(msg)}, remote_peer({})) = Kernel(Deserialize(msg))
    <2>1. {Kernel(e) : e \in {Deserialize(msg)}} = {Kernel(Deserialize(msg))}
      OBVIOUS
    <2> QED
      BY <2>1 DEF SentTo, ValueOr
  <1> QED
    BY <1>8, <1>10, <1>11 DEF Split, msg

\* A datagram comes out whole, at the remote endpoint and through the sender of
\* the line it went in by.
THEOREM RelayedAsWritten == Spec => []RelayedToConfigured
  <1>1. ASSUME IInv
        PROVE RelayedToConfigured
    <2> SUFFICES ASSUME out # Nothing
                 PROVE \E r \in Meaning(Len(lines) + 1) :
                          /\ Kernel(Local(r)) = out.at
                          /\ out.sender = r.sender /\ out.to = lines[r.line].route.to
                          /\ out.came = [dest |-> Kernel(lines[r.line].route.remote),
                                         data |-> out.sent]
      BY DEF RelayedToConfigured
    <2>1. receivers_ = Meaning(Len(lines) + 1)
      <3>1. phase = "running"
        BY <1>1 DEF IInv, TypeOK
      <3>2. next = Len(lines) + 1
        BY <1>1, <3>1, LinesTyped DEF IInv, Position
      <3> QED
        BY <1>1, <3>2 DEF IInv
    <2>2. PICK r \in receivers_ :
             /\ Kernel(Local(r)) = out.at
             /\ out.sender = r.sender /\ out.to = lines[r.line].route.to
             /\ out.came = Split(Unite(out.sent, lines[r.line].route.remote))
      BY <1>1 DEF IInv, OutAsRelayed
    <2>3. out.sent \in Payloads
      BY <1>1 DEF IInv, OutAsRelayed
    <2>4. lines[r.line].route.remote \in Endpoint
      <3>1. PICK i \in UdpLines(next) : r.line = i
        BY <1>1, ReceiversAre
      <3>2. i \in 1..Len(lines) /\ lines[i].kind = "udp"
        BY <1>1, LinesTyped DEF UdpLines, Read
      <3>3. lines[i] \in Line
        BY <1>1, <3>2, LinesTyped
      <3>4. lines[i].route \in Routes
        BY <3>2, <3>3 DEF Line
      <3> QED
        BY <3>1, <3>4, EndpointsAssumption
    <2>5. out.came = [dest |-> Kernel(lines[r.line].route.remote), data |-> out.sent]
      BY <2>2, <2>3, <2>4, HeaderTakenOff
    <2> QED
      BY <2>1, <2>2, <2>5
  <1> QED
    BY <1>1, Invariance, PTL
=============================================================================
