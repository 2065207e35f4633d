---------------------------- MODULE Operators_proofs ----------------------------
(***************************************************************************)
(* Lemmas about the operators that several components are built from:      *)
(* what the operators of TransportOps return, preserve and bound (for      *)
(* Transport, TcpClient and TcpServer), and what the recursive functions   *)
(* of HostBytes compute (for Tunnel and FrameCodec).                       *)
(***************************************************************************)
EXTENDS TransportOps, HostBytes, SequenceTheorems, WellFoundedInduction, TLAPS

-----------------------------------------------------------------------------
(***************************************************************************)
(* One transport.                                                          *)
(***************************************************************************)
LEMMA StartWriteFields ==
    ASSUME NEW Msg, NEW U \in Nat \ {0}, NEW x \in TransportState(Msg, U),
           x.msgs # <<>>
    PROVE  /\ StartWrite(x) \in TransportState(Msg, U)
           /\ StartWrite(x).msgs = Tail(x.msgs)
           /\ StartWrite(x).writes =
                  x.writes \union {[msg |-> Head(x.msgs), sent |-> 0, code |-> "pending"]}
           /\ StartWrite(x).ready = x.ready
           /\ StartWrite(x).owned = x.owned
           /\ StartWrite(x).cancelled = x.cancelled
           /\ StartWrite(x).op = x.op
<1>1. Tail(x.msgs) \in Seq(Msg) /\ Head(x.msgs) \in Msg
  BY DEF TransportState
<1>2. [msg |-> Head(x.msgs), sent |-> 0, code |-> "pending"] \in Write(Msg, U)
  BY <1>1 DEF Write, WriteCode
<1> QED
  BY <1>1, <1>2 DEF StartWrite, TransportState

LEMMA SendNowFields ==
    ASSUME NEW Msg, NEW U \in Nat \ {0}, NEW x \in TransportState(Msg, U),
           NEW m \in Msg, x.msgs = <<>>, x.ready
    PROVE  /\ Send(x, m) \in TransportState(Msg, U)
           /\ Send(x, m).msgs = <<>>
           /\ Send(x, m).writes =
                  x.writes \union {[msg |-> m, sent |-> 0, code |-> "pending"]}
           /\ ~Send(x, m).ready
           /\ Send(x, m).owned = x.owned
           /\ Send(x, m).cancelled = x.cancelled
           /\ Send(x, m).op = x.op
<1> DEFINE q == [x EXCEPT !.msgs = Append(@, m)]
           s == StartWrite(q)
<1>1. /\ Append(x.msgs, m) \in Seq(Msg) /\ Append(x.msgs, m) # <<>>
      /\ Tail(Append(x.msgs, m)) = <<>> /\ Head(Append(x.msgs, m)) = m
  OBVIOUS
<1>2. /\ q \in TransportState(Msg, U)
      /\ q.msgs = Append(x.msgs, m)
      /\ q.writes = x.writes /\ q.owned = x.owned /\ q.cancelled = x.cancelled
      /\ q.op = x.op
  BY <1>1 DEF TransportState
<1>3. Send(x, m) = [s EXCEPT !.ready = FALSE]
  BY DEF Send
<1> HIDE DEF q
<1>4. q \in TransportState(Msg, U) /\ q.msgs # <<>>
  BY <1>1, <1>2
<1>5. /\ s \in TransportState(Msg, U)
      /\ s.msgs = Tail(q.msgs)
      /\ s.writes = q.writes \union
             {[msg |-> Head(q.msgs), sent |-> 0, code |-> "pending"]}
      /\ s.owned = q.owned
      /\ s.cancelled = q.cancelled
      /\ s.op = q.op
  BY <1>4, StartWriteFields
<1> HIDE DEF s
<1>6. /\ Send(x, m) \in TransportState(Msg, U)
      /\ Send(x, m).msgs = s.msgs
      /\ Send(x, m).writes = s.writes
      /\ ~Send(x, m).ready
      /\ Send(x, m).owned = s.owned
      /\ Send(x, m).cancelled = s.cancelled
      /\ Send(x, m).op = s.op
  BY <1>3, <1>5 DEF TransportState
<1> QED
  BY <1>1, <1>2, <1>5, <1>6

LEMMA SendLaterFields ==
    ASSUME NEW Msg, NEW U \in Nat \ {0}, NEW x \in TransportState(Msg, U),
           NEW m \in Msg, ~(x.msgs = <<>> /\ x.ready)
    PROVE  /\ Send(x, m) \in TransportState(Msg, U)
           /\ Send(x, m).msgs = Append(x.msgs, m)
           /\ Send(x, m).writes = x.writes
           /\ Send(x, m).ready = x.ready
           /\ Send(x, m).owned = x.owned
           /\ Send(x, m).cancelled = x.cancelled
           /\ Send(x, m).op = x.op
<1>1. Append(x.msgs, m) \in Seq(Msg)
  BY AppendProperties DEF TransportState
<1>2. Send(x, m) = [x EXCEPT !.msgs = Append(@, m)]
  BY DEF Send
<1> QED
  BY <1>1, <1>2 DEF TransportState

LEMMA DoneFields ==
    ASSUME NEW Msg, NEW U \in Nat \ {0}, NEW x \in TransportState(Msg, U), NEW w
    PROVE  LET y == Done(x, w)
           IN /\ y \in TransportState(Msg, U)
              /\ y.msgs = x.msgs
              /\ y.writes = x.writes \ {w}
              /\ y.ready = x.ready
              /\ y.owned = x.owned
              /\ y.cancelled = x.cancelled
              /\ y.op = x.op
BY DEF Done, TransportState

LEMMA OnSendOkFields ==
    ASSUME NEW Msg, NEW U \in Nat \ {0}, NEW x \in TransportState(Msg, U), NEW w
    PROVE  LET y == OnSendOk(x, w)
           IN /\ y \in TransportState(Msg, U)
              /\ x.msgs # <<>> =>
                    /\ y.msgs = Tail(x.msgs)
                    /\ y.writes = (x.writes \ {w}) \union
                          {[msg |-> Head(x.msgs), sent |-> 0, code |-> "pending"]}
                    /\ y.ready = x.ready
              /\ x.msgs = <<>> =>
                    y.msgs = <<>> /\ y.writes = x.writes \ {w} /\ y.ready
              /\ y.owned = x.owned
              /\ y.cancelled = x.cancelled
              /\ y.op = x.op
<1> DEFINE d == Done(x, w)
<1>1. /\ d \in TransportState(Msg, U)
      /\ d.msgs = x.msgs /\ d.writes = x.writes \ {w} /\ d.ready = x.ready
      /\ d.owned = x.owned /\ d.cancelled = x.cancelled /\ d.op = x.op
  BY DoneFields
<1> HIDE DEF d
<1>2. CASE x.msgs # <<>>
  <2>1. OnSendOk(x, w) = StartWrite(d)
    BY <1>2 DEF OnSendOk, d
  <2> QED
    BY <1>1, <1>2, <2>1, StartWriteFields
<1>3. CASE x.msgs = <<>>
  <2>1. OnSendOk(x, w) = [d EXCEPT !.ready = TRUE]
    BY <1>3 DEF OnSendOk, d
  <2> QED
    BY <1>1, <1>3, <2>1 DEF TransportState
<1> QED
  BY <1>2, <1>3

LEMMA ReleaseFields ==
    ASSUME NEW Msg, NEW U \in Nat \ {0}, NEW x \in TransportState(Msg, U)
    PROVE  LET y == ReleaseTransport(x)
           IN /\ y \in TransportState(Msg, U)
              /\ y.msgs = x.msgs
              /\ y.writes = {[w EXCEPT !.code = Abort(@)] : w \in x.writes}
              /\ y.ready = x.ready
              /\ ~y.owned
              /\ y.cancelled
              /\ y.op \in {x.op, "aborted"}
<1> DEFINE r == Release(x)
<1>1. /\ r \in TransportState(Msg, U)
      /\ r.msgs = x.msgs /\ r.writes = x.writes /\ r.ready = x.ready
      /\ ~r.owned /\ r.cancelled /\ r.op \in {x.op, "aborted"}
  BY DEF Release, Cancel, Abort, TransportState, OpState, Queued
<1>2. {[w EXCEPT !.code = Abort(@)] : w \in x.writes} \in SUBSET Write(Msg, U)
  BY DEF TransportState, Write, WriteCode, Queued, Abort
<1>3. ReleaseTransport(x) =
          [r EXCEPT !.writes = {[w EXCEPT !.code = Abort(@)] : w \in x.writes}]
  BY DEF ReleaseTransport, r
<1> HIDE DEF r
<1> QED
  BY <1>1, <1>2, <1>3 DEF TransportState

-----------------------------------------------------------------------------
LEMMA NewTransportTyped ==
    ASSUME NEW Msg, NEW U \in Nat \ {0}, NEW B \in Nat
    PROVE  /\ NewTransport \in TransportState(Msg, U) /\ Fits(NewTransport, B)
           /\ NewTransport.owned /\ ~NewTransport.cancelled
           /\ NoTransport \in TransportState(Msg, U) /\ Fits(NoTransport, B)
           /\ ~NoTransport.owned /\ NoTransport.cancelled
<1>1. <<>> \in Seq(Msg) /\ Len(<<>>) = 0
  BY EmptySeq
<1> QED
  BY <1>1 DEF NewTransport, NoTransport, Fits, TransportState, OpState

\* send() keeps the queue within a bound that it has room in.
LEMMA SendFits ==
    ASSUME NEW Msg, NEW U \in Nat \ {0}, NEW x \in TransportState(Msg, U),
           NEW m \in Msg, NEW B \in Nat, Fits(x, B), x.ready \/ Len(x.msgs) < B
    PROVE  /\ Send(x, m) \in TransportState(Msg, U)
           /\ Fits(Send(x, m), B)
           /\ Send(x, m).owned <=> x.owned
           /\ Send(x, m).cancelled <=> x.cancelled
           /\ Send(x, m).op = x.op
<1>1. x.msgs \in Seq(Msg) /\ Len(x.msgs) \in Nat
  BY DEF TransportState
<1>2. CASE x.ready
  <2>1. x.msgs = <<>>
    BY <1>2 DEF Fits
  <2> QED
    BY <1>2, <2>1, SendNowFields DEF Fits
<1>3. CASE ~x.ready
  <2>1. Len(Append(x.msgs, m)) = Len(x.msgs) + 1
    BY <1>1, AppendProperties
  <2>2. Len(x.msgs) + 1 <= B
    BY <1>1, <1>3
  <2>3. /\ Send(x, m) \in TransportState(Msg, U)
        /\ Send(x, m).msgs = Append(x.msgs, m)
        /\ Send(x, m).ready = x.ready
        /\ Send(x, m).owned <=> x.owned
        /\ Send(x, m).cancelled <=> x.cancelled
        /\ Send(x, m).op = x.op
    BY <1>3, SendLaterFields
  <2> QED
    BY <1>3, <2>1, <2>2, <2>3 DEF Fits
<1> QED
  BY <1>2, <1>3

\* on_send() without an error shortens the queue or empties it.
LEMMA OnSendOkFits ==
    ASSUME NEW Msg, NEW U \in Nat \ {0}, NEW x \in TransportState(Msg, U), NEW w,
           NEW B \in Nat, Fits(x, B)
    PROVE  /\ OnSendOk(x, w) \in TransportState(Msg, U)
           /\ Fits(OnSendOk(x, w), B)
           /\ OnSendOk(x, w).owned <=> x.owned
           /\ OnSendOk(x, w).cancelled <=> x.cancelled
           /\ OnSendOk(x, w).op = x.op
<1>1. x.msgs \in Seq(Msg) /\ Len(x.msgs) \in Nat
  BY DEF TransportState
<1>2. CASE x.msgs = <<>>
  BY <1>2, OnSendOkFields DEF Fits
<1>3. CASE x.msgs # <<>>
  <2>1. Len(Tail(x.msgs)) = Len(x.msgs) - 1
    BY <1>1, <1>3, HeadTailProperties
  <2>2. /\ OnSendOk(x, w).msgs = Tail(x.msgs)
        /\ OnSendOk(x, w).ready = x.ready
    BY <1>3, OnSendOkFields
  <2>3. Len(Tail(x.msgs)) <= B
    BY <1>1, <2>1 DEF Fits
  <2> QED
    BY <1>3, <2>2, <2>3, OnSendOkFields DEF Fits
<1> QED
  BY <1>2, <1>3

\* The ends of on_send() and of on_receive() leave the queue alone.
LEMMA EndsFit ==
    ASSUME NEW Msg, NEW U \in Nat \ {0}, NEW x \in TransportState(Msg, U), NEW w,
           NEW B \in Nat, Fits(x, B)
    PROVE  /\ OnSendEnds(x, w) \in TransportState(Msg, U)
           /\ Fits(OnSendEnds(x, w), B)
           /\ OnSendEnds(x, w).owned <=> x.owned
           /\ OnSendEnds(x, w).cancelled <=> x.cancelled
           /\ OnSendEnds(x, w).op = x.op
           /\ OnReceiveEnds(x) \in TransportState(Msg, U)
           /\ Fits(OnReceiveEnds(x), B)
           /\ OnReceiveEnds(x).owned <=> x.owned
           /\ OnReceiveEnds(x).cancelled <=> x.cancelled
           /\ OnReceiveOk(x) \in TransportState(Msg, U)
           /\ Fits(OnReceiveOk(x), B)
           /\ OnReceiveOk(x).owned <=> x.owned
           /\ OnReceiveOk(x).cancelled <=> x.cancelled
           /\ OnReceiveOk(x).op = "pending"
<1>1. /\ OnSendEnds(x, w) \in TransportState(Msg, U)
      /\ Fits(OnSendEnds(x, w), B)
      /\ OnSendEnds(x, w).owned <=> x.owned
      /\ OnSendEnds(x, w).cancelled <=> x.cancelled
      /\ OnSendEnds(x, w).op = x.op
  BY DoneFields DEF OnSendEnds, Fits
<1>2. "none" \in OpState /\ "pending" \in OpState
  BY DEF OpState
<1> QED
  BY <1>1, <1>2 DEF OnReceiveEnds, OnReceiveOk, TransportState, Fits

LEMMA ReleaseFits ==
    ASSUME NEW Msg, NEW U \in Nat \ {0}, NEW x \in TransportState(Msg, U),
           NEW B \in Nat, Fits(x, B)
    PROVE  /\ ReleaseTransport(x) \in TransportState(Msg, U)
           /\ Fits(ReleaseTransport(x), B)
           /\ ~ReleaseTransport(x).owned
           /\ ReleaseTransport(x).cancelled
BY ReleaseFields DEF Fits

\* Giving memory back changes nothing of a transport that is owned.
LEMMA ReclaimFits ==
    ASSUME NEW Msg, NEW U \in Nat \ {0}, NEW x \in TransportState(Msg, U),
           NEW B \in Nat, Fits(x, B), x.owned \/ x.cancelled
    PROVE  /\ Reclaim(x) \in TransportState(Msg, U)
           /\ Fits(Reclaim(x), B)
           /\ Reclaim(x).owned <=> x.owned
           /\ Reclaim(x).cancelled <=> x.cancelled
           /\ Reclaim(x).op = x.op
           /\ x.owned => Reclaim(x) = x
<1>1. CASE Closed(x)
  <2>1. Reclaim(x) = NoTransport /\ ~x.owned /\ x.op = "none" /\ x.cancelled
    BY <1>1 DEF Reclaim, Closed, Destroyed
  <2>2. NoTransport \in TransportState(Msg, U) /\ Fits(NoTransport, B)
    BY NewTransportTyped
  <2>3. ~NoTransport.owned /\ NoTransport.cancelled /\ NoTransport.op = "none"
    BY DEF NoTransport
  <2>4. x.owned = NoTransport.owned /\ x.cancelled = NoTransport.cancelled
    BY <2>1, <2>2, <2>3 DEF TransportState
  <2> QED
    BY <2>1, <2>2, <2>3, <2>4
<1>2. CASE ~Closed(x)
  BY <1>2 DEF Reclaim
<1> QED
  BY <1>1, <1>2

\* The kernel only completes what is pending.
LEMMA CompletionsFit ==
    ASSUME NEW Msg, NEW U \in Nat \ {0}, NEW x \in TransportState(Msg, U),
           NEW B \in Nat, Fits(x, B),
           NEW codes \in SUBSET {"ok", "drop", "other"}, NEW y \in Completions(x, codes)
    PROVE  /\ y \in TransportState(Msg, U)
           /\ Fits(y, B)
           /\ y.owned <=> x.owned
           /\ y.cancelled <=> x.cancelled
           /\ y.op = "none" <=> x.op = "none"
<1>1. CASE \E c \in codes : x.op = "pending" /\ y = [x EXCEPT !.op = c]
  <2>1. PICK c \in codes : x.op = "pending" /\ y = [x EXCEPT !.op = c]
    BY <1>1
  <2>2. c \in OpState /\ c # "none"
    BY DEF OpState, Queued
  <2> QED
    BY <2>1, <2>2 DEF TransportState, Fits
<1>2. CASE \E w \in x.writes, c \in codes :
              y = [x EXCEPT !.writes = (@ \ {w}) \union {[w EXCEPT !.code = c]}]
  <2>1. PICK w \in x.writes, c \in codes :
              y = [x EXCEPT !.writes = (@ \ {w}) \union {[w EXCEPT !.code = c]}]
    BY <1>2
  <2>2. c \in WriteCode
    BY DEF WriteCode, Queued
  <2>3. [w EXCEPT !.code = c] \in Write(Msg, U)
    BY <2>2 DEF TransportState, Write
  <2> DEFINE v == [w EXCEPT !.code = c]
  <2>4. v \in Write(Msg, U) /\ y = [x EXCEPT !.writes = (@ \ {w}) \union {v}]
    BY <2>1, <2>3
  <2> HIDE DEF v
  <2> QED
    BY <2>4 DEF TransportState, Fits
<1> QED
  BY <1>1, <1>2 DEF Completions

-----------------------------------------------------------------------------
(***************************************************************************)
(* Recursive functions of a number, as HostBytes has them: that there is   *)
(* one, that there is no other, and what its values are.  The induction is *)
(* on the least counterexample.                                            *)
(***************************************************************************)
\* A set of numbers has a least one.
LEMMA LeastOne ==
    ASSUME NEW T \in SUBSET Nat, T # {}
    PROVE \E n \in T : \A m \in T : n <= m
<1> DEFINE R == {ss \in Nat \X Nat : ss[1] < ss[2]}
<1>1. IsWellFoundedOn(R, Nat)
  BY NatLessThanWellFounded DEF OpToRel
<1>2. PICK n \in T : \A m \in T : ~ (<<m, n>> \in R)
  BY <1>1, WFMin
<1>3. ASSUME NEW m \in T PROVE n <= m
  <2>1. m \in Nat /\ n \in Nat
    OBVIOUS
  <2>2. ~(m < n)
    BY <1>2, <2>1
  <2> HIDE DEF R
  <2> QED BY <2>1, <2>2
<1> QED BY <1>3

\* D is Nat or an initial part of it.
Initial(D) == /\ D \subseteq Nat /\ 0 \in D
              /\ \A i \in D : i # 0 => i - 1 \in D

\* f is the function on D with f[0] = a whose next value is g of the one before.
Recurs(f, D, a, g) ==
    \A i \in D : f[i] = IF i = 0 THEN a ELSE g[<<i, f[i - 1]>>]

\* Its values stay in a set that holds a and that g does not leave.
LEMMA RecursTyped ==
    ASSUME NEW S, NEW D, Initial(D), NEW a \in S,
           NEW g, \A i \in D, x \in S : g[<<i, x>>] \in S,
           NEW f, Recurs(f, D, a, g)
    PROVE  \A i \in D : f[i] \in S
<1> DEFINE T == {i \in D : f[i] \notin S}
<1>1. ASSUME T # {} PROVE FALSE
  <2>1. T \in SUBSET Nat
    BY DEF Initial
  <2>2. PICK n \in T : \A m \in T : n <= m
    BY <1>1, <2>1, LeastOne
  <2>3. n \in D /\ n \in Nat /\ f[n] \notin S
    BY <2>1
  <2>4. f[n] = IF n = 0 THEN a ELSE g[<<n, f[n - 1]>>]
    BY <2>3 DEF Recurs
  <2>5. n # 0
    BY <2>3, <2>4
  <2>6. n - 1 \in D /\ ~(n <= n - 1)
    BY <2>3, <2>5 DEF Initial
  <2>7. f[n - 1] \in S
    BY <2>2, <2>6
  <2>8. g[<<n, f[n - 1]>>] \in S
    BY <2>3, <2>7
  <2> HIDE DEF T
  <2> QED
    BY <2>3, <2>4, <2>5, <2>8
<1> QED
  BY <1>1

\* Two of them agree where both are defined.
LEMMA RecursUnique ==
    ASSUME NEW D, Initial(D), NEW E, Initial(E), NEW a, NEW g,
           NEW f, Recurs(f, D, a, g), NEW h, Recurs(h, E, a, g)
    PROVE  \A i \in D \cap E : f[i] = h[i]
<1> DEFINE T == {i \in D \cap E : f[i] # h[i]}
<1>1. ASSUME T # {} PROVE FALSE
  <2>1. T \in SUBSET Nat
    BY DEF Initial
  <2>2. PICK n \in T : \A m \in T : n <= m
    BY <1>1, <2>1, LeastOne
  <2>3. n \in D /\ n \in E /\ n \in Nat /\ f[n] # h[n]
    BY <2>1
  <2>4. /\ f[n] = IF n = 0 THEN a ELSE g[<<n, f[n - 1]>>]
        /\ h[n] = IF n = 0 THEN a ELSE g[<<n, h[n - 1]>>]
    BY <2>3 DEF Recurs
  <2>5. n # 0
    BY <2>3, <2>4
  <2>6. n - 1 \in D /\ n - 1 \in E /\ ~(n <= n - 1)
    BY <2>3, <2>5 DEF Initial
  <2>7. f[n - 1] = h[n - 1]
    BY <2>2, <2>6
  <2> HIDE DEF T
  <2> QED
    BY <2>3, <2>4, <2>5, <2>7
<1> QED
  BY <1>1

\* There is one up to every number.
LEMMA RecursUpTo ==
    ASSUME NEW a, NEW g
    PROVE  \A n \in Nat : \E f : Recurs(f, 0..n, a, g)
<1> DEFINE T == {n \in Nat : ~ \E f : Recurs(f, 0..n, a, g)}
<1>1. ASSUME T # {} PROVE FALSE
  <2>1. PICK n \in T : \A m \in T : n <= m
    BY <1>1, LeastOne
  <2>2. n \in Nat /\ ~ \E f : Recurs(f, 0..n, a, g)
    OBVIOUS
  <2>3. CASE n = 0
    <3>1. Recurs([i \in 0..0 |-> a], 0..0, a, g)
      BY DEF Recurs
    <3> QED
      BY <2>2, <2>3, <3>1
  <2>4. CASE n # 0
    <3>1. n - 1 \in Nat /\ ~(n <= n - 1)
      BY <2>2, <2>4
    <3>2. n - 1 \notin T
      BY <2>1, <3>1
    <3>3. PICK f : Recurs(f, 0..(n - 1), a, g)
      BY <3>1, <3>2
    <3> DEFINE h == [i \in 0..n |-> IF i = n THEN g[<<n, f[n - 1]>>] ELSE f[i]]
    <3>4. ASSUME NEW i \in 0..n
            PROVE h[i] = IF i = 0 THEN a ELSE g[<<i, h[i - 1]>>]
      <4>1. CASE i = n
        <5>1. n - 1 \in 0..n /\ n - 1 # n /\ n \in 0..n
            BY <2>2, <3>1
        <5>2. h[n - 1] = f[n - 1] /\ h[n] = g[<<n, f[n - 1]>>]
            BY <5>1
        <5> QED
            BY <2>4, <4>1, <5>2
      <4>2. CASE i # n
        <5>1. i \in 0..(n - 1) /\ (i # 0 => i - 1 \in 0..n /\ i - 1 # n)
            BY <2>2, <4>2
        <5>2. h[i] = f[i] /\ (i # 0 => h[i - 1] = f[i - 1])
            BY <4>2, <5>1
        <5>3. f[i] = IF i = 0 THEN a ELSE g[<<i, f[i - 1]>>]
            BY <3>3, <5>1 DEF Recurs
        <5> HIDE DEF h
        <5> QED
            BY <5>2, <5>3
      <4> QED
        BY <4>1, <4>2
    <3>5. Recurs(h, 0..n, a, g)
      BY <3>4 DEF Recurs
    <3> QED
      BY <2>2, <3>5
  <2> QED
    BY <2>3, <2>4
<1> QED
  BY <1>1

\* There is one on D: the values of the partial ones put together.
LEMMA RecursExists ==
    ASSUME NEW D, Initial(D), NEW a, NEW g
    PROVE  \E f : Recurs(f, D, a, g) /\ f = [i \in D |-> f[i]]
<1> DEFINE part(n) == CHOOSE f : Recurs(f, 0..n, a, g)
           h == [i \in D |-> part(i)[i]]
<1>1. \A n \in Nat : Recurs(part(n), 0..n, a, g)
  BY RecursUpTo
<1> HIDE DEF part
<1>2. ASSUME NEW i \in D
      PROVE h[i] = IF i = 0 THEN a ELSE g[<<i, h[i - 1]>>]
  <2>1. i \in Nat /\ i \in 0..i
    BY DEF Initial
  <2>2. part(i)[i] = IF i = 0 THEN a ELSE g[<<i, part(i)[i - 1]>>]
    BY <1>1, <2>1 DEF Recurs
  <2>3. CASE i # 0
    <3>1. i - 1 \in D /\ i - 1 \in Nat /\ i - 1 \in (0..i) \cap (0..(i - 1))
      BY <2>1, <2>3 DEF Initial
    <3>2. Initial(0..i) /\ Initial(0..(i - 1))
      BY <2>1, <3>1 DEF Initial
    <3>3. part(i)[i - 1] = part(i - 1)[i - 1]
      BY <1>1, <2>1, <3>1, <3>2, RecursUnique
    <3>4. h[i - 1] = part(i - 1)[i - 1] /\ h[i] = part(i)[i]
      BY <3>1
    <3> HIDE DEF h
    <3> QED
      BY <2>2, <2>3, <3>3, <3>4
  <2> QED
    BY <2>2, <2>3
<1>3. h = [i \in D |-> h[i]]
  OBVIOUS
<1> HIDE DEF h
<1>4. Recurs(h, D, a, g)
  BY <1>2 DEF Recurs
<1> QED
  BY <1>3, <1>4

\* The powers of the base.
LEMMA Powers ==
    ASSUME NEW b \in Nat \ {0}
    PROVE  /\ Power(b, 0) = 1
           /\ \A k \in Nat : Power(b, k) \in Nat \ {0}
           /\ \A k \in Nat : Power(b, k + 1) = b * Power(b, k)
<1> DEFINE Eq(f) == f = [i \in Nat |-> IF i = 0 THEN 1 ELSE b * f[i - 1]]
           p == CHOOSE f : Eq(f)
           g == [x \in Nat \X Int |-> b * x[2]]
<1>1. Initial(Nat)
  BY DEF Initial
<1>2. g \in [Nat \X Int -> Int] /\ \A i \in Nat, x \in Int : g[<<i, x>>] = b * x
  OBVIOUS
<1> HIDE DEF g
<1>3. PICK f : Recurs(f, Nat, 1, g) /\ f = [i \in Nat |-> f[i]]
  BY <1>1, RecursExists
<1>4. Recurs(f, Nat, 1, g)
  BY <1>3
<1>5. \A i \in Nat : f[i] \in Int
  <2> DEFINE S == Int
             D == Nat
             start == 1
  <2>1. start \in S /\ \A i \in D, x \in S : g[<<i, x>>] \in S
    BY <1>2
  <2>2. Initial(D) /\ Recurs(f, D, start, g)
    BY <1>1, <1>4
  <2> HIDE DEF S, D, start
  <2>3. \A i \in D : f[i] \in S
    BY <2>1, <2>2, RecursTyped
  <2> QED
    BY <2>3 DEF S, D
<1>6. \A i \in Nat : f[i] = IF i = 0 THEN 1 ELSE b * f[i - 1]
  <2> SUFFICES ASSUME NEW i \in Nat
                 PROVE  f[i] = IF i = 0 THEN 1 ELSE b * f[i - 1]
    OBVIOUS
  <2>1. f[i] = IF i = 0 THEN 1 ELSE g[<<i, f[i - 1]>>]
    BY <1>4 DEF Recurs
  <2>2. i # 0 => f[i - 1] \in Int
    BY <1>5
  <2> QED
    BY <1>2, <2>1, <2>2
<1>7. Eq(f)
  BY <1>3, <1>6
<1>8. Eq(p)
  BY <1>7
<1>9. \A k : Power(b, k) = p[k]
  BY DEF Power
<1> HIDE DEF p
<1>10. p[0] = 1 /\ \A k \in Nat : p[k + 1] = b * p[k]
  BY <1>8
<1>11. \A k \in Nat : p[k] \in Nat \ {0}
  <2> DEFINE T == {k \in Nat : p[k] \notin Nat \ {0}}
  <2>1. ASSUME T # {} PROVE FALSE
    <3>1. PICK n \in T : \A m \in T : n <= m
      BY <2>1, LeastOne
    <3>2. n # 0
      BY <1>10
    <3>3. n - 1 \in Nat /\ ~(n <= n - 1) /\ n \in Nat /\ p[n] \notin Nat \ {0}
      BY <3>2
    <3>4. p[n - 1] \in Nat \ {0}
      BY <3>1, <3>3
    <3>5. p[n] = b * p[n - 1]
      <4>1. p[(n - 1) + 1] = b * p[n - 1]
        BY <1>10, <3>3
      <4> QED
        BY <3>3, <4>1
    <3>6. \A x, y \in Nat \ {0} : x * y \in Nat \ {0}
      OBVIOUS
    <3> QED
      BY <3>3, <3>4, <3>5, <3>6
  <2> QED
    BY <2>1
<1> QED
  BY <1>9, <1>10, <1>11

\* A number cut behind one digit more.
LEMMA OneDigitMore ==
    ASSUME NEW n \in Nat, NEW d \in Nat \ {0}, NEW b \in Nat \ {0}
    PROVE  n % (b * d) = (n % d) + ((n \div d) % b) * d
<1> DEFINE q == n \div d
           s == q \div b
           r == n % d
           t == q % b
<1>1. n = d * q + r /\ r \in 0..(d - 1) /\ q \in Nat
  OBVIOUS
<1>2. q = b * s + t /\ t \in 0..(b - 1) /\ s \in Nat
  BY <1>1
<1> HIDE DEF q, r, s, t
<1>3. b * d \in Nat \ {0}
  OBVIOUS
<1>4. n = (b * d) * s + (r + t * d)
  BY <1>1, <1>2
<1>5. r + t * d \in 0..(b * d - 1)
  <2>1. t * d \in Nat /\ t * d <= (b - 1) * d
    BY <1>2
  <2>2. (b - 1) * d = b * d - d
    OBVIOUS
  <2> QED
    BY <1>1, <1>3, <2>1, <2>2
<1>6. \A m \in Nat \ {0} : \A x \in Nat, y \in 0..(m - 1) : (m * x + y) % m = y
  OBVIOUS
<1>7. n % (b * d) = r + t * d
  BY <1>2, <1>3, <1>4, <1>5, <1>6
<1> QED
  BY <1>7 DEF r, t, q

\* The bytes of a number are the number again, as far as they go.
LEMMA DigitsOf ==
    ASSUME NEW b \in Nat \ {0}, NEW n \in Nat, NEW width \in Nat
    PROVE  FromBytes(ToBytes(n, width, b), b) = n % Power(b, width)
<1> DEFINE bytes == ToBytes(n, width, b)
           D == 0..width
           Eq(f) == f = [i \in 0..Len(bytes) |->
                             IF i = 0 THEN 0 ELSE f[i - 1] + bytes[i] * Power(b, i - 1)]
           h == [i \in D |-> n % Power(b, i)]
<1>1. Len(bytes) = width /\ \A i \in 1..width : bytes[i] = (n \div Power(b, i - 1)) % b
  BY DEF ToBytes
<1> HIDE DEF bytes
<1>2. FromBytes(bytes, b) = (CHOOSE f : Eq(f))[width]
  BY <1>1 DEF FromBytes
<1>3. \A i \in D : h[i] = IF i = 0 THEN 0 ELSE h[i - 1] + bytes[i] * Power(b, i - 1)
  <2> SUFFICES ASSUME NEW i \in D
                 PROVE  h[i] = IF i = 0 THEN 0 ELSE h[i - 1] + bytes[i] * Power(b, i - 1)
    OBVIOUS
  <2>1. CASE i = 0
    <3>1. n % 1 = 0
      OBVIOUS
    <3> QED
      BY <2>1, <3>1, Powers
  <2>2. CASE i # 0
    <3>1. i - 1 \in D /\ i - 1 \in Nat /\ i \in 1..width /\ (i - 1) + 1 = i
      BY <2>2
    <3>2. Power(b, i) = b * Power(b, i - 1) /\ Power(b, i - 1) \in Nat \ {0}
      BY <3>1, Powers
    <3>3. n % Power(b, i) = (n % Power(b, i - 1)) + bytes[i] * Power(b, i - 1)
      <4> DEFINE d == Power(b, i - 1)
      <4>1. d \in Nat \ {0} /\ Power(b, i) = b * d /\ bytes[i] = (n \div d) % b
        BY <1>1, <3>1, <3>2
      <4> HIDE DEF d
      <4>2. n % (b * d) = (n % d) + ((n \div d) % b) * d
        BY <4>1, OneDigitMore
      <4>3. n % Power(b, i) = (n % d) + bytes[i] * d
        BY <4>1, <4>2
      <4> QED
        BY <4>3 DEF d
    <3> QED
      BY <2>2, <3>1, <3>3
  <2> QED
    BY <2>1, <2>2
<1>4. Eq(h)
  BY <1>1, <1>3
<1>5. ASSUME NEW f, Eq(f)
      PROVE  f[width] = h[width]
  <2> DEFINE T == {i \in D : f[i] # h[i]}
  <2>0. \A i \in D : f[i] = IF i = 0 THEN 0 ELSE f[i - 1] + bytes[i] * Power(b, i - 1)
    BY <1>1, <1>5
  <2> HIDE DEF h
  <2>1. ASSUME T # {} PROVE FALSE
    <3>0. T \in SUBSET Nat
      OBVIOUS
    <3>1. PICK k \in T : \A m \in T : k <= m
      BY <2>1, <3>0, LeastOne
    <3>2. k # 0
      BY <1>3, <2>0
    <3>3. k - 1 \in D /\ ~(k <= k - 1) /\ k \in D
      BY <3>2
    <3>4. f[k - 1] = h[k - 1]
      BY <3>1, <3>3
    <3> QED
      BY <1>3, <2>0, <3>2, <3>3, <3>4
  <2> QED
    BY <2>1
<1>6. Eq(CHOOSE f : Eq(f))
  BY <1>4
<1>7. h[width] = n % Power(b, width)
  OBVIOUS
<1>8. FromBytes(bytes, b) = n % Power(b, width)
  BY <1>2, <1>5, <1>6, <1>7
<1> QED
  BY <1>8 DEF bytes

\* The digits of a number are bytes, as many as were asked for.
LEMMA BytesTyped ==
    ASSUME NEW b \in Nat \ {0}, NEW n \in Nat, NEW width \in Nat
    PROVE  ToBytes(n, width, b) \in Seq(0..(b - 1)) /\ Len(ToBytes(n, width, b)) = width
<1>1. ASSUME NEW i \in 1..width
      PROVE  (n \div Power(b, i - 1)) % b \in 0..(b - 1)
  <2>1. i - 1 \in Nat
    OBVIOUS
  <2> DEFINE d == Power(b, i - 1)
  <2>2. d \in Nat \ {0}
    BY <2>1, Powers
  <2> HIDE DEF d
  <2> DEFINE q == n \div d
  <2>3. q \in Nat
    BY <2>2
  <2> HIDE DEF q
  <2>4. q % b \in 0..(b - 1)
    BY <2>3
  <2> QED
    BY <2>4 DEF q, d
<1> QED
  BY <1>1 DEF ToBytes
=============================================================================
