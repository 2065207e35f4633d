----------------------------- MODULE Relay_proofs -----------------------------
(***************************************************************************)
(* Theorems about Relay, for any set of clients and any bounds.            *)
(***************************************************************************)
EXTENDS Relay, SequenceTheorems, TLAPS

USE DEF None

-----------------------------------------------------------------------------
(***************************************************************************)
(* Sequences of pieces.                                                    *)
(***************************************************************************)
\* What Tail() leaves.
LEMMA TailAt ==
    ASSUME NEW q \in Seq(Piece), q # <<>>
    PROVE /\ Head(q) = q[1] /\ q[1] \in Piece
          /\ Tail(q) \in Seq(Piece)
          /\ Len(q) \in Nat /\ Len(q) > 0 /\ Len(Tail(q)) = Len(q) - 1
          /\ \A i \in 1..Len(Tail(q)) : i + 1 \in 1..Len(q) /\ Tail(q)[i] = q[i + 1]
  <1>1. Len(q) \in Nat /\ Len(q) > 0
    BY EmptySeq
  <1>2. 1 \in 1..Len(q)
    BY <1>1
  <1>3. Head(q) = q[1] /\ q[1] \in Piece
    BY <1>2, HeadTailProperties, ElementOfSeq
  <1>4. Tail(q) \in Seq(Piece) /\ Len(Tail(q)) = Len(q) - 1
        /\ \A i \in 1..Len(Tail(q)) : Tail(q)[i] = q[i + 1]
    BY HeadTailProperties
  <1>5. \A i \in 1..Len(Tail(q)) : i + 1 \in 1..Len(q)
    BY <1>1, <1>4
  <1> QED
    BY <1>1, <1>3, <1>4, <1>5

\* What Append() adds.
LEMMA AppendAt ==
    ASSUME NEW q \in Seq(Piece), NEW x \in Piece
    PROVE /\ Append(q, x) \in Seq(Piece) /\ Append(q, x) # <<>>
          /\ Len(q) \in Nat /\ Len(Append(q, x)) = Len(q) + 1
          /\ \A i \in 1..Len(q) : Append(q, x)[i] = q[i]
          /\ Append(q, x)[Len(q) + 1] = x
  BY AppendProperties, LenProperties

\* The two pieces of a message, one after the other.
LEMMA FrameAt ==
    ASSUME NEW q \in Seq(Piece), NEW m \in Msgs
    PROVE /\ [part |-> "size", msg |-> m] \in Piece
          /\ [part |-> "data", msg |-> m] \in Piece
          /\ q \o Frame(m) = Append(Append(q, [part |-> "size", msg |-> m]),
                                    [part |-> "data", msg |-> m])
  <1> DEFINE size == [part |-> "size", msg |-> m]
             data == [part |-> "data", msg |-> m]
  <1>1. size \in Piece /\ data \in Piece
    BY DEF Piece
  <1> HIDE DEF size, data
  <1>2. q \o <<size, data>> = Append(Append(q, size), data)
    BY <1>1
  <1> QED
    BY <1>1, <1>2 DEF Frame, size, data

\* Framing goes on after the first piece is read.
LEMMA FramingTail ==
    ASSUME NEW q \in Seq(Piece), NEW partial, q # <<>>, Framing(partial, q)
    PROVE /\ Expects(partial, Head(q))
          /\ Framing(Pending(Head(q)), Tail(q))
          /\ After(Pending(Head(q)), Tail(q)) = After(partial, q)
  <1> DEFINE r == Tail(q)
  <1>1. /\ Head(q) = q[1]
        /\ r \in Seq(Piece)
        /\ Len(q) \in Nat /\ Len(q) > 0 /\ Len(r) = Len(q) - 1
        /\ \A i \in 1..Len(r) : i + 1 \in 1..Len(q) /\ r[i] = q[i + 1]
    BY TailAt
  <1> HIDE DEF r
  <1>2. (r = <<>> <=> Len(r) = 0) /\ Len(r) \in Nat
    BY <1>1, EmptySeq, LenProperties
  <1>3. Expects(partial, q[1]) /\ \A i \in 1..(Len(q) - 1) : Expects(Pending(q[i]), q[i + 1])
    BY DEF Framing
  <1>4. Framing(Pending(q[1]), r)
    <2>1. ASSUME r # <<>>
          PROVE Expects(Pending(q[1]), r[1])
      <3>1. 1 \in 1..Len(r) /\ 1 \in 1..(Len(q) - 1)
        BY <1>1, <1>2, <2>1
      <3>2. r[1] = q[1 + 1] /\ Expects(Pending(q[1]), q[1 + 1])
        BY <1>1, <1>3, <3>1
      <3> QED
        BY <3>2
    <2>2. ASSUME NEW i \in 1..(Len(r) - 1)
          PROVE Expects(Pending(r[i]), r[i + 1])
      <3>1. /\ i \in 1..Len(r) /\ i + 1 \in 1..Len(r)
            /\ i + 1 \in 1..(Len(q) - 1)
        BY <1>1, <1>2
      <3>2. r[i] = q[i + 1] /\ r[i + 1] = q[i + 1 + 1]
        BY <1>1, <3>1
      <3>3. Expects(Pending(q[i + 1]), q[i + 1 + 1])
        BY <1>3, <3>1
      <3> QED
        BY <3>2, <3>3
    <2> QED
      BY <2>1, <2>2 DEF Framing
  <1>5. After(Pending(q[1]), r) = After(partial, q)
    <2>1. CASE r = <<>>
      <3>1. Len(q) = 1
        BY <1>1, <1>2, <2>1
      <3> QED
        BY <2>1, <3>1 DEF After
    <2>2. CASE r # <<>>
      <3>1. Len(r) \in 1..Len(r)
        BY <1>2, <2>2
      <3>2. r[Len(r)] = q[Len(r) + 1] /\ Len(r) + 1 = Len(q)
        BY <1>1, <3>1
      <3> QED
        BY <2>2, <3>2 DEF After
    <2> QED
      BY <2>1, <2>2
  <1> QED
    BY <1>1, <1>3, <1>4, <1>5 DEF r

\* Framing goes on with a piece that is waited for.
LEMMA FramingAppend ==
    ASSUME NEW q \in Seq(Piece), NEW partial, NEW x \in Piece,
           Framing(partial, q), Expects(After(partial, q), x)
    PROVE /\ Framing(partial, Append(q, x))
          /\ After(partial, Append(q, x)) = Pending(x)
  <1> DEFINE r == Append(q, x)
  <1>1. /\ r \in Seq(Piece) /\ r # <<>>
        /\ Len(q) \in Nat /\ Len(r) = Len(q) + 1
        /\ \A i \in 1..Len(q) : r[i] = q[i]
        /\ r[Len(q) + 1] = x
    BY AppendAt
  <1> HIDE DEF r
  <1>2. (q = <<>> <=> Len(q) = 0)
    BY EmptySeq
  <1>3. After(partial, r) = Pending(x)
    BY <1>1 DEF After
  <1>4. CASE q = <<>>
    <2>1. Len(q) = 0 /\ r[1] = x /\ Expects(partial, x)
      BY <1>1, <1>2, <1>4 DEF After
    <2>2. 1..(Len(r) - 1) = {}
      BY <1>1, <2>1
    <2>3. Framing(partial, r)
      BY <2>1, <2>2 DEF Framing
    <2> QED
      BY <1>3, <2>3 DEF r
  <1>5. CASE q # <<>>
    <2>1. Len(q) \in 1..Len(q) /\ 1 \in 1..Len(q)
      BY <1>1, <1>2, <1>5
    <2>2. r[1] = q[1] /\ Expects(partial, q[1])
      BY <1>1, <1>5, <2>1 DEF Framing
    <2>3. ASSUME NEW i \in 1..(Len(r) - 1)
          PROVE Expects(Pending(r[i]), r[i + 1])
      <3>1. CASE i = Len(q)
        <4>1. Expects(Pending(q[Len(q)]), x)
          BY <1>5 DEF After
        <4> QED
          BY <1>1, <2>1, <3>1, <4>1
      <3>2. CASE i # Len(q)
        <4>1. i \in 1..Len(q) /\ i + 1 \in 1..Len(q) /\ i \in 1..(Len(q) - 1)
          BY <1>1, <3>2
        <4>2. r[i] = q[i] /\ r[i + 1] = q[i + 1]
          BY <1>1, <4>1
        <4>3. Expects(Pending(q[i]), q[i + 1])
          BY <4>1 DEF Framing
        <4> QED
          BY <4>2, <4>3
      <3> QED
        BY <3>1, <3>2
    <2>4. Framing(partial, r)
      BY <2>2, <2>3 DEF Framing
    <2> QED
      BY <1>3, <2>4 DEF r
  <1> QED
    BY <1>4, <1>5

\* Framing goes on with a whole message.
LEMMA FramingSent ==
    ASSUME NEW q \in Seq(Piece), NEW partial, NEW m \in Msgs,
           Framing(partial, q), After(partial, q) = None
    PROVE /\ Framing(partial, q \o Frame(m))
          /\ After(partial, q \o Frame(m)) = None
  <1> DEFINE size == [part |-> "size", msg |-> m]
             data == [part |-> "data", msg |-> m]
             r == Append(q, size)
  <1>1. size \in Piece /\ data \in Piece /\ q \o Frame(m) = Append(r, data)
    BY FrameAt
  <1>2. /\ Expects(None, size) /\ Pending(size) = m
        /\ Expects(m, data) /\ Pending(data) = None
    BY DEF Expects, Pending, Msgs
  <1> HIDE DEF size, data
  <1>3. Framing(partial, r) /\ After(partial, r) = m
    BY <1>1, <1>2, FramingAppend
  <1>4. r \in Seq(Piece)
    BY <1>1, AppendAt
  <1> HIDE DEF r
  <1>5. Framing(partial, Append(r, data)) /\ After(partial, Append(r, data)) = None
    BY <1>1, <1>2, <1>3, <1>4, FramingAppend
  <1> QED
    BY <1>1, <1>5

\* Order goes on after the first piece is read.
LEMMA RisingTail ==
    ASSUME NEW q \in Seq(Piece), q # <<>>, Rising(q)
    PROVE /\ Rising(Tail(q))
          /\ \A i \in 1..Len(Tail(q)) : Before(Head(q), Tail(q)[i])
  <1> DEFINE r == Tail(q)
  <1>1. /\ Head(q) = q[1]
        /\ Len(q) \in Nat /\ Len(q) > 0 /\ Len(r) = Len(q) - 1
        /\ \A i \in 1..Len(r) : i + 1 \in 1..Len(q) /\ r[i] = q[i + 1]
    BY TailAt
  <1> HIDE DEF r
  <1>2. ASSUME NEW i \in 1..Len(r), NEW j \in 1..Len(r), i < j
        PROVE Before(r[i], r[j])
    <2>1. /\ i + 1 \in 1..Len(q) /\ j + 1 \in 1..Len(q) /\ i + 1 < j + 1
          /\ r[i] = q[i + 1] /\ r[j] = q[j + 1]
      BY <1>1, <1>2
    <2>2. Before(q[i + 1], q[j + 1])
      BY <2>1 DEF Rising
    <2> QED
      BY <2>1, <2>2
  <1>3. ASSUME NEW i \in 1..Len(r)
        PROVE Before(q[1], r[i])
    <2>1. /\ 1 \in 1..Len(q) /\ i + 1 \in 1..Len(q) /\ 1 < i + 1
          /\ r[i] = q[i + 1]
      BY <1>1
    <2>2. Before(q[1], q[i + 1])
      BY <2>1 DEF Rising
    <2> QED
      BY <2>1, <2>2
  <1>4. Rising(r)
    BY <1>2 DEF Rising
  <1> QED
    BY <1>1, <1>3, <1>4 DEF r

LEMMA AllBeforeTail ==
    ASSUME NEW q \in Seq(Piece), NEW r \in Seq(Piece), AllBefore(q, r)
    PROVE /\ q # <<>> => AllBefore(Tail(q), r) /\ \A j \in 1..Len(r) : Before(Head(q), r[j])
          /\ r # <<>> => AllBefore(q, Tail(r)) /\ \A i \in 1..Len(q) : Before(q[i], Head(r))
  <1>1. ASSUME q # <<>>
        PROVE AllBefore(Tail(q), r) /\ \A j \in 1..Len(r) : Before(Head(q), r[j])
    <2>1. /\ Head(q) = q[1] /\ 1 \in 1..Len(q)
          /\ \A i \in 1..Len(Tail(q)) : i + 1 \in 1..Len(q) /\ Tail(q)[i] = q[i + 1]
      BY <1>1, TailAt
    <2> QED
      BY <2>1 DEF AllBefore
  <1>2. ASSUME r # <<>>
        PROVE AllBefore(q, Tail(r)) /\ \A i \in 1..Len(q) : Before(q[i], Head(r))
    <2>1. /\ Head(r) = r[1] /\ 1 \in 1..Len(r)
          /\ \A i \in 1..Len(Tail(r)) : i + 1 \in 1..Len(r) /\ Tail(r)[i] = r[i + 1]
      BY <1>2, TailAt
    <2> QED
      BY <2>1 DEF AllBefore
  <1> QED
    BY <1>1, <1>2

\* Order goes on with a later piece.
LEMMA RisingAppend ==
    ASSUME NEW q \in Seq(Piece), NEW x \in Piece, Rising(q),
           \A i \in 1..Len(q) : Before(q[i], x)
    PROVE Rising(Append(q, x))
  <1> DEFINE r == Append(q, x)
  <1>1. /\ Len(q) \in Nat /\ Len(r) = Len(q) + 1
        /\ \A i \in 1..Len(q) : r[i] = q[i]
        /\ r[Len(q) + 1] = x
    BY AppendAt
  <1> HIDE DEF r
  <1>2. ASSUME NEW i \in 1..Len(r), NEW j \in 1..Len(r), i < j
        PROVE Before(r[i], r[j])
    <2>1. i \in 1..Len(q) /\ r[i] = q[i]
      BY <1>1, <1>2
    <2>2. CASE j = Len(q) + 1
      BY <1>1, <2>1, <2>2
    <2>3. CASE j # Len(q) + 1
      <3>1. j \in 1..Len(q) /\ r[j] = q[j]
        BY <1>1, <2>3
      <3> QED
        BY <1>2, <2>1, <3>1 DEF Rising
    <2> QED
      BY <2>2, <2>3
  <1> QED
    BY <1>2 DEF Rising, r

LEMMA AllBeforeAppend ==
    ASSUME NEW q \in Seq(Piece), NEW r \in Seq(Piece), NEW x \in Piece, AllBefore(q, r)
    PROVE /\ (\A j \in 1..Len(r) : Before(x, r[j])) => AllBefore(Append(q, x), r)
          /\ (\A i \in 1..Len(q) : Before(q[i], x)) => AllBefore(q, Append(r, x))
  <1>1. /\ Len(q) \in Nat /\ Len(Append(q, x)) = Len(q) + 1
        /\ \A i \in 1..Len(q) : Append(q, x)[i] = q[i]
        /\ Append(q, x)[Len(q) + 1] = x
    BY AppendAt
  <1>2. /\ Len(r) \in Nat /\ Len(Append(r, x)) = Len(r) + 1
        /\ \A i \in 1..Len(r) : Append(r, x)[i] = r[i]
        /\ Append(r, x)[Len(r) + 1] = x
    BY AppendAt
  <1>3. ASSUME \A j \in 1..Len(r) : Before(x, r[j]),
               NEW i \in 1..Len(Append(q, x)), NEW j \in 1..Len(r)
        PROVE Before(Append(q, x)[i], r[j])
    <2>1. i \in 1..Len(q) \/ i = Len(q) + 1
      BY <1>1
    <2> QED
      BY <1>1, <1>3, <2>1 DEF AllBefore
  <1>4. ASSUME \A i \in 1..Len(q) : Before(q[i], x),
               NEW i \in 1..Len(q), NEW j \in 1..Len(Append(r, x))
        PROVE Before(q[i], Append(r, x)[j])
    <2>1. j \in 1..Len(r) \/ j = Len(r) + 1
      BY <1>2
    <2> QED
      BY <1>2, <1>4, <2>1 DEF AllBefore
  <1> QED
    BY <1>3, <1>4 DEF AllBefore

\* The messages of a sequence of pieces.
LEMMA MsgsOfTail ==
    ASSUME NEW q \in Seq(Piece), q # <<>>
    PROVE MsgsOf(Tail(q)) \subseteq MsgsOf(q) /\ Head(q).msg \in MsgsOf(q)
  BY TailAt DEF MsgsOf

LEMMA MsgsOfAppend ==
    ASSUME NEW q \in Seq(Piece), NEW x \in Piece
    PROVE MsgsOf(Append(q, x)) = MsgsOf(q) \union {x.msg}
  <1> DEFINE r == Append(q, x)
  <1>1. /\ Len(q) \in Nat /\ Len(r) = Len(q) + 1
        /\ \A i \in 1..Len(q) : r[i] = q[i]
        /\ r[Len(q) + 1] = x
    BY AppendAt
  <1> HIDE DEF r
  <1>2. \A i \in 1..Len(r) : i \in 1..Len(q) \/ i = Len(q) + 1
    BY <1>1
  <1>3. \A i \in 1..Len(q) : i \in 1..Len(r)
    BY <1>1
  <1>4. Len(q) + 1 \in 1..Len(r)
    BY <1>1
  <1>5. MsgsOf(r) = MsgsOf(q) \union {x.msg}
    BY <1>1, <1>2, <1>3, <1>4 DEF MsgsOf
  <1> QED
    BY <1>5 DEF r

LEMMA MsgsOfTyped ==
    ASSUME NEW q \in Seq(Piece)
    PROVE MsgsOf(q) \subseteq Msgs /\ \A i \in 1..Len(q) : q[i].msg \in MsgsOf(q)
  <1>1. \A i \in 1..Len(q) : q[i] \in Piece
    BY ElementOfSeq
  <1>2. \A i \in 1..Len(q) : q[i].msg \in Msgs
    BY <1>1 DEF Piece
  <1> QED
    BY <1>2 DEF MsgsOf

\* A whole message that is later than all the others.
LEMMA RisingSent ==
    ASSUME NEW q \in Seq(Piece), NEW m \in Msgs, Rising(q), \A x \in MsgsOf(q) : x < m
    PROVE Rising(q \o Frame(m))
  <1> DEFINE size == [part |-> "size", msg |-> m]
             data == [part |-> "data", msg |-> m]
             r == Append(q, size)
  <1>1. size \in Piece /\ data \in Piece /\ q \o Frame(m) = Append(r, data)
    BY FrameAt
  <1>2. Before(size, data) /\ size.msg = m /\ data.msg = m
    BY DEF Before
  <1> HIDE DEF size, data
  <1>3. \A i \in 1..Len(q) : q[i].msg < m
    BY MsgsOfTyped
  <1>4. \A i \in 1..Len(q) : Before(q[i], size) /\ Before(q[i], data)
    BY <1>2, <1>3 DEF Before
  <1>5. /\ r \in Seq(Piece)
        /\ Len(q) \in Nat /\ Len(r) = Len(q) + 1
        /\ \A i \in 1..Len(q) : r[i] = q[i]
        /\ r[Len(q) + 1] = size
    BY <1>1, AppendAt
  <1>6. Rising(r)
    BY <1>1, <1>4, RisingAppend
  <1> HIDE DEF r
  <1>7. \A i \in 1..Len(r) : Before(r[i], data)
    <2> SUFFICES ASSUME NEW i \in 1..Len(r)
                 PROVE Before(r[i], data)
      OBVIOUS
    <2>1. i \in 1..Len(q) \/ i = Len(q) + 1
      BY <1>5
    <2> QED
      BY <1>2, <1>4, <1>5, <2>1
  <1> QED
    BY <1>1, <1>5, <1>6, <1>7, RisingAppend

LEMMA AllBeforeSent ==
    ASSUME NEW q \in Seq(Piece), NEW r \in Seq(Piece), NEW m \in Msgs, AllBefore(q, r),
           \A x \in MsgsOf(q) : x < m
    PROVE AllBefore(q, r \o Frame(m))
  <1> DEFINE size == [part |-> "size", msg |-> m]
             data == [part |-> "data", msg |-> m]
  <1>1. size \in Piece /\ data \in Piece /\ r \o Frame(m) = Append(Append(r, size), data)
    BY FrameAt
  <1>2. \A i \in 1..Len(q) : q[i].msg < m
    BY MsgsOfTyped
  <1>3. \A i \in 1..Len(q) : Before(q[i], size) /\ Before(q[i], data)
    BY <1>2 DEF Before
  <1> HIDE DEF size, data
  <1>4. AllBefore(q, Append(r, size)) /\ Append(r, size) \in Seq(Piece)
    BY <1>1, <1>3, AllBeforeAppend, AppendAt
  <1>5. AllBefore(q, Append(Append(r, size), data))
    BY <1>1, <1>3, <1>4, AllBeforeAppend
  <1> QED
    BY <1>1, <1>5

LEMMA MsgsOfSent ==
    ASSUME NEW q \in Seq(Piece), NEW m \in Msgs
    PROVE q \o Frame(m) \in Seq(Piece) /\ MsgsOf(q \o Frame(m)) = MsgsOf(q) \union {m}
  <1> DEFINE size == [part |-> "size", msg |-> m]
             data == [part |-> "data", msg |-> m]
  <1>1. size \in Piece /\ data \in Piece /\ q \o Frame(m) = Append(Append(q, size), data)
    BY FrameAt
  <1>2. size.msg = m /\ data.msg = m
    OBVIOUS
  <1> HIDE DEF size, data
  <1>3. Append(q, size) \in Seq(Piece) /\ MsgsOf(Append(q, size)) = MsgsOf(q) \union {m}
    BY <1>1, <1>2, AppendAt, MsgsOfAppend
  <1> DEFINE r == Append(q, size)
  <1> HIDE DEF r
  <1>4. r \in Seq(Piece) /\ MsgsOf(r) = MsgsOf(q) \union {m}
    BY <1>3 DEF r
  <1>5. Append(r, data) \in Seq(Piece)
    BY <1>1, <1>4, AppendAt
  <1>6. MsgsOf(Append(r, data)) = MsgsOf(r) \union {m}
    BY <1>1, <1>2, <1>4, MsgsOfAppend
  <1> QED
    BY <1>1, <1>4, <1>5, <1>6 DEF r

-----------------------------------------------------------------------------
(***************************************************************************)
(* One direction of a connection: what each step does to it.               *)
(***************************************************************************)
\* The messages that are on their way.
Way(partial, inbox, msgs) == MsgsOf(inbox) \union MsgsOf(msgs) \union ({partial} \ {None})

LEMMA HeldIs ==
    ASSUME NEW partial \in Msgs \union {None}
    PROVE /\ Held(partial) \in Seq(Piece)
          /\ partial = None => Held(partial) = <<>>
          /\ MsgsOf(Held(partial)) = {partial} \ {None}
          /\ partial # None => /\ Len(Held(partial)) = 1
                               /\ Held(partial)[1] = [part |-> "size", msg |-> partial]
  <1>1. CASE partial = None
    <2>1. Held(partial) = <<>>
      BY <1>1 DEF Held
    <2>2. MsgsOf(<<>>) = {} /\ <<>> \in Seq(Piece)
      BY DEF MsgsOf
    <2>3. {partial} \ {None} = {}
      BY <1>1
    <2> QED
      BY <1>1, <2>1, <2>2, <2>3
  <1>2. CASE partial # None
    <2> DEFINE size == [part |-> "size", msg |-> partial]
    <2>1. size \in Piece /\ size.msg = partial
      BY <1>2 DEF Piece
    <2> HIDE DEF size
    <2>2. Held(partial) = <<size>>
      BY <1>2 DEF Held, size
    <2>3. <<size>> \in Seq(Piece) /\ Len(<<size>>) = 1 /\ <<size>>[1] = size
      BY <2>1
    <2>4. MsgsOf(<<size>>) = {partial}
      BY <2>1, <2>3 DEF MsgsOf
    <2>5. {partial} \ {None} = {partial}
      BY <1>2
    <2> QED
      BY <1>2, <2>2, <2>3, <2>4, <2>5 DEF size
  <1> QED
    BY <1>1, <1>2

\* Nothing is on its way.
LEMMA FlowFresh ==
    Flow(None, <<>>, <<>>) /\ Joined(None, <<>>, <<>>) /\ Way(None, <<>>, <<>>) = {}
  <1>1. Len(<<>>) = 0 /\ 1..0 = {}
    OBVIOUS
  <1>2. Framing(None, <<>>) /\ After(None, <<>>) = None
    BY <1>1 DEF Framing, After
  <1>3. Rising(<<>>) /\ AllBefore(<<>>, <<>>) /\ Held(None) = <<>>
    BY <1>1 DEF Rising, AllBefore, Held
  <1>4. MsgsOf(<<>>) = {}
    BY <1>1 DEF MsgsOf
  <1> QED
    BY <1>2, <1>3, <1>4 DEF Flow, Joined, Way

\* The writer is given another message.
LEMMA FlowSent ==
    ASSUME NEW partial \in Msgs \union {None}, NEW inbox \in Seq(Piece),
           NEW msgs \in Seq(Piece), NEW m \in Msgs,
           Flow(partial, inbox, msgs),
           \A x \in Way(partial, inbox, msgs) : x < m
    PROVE /\ Flow(partial, inbox, msgs \o Frame(m))
          /\ Joined(partial, inbox, msgs) => Joined(partial, inbox, msgs \o Frame(m))
          /\ Way(partial, inbox, msgs \o Frame(m)) = Way(partial, inbox, msgs) \union {m}
  <1>1. /\ \A x \in MsgsOf(inbox) : x < m
        /\ \A x \in MsgsOf(msgs) : x < m
        /\ \A x \in MsgsOf(Held(partial)) : x < m
    BY HeldIs DEF Way
  <1>2. /\ Rising(msgs) /\ AllBefore(inbox, msgs) /\ AllBefore(Held(partial), msgs)
        /\ Framing(partial, inbox) /\ Rising(inbox) /\ AllBefore(Held(partial), inbox)
        /\ Held(partial) \in Seq(Piece)
    BY HeldIs DEF Flow
  <1>3. Rising(msgs \o Frame(m)) /\ AllBefore(inbox, msgs \o Frame(m))
        /\ AllBefore(Held(partial), msgs \o Frame(m))
    BY <1>1, <1>2, RisingSent, AllBeforeSent
  <1>4. ASSUME Joined(partial, inbox, msgs)
        PROVE Joined(partial, inbox, msgs \o Frame(m))
    BY <1>4, FramingSent DEF Joined
  <1>5. MsgsOf(msgs \o Frame(m)) = MsgsOf(msgs) \union {m}
    BY MsgsOfSent
  <1> QED
    BY <1>2, <1>3, <1>4, <1>5 DEF Flow, Way

\* The writer's next piece arrives.
LEMMA FlowWritten ==
    ASSUME NEW partial \in Msgs \union {None}, NEW inbox \in Seq(Piece),
           NEW msgs \in Seq(Piece), Flow(partial, inbox, msgs), Joined(partial, inbox, msgs),
           msgs # <<>>
    PROVE /\ Flow(partial, Append(inbox, Head(msgs)), Tail(msgs))
          /\ Joined(partial, Append(inbox, Head(msgs)), Tail(msgs))
          /\ Way(partial, Append(inbox, Head(msgs)), Tail(msgs))
                 \subseteq Way(partial, inbox, msgs)
  <1> DEFINE x == Head(msgs)
             r == Tail(msgs)
  <1>1. x \in Piece /\ r \in Seq(Piece)
    BY TailAt
  <1>2. /\ Framing(partial, inbox)
        /\ Framing(After(partial, inbox), msgs)
        /\ After(After(partial, inbox), msgs) = None
        /\ Rising(inbox) /\ Rising(msgs) /\ AllBefore(inbox, msgs)
        /\ AllBefore(Held(partial), inbox) /\ AllBefore(Held(partial), msgs)
        /\ Held(partial) \in Seq(Piece)
    BY HeldIs DEF Flow, Joined
  <1>3. /\ Expects(After(partial, inbox), x)
        /\ Framing(Pending(x), r)
        /\ After(Pending(x), r) = None
    BY <1>2, FramingTail
  <1>4. Rising(r) /\ \A i \in 1..Len(r) : Before(x, r[i])
    BY <1>2, RisingTail
  <1>5. /\ AllBefore(inbox, r) /\ \A i \in 1..Len(inbox) : Before(inbox[i], x)
        /\ AllBefore(Held(partial), r)
        /\ \A i \in 1..Len(Held(partial)) : Before(Held(partial)[i], x)
    BY <1>2, AllBeforeTail
  <1>6. MsgsOf(r) \subseteq MsgsOf(msgs) /\ x.msg \in MsgsOf(msgs)
    BY MsgsOfTail
  <1> HIDE DEF x, r
  <1>7. Framing(partial, Append(inbox, x)) /\ After(partial, Append(inbox, x)) = Pending(x)
    BY <1>1, <1>2, <1>3, FramingAppend
  <1>8. Rising(Append(inbox, x))
    BY <1>1, <1>2, <1>5, RisingAppend
  <1>9. AllBefore(Append(inbox, x), r) /\ AllBefore(Held(partial), Append(inbox, x))
    BY <1>1, <1>2, <1>4, <1>5, AllBeforeAppend
  <1>10. Flow(partial, Append(inbox, x), r) /\ Joined(partial, Append(inbox, x), r)
    BY <1>3, <1>4, <1>5, <1>7, <1>8, <1>9 DEF Flow, Joined
  <1>11. MsgsOf(Append(inbox, x)) = MsgsOf(inbox) \union {x.msg}
    BY <1>1, MsgsOfAppend
  <1> QED
    BY <1>6, <1>10, <1>11 DEF x, r, Way

\* The writer's next piece is lost.
LEMMA FlowUncarried ==
    ASSUME NEW partial \in Msgs \union {None}, NEW inbox \in Seq(Piece),
           NEW msgs \in Seq(Piece),
           Flow(partial, inbox, msgs), msgs # <<>>
    PROVE /\ Flow(partial, inbox, Tail(msgs))
          /\ Way(partial, inbox, Tail(msgs)) \subseteq Way(partial, inbox, msgs)
  <1>1. Held(partial) \in Seq(Piece)
    BY HeldIs
  <1>2. Rising(Tail(msgs)) /\ AllBefore(inbox, Tail(msgs))
        /\ AllBefore(Held(partial), Tail(msgs))
    BY <1>1, RisingTail, AllBeforeTail DEF Flow
  <1>3. MsgsOf(Tail(msgs)) \subseteq MsgsOf(msgs)
    BY MsgsOfTail
  <1> QED
    BY <1>2, <1>3 DEF Flow, Way

\* The reader or the writer is destroyed, or what has arrived is lost.
LEMMA FlowLost ==
    ASSUME NEW partial \in Msgs \union {None}, NEW inbox \in Seq(Piece),
           NEW msgs \in Seq(Piece),
           Flow(partial, inbox, msgs)
    PROVE /\ Flow(None, <<>>, msgs) /\ Way(None, <<>>, msgs) \subseteq Way(partial, inbox, msgs)
          /\ Flow(partial, inbox, <<>>)
          /\ Way(partial, inbox, <<>>) \subseteq Way(partial, inbox, msgs)
          /\ Flow(partial, <<>>, <<>>)
          /\ Way(partial, <<>>, <<>>) \subseteq Way(partial, inbox, msgs)
  <1>1. Len(<<>>) = 0 /\ 1..0 = {}
    OBVIOUS
  <1>2. /\ Framing(None, <<>>) /\ Framing(partial, <<>>)
        /\ Rising(<<>>) /\ Held(None) = <<>> /\ MsgsOf(<<>>) = {}
    BY <1>1 DEF Framing, Rising, Held, MsgsOf
  <1>3. AllBefore(<<>>, msgs) /\ AllBefore(<<>>, <<>>) /\ AllBefore(inbox, <<>>)
        /\ AllBefore(Held(partial), <<>>)
    BY <1>1 DEF AllBefore
  <1> QED
    BY <1>2, <1>3 DEF Flow, Way

\* What an end has in its hands after it has read the first piece.
Taken(partial, inbox) == IF partial # None THEN None ELSE Head(inbox).msg

\* The reader reads a piece.  What has come out whole is earlier than the rest.
LEMMA FlowRead ==
    ASSUME NEW partial \in Msgs \union {None}, NEW inbox \in Seq(Piece),
           NEW msgs \in Seq(Piece),
           Flow(partial, inbox, msgs), inbox # <<>>
    PROVE /\ Taken(partial, inbox) \in Msgs \union {None}
          /\ Flow(Taken(partial, inbox), Tail(inbox), msgs)
          /\ Joined(partial, inbox, msgs) => Joined(Taken(partial, inbox), Tail(inbox), msgs)
          /\ Way(Taken(partial, inbox), Tail(inbox), msgs) \subseteq Way(partial, inbox, msgs)
          /\ Head(inbox).msg \in Way(partial, inbox, msgs)
          /\ partial # None => \A x \in Way(Taken(partial, inbox), Tail(inbox), msgs) :
                                  Head(inbox).msg < x
  <1> DEFINE x == Head(inbox)
             r == Tail(inbox)
             after == Taken(partial, inbox)
  <1>1. x \in Piece /\ r \in Seq(Piece)
    BY TailAt
  <1>2. x.msg \in Msgs /\ x.msg # None /\ None \notin Msgs
    BY <1>1 DEF Piece, Msgs
  <1>3. /\ Framing(partial, inbox)
        /\ Rising(inbox) /\ Rising(msgs) /\ AllBefore(inbox, msgs)
    BY DEF Flow
  <1>4. /\ Expects(partial, x)
        /\ Framing(Pending(x), r)
        /\ After(Pending(x), r) = After(partial, inbox)
    BY <1>3, FramingTail
  <1>5. Rising(r) /\ \A i \in 1..Len(r) : Before(x, r[i])
    BY <1>3, RisingTail
  <1>6. AllBefore(r, msgs) /\ \A i \in 1..Len(msgs) : Before(x, msgs[i])
    BY <1>3, AllBeforeTail
  <1>7. MsgsOf(r) \subseteq MsgsOf(inbox) /\ x.msg \in MsgsOf(inbox)
    BY MsgsOfTail
  <1>8. after = IF partial # None THEN None ELSE x.msg
    BY DEF Taken
  <1>9. after \in Msgs \union {None} /\ Pending(x) = after
        /\ (partial # None => x.part = "data")
        /\ (partial = None => x = [part |-> "size", msg |-> after] /\ after # None)
    <2>1. CASE partial = None
      <3>1. x.part = "size"
        BY <1>4, <2>1 DEF Expects
      <3> QED
        BY <1>1, <1>2, <1>8, <2>1, <3>1 DEF Pending, Piece
    <2>2. CASE partial # None
      <3>1. x = [part |-> "data", msg |-> partial]
        BY <1>4, <2>2 DEF Expects
      <3> QED
        BY <1>8, <2>2, <3>1 DEF Pending
    <2> QED
      BY <2>1, <2>2
  <1>10. Head(inbox) = x /\ Tail(inbox) = r
    OBVIOUS
  <1> HIDE DEF x, r, after
  <1>11. AllBefore(Held(after), r) /\ AllBefore(Held(after), msgs)
    <2>1. CASE partial = None
      <3>1. Len(Held(after)) = 1 /\ Held(after)[1] = x /\ 1..1 = {1}
        BY <1>9, <2>1, HeldIs
      <3> QED
        BY <1>5, <1>6, <3>1 DEF AllBefore
    <2>2. CASE partial # None
      <3>1. after = None
        BY <1>8, <2>2
      <3>2. Held(after) = <<>> /\ Len(<<>>) = 0 /\ 1..0 = {}
        BY <3>1 DEF Held
      <3> QED
        BY <3>2 DEF AllBefore
    <2> QED
      BY <2>1, <2>2
  <1>12. Flow(after, r, msgs) /\ (Joined(partial, inbox, msgs) => Joined(after, r, msgs))
    BY <1>3, <1>4, <1>5, <1>6, <1>9, <1>11 DEF Flow, Joined
  <1>13. Way(after, r, msgs) \subseteq Way(partial, inbox, msgs)
         /\ x.msg \in Way(partial, inbox, msgs)
    <2>1. {after} \ {None} \subseteq {x.msg}
      BY <1>8
    <2> QED
      BY <1>7, <2>1 DEF Way
  <1>14. ASSUME partial # None, NEW y \in Way(after, r, msgs)
         PROVE x.msg < y
    <2>1. after = None
      BY <1>8, <1>14
    <2>2. x.part # "size"
      BY <1>9, <1>14
    <2>3. CASE y \in MsgsOf(r)
      <3>1. PICK i \in 1..Len(r) : y = r[i].msg
        BY <2>3 DEF MsgsOf
      <3>2. Before(x, r[i])
        BY <1>5
      <3> QED
        BY <2>2, <3>1, <3>2 DEF Before
    <2>4. CASE y \in MsgsOf(msgs)
      <3>1. PICK i \in 1..Len(msgs) : y = msgs[i].msg
        BY <2>4 DEF MsgsOf
      <3>2. Before(x, msgs[i])
        BY <1>6
      <3> QED
        BY <2>2, <3>1, <3>2 DEF Before
    <2> QED
      BY <1>14, <2>1, <2>3, <2>4 DEF Way
  <1> QED
    BY <1>9, <1>10, <1>12, <1>13, <1>14 DEF after

\* What is on its way are datagrams.
LEMMA WayTyped ==
    ASSUME NEW partial \in Msgs \union {None}, NEW inbox \in Seq(Piece),
           NEW msgs \in Seq(Piece)
    PROVE Way(partial, inbox, msgs) \subseteq Msgs
  BY MsgsOfTyped DEF Way

-----------------------------------------------------------------------------
(***************************************************************************)
(* The ends of the connections.                                            *)
(***************************************************************************)
LEMMA Numbers ==
    ASSUME IInv
    PROVE /\ made \in Nat /\ sent \in Nat /\ MaxSent \in Nat /\ MaxConns \in Nat
          /\ made <= MaxConns /\ sent <= MaxSent
          /\ \A m \in 1..made : m \in Conns /\ m \in Nat /\ m >= 1 /\ m <= made
          /\ \A m \in Conns : m \in Nat \ {0} /\ (m <= made => m \in 1..made)
          /\ None \notin Msgs /\ None \notin Conns
          /\ \A x \in Msgs : x \in Nat /\ x \in 0..MaxSent
  <1>1. MaxSent \in Nat /\ MaxConns \in Nat
    BY BoundsAssumption
  <1>2. made \in 0..MaxConns /\ sent \in 0..MaxSent
    BY DEF IInv, TypeOK
  <1> QED
    BY <1>1, <1>2 DEF Conns, Msgs

\* The two ends of a connection.
LEMMA EndAtTyped ==
    ASSUME IInv, NEW n \in Conns, NEW s \in Sides
    PROVE /\ Other(s) \in Sides /\ Other(s) # s /\ Other(Other(s)) = s
          /\ <<n, s>> \in Conns \X Sides
          /\ end[n, s] \in End
          /\ end[n, s].partial \in Msgs \union {None}
          /\ end[n, s].inbox \in Seq(Piece) /\ end[n, s].msgs \in Seq(Piece)
          /\ end[n, s].taken \in 0..MaxSent
  <1>1. Other(s) \in Sides /\ Other(s) # s /\ Other(Other(s)) = s
    BY DEF Sides, Other
  <1>2. <<n, s>> \in Conns \X Sides
    OBVIOUS
  <1>3. end[n, s] \in End
    BY <1>2 DEF IInv, TypeOK
  <1> QED
    BY <1>1, <1>2, <1>3 DEF End

\* An end with nothing to read or to write.
LEMMA EndAtIs ==
    ASSUME NEW stage \in {"none", "up", "open", "closed"}, NEW k \in 0..MaxSent, NEW e,
           e = EndAt(stage, k)
    PROVE /\ e \in End /\ e.stage = stage /\ e.inbox = <<>>
          /\ e.partial = None /\ e.msgs = <<>> /\ ~GivenUp(e)
  <1> DEFINE none == <<>>
  <1>1. none \in Seq(Piece)
    BY EmptySeq
  <1>2. e = [stage |-> stage, told |-> "nothing", ended |-> {}, msgs |-> none, inbox |-> none,
             partial |-> None, taken |-> k]
    BY DEF EndAt
  <1> HIDE DEF none
  <1>3. /\ e \in End /\ e.stage = stage /\ e.inbox = none
        /\ e.partial = None /\ e.msgs = none /\ ~GivenUp(e)
    BY <1>1, <1>2 DEF End, GivenUp
  <1> QED
    BY <1>3 DEF none

\* No end gets more to read than it had coming, and each connection carries
\* what it should.
Keeps(ends) ==
    /\ ends \in [Conns \X Sides -> End]
    /\ \A n \in Conns, s \in Sides :
          /\ Shape(ends[n, s])
          /\ Direction(n, ends[n, s], ends[n, Other(s)])
          /\ Coming(ends[n, s], ends[n, Other(s)]) \subseteq ComingTo(n, s)

\* No end comes to life.
Onward(ends) ==
    \A n \in Conns, s \in Sides :
        /\ ends[n, s].stage = "none" <=> end[n, s].stage = "none"
        /\ IsLive(ends[n, s]) => Live(n, s)

\* The ends are those before, and end s of connection n has become `stage`.
Staged(ends, before, n, s, stage) ==
    \A m \in Conns, u \in Sides :
        ends[m, u].stage = IF m = n /\ u = s THEN stage ELSE before[m, u].stage

Opened(ends, n, s) == [ends EXCEPT ![<<n, s>>].stage = "open"]

\* What is kept by any step that keeps the ends.
LEMMA KeptEnds ==
    ASSUME IInv, Keeps(end'), Onward(end'), UNCHANGED <<sent, made, peer, cut>>
    PROVE /\ EndsInShape' /\ MadeInOrder' /\ LatestOfClient' /\ Directions' /\ InSequence'
          /\ end' \in [Conns \X Sides -> End]
          /\ \A m, n \in Conns : Live(m, "client")' /\ Live(n, "client")'
                                /\ peer'[m] = peer'[n] => m = n
          /\ \A n \in Conns, s \in Sides : /\ ComingTo(n, s)' \subseteq ComingTo(n, s)
                                           /\ Live(n, s)' => Live(n, s)
  <1>1. \A m, n \in Conns : Live(m, "client")' /\ Live(n, "client")'
                             /\ peer'[m] = peer'[n] => m = n
    <2>1. \A n \in Conns : Live(n, "client")' => Live(n, "client")
      BY DEF Onward, Sides, Live, IsLive
    <2> QED
      BY <2>1 DEF IInv, TypeOK
  <1>2. EndsInShape' /\ Directions' /\ end' \in [Conns \X Sides -> End]
    BY DEF Keeps, EndsInShape, Directions, Direction
  <1>3. MadeInOrder'
    BY DEF IInv, MadeInOrder, Onward
  <1>4. LatestOfClient'
    <2>1. \A m \in 1..made : m \in Conns
      BY Numbers
    <2> QED
      BY <2>1 DEF IInv, LatestOfClient, Onward, Live, IsLive, Sides
  <1>5. \A n \in Conns, s \in Sides : ComingTo(n, s)' \subseteq ComingTo(n, s)
                                     /\ (Live(n, s)' => Live(n, s))
    BY DEF Keeps, Onward, ComingTo, Live, IsLive
  <1>6. InSequence'
    <2>1. \A m \in 1..made : m \in Conns
      BY Numbers
    <2> QED
      BY <1>5, <2>1 DEF IInv, InSequence
  <1> QED
    BY <1>1, <1>2, <1>3, <1>4, <1>5, <1>6

LEMMA Kept ==
    ASSUME IInv, Keeps(end'), Onward(end'), UNCHANGED <<sent, made, peer, cut, got>>,
           client' \in Conns \union {None},
           {n \in Conns : Open(n, "server")'} = {client'} \ {None},
           AcceptedInOrder'
    PROVE IInv'
  <1>1. /\ EndsInShape' /\ MadeInOrder' /\ LatestOfClient' /\ Directions' /\ InSequence'
        /\ end' \in [Conns \X Sides -> End]
        /\ \A m, n \in Conns : Live(m, "client")' /\ Live(n, "client")'
                              /\ peer'[m] = peer'[n] => m = n
        /\ \A n \in Conns, s \in Sides : /\ ComingTo(n, s)' \subseteq ComingTo(n, s)
                                         /\ Live(n, s)' => Live(n, s)
    BY KeptEnds
  <1>2. sent' = sent /\ made' = made /\ peer' = peer /\ cut' = cut /\ got' = got
    OBVIOUS
  <1>3. \A c \in Clients, s \in Sides : got'[c, s] <= sent'
    BY <1>2 DEF IInv
  <1>4. /\ sent' \in 0..MaxSent /\ made' \in 0..MaxConns
        /\ peer' \in [Conns -> Clients \union {NoClient}]
        /\ cut' \subseteq 1..made' /\ got' \in [Clients \X Sides -> 0..MaxSent]
    BY <1>2 DEF IInv, TypeOK
  <1>5. TypeOK'
    BY <1>1, <1>4 DEF TypeOK
  <1>6. ASSUME NEW n \in Conns, NEW s \in Sides, NEW x \in ComingTo(n, s)'
        PROVE x <= sent' /\ (Live(n, s)' => got'[peer'[n], s] < x)
    <2>1. x \in ComingTo(n, s) /\ (Live(n, s)' => Live(n, s))
      BY <1>1 DEF ComingTo, Live
    <2>2. x <= sent /\ (Live(n, s) => got[peer[n], s] < x)
      BY <2>1 DEF IInv, Ahead
    <2> QED
      BY <1>2, <2>1, <2>2 DEF Live
  <1>7. Ahead'
    BY <1>6 DEF Ahead, ComingTo, Live
  <1> QED
    BY <1>1, <1>3, <1>5, <1>7 DEF IInv

\* Steps that leave the server's wrappers where they are.
LEMMA KeptServer ==
    ASSUME IInv, Keeps(end'), Onward(end'), UNCHANGED <<sent, made, peer, cut, got, client>>,
           \A n \in Conns : end'[n, "server"].stage = end[n, "server"].stage
    PROVE IInv'
  <1>1. {n \in Conns : Open(n, "server")'} = {client'} \ {None}
    BY DEF IInv, TypeOK, Open
  <1>2. AcceptedInOrder'
    <2>1. \A m \in 1..made : m \in Conns
      BY Numbers
    <2> QED
      BY <2>1 DEF IInv, AcceptedInOrder
  <1>3. client' \in Conns \union {None}
    BY DEF IInv, TypeOK
  <1> QED
    BY <1>1, <1>2, <1>3, Kept

\* A step of one connection.
LEMMA KeepsIf ==
    ASSUME IInv, NEW ends \in [Conns \X Sides -> End], NEW n \in Conns,
           \A m \in Conns, s \in Sides : m # n => ends[m, s] = end[m, s],
           \A s \in Sides : /\ Shape(ends[n, s])
                            /\ Direction(n, ends[n, s], ends[n, Other(s)])
                            /\ Coming(ends[n, s], ends[n, Other(s)]) \subseteq ComingTo(n, s)
    PROVE Keeps(ends)
  <1> SUFFICES ASSUME NEW m \in Conns, NEW s \in Sides
               PROVE /\ Shape(ends[m, s])
                     /\ Direction(m, ends[m, s], ends[m, Other(s)])
                     /\ Coming(ends[m, s], ends[m, Other(s)]) \subseteq ComingTo(m, s)
    BY DEF Keeps
  <1>1. CASE m = n
    BY <1>1
  <1>2. CASE m # n
    <2>1. Other(s) \in Sides
      BY EndAtTyped
    <2>2. ends[m, s] = end[m, s] /\ ends[m, Other(s)] = end[m, Other(s)]
      BY <1>2, <2>1
    <2>3. Shape(end[m, s]) /\ Direction(m, end[m, s], end[m, Other(s)])
      BY DEF IInv, EndsInShape, Directions
    <2> QED
      BY <2>2, <2>3 DEF ComingTo
  <1> QED
    BY <1>1, <1>2

\* What an end may read next, in the terms of the lemmas above.
LEMMA FlowsTo ==
    ASSUME IInv, NEW n \in Conns, NEW s \in Sides
    PROVE /\ Flow(end[n, s].partial, end[n, s].inbox, end[n, Other(s)].msgs)
          /\ n \notin cut /\ Live(n, s) /\ Live(n, Other(s)) =>
                Joined(end[n, s].partial, end[n, s].inbox, end[n, Other(s)].msgs)
          /\ ComingTo(n, s) = Way(end[n, s].partial, end[n, s].inbox, end[n, Other(s)].msgs)
          /\ ComingTo(n, s) \subseteq Msgs
          /\ Shape(end[n, s])
          /\ GivenUp(end[n, s]) => n \in cut
  <1>1. Direction(n, end[n, s], end[n, Other(s)]) /\ Shape(end[n, s])
    BY DEF IInv, Directions, EndsInShape
  <1>2. ComingTo(n, s) = Way(end[n, s].partial, end[n, s].inbox, end[n, Other(s)].msgs)
    BY DEF ComingTo, Coming, Way
  <1>3. Way(end[n, s].partial, end[n, s].inbox, end[n, Other(s)].msgs) \subseteq Msgs
    BY EndAtTyped, WayTyped
  <1> QED
    BY <1>1, <1>2, <1>3 DEF Direction, Live, IsLive

\* An end and the other one, after a step that changes the two.
LEMMA DirectionIf ==
    ASSUME NEW n, NEW to \in End, NEW from \in End,
           Flow(to.partial, to.inbox, from.msgs),
           GivenUp(to) => n \in cut,
           n \notin cut /\ IsLive(to) /\ IsLive(from)
               => Joined(to.partial, to.inbox, from.msgs)
    PROVE /\ Direction(n, to, from)
          /\ Coming(to, from) = Way(to.partial, to.inbox, from.msgs)
  BY DEF Direction, Coming, Way

-----------------------------------------------------------------------------
(***************************************************************************)
(* Steps of one connection.                                                *)
(***************************************************************************)
LEMMA KeepsSelf ==
    ASSUME IInv
    PROVE Keeps(end)
  BY DEF IInv, TypeOK, EndsInShape, Directions, Keeps, ComingTo

\* A wrapper is made for an end that the kernel has.
LEMMA OpenKeeps ==
    ASSUME IInv, NEW ends, Keeps(ends), NEW n \in Conns, NEW s \in Sides,
           ends[n, s].stage = "up",
           NEW after, after = Opened(ends, n, s)
    PROVE Keeps(after) /\ Staged(after, ends, n, s, "open")
  <1> DEFINE o == Other(s)
             e == ends[n, s]
             f == ends[n, o]
             open == [e EXCEPT !.stage = "open"]
  <1>1. o \in Sides /\ o # s /\ Other(o) = s /\ \A u \in Sides : u = s \/ u = o
    BY DEF Sides, Other
  <1>2. /\ ends \in [Conns \X Sides -> End] /\ <<n, s>> \in Conns \X Sides
        /\ e \in End /\ e.stage = "up"
    BY DEF Keeps
  <1>3. /\ open \in End /\ open.stage = "open" /\ IsLive(e) /\ IsLive(open)
        /\ open.partial = e.partial /\ open.inbox = e.inbox /\ open.msgs = e.msgs
        /\ (GivenUp(open) <=> GivenUp(e))
    BY <1>2 DEF End, IsLive, GivenUp
  <1>4. after = [ends EXCEPT ![<<n, s>>] = open]
    BY DEF Opened
  <1>5. /\ Direction(n, e, f) /\ Direction(n, f, e)
        /\ Coming(e, f) \subseteq ComingTo(n, s) /\ Coming(f, e) \subseteq ComingTo(n, o)
        /\ Shape(f)
    BY <1>1 DEF Keeps
  <1> HIDE DEF open
  <1>6. /\ after \in [Conns \X Sides -> End]
        /\ after[n, s] = open
        /\ \A m \in Conns, u \in Sides : ~(m = n /\ u = s) => after[m, u] = ends[m, u]
    BY <1>1, <1>2, <1>3, <1>4
  <1>7. Shape(open)
    BY <1>3 DEF Shape, IsLive, IsOpen
  <1>8. /\ Direction(n, open, f) /\ Direction(n, f, open)
        /\ Coming(open, f) \subseteq ComingTo(n, s) /\ Coming(f, open) \subseteq ComingTo(n, o)
    BY <1>3, <1>5 DEF Direction, Coming
  <1>9. ASSUME NEW m \in Conns, NEW u \in Sides
        PROVE /\ Shape(after[m, u])
              /\ Direction(m, after[m, u], after[m, Other(u)])
              /\ Coming(after[m, u], after[m, Other(u)]) \subseteq ComingTo(m, u)
    <2>1. CASE m = n /\ u = s
      BY <1>1, <1>6, <1>7, <1>8, <2>1
    <2>2. CASE m = n /\ u = o
      BY <1>1, <1>5, <1>6, <1>8, <2>2
    <2>3. CASE m # n
      <3>1. after[m, u] = ends[m, u] /\ after[m, Other(u)] = ends[m, Other(u)]
        BY <1>6, <2>3 DEF Other, Sides
      <3> QED
        BY <3>1 DEF Keeps
    <2> QED
      BY <1>1, <2>1, <2>2, <2>3
  <1>10. Keeps(after)
    BY <1>6, <1>9 DEF Keeps
  <1>11. Staged(after, ends, n, s, "open")
    BY <1>3, <1>6 DEF Staged
  <1> QED
    BY <1>10, <1>11

LEMMA ConnectedKeeps ==
    ASSUME IInv, NEW n \in Conns, OnConnected(n)
    PROVE IInv'
  <1>1. "client" \in Sides /\ "server" \in Sides
    BY DEF Sides
  <1>2. end[n, "client"].stage = "up" /\ end' = Opened(end, n, "client")
    BY DEF OnConnected, Opened
  <1>3. Keeps(end') /\ Staged(end', end, n, "client", "open")
    BY <1>1, <1>2, KeepsSelf, OpenKeeps
  <1>4. ASSUME NEW m \in Conns, NEW u \in Sides
        PROVE /\ end'[m, u].stage = "none" <=> end[m, u].stage = "none"
              /\ IsLive(end'[m, u]) => Live(m, u)
              /\ u = "server" => end'[m, u].stage = end[m, u].stage
    BY <1>2, <1>3 DEF Staged, Live, IsLive
  <1>5. Onward(end')
    BY <1>4 DEF Onward
  <1>6. \A m \in Conns : end'[m, "server"].stage = end[m, "server"].stage
    BY <1>1, <1>4
  <1>7. UNCHANGED <<sent, made, peer, cut, got, client>>
    BY DEF OnConnected
  <1> QED
    BY <1>3, <1>5, <1>6, <1>7, KeptServer

\* A step that changes no stage.
LEMMA KeptStages ==
    ASSUME IInv, Keeps(end'), UNCHANGED <<sent, made, peer, cut, got, client>>,
           \A n \in Conns, s \in Sides : end'[n, s].stage = end[n, s].stage
    PROVE IInv'
  <1>1. Onward(end')
    BY DEF Onward, Live, IsLive
  <1>2. \A n \in Conns : end'[n, "server"].stage = end[n, "server"].stage
    BY DEF Sides
  <1> QED
    BY <1>1, <1>2, KeptServer

LEMMA WriteKeeps ==
    ASSUME IInv, NEW n \in Conns, NEW s \in Sides, Write(n, s)
    PROVE IInv'
  <1> DEFINE o == Other(s)
             e == end[n, s]
             f == end[n, o]
             wrote == [e EXCEPT !.msgs = Tail(e.msgs)]
             read == IF n \notin cut /\ Live(n, o)
                     THEN [f EXCEPT !.inbox = Append(f.inbox, Head(e.msgs))]
                     ELSE f
  <1>1. o \in Sides /\ o # s /\ Other(o) = s /\ \A u \in Sides : u = s \/ u = o
    BY DEF Sides, Other
  <1>2. e \in End /\ f \in End /\ e.msgs # <<>> /\ e.stage = "open"
        /\ e.partial \in Msgs \union {None} /\ f.partial \in Msgs \union {None}
        /\ e.inbox \in Seq(Piece) /\ f.inbox \in Seq(Piece)
        /\ e.msgs \in Seq(Piece) /\ f.msgs \in Seq(Piece)
    BY <1>1, EndAtTyped DEF Write, Open
  <1>3. Tail(e.msgs) \in Seq(Piece) /\ Head(e.msgs) \in Piece
        /\ Append(f.inbox, Head(e.msgs)) \in Seq(Piece)
    <2> HIDE DEF e, f
    <2>1. Tail(e.msgs) \in Seq(Piece) /\ Head(e.msgs) \in Piece
      BY <1>2, TailAt
    <2> QED
      BY <1>2, <2>1, AppendAt
  <1>4. /\ wrote \in End /\ wrote.stage = e.stage /\ wrote.inbox = e.inbox
        /\ wrote.partial = e.partial /\ wrote.msgs = Tail(e.msgs)
        /\ (GivenUp(wrote) <=> GivenUp(e))
    BY <1>2, <1>3 DEF End, GivenUp
  <1>5. /\ read \in End /\ read.stage = f.stage /\ read.msgs = f.msgs /\ read.partial = f.partial
        /\ read.inbox = IF n \notin cut /\ Live(n, o)
                        THEN Append(f.inbox, Head(e.msgs)) ELSE f.inbox
        /\ (GivenUp(read) <=> GivenUp(f))
    BY <1>2, <1>3 DEF End, GivenUp
  <1>6. end' = [end EXCEPT ![<<n, s>>] = wrote, ![<<n, o>>] = read]
    <2>1. end \in [Conns \X Sides -> End] /\ <<n, s>> \in Conns \X Sides
          /\ <<n, o>> \in Conns \X Sides /\ <<n, s>> # <<n, o>>
      BY <1>1 DEF IInv, TypeOK
    <2>2. end' = [end EXCEPT
                    ![<<n, s>>].msgs = Tail(@),
                    ![<<n, o>>].inbox = IF n \notin cut /\ Live(n, o)
                                        THEN Append(@, Head(e.msgs)) ELSE @]
      BY DEF Write
    <2>3. [f EXCEPT !.inbox = IF n \notin cut /\ Live(n, o)
                              THEN Append(f.inbox, Head(e.msgs)) ELSE f.inbox] = read
      BY <1>2 DEF End
    <2> QED
      BY <2>1, <2>2, <2>3
  <1>7. end \in [Conns \X Sides -> End] /\ <<n, s>> \in Conns \X Sides
        /\ <<n, o>> \in Conns \X Sides /\ <<n, s>> # <<n, o>>
    BY <1>1 DEF IInv, TypeOK
  <1>8. /\ Flow(f.partial, f.inbox, e.msgs)
        /\ n \notin cut /\ Live(n, o) /\ Live(n, s) => Joined(f.partial, f.inbox, e.msgs)
        /\ ComingTo(n, o) = Way(f.partial, f.inbox, e.msgs)
        /\ Shape(f) /\ (GivenUp(f) => n \in cut)
    BY <1>1, FlowsTo
  <1>9. /\ Flow(e.partial, e.inbox, f.msgs)
        /\ n \notin cut /\ Live(n, s) /\ Live(n, o) => Joined(e.partial, e.inbox, f.msgs)
        /\ ComingTo(n, s) = Way(e.partial, e.inbox, f.msgs)
        /\ Shape(e) /\ (GivenUp(e) => n \in cut)
    BY <1>1, FlowsTo
  <1>10. (Live(n, s) <=> IsLive(wrote)) /\ (Live(n, o) <=> IsLive(read)) /\ Live(n, s)
    BY <1>2, <1>4, <1>5 DEF Live, IsLive
  <1> HIDE DEF wrote, read, e, f, o
  <1>11. /\ end' \in [Conns \X Sides -> End]
         /\ end'[n, s] = wrote /\ end'[n, o] = read
         /\ \A m \in Conns, u \in Sides : m # n => end'[m, u] = end[m, u]
    BY <1>4, <1>5, <1>6, <1>7
  <1>12. /\ Direction(n, wrote, read)
         /\ Coming(wrote, read) \subseteq ComingTo(n, s)
    BY <1>4, <1>5, <1>9, <1>10, DirectionIf
  <1>13. /\ Direction(n, read, wrote)
         /\ Coming(read, wrote) \subseteq ComingTo(n, o)
    <2>1. CASE n \notin cut /\ Live(n, o)
      <3>1. Flow(f.partial, f.inbox, e.msgs) /\ Joined(f.partial, f.inbox, e.msgs)
        BY <1>8, <1>10, <2>1
      <3>2. /\ Flow(f.partial, Append(f.inbox, Head(e.msgs)), Tail(e.msgs))
            /\ Joined(f.partial, Append(f.inbox, Head(e.msgs)), Tail(e.msgs))
            /\ Way(f.partial, Append(f.inbox, Head(e.msgs)), Tail(e.msgs))
                  \subseteq Way(f.partial, f.inbox, e.msgs)
        BY <1>2, <3>1, FlowWritten
      <3> QED
        BY <1>4, <1>5, <1>8, <1>10, <2>1, <3>2, DirectionIf
    <2>2. CASE ~(n \notin cut /\ Live(n, o))
      <3>1. /\ Flow(f.partial, f.inbox, Tail(e.msgs))
            /\ Way(f.partial, f.inbox, Tail(e.msgs)) \subseteq Way(f.partial, f.inbox, e.msgs)
        BY <1>2, <1>8, FlowUncarried
      <3> QED
        BY <1>4, <1>5, <1>8, <1>10, <2>2, <3>1, DirectionIf
    <2> QED
      BY <2>1, <2>2
  <1>14. Shape(wrote) /\ Shape(read)
    BY <1>2, <1>4, <1>5, <1>8, <1>9, <1>10 DEF Shape, IsOpen, IsLive
  <1>15. Keeps(end')
    <2>1. \A u \in Sides : /\ Shape(end'[n, u])
                           /\ Direction(n, end'[n, u], end'[n, Other(u)])
                           /\ Coming(end'[n, u], end'[n, Other(u)]) \subseteq ComingTo(n, u)
      BY <1>1, <1>11, <1>12, <1>13, <1>14 DEF o
    <2> QED
      BY <1>11, <2>1, KeepsIf
  <1>16. \A m \in Conns, u \in Sides : end'[m, u].stage = end[m, u].stage
    BY <1>1, <1>4, <1>5, <1>11 DEF e, f
  <1>17. UNCHANGED <<sent, made, peer, cut, got, client>>
    BY DEF Write
  <1> QED
    BY <1>15, <1>16, <1>17, KeptStages

LEMMA TellKeeps ==
    ASSUME IInv, NEW n \in Conns, NEW s \in Sides, Tell(n, s)
    PROVE IInv'
  <1> DEFINE o == Other(s)
             e == end[n, s]
             f == end[n, o]
  <1>1. o \in Sides /\ o # s /\ Other(o) = s /\ \A u \in Sides : u = s \/ u = o
    BY DEF Sides, Other
  <1>2. e \in End /\ n \in cut
    BY EndAtTyped DEF Tell
  <1>3. PICK code \in {"loss", "error"} : end' = [end EXCEPT ![<<n, s>>].told = code]
    BY DEF Tell
  <1> DEFINE told == [e EXCEPT !.told = code]
  <1>4. /\ told \in End /\ told.stage = e.stage /\ told.inbox = e.inbox
        /\ told.partial = e.partial /\ told.msgs = e.msgs
    BY <1>2 DEF End
  <1>5. /\ end' = [end EXCEPT ![<<n, s>>] = told]
        /\ end \in [Conns \X Sides -> End] /\ <<n, s>> \in Conns \X Sides
    BY <1>3 DEF IInv, TypeOK
  <1>6. /\ Direction(n, e, f) /\ Direction(n, f, e)
        /\ ComingTo(n, s) = Coming(e, f) /\ ComingTo(n, o) = Coming(f, e)
        /\ Shape(e) /\ Shape(f)
    BY <1>1 DEF IInv, Directions, EndsInShape, ComingTo
  <1> HIDE DEF told
  <1>7. /\ end' \in [Conns \X Sides -> End]
        /\ end'[n, s] = told /\ end'[n, o] = f
        /\ \A m \in Conns, u \in Sides : m # n => end'[m, u] = end[m, u]
    BY <1>1, <1>4, <1>5
  <1>8. /\ Direction(n, told, f) /\ Direction(n, f, told)
        /\ ComingTo(n, s) = Coming(told, f) /\ ComingTo(n, o) = Coming(f, told)
        /\ Shape(told)
    BY <1>2, <1>4, <1>6 DEF Direction, Coming, Shape, IsLive, IsOpen
  <1> HIDE DEF e, f
  <1>9. Keeps(end')
    <2>1. \A u \in Sides : /\ Shape(end'[n, u])
                           /\ Direction(n, end'[n, u], end'[n, Other(u)])
                           /\ Coming(end'[n, u], end'[n, Other(u)]) \subseteq ComingTo(n, u)
      BY <1>1, <1>6, <1>7, <1>8 DEF o
    <2> QED
      BY <1>7, <2>1, KeepsIf
  <1>10. \A m \in Conns, u \in Sides : end'[m, u].stage = end[m, u].stage
    BY <1>1, <1>4, <1>7 DEF e, f
  <1>11. UNCHANGED <<sent, made, peer, cut, got, client>>
    BY DEF Tell
  <1> QED
    BY <1>9, <1>10, <1>11, KeptStages

\* What an end has not written, and will not write, reaches nobody: its
\* connection is cut.
LEMMA ErrorKeeps ==
    ASSUME IInv, NEW n \in Conns, NEW s \in Sides, OnError(n, s)
    PROVE IInv'
  <1> DEFINE o == Other(s)
             e == end[n, s]
             f == end[n, o]
  <1>1. o \in Sides /\ o # s /\ Other(o) = s /\ \A u \in Sides : u = s \/ u = o
    BY DEF Sides, Other
  <1>2. e \in End /\ f \in End /\ e.stage = "open" /\ e.told = "error"
        /\ e.partial \in Msgs \union {None} /\ f.partial \in Msgs \union {None}
        /\ e.inbox \in Seq(Piece) /\ f.inbox \in Seq(Piece)
        /\ e.msgs \in Seq(Piece) /\ f.msgs \in Seq(Piece)
    BY <1>1, EndAtTyped DEF OnError, Open
  <1>3. PICK op \in Failing(n, s), next \in {"loss", "error"} :
           end' = [end EXCEPT ![<<n, s>>] = AfterError(end[n, s], op, next)]
    BY DEF OnError
  <1>4. op \in {"receive", "send"} /\ (op = "send" => e.msgs # <<>>)
    BY DEF Failing
  <1>5. PICK msgs \in Seq(Piece) :
           /\ msgs = IF op = "send" THEN Tail(e.msgs) ELSE e.msgs
           /\ op = "send" => e.msgs # <<>> /\ msgs = Tail(e.msgs)
           /\ op # "send" => msgs = e.msgs
    BY <1>2, <1>4, TailAt
  <1> DEFINE after == [e EXCEPT !.told = next, !.ended = e.ended \union {op}, !.msgs = msgs]
  <1>6. /\ after \in End /\ after.stage = "open" /\ after.inbox = e.inbox
        /\ after.partial = e.partial /\ after.msgs = msgs
    BY <1>2, <1>4 DEF End
  <1>7. /\ end' = [end EXCEPT ![<<n, s>>] = after]
        /\ end \in [Conns \X Sides -> End] /\ <<n, s>> \in Conns \X Sides
    <2>1. end \in [Conns \X Sides -> End] /\ <<n, s>> \in Conns \X Sides
      BY DEF IInv, TypeOK
    <2>2. after = AfterError(e, op, next)
      BY <1>5 DEF AfterError
    <2> QED
      BY <1>3, <2>1, <2>2
  <1>8. /\ Flow(e.partial, e.inbox, f.msgs)
        /\ ComingTo(n, s) = Way(e.partial, e.inbox, f.msgs)
        /\ n \in cut
    BY <1>1, <1>2, FlowsTo DEF GivenUp
  <1>9. /\ Flow(f.partial, f.inbox, e.msgs)
        /\ ComingTo(n, o) = Way(f.partial, f.inbox, e.msgs)
        /\ Shape(f)
    BY <1>1, FlowsTo
  <1>10. /\ Flow(f.partial, f.inbox, msgs)
         /\ Way(f.partial, f.inbox, msgs) \subseteq Way(f.partial, f.inbox, e.msgs)
    <2>1. CASE op = "send"
      BY <1>2, <1>5, <1>9, <2>1, FlowUncarried
    <2>2. CASE op # "send"
      BY <1>5, <1>9, <2>2
    <2> QED
      BY <2>1, <2>2
  <1> HIDE DEF after, e, f, o
  <1>11. /\ end' \in [Conns \X Sides -> End]
         /\ end'[n, s] = after /\ end'[n, o] = f
         /\ \A m \in Conns, u \in Sides : m # n => end'[m, u] = end[m, u]
    BY <1>1, <1>6, <1>7 DEF f
  <1>12. /\ Direction(n, after, f)
         /\ Coming(after, f) = ComingTo(n, s)
    BY <1>2, <1>6, <1>8, DirectionIf
  <1>13. /\ Direction(n, f, after)
         /\ Coming(f, after) \subseteq ComingTo(n, o)
    BY <1>2, <1>6, <1>8, <1>9, <1>10, DirectionIf
  <1>14. Shape(after)
    BY <1>6 DEF Shape, IsOpen, IsLive
  <1>15. Keeps(end')
    <2>1. \A u \in Sides : /\ Shape(end'[n, u])
                           /\ Direction(n, end'[n, u], end'[n, Other(u)])
                           /\ Coming(end'[n, u], end'[n, Other(u)]) \subseteq ComingTo(n, u)
      BY <1>1, <1>9, <1>11, <1>12, <1>13, <1>14 DEF o
    <2> QED
      BY <1>11, <2>1, KeepsIf
  <1>16. \A m \in Conns, u \in Sides : end'[m, u].stage = end[m, u].stage
    BY <1>1, <1>2, <1>6, <1>11 DEF e, f
  <1>17. UNCHANGED <<sent, made, peer, cut, got, client>>
    BY DEF OnError
  <1> QED
    BY <1>15, <1>16, <1>17, KeptStages

\* Nothing is asked of a connection that is cut that was not asked before.
LEMMA CutKeeps ==
    ASSUME IInv, NEW n \in Conns, Cut(n)
    PROVE IInv'
  <1>1. /\ n \in 1..made /\ cut' = cut \union {n}
        /\ sent' = sent /\ made' = made /\ peer' = peer /\ end' = end /\ client' = client
        /\ got' = got
    BY DEF Cut
  <1>2. Directions'
    <2> SUFFICES ASSUME NEW m \in Conns, NEW s \in Sides
                 PROVE Direction(m, end[m, s], end[m, Other(s)])'
      BY DEF Directions
    <2>1. Direction(m, end[m, s], end[m, Other(s)])
      BY DEF IInv, Directions
    <2>2. m \notin cut' => m \notin cut
      BY <1>1
    <2> QED
      BY <1>1, <2>1, <2>2 DEF Direction
  <1>3. TypeOK'
    BY <1>1 DEF IInv, TypeOK, Open, Live
  <1>4. EndsInShape' /\ MadeInOrder' /\ LatestOfClient' /\ AcceptedInOrder'
        /\ \A c \in Clients, s \in Sides : got'[c, s] <= sent'
    BY <1>1 DEF IInv, EndsInShape, MadeInOrder, LatestOfClient, AcceptedInOrder, Live
  <1>5. Ahead' /\ InSequence'
    BY <1>1 DEF IInv, Ahead, InSequence, Live, ComingTo
  <1> QED
    BY <1>2, <1>3, <1>4, <1>5 DEF IInv

\* The end of a wrapper.
LEMMA ClosedKeeps ==
    ASSUME IInv, NEW n \in Conns, NEW s \in Sides, NEW rest \in Rest(n, Other(s)),
           NEW ends, ends = Closed(n, s, rest)
    PROVE Keeps(ends) /\ Staged(ends, end, n, s, "closed")
  <1> DEFINE o == Other(s)
             e == end[n, s]
             f == end[n, o]
             dead == AfterReset(n, s)
             left == IF n \in cut \/ ~Live(n, o) THEN f
                     ELSE [f EXCEPT !.told = "loss", !.inbox = rest]
  <1>1. o \in Sides /\ o # s /\ Other(o) = s /\ \A u \in Sides : u = s \/ u = o
    BY DEF Sides, Other
  <1>2. e \in End /\ f \in End
        /\ e.partial \in Msgs \union {None} /\ f.partial \in Msgs \union {None}
        /\ e.inbox \in Seq(Piece) /\ f.inbox \in Seq(Piece)
        /\ e.msgs \in Seq(Piece) /\ f.msgs \in Seq(Piece) /\ e.taken \in 0..MaxSent
    BY <1>1, EndAtTyped
  <1>3. /\ dead \in End /\ dead.stage = "closed" /\ dead.inbox = <<>>
        /\ dead.partial = None /\ dead.msgs = <<>> /\ ~GivenUp(dead)
    <2>1. dead = EndAt("closed", e.taken)
      BY DEF AfterReset
    <2>2. e.taken \in 0..MaxSent /\ "closed" \in {"none", "up", "open", "closed"}
      BY <1>2
    <2> QED
      BY <2>1, <2>2, EndAtIs
  <1>4. rest \in Seq(Piece) /\ (rest = <<>> \/ rest = f.inbox)
    <2>1. rest = <<>> \/ rest = f.inbox
      BY DEF Rest
    <2>2. <<>> \in Seq(Piece) /\ f.inbox \in Seq(Piece)
      BY <1>2, EmptySeq
    <2> QED
      BY <2>1, <2>2
  <1>5. /\ left \in End /\ left.stage = f.stage /\ left.msgs = f.msgs /\ left.partial = f.partial
        /\ left.inbox = f.inbox \/ (left.inbox = <<>> /\ Live(n, o))
        /\ (GivenUp(left) => GivenUp(f))
    BY <1>2, <1>4 DEF End, GivenUp
  <1>6. end \in [Conns \X Sides -> End] /\ <<n, s>> \in Conns \X Sides
        /\ <<n, o>> \in Conns \X Sides /\ <<n, s>> # <<n, o>>
    BY <1>1 DEF IInv, TypeOK
  <1>7. ends = [end EXCEPT ![<<n, s>>] = dead, ![<<n, o>>] = left]
    BY <1>6 DEF Closed
  <1>8. /\ Flow(f.partial, f.inbox, e.msgs)
        /\ n \notin cut /\ Live(n, o) /\ Live(n, s) => Joined(f.partial, f.inbox, e.msgs)
        /\ ComingTo(n, o) = Way(f.partial, f.inbox, e.msgs)
        /\ Shape(f) /\ (GivenUp(f) => n \in cut)
    BY <1>1, FlowsTo
  <1>9. /\ Flow(e.partial, e.inbox, f.msgs)
        /\ n \notin cut /\ Live(n, s) /\ Live(n, o) => Joined(e.partial, e.inbox, f.msgs)
        /\ ComingTo(n, s) = Way(e.partial, e.inbox, f.msgs)
    BY <1>1, FlowsTo
  <1>10. ~IsLive(dead) /\ (Live(n, o) <=> IsLive(left))
    BY <1>3, <1>5 DEF Live, IsLive
  <1> HIDE DEF dead, left, e, f, o
  <1>11. /\ ends \in [Conns \X Sides -> End]
         /\ ends[n, s] = dead /\ ends[n, o] = left
         /\ \A m \in Conns, u \in Sides : m # n => ends[m, u] = end[m, u]
    BY <1>3, <1>5, <1>6, <1>7
  <1>12. /\ Direction(n, dead, left)
         /\ Coming(dead, left) \subseteq ComingTo(n, s)
    <2>1. /\ Flow(None, <<>>, f.msgs)
          /\ Way(None, <<>>, f.msgs) \subseteq Way(e.partial, e.inbox, f.msgs)
      BY <1>2, <1>9, FlowLost
    <2> QED
      BY <1>3, <1>5, <1>9, <1>10, <2>1, DirectionIf
  <1>13. /\ Direction(n, left, dead)
         /\ Coming(left, dead) \subseteq ComingTo(n, o)
    <2>1. /\ Flow(f.partial, f.inbox, <<>>)
          /\ Way(f.partial, f.inbox, <<>>) \subseteq Way(f.partial, f.inbox, e.msgs)
          /\ Flow(f.partial, <<>>, <<>>)
          /\ Way(f.partial, <<>>, <<>>) \subseteq Way(f.partial, f.inbox, e.msgs)
      BY <1>2, <1>8, FlowLost
    <2>2. /\ Flow(left.partial, left.inbox, dead.msgs)
          /\ Way(left.partial, left.inbox, dead.msgs) \subseteq Way(f.partial, f.inbox, e.msgs)
      BY <1>3, <1>5, <2>1
    <2> QED
      BY <1>3, <1>5, <1>8, <1>10, <2>2, DirectionIf
  <1>14. Shape(dead) /\ Shape(left)
    BY <1>3, <1>5, <1>8 DEF Shape, IsOpen, IsLive
  <1>15. Keeps(ends)
    <2>1. \A u \in Sides : /\ Shape(ends[n, u])
                           /\ Direction(n, ends[n, u], ends[n, Other(u)])
                           /\ Coming(ends[n, u], ends[n, Other(u)]) \subseteq ComingTo(n, u)
      BY <1>1, <1>11, <1>12, <1>13, <1>14 DEF o
    <2> QED
      BY <1>11, <2>1, KeepsIf
  <1>16. \A m \in Conns, u \in Sides :
             ends[m, u].stage = IF m = n /\ u = s THEN "closed" ELSE end[m, u].stage
    <2> TAKE m \in Conns, u \in Sides
    <2>1. CASE m # n
      BY <1>11, <2>1
    <2>2. CASE m = n /\ u = s
      BY <1>3, <1>11, <2>2
    <2>3. CASE m = n /\ u = o
      BY <1>1, <1>5, <1>11, <2>3 DEF f
    <2> QED
      BY <1>1, <2>1, <2>2, <2>3
  <1> QED
    BY <1>15, <1>16 DEF Staged

LEMMA ClientDisconnectedKeeps ==
    ASSUME IInv, NEW n \in Conns, OnClientDisconnected(n)
    PROVE IInv'
  <1>1. "client" \in Sides /\ "server" \in Sides /\ Other("client") = "server"
    BY DEF Sides, Other
  <1>2. PICK rest \in Rest(n, "server") : end' = Closed(n, "client", rest)
    BY DEF OnClientDisconnected
  <1>3. Keeps(end') /\ Staged(end', end, n, "client", "closed")
    BY <1>1, <1>2, ClosedKeeps
  <1>4. end[n, "client"].stage = "open"
    BY DEF OnClientDisconnected, Reports, Open
  <1>5. ASSUME NEW m \in Conns, NEW u \in Sides
        PROVE /\ end'[m, u].stage = "none" <=> end[m, u].stage = "none"
              /\ IsLive(end'[m, u]) => Live(m, u)
              /\ u = "server" => end'[m, u].stage = end[m, u].stage
    BY <1>3, <1>4 DEF Staged, Live, IsLive
  <1>6. Onward(end')
    BY <1>5 DEF Onward
  <1>7. \A m \in Conns : end'[m, "server"].stage = end[m, "server"].stage
    BY <1>1, <1>5
  <1>8. UNCHANGED <<sent, made, peer, cut, got, client>>
    BY DEF OnClientDisconnected
  <1> QED
    BY <1>3, <1>6, <1>7, <1>8, KeptServer

\* The wrappers of the server and the connection in its map.
LEMMA EntryIsOpen ==
    ASSUME IInv
    PROVE \A n \in Conns : Open(n, "server") <=> n = client
  <1>1. {n \in Conns : Open(n, "server")} = {client} \ {None} /\ None \notin Conns
    BY Numbers DEF IInv, TypeOK
  <1> QED
    BY <1>1

LEMMA ServerDisconnectedKeeps ==
    ASSUME IInv, NEW n \in Conns, OnServerDisconnected(n)
    PROVE IInv'
  <1>1. "client" \in Sides /\ "server" \in Sides /\ Other("server") = "client"
    BY DEF Sides, Other
  <1>2. end[n, "server"].stage = "open" /\ client = n /\ client # None
    BY EntryIsOpen, Numbers DEF OnServerDisconnected, Reports, Open
  <1>3. client' = None /\ \E rest \in Rest(n, "client") : end' = Closed(n, "server", rest)
    BY <1>2 DEF OnServerDisconnected, EraseEntry
  <1>4. PICK rest \in Rest(n, "client") : end' = Closed(n, "server", rest)
    BY <1>3
  <1>5. Keeps(end') /\ Staged(end', end, n, "server", "closed")
    BY <1>1, <1>4, ClosedKeeps
  <1>6. Onward(end')
    BY <1>2, <1>5 DEF Onward, Live, IsLive, Staged
  <1>7. \A m \in Conns : end'[m, "server"].stage = IF m = n THEN "closed"
                                                   ELSE end[m, "server"].stage
    BY <1>1, <1>5 DEF Staged
  <1>8. {m \in Conns : Open(m, "server")'} = {client'} \ {None}
    BY <1>2, <1>3, <1>7, EntryIsOpen DEF Open
  <1>9. UNCHANGED <<sent, made, peer, cut, got>>
    BY DEF OnServerDisconnected
  <1>10. AcceptedInOrder'
    <2>1. \A m \in 1..made : m \in Conns
      BY Numbers
    <2>2. ASSUME NEW m \in 1..made, NEW k \in 1..made, m < k, end'[k, "server"].stage # "up"
          PROVE end'[m, "server"].stage = "closed"
      <3>1. end[k, "server"].stage # "up"
        BY <1>2, <1>7, <2>1, <2>2
      <3>2. end[m, "server"].stage = "closed"
        BY <2>2, <3>1 DEF IInv, AcceptedInOrder
      <3> QED
        BY <1>7, <2>1, <3>2
    <2> QED
      BY <1>9, <2>2 DEF AcceptedInOrder
  <1> QED
    BY <1>3, <1>5, <1>6, <1>8, <1>9, <1>10, Kept

LEMMA AcceptKeeps ==
    ASSUME IInv, NEW n \in Conns, OnAccept(n)
    PROVE IInv'
  <1>1. "client" \in Sides /\ "server" \in Sides /\ Other("server") = "client"
    BY DEF Sides, Other
  <1>2. /\ end[n, "server"].stage = "up"
        /\ \A m \in 1..(n - 1) : end[m, "server"].stage # "up"
        /\ client' = n /\ n # client
        /\ UNCHANGED <<sent, made, peer, cut, got>>
    BY EntryIsOpen DEF OnAccept, Open
  <1>3. PICK ends \in Displaced(n) : end' = Wrapped(ends, n)
    BY DEF OnAccept
  <1>4. Keeps(ends) /\ Staged(ends, end, client, "server", "closed")
    <2>1. CASE client = None
      <3>1. ends = end /\ client \notin Conns
        BY <1>3, <2>1, Numbers DEF Displaced
      <3> QED
        BY <3>1, KeepsSelf DEF Staged
    <2>2. CASE client # None
      <3>1. PICK rest \in Rest(client, "client") : ends = Closed(client, "server", rest)
        BY <1>3, <2>2 DEF Displaced
      <3>2. client \in Conns
        BY <2>2 DEF IInv, TypeOK
      <3> QED
        BY <1>1, <3>1, <3>2, ClosedKeeps
    <2> QED
      BY <2>1, <2>2
  <1>5. ends[n, "server"].stage = "up" /\ end' = Opened(ends, n, "server")
    BY <1>1, <1>2, <1>3, <1>4 DEF Wrapped, Opened, Staged
  <1>6. Keeps(end') /\ Staged(end', ends, n, "server", "open")
    BY <1>1, <1>4, <1>5, OpenKeeps
  <1>7. \A m \in Conns :
            end'[m, "server"].stage = IF m = n THEN "open"
                                      ELSE IF m = client THEN "closed" ELSE end[m, "server"].stage
    BY <1>1, <1>4, <1>6 DEF Staged
  <1>8. \A m \in Conns : m = client => end[m, "server"].stage = "open"
    BY EntryIsOpen DEF Open
  <1>9. Onward(end')
    <2>1. ASSUME NEW m \in Conns, NEW u \in Sides
          PROVE /\ end'[m, u].stage = "none" <=> end[m, u].stage = "none"
                /\ IsLive(end'[m, u]) => Live(m, u)
      <3>1. CASE u = "server"
        BY <1>2, <1>7, <1>8, <3>1 DEF Live, IsLive
      <3>2. CASE u # "server"
        BY <1>4, <1>6, <3>2 DEF Live, IsLive, Staged
      <3> QED
        BY <3>1, <3>2
    <2> QED
      BY <2>1 DEF Onward
  <1>10. {m \in Conns : Open(m, "server")'} = {client'} \ {None}
    <2>1. \A m \in Conns : Open(m, "server")' <=> m = n
      BY <1>2, <1>7, EntryIsOpen DEF Open
    <2> QED
      BY <1>2, <2>1, Numbers
  <1>11. AcceptedInOrder'
    <2>1. /\ n \in Nat
          /\ \A m \in 1..made : m \in Conns /\ m \in Nat /\ m >= 1 /\ m <= made
      BY Numbers
    <2>2. ASSUME NEW m \in 1..made, NEW k \in 1..made, m < k, end'[k, "server"].stage # "up"
          PROVE end'[m, "server"].stage = "closed"
      <3>1. CASE k = n
        <4>1. m \in 1..(n - 1) /\ m # n
          <5>1. n \in Nat /\ m \in Nat /\ m >= 1 /\ m < n
            BY <2>1, <2>2, <3>1
          <5> QED
            BY <5>1
        <4>2. end[m, "server"].stage \in {"none", "up", "open", "closed"}
          BY <1>1, <2>1, EndAtTyped DEF End
        <4>3. end[m, "server"].stage # "none"
          <5>1. m \in Conns /\ m <= made
            BY <2>1
          <5> QED
            BY <1>1, <5>1 DEF IInv, MadeInOrder
        <4>4. end[m, "server"].stage = "closed" \/ m = client
          BY <1>2, <2>1, <4>1, <4>2, <4>3, EntryIsOpen DEF Open
        <4> QED
          BY <1>7, <2>1, <4>1, <4>4
      <3>2. CASE k # n
        <4>1. end[k, "server"].stage # "up"
          BY <1>7, <1>8, <2>1, <2>2, <3>2
        <4>2. end[m, "server"].stage = "closed"
          BY <2>2, <4>1 DEF IInv, AcceptedInOrder
        <4> QED
          BY <1>2, <1>7, <2>1, <4>2
      <3> QED
        BY <3>1, <3>2
    <2> QED
      BY <1>2, <2>2 DEF AcceptedInOrder
  <1> QED
    BY <1>2, <1>6, <1>9, <1>10, <1>11, Kept

\* A connection that has an end has been made, by a client.
LEMMA EndIsMade ==
    ASSUME IInv, NEW n \in Conns, NEW s \in Sides, end[n, s].stage # "none"
    PROVE n \in 1..made /\ peer[n] \in Clients
  <1>1. n <= made /\ peer[n] \in Clients
    BY DEF IInv, MadeInOrder
  <1> QED
    BY <1>1, Numbers

\* The connections of a client before the one that an end reads are over.
LEMMA OldAreOver ==
    ASSUME IInv, NEW n \in 1..made, NEW m \in 1..made, m < n, peer[m] = peer[n],
           NEW s \in Sides, Open(n, s)
    PROVE ~Live(m, s)
  <1>1. CASE s = "client"
    BY <1>1 DEF IInv, LatestOfClient
  <1>2. CASE s = "server"
    <2>1. end[n, "server"].stage # "up"
      BY <1>2 DEF Open
    <2>2. end[m, "server"].stage = "closed"
      BY <2>1 DEF IInv, AcceptedInOrder
    <2> QED
      BY <1>2, <2>2 DEF Live
  <1> QED
    BY <1>1, <1>2 DEF Sides

\* What comes out is later than what has come out, and earlier than what may.
LEMMA ReceiveKeeps ==
    ASSUME IInv, NEW n \in Conns, NEW s \in Sides, OnReceive(n, s)
    PROVE /\ IInv'
          /\ \/ got' = got
             \/ \E m \in Msgs : /\ got' = [got EXCEPT ![<<peer[n], s>>] = m]
                                /\ got[peer[n], s] < m /\ m <= sent
  <1> DEFINE o == Other(s)
             e == end[n, s]
             f == end[n, o]
             m == Head(e.inbox).msg
             after == IF e.partial # None THEN None ELSE m
             read == [e EXCEPT !.inbox = Tail(e.inbox), !.partial = after]
  <1>1. o \in Sides /\ o # s /\ Other(o) = s /\ \A u \in Sides : u = s \/ u = o
    BY DEF Sides, Other
  <1>2. e \in End /\ f \in End /\ e.inbox # <<>> /\ e.stage = "open"
        /\ e.partial \in Msgs \union {None} /\ f.partial \in Msgs \union {None}
        /\ e.inbox \in Seq(Piece) /\ f.inbox \in Seq(Piece)
        /\ e.msgs \in Seq(Piece) /\ f.msgs \in Seq(Piece)
    BY <1>1, EndAtTyped DEF OnReceive, Open
  <1>3. Tail(e.inbox) \in Seq(Piece)
    BY <1>2, TailAt
  <1>4. /\ Flow(e.partial, e.inbox, f.msgs)
        /\ n \notin cut /\ Live(n, s) /\ Live(n, o) => Joined(e.partial, e.inbox, f.msgs)
        /\ ComingTo(n, s) = Way(e.partial, e.inbox, f.msgs)
        /\ GivenUp(e) => n \in cut
    BY <1>1, FlowsTo
  <1>5. /\ Flow(f.partial, f.inbox, e.msgs)
        /\ n \notin cut /\ Live(n, o) /\ Live(n, s) => Joined(f.partial, f.inbox, e.msgs)
        /\ ComingTo(n, o) = Way(f.partial, f.inbox, e.msgs)
        /\ Shape(f) /\ (GivenUp(f) => n \in cut)
    BY <1>1, FlowsTo
  <1>6. /\ after \in Msgs \union {None}
        /\ Flow(after, Tail(e.inbox), f.msgs)
        /\ n \notin cut /\ Live(n, s) /\ Live(n, o) => Joined(after, Tail(e.inbox), f.msgs)
        /\ Way(after, Tail(e.inbox), f.msgs) \subseteq ComingTo(n, s)
        /\ m \in ComingTo(n, s)
        /\ e.partial # None => \A x \in Way(after, Tail(e.inbox), f.msgs) : m < x
    <2> DEFINE p == e.partial
               q == e.inbox
               r == f.msgs
    <2>1. /\ Flow(p, q, r)
          /\ p \in Msgs \union {None} /\ q \in Seq(Piece) /\ r \in Seq(Piece) /\ q # <<>>
      BY <1>2, <1>4
    <2>2. after = Taken(p, q)
      BY DEF Taken
    <2> HIDE DEF after, p, q, r
    <2>3. /\ Taken(p, q) \in Msgs \union {None}
          /\ Flow(Taken(p, q), Tail(q), r)
          /\ Joined(p, q, r) => Joined(Taken(p, q), Tail(q), r)
          /\ Way(Taken(p, q), Tail(q), r) \subseteq Way(p, q, r)
          /\ Head(q).msg \in Way(p, q, r)
          /\ p # None => \A x \in Way(Taken(p, q), Tail(q), r) : Head(q).msg < x
      BY <2>1, FlowRead
    <2> QED
      BY <1>4, <2>2, <2>3 DEF p, q, r
  <1>7. /\ end' = [end EXCEPT ![<<n, s>>] = read]
        /\ end \in [Conns \X Sides -> End] /\ <<n, s>> \in Conns \X Sides
    BY DEF OnReceive, IInv, TypeOK
  <1>8. /\ got' = IF e.partial # None THEN [got EXCEPT ![<<peer[n], s>>] = m] ELSE got
        /\ UNCHANGED <<sent, made, peer, cut, client>>
    BY DEF OnReceive
  <1> HIDE DEF after, m, e, f, o
  <1>9. /\ read \in End /\ read.stage = e.stage /\ read.inbox = Tail(e.inbox)
        /\ read.partial = after /\ read.msgs = e.msgs
        /\ (GivenUp(read) <=> GivenUp(e))
    BY <1>2, <1>3, <1>6 DEF End, GivenUp
  <1>10. (Live(n, s) <=> IsLive(read)) /\ (Live(n, o) <=> IsLive(f)) /\ Live(n, s)
    BY <1>2, <1>9 DEF Live, IsLive, e, f
  <1> HIDE DEF read
  <1>11. /\ end' \in [Conns \X Sides -> End]
         /\ end'[n, s] = read /\ end'[n, o] = f
         /\ \A k \in Conns, u \in Sides : k # n => end'[k, u] = end[k, u]
    BY <1>1, <1>7, <1>9 DEF f
  <1>12. /\ Direction(n, read, f)
         /\ Coming(read, f) = Way(after, Tail(e.inbox), f.msgs)
    BY <1>2, <1>4, <1>6, <1>9, <1>10, DirectionIf
  <1>13. /\ Direction(n, f, read)
         /\ Coming(f, read) = ComingTo(n, o)
    BY <1>2, <1>5, <1>9, <1>10, DirectionIf
  <1>14. Shape(read)
    BY <1>2, <1>9 DEF Shape, IsOpen, IsLive
  <1>15. Keeps(end')
    <2>1. \A u \in Sides : /\ Shape(end'[n, u])
                           /\ Direction(n, end'[n, u], end'[n, Other(u)])
                           /\ Coming(end'[n, u], end'[n, Other(u)]) \subseteq ComingTo(n, u)
      BY <1>1, <1>5, <1>6, <1>11, <1>12, <1>13, <1>14 DEF o
    <2> QED
      BY <1>11, <2>1, KeepsIf
  <1>16. \A k \in Conns, u \in Sides : end'[k, u].stage = end[k, u].stage
    BY <1>1, <1>9, <1>11 DEF e, f
  <1>17. Onward(end')
    BY <1>16 DEF Onward, Live, IsLive
  <1>18. sent' = sent /\ made' = made /\ peer' = peer /\ cut' = cut /\ client' = client
    BY <1>8
  <1>19. n \in 1..made /\ peer[n] \in Clients /\ Open(n, s)
    BY <1>2, EndIsMade DEF e, Open
  <1>20. m \in Msgs /\ m <= sent /\ got[peer[n], s] < m
    <2>1. m \in Msgs
      BY <1>6, FlowsTo
    <2> QED
      BY <1>6, <1>10, <2>1 DEF IInv, Ahead
  <1>21. /\ EndsInShape' /\ MadeInOrder' /\ LatestOfClient' /\ Directions' /\ InSequence'
         /\ \A k, l \in Conns : Live(k, "client")' /\ Live(l, "client")'
                                /\ peer'[k] = peer'[l] => k = l
         /\ \A k \in Conns, u \in Sides : /\ ComingTo(k, u)' \subseteq ComingTo(k, u)
                                          /\ Live(k, u)' => Live(k, u)
    BY <1>15, <1>17, <1>18, KeptEnds
  <1>22. ASSUME NEW c \in Clients, NEW u \in Sides
         PROVE /\ got'[c, u] = IF e.partial # None /\ c = peer[n] /\ u = s THEN m ELSE got[c, u]
               /\ got'[c, u] <= sent'
               /\ got'[c, u] \in 0..MaxSent
    <2>1. got \in [Clients \X Sides -> 0..MaxSent] /\ got[c, u] <= sent
      BY DEF IInv, TypeOK
    <2>2. got'[c, u] = IF e.partial # None /\ c = peer[n] /\ u = s THEN m ELSE got[c, u]
      BY <1>8, <2>1
    <2>3. m \in 0..MaxSent
      BY <1>20, Numbers
    <2> QED
      BY <1>18, <1>20, <2>1, <2>2, <2>3
  <1>23. TypeOK'
    <2>1. got' \in [Clients \X Sides -> 0..MaxSent]
      <3>1. got \in [Clients \X Sides -> 0..MaxSent] /\ m \in 0..MaxSent
        BY <1>20, Numbers DEF IInv, TypeOK
      <3> QED
        BY <1>8, <3>1
    <2>2. {k \in Conns : Open(k, "server")'} = {client'} \ {None}
      BY <1>16, <1>18 DEF IInv, TypeOK, Open, Sides
    <2>3. /\ sent' \in 0..MaxSent /\ made' \in 0..MaxConns
          /\ peer' \in [Conns -> Clients \union {NoClient}]
          /\ cut' \subseteq 1..made' /\ client' \in Conns \union {None}
      BY <1>18 DEF IInv, TypeOK
    <2> QED
      BY <1>11, <1>21, <2>1, <2>2, <2>3 DEF TypeOK
  <1>24. AcceptedInOrder'
    <2>1. \A k \in 1..made : k \in Conns
      BY Numbers
    <2> QED
      BY <1>16, <1>18, <2>1 DEF IInv, AcceptedInOrder, Sides
  <1>25. ASSUME NEW k \in Conns, NEW u \in Sides, NEW x \in ComingTo(k, u)'
         PROVE x <= sent' /\ (Live(k, u)' => got'[peer'[k], u] < x)
    <2>1. x \in ComingTo(k, u) /\ (Live(k, u)' => Live(k, u))
      BY <1>21 DEF ComingTo, Live
    <2>2. x <= sent /\ (Live(k, u) => got[peer[k], u] < x)
      BY <2>1 DEF IInv, Ahead
    <2>3. ASSUME Live(k, u)
          PROVE got'[peer[k], u] < x
      <3>1. k \in 1..made /\ peer[k] \in Clients
        BY <2>3, EndIsMade DEF Live
      <3>2. CASE e.partial # None /\ peer[k] = peer[n] /\ u = s
        <4>1. got'[peer[k], u] = m
          BY <1>22, <3>1, <3>2
        <4>2. m < x
          <5>1. CASE k = n
            <6>1. x \in Way(after, Tail(e.inbox), f.msgs)
              BY <1>11, <1>12, <3>2, <5>1 DEF ComingTo, o
            <6> QED
              BY <1>6, <3>2, <6>1
          <5>2. CASE k < n
            BY <1>19, <2>3, <3>1, <3>2, <5>2, OldAreOver
          <5>3. CASE n < k
            BY <1>6, <1>10, <1>19, <2>1, <2>3, <3>1, <3>2, <5>3 DEF IInv, InSequence
          <5> QED
            BY <1>19, <3>1, <5>1, <5>2, <5>3, Numbers
        <4> QED
          BY <4>1, <4>2
      <3>3. CASE ~(e.partial # None /\ peer[k] = peer[n] /\ u = s)
        BY <1>22, <2>2, <2>3, <3>1, <3>3
      <3> QED
        BY <3>2, <3>3
    <2> QED
      BY <1>18, <2>1, <2>2, <2>3 DEF Live
  <1>26. Ahead'
    BY <1>25 DEF Ahead, ComingTo, Live
  <1>27. IInv'
    BY <1>21, <1>22, <1>23, <1>24, <1>26 DEF IInv
  <1> QED
    BY <1>8, <1>20, <1>27

-----------------------------------------------------------------------------
(***************************************************************************)
(* Steps that add to what there is.                                        *)
(***************************************************************************)
LEMMA Between ==
    ASSUME NEW a \in Nat, NEW b \in Nat, NEW c \in Nat, a <= b, b < c
    PROVE a < c /\ a <= c
  OBVIOUS

\* A datagram is given to ends that no later connection of the client reads
\* with.
LEMMA RelayedKeeps ==
    ASSUME IInv, NEW to, Relayed(to),
           \A n \in Conns, u \in Sides : <<n, u>> \in to =>
               /\ Open(n, u)
               /\ \A m \in 1..made : n < m /\ peer[n] = peer[m]
                                     => ~(Live(n, Other(u)) /\ Live(m, Other(u)))
    PROVE IInv'
  <1> DEFINE x == sent + 1
             fed(n, u) == [end[n, u] EXCEPT !.msgs = end[n, u].msgs \o Frame(x), !.taken = x]
  <1>1. end' = [e \in Conns \X Sides |->
                  IF e \in to THEN [end[e] EXCEPT !.msgs = end[e].msgs \o Frame(x), !.taken = x]
                  ELSE end[e]]
    BY DEF Relayed
  <1>2. /\ sent' = x /\ sent < MaxSent
        /\ made' = made /\ peer' = peer /\ cut' = cut /\ client' = client /\ got' = got
    BY DEF Relayed
  <1>3. x \in Msgs
    <2>1. sent \in Nat /\ MaxSent \in Nat /\ sent < MaxSent
      BY <1>2, Numbers
    <2> QED
      BY <2>1 DEF Msgs
  <1>4. /\ x \in 0..MaxSent /\ x \in Nat /\ sent \in Nat /\ sent < x
        /\ \A y \in Msgs : y \in Nat
    BY <1>3, Numbers
  <1>5. ASSUME NEW n \in Conns, NEW u \in Sides
        PROVE /\ end'[n, u] \in End /\ end'[n, u].stage = end[n, u].stage
              /\ end'[n, u].inbox = end[n, u].inbox /\ end'[n, u].partial = end[n, u].partial
              /\ end'[n, u].msgs = IF <<n, u>> \in to THEN end[n, u].msgs \o Frame(x)
                                   ELSE end[n, u].msgs
              /\ (GivenUp(end'[n, u]) <=> GivenUp(end[n, u]))
    <2>1. <<n, u>> \in Conns \X Sides /\ end[n, u] \in End /\ end[n, u].msgs \in Seq(Piece)
      BY EndAtTyped
    <2>2. end[n, u].msgs \o Frame(x) \in Seq(Piece)
      BY <1>3, <2>1, MsgsOfSent
    <2>3. end'[n, u] = IF <<n, u>> \in to THEN fed(n, u) ELSE end[n, u]
      BY <1>1, <2>1
    <2>4. CASE <<n, u>> \in to
      <3>1. end'[n, u] = fed(n, u)
        BY <2>3, <2>4
      <3> QED
        BY <1>4, <2>1, <2>2, <2>4, <3>1 DEF End, GivenUp
    <2>5. CASE <<n, u>> \notin to
      BY <2>1, <2>3, <2>5
    <2> QED
      BY <2>4, <2>5
  <1>6. end' \in [Conns \X Sides -> End]
    <2>1. ASSUME NEW e \in Conns \X Sides
          PROVE end'[e] \in End
      <3>1. PICK n \in Conns, u \in Sides : e = <<n, u>>
        OBVIOUS
      <3> QED
        BY <1>5, <3>1
    <2>2. end' = [e \in Conns \X Sides |-> end'[e]]
      BY <1>1
    <2> QED
      BY <2>1, <2>2
  <1> HIDE DEF x
  <1>7. ASSUME NEW n \in Conns, NEW u \in Sides
        PROVE /\ Direction(n, end'[n, u], end'[n, Other(u)])
              /\ Coming(end'[n, u], end'[n, Other(u)]) \subseteq
                     ComingTo(n, u) \union (IF <<n, Other(u)>> \in to THEN {x} ELSE {})
              /\ Shape(end'[n, u])
    <2> DEFINE o == Other(u)
               e == end[n, u]
               f == end[n, o]
    <2>1. /\ o \in Sides
          /\ e.partial \in Msgs \union {None} /\ e.inbox \in Seq(Piece) /\ f.msgs \in Seq(Piece)
      BY EndAtTyped
    <2>2. /\ Flow(e.partial, e.inbox, f.msgs)
          /\ n \notin cut /\ Live(n, u) /\ Live(n, o) => Joined(e.partial, e.inbox, f.msgs)
          /\ ComingTo(n, u) = Way(e.partial, e.inbox, f.msgs)
          /\ Shape(e) /\ (GivenUp(e) => n \in cut)
      BY FlowsTo
    <2>3. /\ end'[n, u] \in End /\ end'[n, o] \in End
          /\ end'[n, u].stage = e.stage /\ end'[n, o].stage = f.stage
          /\ end'[n, u].inbox = e.inbox /\ end'[n, u].partial = e.partial
          /\ end'[n, o].msgs = IF <<n, o>> \in to THEN f.msgs \o Frame(x) ELSE f.msgs
          /\ (GivenUp(end'[n, u]) => n \in cut)
      BY <1>5, <2>1, <2>2
    <2>4. (IsLive(end'[n, u]) <=> Live(n, u)) /\ (IsLive(end'[n, o]) <=> Live(n, o))
      BY <2>3 DEF Live, IsLive
    <2>5. \A y \in ComingTo(n, u) : y < x
      <3>1. \A y \in ComingTo(n, u) : y <= sent /\ y \in Nat
        BY <1>4, FlowsTo DEF IInv, Ahead
      <3> QED
        BY <1>4, <3>1
    <2>6. CASE <<n, o>> \in to
      <3> DEFINE p == e.partial
                 q == e.inbox
                 r == f.msgs
      <3>1. /\ Flow(p, q, r) /\ p \in Msgs \union {None} /\ q \in Seq(Piece)
            /\ r \in Seq(Piece) /\ \A y \in Way(p, q, r) : y < x
        BY <2>1, <2>2, <2>5
      <3> HIDE DEF p, q, r
      <3>2. /\ Flow(p, q, r \o Frame(x))
            /\ Joined(p, q, r) => Joined(p, q, r \o Frame(x))
            /\ Way(p, q, r \o Frame(x)) = Way(p, q, r) \union {x}
        BY <1>3, <3>1, FlowSent
      <3>3. /\ end'[n, u].inbox = q /\ end'[n, u].partial = p
            /\ end'[n, o].msgs = r \o Frame(x) /\ ComingTo(n, u) = Way(p, q, r)
            /\ n \notin cut /\ Live(n, u) /\ Live(n, o) => Joined(p, q, r)
        BY <2>2, <2>3, <2>6 DEF p, q, r
      <3>4. /\ Direction(n, end'[n, u], end'[n, o])
            /\ Coming(end'[n, u], end'[n, o]) = ComingTo(n, u) \union {x}
        <4> DEFINE a == end'[n, u]
                   b == end'[n, o]
        <4>1. /\ Flow(a.partial, a.inbox, b.msgs)
              /\ Way(a.partial, a.inbox, b.msgs) = ComingTo(n, u) \union {x}
          BY <3>2, <3>3
        <4>2. n \notin cut /\ IsLive(a) /\ IsLive(b) =>
                  Joined(a.partial, a.inbox, b.msgs)
          BY <2>4, <3>2, <3>3
        <4>3. a \in End /\ b \in End /\ (GivenUp(a) => n \in cut)
          BY <2>3
        <4> HIDE DEF a, b
        <4>4. Direction(n, a, b) /\ Coming(a, b) = ComingTo(n, u) \union {x}
          BY <4>1, <4>2, <4>3, DirectionIf
        <4> QED
          BY <4>4 DEF a, b
      <3>5. Shape(end'[n, u])
        BY <1>5, <2>2, <2>3 DEF Shape, IsOpen, IsLive, Open
      <3> QED
        BY <2>6, <3>4, <3>5
    <2>7. CASE <<n, o>> \notin to
      <3>1. /\ Direction(n, end'[n, u], end'[n, o])
            /\ Coming(end'[n, u], end'[n, o]) = ComingTo(n, u)
        BY <2>2, <2>3, <2>4, <2>7, DirectionIf
      <3>2. Shape(end'[n, u])
        BY <1>5, <2>2, <2>3 DEF Shape, IsOpen, IsLive, Open
      <3> QED
        BY <3>1, <3>2
    <2> QED
      BY <2>6, <2>7
  <1>8. \A n \in Conns, u \in Sides : end'[n, u].stage = end[n, u].stage
    BY <1>5
  <1>9. EndsInShape' /\ Directions'
    BY <1>2, <1>7 DEF EndsInShape, Directions, Direction
  <1>10. MadeInOrder' /\ LatestOfClient' /\ AcceptedInOrder'
    <2>1. \A n \in 1..made : n \in Conns
      BY Numbers
    <2>2. "client" \in Sides /\ "server" \in Sides
      BY DEF Sides
    <2>3. MadeInOrder'
      BY <1>2, <1>8 DEF IInv, MadeInOrder
    <2>4. LatestOfClient'
      BY <1>2, <1>8, <2>1, <2>2 DEF IInv, LatestOfClient, Live
    <2>5. AcceptedInOrder'
      BY <1>2, <1>8, <2>1, <2>2 DEF IInv, AcceptedInOrder
    <2> QED
      BY <2>3, <2>4, <2>5
  <1>11. TypeOK'
    <2>1. "client" \in Sides /\ "server" \in Sides
      BY DEF Sides
    <2>2. {n \in Conns : Open(n, "server")'} = {client'} \ {None}
      BY <1>2, <1>8, <2>1 DEF IInv, TypeOK, Open
    <2>3. \A m, n \in Conns : Live(m, "client")' /\ Live(n, "client")'
                              /\ peer'[m] = peer'[n] => m = n
      BY <1>2, <1>8, <2>1 DEF IInv, TypeOK, Live
    <2>4. /\ sent' \in 0..MaxSent /\ made' \in 0..MaxConns
          /\ peer' \in [Conns -> Clients \union {NoClient}]
          /\ cut' \subseteq 1..made' /\ client' \in Conns \union {None}
          /\ got' \in [Clients \X Sides -> 0..MaxSent]
      BY <1>2, <1>4 DEF IInv, TypeOK
    <2> QED
      BY <1>6, <2>2, <2>3, <2>4 DEF TypeOK
  <1>12. ASSUME NEW c \in Clients, NEW s \in Sides
         PROVE got'[c, s] <= sent' /\ got[c, s] < x
    <2>1. got[c, s] <= sent /\ got[c, s] \in 0..MaxSent
      BY DEF IInv, TypeOK
    <2>2. \A i \in 0..MaxSent : i \in Nat
      BY BoundsAssumption
    <2>3. got[c, s] \in Nat
      BY <2>1, <2>2
    <2>4. got[c, s] <= x /\ got[c, s] < x
      BY <1>4, <2>1, <2>3, Between
    <2>5. got'[c, s] = got[c, s] /\ sent' = x
      BY <1>2
    <2> QED
      BY <2>4, <2>5
  <1>13. ASSUME NEW n \in Conns, NEW s \in Sides, NEW y \in ComingTo(n, s)'
         PROVE y <= sent' /\ (Live(n, s)' => got'[peer'[n], s] < y)
    <2>1. y \in ComingTo(n, s) \/ y = x
      BY <1>7 DEF ComingTo
    <2>2. Live(n, s)' => Live(n, s)
      BY <1>8 DEF Live
    <2>3. CASE y \in ComingTo(n, s)
      <3>1. y <= sent /\ (Live(n, s) => got[peer[n], s] < y) /\ y \in Nat
        BY <1>4, <2>3, FlowsTo DEF IInv, Ahead
      <3>2. y <= x
        BY <1>4, <3>1, Between
      <3> QED
        BY <1>2, <2>2, <3>1, <3>2
    <2>4. CASE y = x
      <3>1. Live(n, s) => peer[n] \in Clients
        BY EndIsMade DEF Live
      <3>2. x <= x
        BY <1>4
      <3>3. Live(n, s) => got[peer[n], s] < x
        BY <1>12, <3>1
      <3>4. sent' = x /\ got' = got /\ peer' = peer
        BY <1>2
      <3> QED
        BY <2>2, <2>4, <3>2, <3>3, <3>4
    <2> QED
      BY <2>1, <2>3, <2>4
  <1>14. Ahead'
    BY <1>13 DEF Ahead, ComingTo, Live
  <1>15. ASSUME NEW s \in Sides, NEW m \in 1..made, NEW n \in 1..made, m < n,
                peer[m] = peer[n], Live(m, s)', Live(n, s)',
                NEW y \in ComingTo(m, s)', NEW z \in ComingTo(n, s)'
         PROVE y < z
    <2>1. m \in Conns /\ n \in Conns
      BY Numbers
    <2>2. Live(m, s) /\ Live(n, s)
      BY <1>8, <1>15, <2>1 DEF Live
    <2>3. y \in ComingTo(m, s)
      <3>1. <<m, Other(s)>> \notin to
        <4>1. Other(Other(s)) = s /\ Other(s) \in Sides
          BY DEF Sides, Other
        <4> QED
          BY <1>15, <2>1, <2>2, <4>1
      <3> QED
        BY <1>7, <2>1, <3>1 DEF ComingTo
    <2>4. CASE z \in ComingTo(n, s)
      BY <1>15, <2>2, <2>3, <2>4 DEF IInv, InSequence
    <2>5. CASE z = x
      <3>1. y <= sent /\ y \in Nat
        BY <1>4, <2>1, <2>3, FlowsTo DEF IInv, Ahead
      <3> QED
        BY <1>4, <2>5, <3>1
    <2> QED
      BY <1>7, <2>1, <2>4, <2>5 DEF ComingTo
  <1>16. InSequence'
    BY <1>2, <1>15 DEF InSequence, ComingTo, Live
  <1>17. \A c \in Clients, s \in Sides : got'[c, s] <= sent'
    BY <1>12
  <1> QED
    BY <1>9, <1>10, <1>11, <1>14, <1>16, <1>17 DEF IInv

\* tcp_client::send(): a client has one wrapper at most.
LEMMA ClientDatagramKeeps ==
    ASSUME IInv, NEW c \in Clients, ClientDatagram(c)
    PROVE IInv'
  <1> DEFINE to == {<<n, "client">> : n \in {m \in Conns : peer[m] = c /\ Open(m, "client")}}
  <1>1. Relayed(to)
    BY DEF ClientDatagram
  <1>2. ASSUME NEW n \in Conns, NEW u \in Sides, <<n, u>> \in to
        PROVE u = "client" /\ Open(n, "client")
    BY <1>2
  <1> HIDE DEF to
  <1>3. ASSUME NEW n \in Conns, NEW u \in Sides, <<n, u>> \in to,
               NEW m \in 1..made, n < m, peer[n] = peer[m]
        PROVE ~(Live(n, Other(u)) /\ Live(m, Other(u)))
    <2>1. u = "client" /\ Live(n, "client")
      BY <1>2, <1>3 DEF Live, Open
    <2>2. n \in 1..made
      BY <2>1, EndIsMade DEF Live, Sides
    <2>3. ~Live(n, "client")
      BY <1>3, <2>2 DEF IInv, LatestOfClient
    <2> QED
      BY <2>1, <2>3
  <1>4. \A n \in Conns, u \in Sides : <<n, u>> \in to =>
            /\ Open(n, u)
            /\ \A m \in 1..made : n < m /\ peer[n] = peer[m]
                                  => ~(Live(n, Other(u)) /\ Live(m, Other(u)))
    BY <1>2, <1>3
  <1> QED
    BY <1>1, <1>4, RelayedKeeps

\* tcp_server::send(): an older connection of the same client is over on the
\* client's side when a later one is made.
LEMMA ServerDatagramKeeps ==
    ASSUME IInv, ServerDatagram
    PROVE IInv'
  <1> DEFINE to == {<<n, "server">> : n \in {client} \ {None}}
  <1>1. Relayed(to)
    BY DEF ServerDatagram
  <1>2. ASSUME NEW n \in Conns, NEW u \in Sides, <<n, u>> \in to
        PROVE u = "server" /\ Open(n, "server")
    <2>1. u = "server" /\ n \in {client} \ {None}
      BY <1>2
    <2>2. {m \in Conns : Open(m, "server")} = {client} \ {None}
      BY DEF IInv, TypeOK
    <2> QED
      BY <2>1, <2>2
  <1> HIDE DEF to
  <1>3. ASSUME NEW n \in Conns, NEW u \in Sides, <<n, u>> \in to,
               NEW m \in 1..made, n < m, peer[n] = peer[m]
        PROVE ~(Live(n, Other(u)) /\ Live(m, Other(u)))
    <2>1. u = "server" /\ Open(n, "server") /\ Other(u) = "client"
      BY <1>2, <1>3 DEF Other
    <2>2. n \in 1..made
      BY <2>1, EndIsMade DEF Open, Sides
    <2>3. ~Live(n, "client")
      BY <1>3, <2>2 DEF IInv, LatestOfClient
    <2> QED
      BY <2>1, <2>3
  <1>4. \A n \in Conns, u \in Sides : <<n, u>> \in to =>
            /\ Open(n, u)
            /\ \A m \in 1..made : n < m /\ peer[n] = peer[m]
                                  => ~(Live(n, Other(u)) /\ Live(m, Other(u)))
    BY <1>2, <1>3
  <1> QED
    BY <1>1, <1>4, RelayedKeeps

\* A connection over which nothing has been sent.
LEMMA NothingComing ==
    ASSUME NEW n, NEW to \in End, NEW from \in End,
           to.inbox = <<>>, to.partial = None, from.msgs = <<>>, ~GivenUp(to)
    PROVE Direction(n, to, from) /\ Coming(to, from) = {}
  BY FlowFresh, DirectionIf

\* A new connection: the older ones of its client are over on the client's
\* side, and the server has yet to accept it.
LEMMA EstablishKeeps ==
    ASSUME IInv, NEW c \in Clients, Establish(c)
    PROVE IInv'
  <1> DEFINE k == made + 1
             new == EndAt("up", 0)
  <1>1. /\ made < MaxConns /\ made' = k /\ peer' = [peer EXCEPT ![k] = c]
        /\ end' = [end EXCEPT ![<<k, "client">>] = new, ![<<k, "server">>] = new]
        /\ \A n \in Conns : peer[n] = c => ~Live(n, "client")
    BY DEF Establish
  <1>2. sent' = sent /\ cut' = cut /\ client' = client /\ got' = got
    BY DEF Establish
  <1>3. /\ k \in Nat /\ k \in 1..MaxConns /\ made \in Nat /\ made < k /\ k \notin 1..made
        /\ \A n \in 1..k : n \in 1..made \/ n = k
        /\ 1..made \subseteq 1..k /\ k \in 0..MaxConns
    BY <1>1, Numbers
  <1>4. k \in Conns /\ k # None
    BY <1>3 DEF Conns
  <1>5. \A n \in Conns : n <= k <=> n <= made \/ n = k
    BY <1>3, Numbers
  <1>6. 0 \in 0..MaxSent /\ "up" \in {"none", "up", "open", "closed"}
    BY Numbers
  <1>7. /\ new \in End /\ new.stage = "up" /\ new.inbox = <<>>
        /\ new.partial = None /\ new.msgs = <<>> /\ ~GivenUp(new)
    BY <1>6, EndAtIs
  <1> HIDE DEF k, new
  <1>8. /\ end \in [Conns \X Sides -> End] /\ peer \in [Conns -> Clients \union {NoClient}]
        /\ "client" \in Sides /\ "server" \in Sides
        /\ \A u \in Sides : u = "client" \/ u = "server"
    BY DEF IInv, TypeOK, Sides
  <1>9. /\ end' \in [Conns \X Sides -> End]
        /\ \A u \in Sides : end'[k, u] = new
        /\ \A n \in Conns, u \in Sides : n # k => end'[n, u] = end[n, u]
    BY <1>1, <1>4, <1>7, <1>8
  <1>10. /\ peer' \in [Conns -> Clients \union {NoClient}]
         /\ peer'[k] = c /\ \A n \in Conns : n # k => peer'[n] = peer[n]
    BY <1>1, <1>4, <1>8
  <1>11. \A u \in Sides : end[k, u].stage = "none"
    <2>1. ~(k <= made)
      BY <1>3
    <2> QED
      BY <1>4, <2>1 DEF IInv, MadeInOrder
  <1>12. \A n \in Conns, u \in Sides : n # k => (Live(n, u)' <=> Live(n, u)) /\ (Open(n, u)' <=> Open(n, u))
    BY <1>9 DEF Live, Open
  <1>13. \A n \in 1..made : n \in Conns /\ n # k
    BY <1>3, Numbers
  <1>14. MadeInOrder'
    <2>1. ASSUME NEW n \in Conns
          PROVE IF n <= made' THEN /\ peer'[n] \in Clients
                                   /\ \A s \in Sides : end'[n, s].stage # "none"
                ELSE \A s \in Sides : end'[n, s].stage = "none"
      <3>1. CASE n = k
        BY <1>1, <1>5, <1>7, <1>9, <1>10, <3>1
      <3>2. CASE n # k
        <4>1. n <= made' <=> n <= made
          BY <1>1, <1>5, <3>2
        <4>2. \A s \in Sides : end'[n, s] = end[n, s]
          BY <1>9, <3>2
        <4> QED
          BY <1>10, <3>2, <4>1, <4>2 DEF IInv, MadeInOrder
      <3> QED
        BY <3>1, <3>2
    <2> QED
      BY <2>1 DEF MadeInOrder
  <1>15. LatestOfClient'
    <2>1. ASSUME NEW m \in 1..k, NEW n \in 1..k, m < n, peer'[m] = peer'[n]
          PROVE ~Live(m, "client")'
      <3>1. m \in 1..made
        BY <1>3, <2>1
      <3>2. m \in Conns /\ m # k /\ peer'[m] = peer[m]
        BY <1>10, <1>13, <3>1
      <3>3. CASE n = k
        BY <1>1, <1>8, <1>10, <1>12, <2>1, <3>2, <3>3
      <3>4. CASE n # k
        <4>1. n \in 1..made /\ n \in Conns
          BY <1>3, <1>13, <3>4
        <4>2. peer'[n] = peer[n]
          BY <1>10, <3>4, <4>1
        <4>3. ~Live(m, "client")
          BY <2>1, <3>1, <3>2, <4>1, <4>2 DEF IInv, LatestOfClient
        <4> QED
          BY <1>8, <1>12, <3>2, <4>3
      <3> QED
        BY <3>3, <3>4
    <2> QED
      BY <1>1, <2>1 DEF LatestOfClient, Live
  <1>16. AcceptedInOrder'
    <2>1. ASSUME NEW m \in 1..k, NEW n \in 1..k, m < n, end'[n, "server"].stage # "up"
          PROVE end'[m, "server"].stage = "closed"
      <3>1. n # k
        BY <1>7, <1>8, <1>9, <2>1
      <3>2. m \in 1..made /\ n \in 1..made
        <4>1. n \in 1..made
          BY <1>3, <3>1
        <4>2. m < n
          BY <2>1
        <4>3. m # k
          BY <1>3, <4>2
        <4> QED
          BY <1>3, <4>1, <4>3
      <3>3. end'[n, "server"] = end[n, "server"] /\ end'[m, "server"] = end[m, "server"]
        BY <1>8, <1>9, <1>13, <3>2
      <3> QED
        BY <2>1, <3>2, <3>3 DEF IInv, AcceptedInOrder
    <2> QED
      BY <1>1, <2>1 DEF AcceptedInOrder
  <1>17. ASSUME NEW n \in Conns, NEW u \in Sides
         PROVE /\ Direction(n, end'[n, u], end'[n, Other(u)])
               /\ Shape(end'[n, u])
               /\ Coming(end'[n, u], end'[n, Other(u)]) = IF n = k THEN {} ELSE ComingTo(n, u)
    <2>1. Other(u) \in Sides
      BY DEF Sides, Other
    <2>2. CASE n = k
      <3>1. end'[n, u] = new /\ end'[n, Other(u)] = new
        BY <1>9, <2>1, <2>2
      <3>2. Direction(n, new, new) /\ Coming(new, new) = {}
        BY <1>7, NothingComing
      <3>3. Shape(new)
        BY <1>7 DEF Shape, IsOpen, IsLive
      <3> QED
        BY <2>2, <3>1, <3>2, <3>3
    <2>3. CASE n # k
      <3>1. end'[n, u] = end[n, u] /\ end'[n, Other(u)] = end[n, Other(u)]
        BY <1>9, <2>1, <2>3
      <3>2. Direction(n, end[n, u], end[n, Other(u)]) /\ Shape(end[n, u])
        BY DEF IInv, Directions, EndsInShape
      <3> QED
        BY <2>3, <3>1, <3>2 DEF ComingTo
    <2> QED
      BY <2>2, <2>3
  <1>18. EndsInShape' /\ Directions'
    BY <1>2, <1>17 DEF EndsInShape, Directions, Direction
  <1>19. TypeOK'
    <2>1. \A m, n \in Conns : Live(m, "client")' /\ Live(n, "client")'
                              /\ peer'[m] = peer'[n] => m = n
      <3>1. ASSUME NEW m \in Conns, NEW n \in Conns, Live(m, "client")', Live(n, "client")',
                   peer'[m] = peer'[n]
            PROVE m = n
        <4>1. CASE m # k /\ n # k
          <5>1. Live(m, "client") /\ Live(n, "client") /\ peer[m] = peer[n]
            BY <1>8, <1>10, <1>12, <3>1, <4>1
          <5> QED
            BY <5>1 DEF IInv, TypeOK
        <4>2. CASE m = k /\ n # k
          BY <1>1, <1>8, <1>10, <1>12, <3>1, <4>2
        <4>3. CASE m # k /\ n = k
          BY <1>1, <1>8, <1>10, <1>12, <3>1, <4>3
        <4> QED
          BY <4>1, <4>2, <4>3
      <3> QED
        BY <3>1 DEF Live
    <2>2. {n \in Conns : Open(n, "server")'} = {client'} \ {None}
      <3>1. ASSUME NEW n \in Conns
            PROVE Open(n, "server")' <=> Open(n, "server")
        <4>1. CASE n = k
          BY <1>7, <1>8, <1>9, <1>11, <4>1 DEF Open
        <4>2. CASE n # k
          BY <1>8, <1>12, <4>2
        <4> QED
          BY <4>1, <4>2
      <3>2. \A n \in Conns : Open(n, "server")' <=> Open(n, "server")
        BY <3>1 DEF Open
      <3>3. {n \in Conns : Open(n, "server")} = {client} \ {None}
        BY DEF IInv, TypeOK
      <3> QED
        BY <1>2, <3>2, <3>3
    <2>3. sent' \in 0..MaxSent /\ client' \in Conns \union {None}
          /\ got' \in [Clients \X Sides -> 0..MaxSent]
      BY <1>2 DEF IInv, TypeOK
    <2>4. made' \in 0..MaxConns /\ cut' \subseteq 1..made'
      <3>1. cut \subseteq 1..made
        BY DEF IInv, TypeOK
      <3> QED
        BY <1>1, <1>2, <1>3, <3>1
    <2> QED
      BY <1>9, <1>10, <2>1, <2>2, <2>3, <2>4 DEF TypeOK
  <1>20. ASSUME NEW n \in Conns, NEW u \in Sides, NEW x \in ComingTo(n, u)'
         PROVE /\ n # k /\ x \in ComingTo(n, u)
               /\ x <= sent' /\ (Live(n, u)' => got'[peer'[n], u] < x)
    <2>1. n # k /\ x \in ComingTo(n, u)
      BY <1>17 DEF ComingTo
    <2>2. x <= sent /\ (Live(n, u) => got[peer[n], u] < x)
      BY <2>1 DEF IInv, Ahead
    <2>3. peer'[n] = peer[n] /\ (Live(n, u)' => Live(n, u))
      BY <1>10, <1>12, <2>1
    <2> QED
      BY <1>2, <2>1, <2>2, <2>3
  <1>21. Ahead'
    BY <1>20 DEF Ahead, ComingTo, Live
  <1>22. ASSUME NEW s \in Sides, NEW m \in 1..k, NEW n \in 1..k, m < n,
                peer'[m] = peer'[n], Live(m, s)', Live(n, s)',
                NEW y \in ComingTo(m, s)', NEW z \in ComingTo(n, s)'
         PROVE y < z
    <2>1. m \in Conns /\ n \in Conns
      BY <1>3, <1>4, <1>13
    <2>2. m # k /\ n # k /\ y \in ComingTo(m, s) /\ z \in ComingTo(n, s)
      BY <1>20, <1>22, <2>1
    <2>3. m \in 1..made /\ n \in 1..made
      BY <1>3, <2>2
    <2>4. Live(m, s) /\ Live(n, s) /\ peer[m] = peer[n]
      BY <1>10, <1>12, <1>22, <2>1, <2>2
    <2> QED
      BY <1>22, <2>2, <2>3, <2>4 DEF IInv, InSequence
  <1>23. InSequence'
    BY <1>1, <1>22 DEF InSequence, ComingTo, Live
  <1>24. \A d \in Clients, s \in Sides : got'[d, s] <= sent'
    BY <1>2 DEF IInv
  <1> QED
    BY <1>14, <1>15, <1>16, <1>18, <1>19, <1>21, <1>23, <1>24 DEF IInv

-----------------------------------------------------------------------------
(***************************************************************************)
(* The inductive invariant and what it implies.                            *)
(***************************************************************************)
LEMMA InitInv ==
    ASSUME Init
    PROVE IInv
  <1>1. /\ sent = 0 /\ made = 0 /\ peer = [n \in Conns |-> NoClient] /\ cut = {}
        /\ client = None /\ got = [c \in Clients \X Sides |-> 0]
    BY DEF Init
  <1>2. 0 \in 0..MaxSent /\ 0 \in 0..MaxConns /\ 1..0 = {}
    BY BoundsAssumption
  <1>3. ASSUME NEW n \in Conns, NEW s \in Sides
        PROVE /\ end[n, s] \in End /\ end[n, s].stage = "none" /\ end[n, s].inbox = <<>>
              /\ end[n, s].partial = None /\ end[n, s].msgs = <<>> /\ ~GivenUp(end[n, s])
    <2>1. end[n, s] = EndAt("none", 0)
      BY DEF Init
    <2>2. "none" \in {"none", "up", "open", "closed"}
      OBVIOUS
    <2> QED
      BY <1>2, <2>1, <2>2, EndAtIs
  <1>4. end \in [Conns \X Sides -> End]
    <2>1. ASSUME NEW e \in Conns \X Sides
          PROVE end[e] \in End
      <3>1. PICK n \in Conns, u \in Sides : e = <<n, u>>
        OBVIOUS
      <3> QED
        BY <1>3, <3>1
    <2>2. end = [e \in Conns \X Sides |-> end[e]]
      BY DEF Init
    <2> QED
      BY <2>1, <2>2
  <1>5. ASSUME NEW n \in Conns, NEW s \in Sides
        PROVE /\ Direction(n, end[n, s], end[n, Other(s)]) /\ ComingTo(n, s) = {}
              /\ Shape(end[n, s])
    <2>1. Other(s) \in Sides
      BY DEF Sides, Other
    <2>2. Direction(n, end[n, s], end[n, Other(s)]) /\ ComingTo(n, s) = {}
      BY <1>3, <2>1, NothingComing DEF ComingTo
    <2>3. Shape(end[n, s])
      BY <1>3 DEF Shape, IsOpen, IsLive
    <2> QED
      BY <2>2, <2>3
  <1>6. EndsInShape /\ Directions /\ Ahead
    BY <1>5 DEF EndsInShape, Directions, Ahead
  <1>7. LatestOfClient /\ AcceptedInOrder /\ InSequence
    BY <1>1, <1>2 DEF LatestOfClient, AcceptedInOrder, InSequence
  <1>8. MadeInOrder
    <2>1. \A n \in Conns : ~(n <= made)
      BY <1>1, BoundsAssumption DEF Conns
    <2> QED
      BY <1>3, <2>1 DEF MadeInOrder
  <1>9. \A n \in Conns, s \in Sides : ~Live(n, s) /\ ~Open(n, s)
    BY <1>3 DEF Live, Open
  <1>10. TypeOK
    <2>1. /\ sent \in 0..MaxSent /\ made \in 0..MaxConns /\ cut \subseteq 1..made
          /\ peer \in [Conns -> Clients \union {NoClient}]
          /\ client \in Conns \union {None}
          /\ got \in [Clients \X Sides -> 0..MaxSent]
      BY <1>1, <1>2
    <2>2. {n \in Conns : Open(n, "server")} = {client} \ {None}
      BY <1>1, <1>9 DEF Sides
    <2>3. \A m, n \in Conns : Live(m, "client") /\ Live(n, "client")
                              /\ peer[m] = peer[n] => m = n
      BY <1>9 DEF Sides
    <2> QED
      BY <1>4, <2>1, <2>2, <2>3 DEF TypeOK
  <1>11. ASSUME NEW c \in Clients, NEW s \in Sides
         PROVE got[c, s] <= sent
    <2> DEFINE g == got[c, s]
    <2>1. g = 0 /\ sent = 0
      BY <1>1
    <2> HIDE DEF g
    <2>2. g <= sent
      BY <2>1
    <2> QED
      BY <2>2 DEF g
  <1> QED
    BY <1>6, <1>7, <1>8, <1>10, <1>11 DEF IInv

LEMMA SelfKeeps ==
    ASSUME IInv, UNCHANGED vars
    PROVE IInv'
  <1>1. Keeps(end')
    <2>1. end' = end
      BY DEF vars
    <2> QED
      BY <2>1, KeepsSelf DEF Keeps
  <1>2. Onward(end')
    BY DEF Onward, vars, Live, IsLive
  <1> QED
    BY <1>1, <1>2, KeptServer DEF vars

\* What a step does to the datagrams: one is put in, or one comes out, or
\* neither.
Passes == \/ sent' = sent + 1 /\ got' = got
          \/ UNCHANGED <<sent, got>>
          \/ /\ sent' = sent
             /\ \E c \in Clients, s \in Sides : \E m \in Msgs :
                    /\ got' = [got EXCEPT ![<<c, s>>] = m]
                    /\ got[c, s] < m /\ m <= sent

LEMMA NextInv ==
    ASSUME IInv, [Next]_vars
    PROVE IInv' /\ Passes
  <1>1. ASSUME NEW n \in Conns, OnConnected(n)
        PROVE IInv' /\ Passes
    BY <1>1, ConnectedKeeps DEF OnConnected, Passes
  <1>2. ASSUME NEW n \in Conns, OnAccept(n)
        PROVE IInv' /\ Passes
    BY <1>2, AcceptKeeps DEF OnAccept, Passes
  <1>3. ASSUME NEW n \in Conns, OnClientDisconnected(n)
        PROVE IInv' /\ Passes
    BY <1>3, ClientDisconnectedKeeps DEF OnClientDisconnected, Passes
  <1>4. ASSUME NEW n \in Conns, OnServerDisconnected(n)
        PROVE IInv' /\ Passes
    BY <1>4, ServerDisconnectedKeeps DEF OnServerDisconnected, Passes
  <1>5. ASSUME NEW n \in Conns, NEW s \in Sides, Write(n, s)
        PROVE IInv' /\ Passes
    BY <1>5, WriteKeeps DEF Write, Passes
  <1>6. ASSUME NEW n \in Conns, NEW s \in Sides, OnReceive(n, s)
        PROVE IInv' /\ Passes
    <2>1. sent' = sent /\ end[n, s].stage # "none"
      BY <1>6 DEF OnReceive, Open
    <2>2. peer[n] \in Clients
      BY <2>1, EndIsMade
    <2> QED
      BY <1>6, <2>1, <2>2, ReceiveKeeps DEF Passes
  <1>7. ASSUME ServerDatagram
        PROVE IInv' /\ Passes
    BY <1>7, ServerDatagramKeeps DEF ServerDatagram, Relayed, Passes
  <1>8. ASSUME NEW c \in Clients, ClientDatagram(c)
        PROVE IInv' /\ Passes
    BY <1>8, ClientDatagramKeeps DEF ClientDatagram, Relayed, Passes
  <1>9. ASSUME NEW c \in Clients, Establish(c)
        PROVE IInv' /\ Passes
    BY <1>9, EstablishKeeps DEF Establish, Passes
  <1>10. ASSUME NEW n \in Conns, Cut(n)
         PROVE IInv' /\ Passes
    BY <1>10, CutKeeps DEF Cut, Passes
  <1>11. ASSUME NEW n \in Conns, NEW s \in Sides, Tell(n, s)
         PROVE IInv' /\ Passes
    BY <1>11, TellKeeps DEF Tell, Passes
  <1>12. ASSUME NEW n \in Conns, NEW s \in Sides, OnError(n, s)
         PROVE IInv' /\ Passes
    BY <1>12, ErrorKeeps DEF OnError, Passes
  <1>13. ASSUME UNCHANGED vars
         PROVE IInv' /\ Passes
    BY <1>13, SelfKeeps DEF vars, Passes
  <1>14. "client" \in Sides /\ "server" \in Sides
    BY DEF Sides
  <1> QED
    BY <1>1, <1>2, <1>3, <1>4, <1>5, <1>6, <1>7, <1>8, <1>9, <1>10, <1>11, <1>12, <1>13, <1>14
       DEF Next, Handle

-----------------------------------------------------------------------------
\* The inductive invariant holds in every state the tunnel reaches.
THEOREM Invariance == Spec => []IInv
  BY InitInv, NextInv, PTL DEF Spec

\* The server's wrappers are those its map holds, and a client serves one
\* connection, whatever is lost and whoever comes and goes.
THEOREM TypeCorrect == Spec => []TypeOK
  BY Invariance, PTL DEF IInv

\* What an end reads next is what it waits for: the pieces of two messages are
\* never taken for one.
THEOREM WholeMessages == Spec => []Framed
  <1>1. ASSUME IInv
        PROVE Framed
    <2>1. ASSUME NEW n \in Conns, NEW s \in Sides, end[n, s].inbox # <<>>
          PROVE Expects(end[n, s].partial, Head(end[n, s].inbox))
      <3>1. Framing(end[n, s].partial, end[n, s].inbox)
        BY <1>1, FlowsTo DEF Flow
      <3>2. end[n, s].inbox \in Seq(Piece)
        BY <1>1, EndAtTyped
      <3> QED
        BY <2>1, <3>1, <3>2, TailAt DEF Framing
    <2> QED
      BY <2>1 DEF Framed
  <1> QED
    BY <1>1, Invariance, PTL

\* Between every client and the server datagrams come out whole, in order and
\* at most once, each way and over all the client's connections.
THEOREM InOrderAtMostOnce == Spec => ImplementsLossyFifo
  <1>1. Init => \A c \in Clients, s \in Sides : Channel(c, s)!Init
    BY DEF Init, Channel!Init
  <1>2. ASSUME IInv, [Next]_vars, NEW c \in Clients, NEW s \in Sides
        PROVE [Channel(c, s)!Next]_<<sent, got[c, s]>>
    <2>1. sent \in Nat /\ got \in [Clients \X Sides -> 0..MaxSent]
      BY <1>2, Numbers DEF IInv, TypeOK
    <2>2. CASE sent' = sent + 1 /\ got' = got
      BY <2>2 DEF Channel!Next, Channel!Put
    <2>3. CASE UNCHANGED <<sent, got>>
      BY <2>3
    <2>4. ASSUME sent' = sent, NEW d \in Clients, NEW u \in Sides, NEW m \in Msgs,
                 got' = [got EXCEPT ![<<d, u>>] = m], got[d, u] < m, m <= sent
          PROVE [Channel(c, s)!Next]_<<sent, got[c, s]>>
      <3>1. CASE c = d /\ s = u
        <4>1. got'[c, s] = m
          BY <2>1, <2>4, <3>1
        <4> DEFINE g == got[c, s]
        <4>2. g \in 0..MaxSent /\ g < m /\ m <= sent
          BY <2>1, <2>4, <3>1
        <4> HIDE DEF g
        <4>3. m \in Nat /\ g \in Nat
          BY <1>2, <4>2, Numbers, BoundsAssumption
        <4>4. m \in (g + 1)..sent
          BY <2>1, <4>2, <4>3
        <4>5. m \in (got[c, s] + 1)..sent
          BY <4>4 DEF g
        <4> QED
          BY <2>4, <4>1, <4>5 DEF Channel!Next, Channel!Get
      <3>2. CASE ~(c = d /\ s = u)
        BY <2>1, <2>4, <3>2
      <3> QED
        BY <3>1, <3>2
    <2> QED
      BY <1>2, <2>2, <2>3, <2>4, NextInv DEF Passes
  <1>3. IInv /\ [Next]_vars =>
            [\A c \in Clients, s \in Sides : [Channel(c, s)!Next]_<<sent, got[c, s]>>]_vars
    BY <1>2
  <1> QED
    BY <1>1, <1>3, Invariance, PTL DEF Spec, ImplementsLossyFifo
=============================================================================
