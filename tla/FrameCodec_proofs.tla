--------------------------- MODULE FrameCodec_proofs ---------------------------
(***************************************************************************)
(* The messages over a byte stream, for any number of values of a byte,    *)
(* any width of the size, any bound on the messages, and chunks cut        *)
(* anywhere: the bytes that are delivered, in the buffer and to come are   *)
(* always those that were sent, and so the loop finds every message where  *)
(* send() has put it.                                                      *)
(***************************************************************************)
EXTENDS FrameCodec, Operators_proofs

-----------------------------------------------------------------------------
(***************************************************************************)
(* Messages and their bytes.                                               *)
(***************************************************************************)
LEMMA Sizes ==
    /\ HdrSize \in Nat \ {0} /\ Base \in Nat \ {0} /\ MaxSent \in Nat /\ MaxSize \in Nat
    /\ \A z \in 0..MaxSize : z \in Nat /\ z % Power(Base, HdrSize) = z
<1> DEFINE d == Power(Base, HdrSize)
<1>1. HdrSize \in Nat \ {0} /\ Base \in Nat \ {0} /\ MaxSent \in Nat
  BY SizesAssumption
<1>2. d \in Nat \ {0}
  BY <1>1, Powers
<1>3. MaxSize \in 0..(d - 1)
  BY SizesAssumption
<1> HIDE DEF d
<1>4. \A z \in 0..MaxSize : z \in Nat /\ z % d = z
  BY <1>2, <1>3
<1> QED
  BY <1>1, <1>2, <1>3, <1>4 DEF d

\* A payload is a sequence of bytes that is not too long for its size.
LEMMA PayloadsAre ==
    \A p : p \in Payload <=> p \in Seq(Byte) /\ Len(p) <= MaxSize
<1>1. ASSUME NEW p \in Payload PROVE p \in Seq(Byte) /\ Len(p) <= MaxSize
  BY Sizes DEF Payload
<1>2. ASSUME NEW p \in Seq(Byte), Len(p) <= MaxSize PROVE p \in Payload
  <2>1. Len(p) \in 0..MaxSize /\ p \in [1..Len(p) -> Byte]
    BY <1>2, Sizes
  <2> QED
    BY <2>1 DEF Payload
<1> QED
  BY <1>1, <1>2

\* The size of a message goes into its bytes and comes out of them.
LEMMA Headers ==
    ASSUME NEW z \in 0..MaxSize
    PROVE  /\ Header(z) \in Seq(Byte) /\ Len(Header(z)) = HdrSize
           /\ FromBytes(Header(z), Base) = z
<1>1. z \in Nat /\ z % Power(Base, HdrSize) = z
  BY Sizes
<1>2. FromBytes(ToBytes(z, HdrSize, Base), Base) = z % Power(Base, HdrSize)
  BY <1>1, Sizes, DigitsOf
<1>3. /\ ToBytes(z, HdrSize, Base) \in Seq(0..(Base - 1))
      /\ Len(ToBytes(z, HdrSize, Base)) = HdrSize
  BY <1>1, Sizes, BytesTyped
<1> QED
  BY <1>1, <1>2, <1>3 DEF Header, Byte

LEMMA FrameTyped ==
    ASSUME NEW p \in Payload
    PROVE  /\ Len(p) \in 0..MaxSize /\ p \in Seq(Byte)
           /\ Frame(p) \in Seq(Byte) /\ Len(Frame(p)) = HdrSize + Len(p)
<1>1. p \in Seq(Byte) /\ Len(p) \in 0..MaxSize
  BY PayloadsAre, Sizes
<1>2. Header(Len(p)) \in Seq(Byte) /\ Len(Header(Len(p))) = HdrSize
  BY <1>1, Headers
<1> QED
  BY <1>1, <1>2, ConcatProperties DEF Frame

\* What Frames computes: there is such a function, and its values are bytes.
LEMMA FramesAre ==
    ASSUME NEW msgs \in Seq(Payload)
    PROVE  /\ Frames(msgs, 0) = <<>>
           /\ \A k \in 0..Len(msgs) : Frames(msgs, k) \in Seq(Byte)
           /\ \A k \in 1..Len(msgs) :
                 Frames(msgs, k) = Frames(msgs, k - 1) \o Frame(msgs[k])
<1> DEFINE D == 0..Len(msgs)
           Eq(f) == f = [i \in 0..Len(msgs) |->
                           IF i = 0 THEN <<>> ELSE f[i - 1] \o Frame(msgs[i])]
           F == CHOOSE f : Eq(f)
           S == Seq(Byte)
           a == <<>>
           g == [x \in D \X S |-> IF x[1] = 0 THEN <<>> ELSE x[2] \o Frame(msgs[x[1]])]
<1>1. Initial(D)
  BY DEF Initial
<1>2. ASSUME NEW i \in D, NEW x \in S
      PROVE  g[<<i, x>>] = IF i = 0 THEN a ELSE x \o Frame(msgs[i])
  OBVIOUS
<1> HIDE DEF g
<1>3. ASSUME NEW i \in D, i # 0, NEW x \in S
      PROVE  x \o Frame(msgs[i]) \in S
  <2>1. msgs[i] \in Payload
    BY <1>3
  <2> QED
    BY <1>3, <2>1, FrameTyped, ConcatProperties
<1>4. a \in S
  OBVIOUS
<1> HIDE DEF S, a
<1>5. \A i \in D, x \in S : g[<<i, x>>] \in S
  BY <1>2, <1>3, <1>4
<1>6. PICK f : Recurs(f, D, a, g) /\ f = [i \in D |-> f[i]]
  BY <1>1, RecursExists
<1>7. Recurs(f, D, a, g)
  BY <1>6
<1> HIDE DEF D
<1>8. \A i \in D : f[i] \in S
  BY <1>1, <1>4, <1>5, <1>7, RecursTyped
<1>9. ASSUME NEW i \in D
      PROVE  f[i] = IF i = 0 THEN <<>> ELSE f[i - 1] \o Frame(msgs[i])
  <2>1. f[i] = IF i = 0 THEN a ELSE g[<<i, f[i - 1]>>]
    BY <1>7 DEF Recurs
  <2>2. i # 0 => f[i - 1] \in S
    BY <1>8, <1>1 DEF Initial
  <2> QED
    BY <1>2, <2>1, <2>2 DEF a
<1>10. Eq(f)
  BY <1>6, <1>9 DEF D
<1>11. Eq(F)
  BY <1>10
<1>12. \A k : Frames(msgs, k) = F[k]
  BY DEF Frames
<1> HIDE DEF F
<1>13. \A i \in D : F[i] = IF i = 0 THEN <<>> ELSE F[i - 1] \o Frame(msgs[i])
  BY <1>11 DEF D
<1>14. \A i \in D : F[i] = f[i]
  <2> DEFINE T == {i \in D : F[i] # f[i]}
  <2>1. ASSUME T # {} PROVE FALSE
    <3>1. T \in SUBSET Nat
      BY <1>1 DEF Initial
    <3>2. PICK n \in T : \A m \in T : n <= m
      BY <2>1, <3>1, LeastOne
    <3>3. n \in D /\ n \in Nat /\ F[n] # f[n]
      BY <3>1
    <3>4. n # 0
      BY <1>9, <1>13, <3>3
    <3>5. n - 1 \in D /\ ~(n <= n - 1)
      BY <1>1, <3>3, <3>4 DEF Initial
    <3>6. F[n - 1] = f[n - 1]
      BY <3>2, <3>5
    <3> QED
      BY <1>9, <1>13, <3>3, <3>4, <3>6
  <2> QED
    BY <2>1
<1>15. ASSUME NEW k \in 1..Len(msgs)
       PROVE  Frames(msgs, k) = Frames(msgs, k - 1) \o Frame(msgs[k])
  <2>1. k \in D /\ k # 0
    BY DEF D
  <2>2. F[k] = F[k - 1] \o Frame(msgs[k])
    BY <1>13, <2>1
  <2> QED
    BY <1>12, <2>2
<1>16. ASSUME NEW k \in 0..Len(msgs)
       PROVE  Frames(msgs, k) \in Seq(Byte) /\ (k = 0 => Frames(msgs, k) = <<>>)
  <2>1. k \in D
    BY DEF D
  <2>2. F[k] \in S /\ (k = 0 => F[k] = <<>>)
    BY <1>8, <1>13, <1>14, <2>1
  <2> QED
    BY <1>12, <2>2 DEF S
<1>17. 0 \in 0..Len(msgs)
  OBVIOUS
<1> QED
  BY <1>15, <1>16, <1>17

\* A message more leaves the bytes of the earlier ones alone.
LEMMA FramesAppend ==
    ASSUME NEW msgs \in Seq(Payload), NEW p \in Payload
    PROVE  /\ \A k \in 0..Len(msgs) : Frames(Append(msgs, p), k) = Frames(msgs, k)
           /\ Frames(Append(msgs, p), Len(msgs) + 1)
                  = Frames(msgs, Len(msgs)) \o Frame(p)
<1> DEFINE more == Append(msgs, p)
           T == {k \in 0..Len(msgs) : Frames(more, k) # Frames(msgs, k)}
<1>1. /\ more \in Seq(Payload) /\ Len(more) = Len(msgs) + 1
      /\ more[Len(msgs) + 1] = p /\ \A i \in 1..Len(msgs) : more[i] = msgs[i]
  OBVIOUS
<1> HIDE DEF more
<1>2. ASSUME T # {} PROVE FALSE
  <2>1. T \in SUBSET Nat
    OBVIOUS
  <2>2. PICK n \in T : \A m \in T : n <= m
    BY <1>2, <2>1, LeastOne
  <2>3. n \in 0..Len(msgs) /\ Frames(more, n) # Frames(msgs, n)
    OBVIOUS
  <2>4. n # 0
    BY <1>1, <2>3, FramesAre
  <2>5. /\ n - 1 \in 0..Len(msgs) /\ ~(n <= n - 1)
        /\ n \in 1..Len(msgs) /\ n \in 1..Len(more)
    BY <1>1, <2>3, <2>4
  <2>6. Frames(more, n - 1) = Frames(msgs, n - 1)
    BY <2>2, <2>5
  <2>7. Frames(more, n) = Frames(more, n - 1) \o Frame(more[n])
    BY <1>1, <2>5, FramesAre
  <2>8. Frames(msgs, n) = Frames(msgs, n - 1) \o Frame(msgs[n])
    BY <2>5, FramesAre
  <2> QED
    BY <1>1, <2>3, <2>5, <2>6, <2>7, <2>8
<1>3. \A k \in 0..Len(msgs) : Frames(more, k) = Frames(msgs, k)
  BY <1>2
<1>4. Frames(more, Len(msgs) + 1) = Frames(msgs, Len(msgs)) \o Frame(p)
  <2>1. /\ Len(msgs) + 1 \in 1..Len(more) /\ (Len(msgs) + 1) - 1 = Len(msgs)
        /\ Len(msgs) \in 0..Len(msgs)
    BY <1>1
  <2>2. Frames(more, Len(msgs) + 1)
            = Frames(more, (Len(msgs) + 1) - 1) \o Frame(more[Len(msgs) + 1])
    BY <1>1, <2>1, FramesAre
  <2> QED
    BY <1>1, <1>3, <2>1, <2>2
<1> QED
  BY <1>3, <1>4 DEF more

\* Three pieces of a stream put together in either order; the operator keeps an
\* equality of sequences closed where only its place in an argument matters.
Associative(a, b, c) == (a \o b) \o c = a \o (b \o c)

\* Either order gives the same bytes.
LEMMA Assoc ==
    ASSUME NEW a \in Seq(Byte), NEW b \in Seq(Byte), NEW c \in Seq(Byte)
    PROVE  Associative(a, b, c)
BY ConcatAssociative DEF Associative

\* The bytes of the first messages are the first bytes of all.
LEMMA FramesPrefix ==
    ASSUME NEW msgs \in Seq(Payload), NEW k \in 0..Len(msgs)
    PROVE  \E x \in Seq(Byte) : Frames(msgs, Len(msgs)) = Frames(msgs, k) \o x
<1> DEFINE L == Len(msgs)
           Rest(i) == \E x \in Seq(Byte) : Frames(msgs, L) = Frames(msgs, i) \o x
<1>1. Rest(L)
  <2>1. L \in 0..L /\ <<>> \in Seq(Byte)
    OBVIOUS
  <2>2. Frames(msgs, L) = Frames(msgs, L) \o <<>>
    BY <2>1, FramesAre, ConcatEmptySeq
  <2> QED
    BY <2>1, <2>2
<1>2. ASSUME NEW i \in 0..(L - 1), Rest(i + 1) PROVE Rest(i)
  <2>1. PICK x \in Seq(Byte) : Frames(msgs, L) = Frames(msgs, i + 1) \o x
    BY <1>2
  <2>2. PICK fr \in Seq(Byte) : Frames(msgs, i + 1) = Frames(msgs, i) \o fr
    <3>1. i + 1 \in 1..L /\ (i + 1) - 1 = i
      OBVIOUS
    <3>2. Frames(msgs, i + 1) = Frames(msgs, (i + 1) - 1) \o Frame(msgs[i + 1])
      BY <3>1, FramesAre
    <3>3. Frame(msgs[i + 1]) \in Seq(Byte)
      BY <3>1, FrameTyped
    <3> QED
      BY <3>1, <3>2, <3>3
  <2>3. Frames(msgs, i) \in Seq(Byte)
    BY FramesAre
  <2>4. (Frames(msgs, i) \o fr) \o x = Frames(msgs, i) \o (fr \o x)
    <3>1. Associative(Frames(msgs, i), fr, x)
      BY <2>3, Assoc
    <3> QED
      BY <3>1 DEF Associative
  <2>5. fr \o x \in Seq(Byte)
    BY ConcatProperties
  <2> QED
    BY <2>1, <2>2, <2>4, <2>5
<1>3. L \in Nat /\ k \in 0..L
  OBVIOUS
<1> HIDE DEF Rest, L
<1> DEFINE T == {d \in 0..L : ~Rest(L - d)}
<1>4. ASSUME T # {} PROVE FALSE
  <2>1. T \in SUBSET Nat
    OBVIOUS
  <2>2. PICK n \in T : \A m \in T : n <= m
    BY <1>4, <2>1, LeastOne
  <2>3. n \in 0..L /\ ~Rest(L - n)
    OBVIOUS
  <2>4. n # 0
    BY <1>1, <1>3, <2>3
  <2>5. /\ n - 1 \in 0..L /\ ~(n <= n - 1) /\ L - (n - 1) = (L - n) + 1
        /\ L - n \in 0..(L - 1)
    BY <1>3, <2>3, <2>4
  <2>6. Rest((L - n) + 1)
    BY <2>2, <2>5
  <2> QED
    BY <1>2, <2>3, <2>5, <2>6
<1>5. L - k \in 0..L /\ L - (L - k) = k
  BY <1>3
<1>6. Rest(k)
  BY <1>4, <1>5
<1> QED
  BY <1>6 DEF Rest, L

-----------------------------------------------------------------------------
(***************************************************************************)
(* Bytes put together in two ways.                                         *)
(***************************************************************************)
LEMMA Joined ==
    ASSUME NEW a \in Seq(Byte), NEW b \in Seq(Byte)
    PROVE  a \o b \in Seq(Byte) /\ Len(a \o b) = Len(a) + Len(b)
BY ConcatProperties

LEMMA SameStart ==
    ASSUME NEW a \in Seq(Byte), NEW b \in Seq(Byte),
           NEW c \in Seq(Byte), NEW d \in Seq(Byte),
           a \o b = c \o d, Len(c) <= Len(a)
    PROVE  SubSeq(a, 1, Len(c)) = c
<1>1. ASSUME NEW i \in 1..Len(c) PROVE a[i] = c[i]
  <2>1. i \in 1..Len(a) /\ i \in 1..(Len(c) + Len(d)) /\ i \in 1..(Len(a) + Len(b))
    OBVIOUS
  <2>2. (a \o b)[i] = a[i] /\ (c \o d)[i] = c[i]
    BY <2>1, ConcatProperties
  <2> QED
    BY <2>2
<1>2. /\ SubSeq(a, 1, Len(c)) \in Seq(Byte) /\ Len(SubSeq(a, 1, Len(c))) = Len(c)
      /\ \A i \in 1..Len(c) : SubSeq(a, 1, Len(c))[i] = a[i]
  OBVIOUS
<1> QED
  BY <1>1, <1>2, SeqEqual

LEMMA SameFront ==
    ASSUME NEW a \in Seq(Byte), NEW b \in Seq(Byte), NEW c \in Seq(Byte),
           a \o b = a \o c
    PROVE  b = c
BY ConcatSimplifications

LEMMA SameParts ==
    ASSUME NEW a \in Seq(Byte), NEW b \in Seq(Byte),
           NEW c \in Seq(Byte), NEW d \in Seq(Byte),
           a \o b = c \o d, Len(c) = Len(a)
    PROVE  a = c /\ b = d
<1>1. SubSeq(a, 1, Len(c)) = c
  BY SameStart
<1>2. a = c
  BY <1>1
<1> QED
  BY <1>2, SameFront

\* The second part of a sequence.
LEMMA SecondPart ==
    ASSUME NEW a \in Seq(Byte), NEW b \in Seq(Byte)
    PROVE  SubSeq(a \o b, Len(a) + 1, Len(a) + Len(b)) = b
<1>1. Len(a) \in Nat /\ Len(b) \in Nat /\ Len(a \o b) = Len(a) + Len(b)
  BY Joined
<1>2. \A i \in (Len(a) + 1)..(Len(a) + Len(b)) : (a \o b)[i] = b[i - Len(a)]
  BY <1>1
<1>3. \A i \in (Len(a) + 1)..(Len(a) + Len(b)) : (a \o b)[i] \in Byte
  BY <1>1
<1> DEFINE m == Len(a) + 1
           n == Len(a) + Len(b)
           q == a \o b
<1>4. m \in Int /\ n \in Int /\ \A i \in m..n : q[i] \in Byte
  BY <1>1, <1>3
<1>5. /\ m <= n => n - m + 1 = Len(b)
      /\ m > n => Len(b) = 0
      /\ n - m + 1 = Len(b) /\ \A i \in 1..Len(b) : m + i - 1 \in m..n
      /\ \A i \in 1..Len(b) : (m + i - 1) - Len(a) = i
  BY <1>1
<1>6. \A i \in m..n : q[i] = b[i - Len(a)]
  BY <1>2
<1> HIDE DEF m, n, q
<1>7. /\ SubSeq(q, m, n) \in Seq(Byte)
      /\ Len(SubSeq(q, m, n)) = IF m <= n THEN n - m + 1 ELSE 0
      /\ \A i \in 1..(n - m + 1) : SubSeq(q, m, n)[i] = q[m + i - 1]
  BY <1>4, SubSeqProperties
<1>8. Len(SubSeq(q, m, n)) = Len(b)
  BY <1>4, <1>5, <1>7
<1>9. \A i \in 1..Len(b) : SubSeq(q, m, n)[i] = b[i]
  BY <1>5, <1>6, <1>7
<1>10. SubSeq(q, m, n) = b
  BY <1>7, <1>8, <1>9, SeqEqual
<1> QED
  BY <1>10 DEF m, n, q

\* fill_buffer() moves bytes from the chunk to the buffer and changes none; when
\* it does not find as many as it wants, it has taken them all.
Filled(n, p, c, r) ==
    /\ r.partial \in Seq(Byte) /\ r.rest \in Seq(Byte)
    /\ r.partial \o r.rest = p \o c
    /\ Len(r.partial) >= Len(p) /\ Len(r.partial) <= Len(p) + n
    /\ r.complete <=> Len(r.partial) = Len(p) + n
    /\ ~r.complete => r.rest = <<>>

\* That is what fill_buffer() returns.
LEMMA FillBufferFields ==
    ASSUME NEW n \in Nat, NEW p \in Seq(Byte), NEW c \in Seq(Byte),
           NEW r, r = FillBuffer(n, p, c)
    PROVE  Filled(n, p, c, r)
<1>1. PICK k \in 0..Len(c) : k = Least(n, Len(c)) /\ k <= n /\ (n # k => k = Len(c))
  <2>1. /\ Least(n, Len(c)) \in 0..Len(c) /\ Least(n, Len(c)) <= n
        /\ n # Least(n, Len(c)) => Least(n, Len(c)) = Len(c)
    BY DEF Least
  <2> QED
    BY <2>1
<1>2. PICK a \in Seq(Byte) : a = SubSeq(c, 1, k) /\ Len(a) = k
  <2>1. \A i \in 1..k : c[i] \in Byte
    OBVIOUS
  <2>2. SubSeq(c, 1, k) \in Seq(Byte) /\ Len(SubSeq(c, 1, k)) = k
    BY <2>1, SubSeqProperties
  <2> QED
    BY <2>2
<1>3. PICK b \in Seq(Byte) :
         b = SubSeq(c, k + 1, Len(c)) /\ (k = Len(c) => b = <<>>)
  <2>1. \A i \in (k + 1)..Len(c) : c[i] \in Byte
    OBVIOUS
  <2>2. /\ SubSeq(c, k + 1, Len(c)) \in Seq(Byte)
        /\ k = Len(c) => SubSeq(c, k + 1, Len(c)) = <<>>
    BY <2>1, SubSeqProperties
  <2> QED
    BY <2>2
<1>4. r = [partial |-> p \o a, rest |-> b, complete |-> n = k]
  BY <1>1, <1>2, <1>3 DEF FillBuffer
<1>5. (p \o a) \o b = p \o c
  <2>1. 1 \in 1..(Len(c) + 1) /\ k \in (1 - 1)..Len(c) /\ Len(c) \in k..Len(c)
    OBVIOUS
  <2>2. SubSeq(c, 1, k) \o SubSeq(c, k + 1, Len(c)) = SubSeq(c, 1, Len(c))
    BY <2>1, ConcatAdjacentSubSeq
  <2>3. a \o b = c
    BY <1>2, <1>3, <2>2, SubSeqFull
  <2>4. (p \o a) \o b = p \o (a \o b)
    <3>1. Associative(p, a, b)
      BY Assoc
    <3> QED
      BY <3>1 DEF Associative
  <2> QED
    BY <2>3, <2>4
<1>6. p \o a \in Seq(Byte) /\ Len(p \o a) = Len(p) + k
  <2>1. p \o a \in Seq(Byte) /\ Len(p \o a) = Len(p) + Len(a)
    BY Joined
  <2> QED
    BY <1>2, <2>1
<1>7. r.partial = p \o a /\ r.rest = b /\ (r.complete <=> n = k)
  <2>1. r.partial = p \o a /\ r.rest = b
    BY <1>4
  <2>2. r.complete = (n = k)
    BY <1>4
  <2> QED
    BY <2>1, <2>2
<1>8. /\ Len(r.partial) >= Len(p) /\ Len(r.partial) <= Len(p) + n
      /\ r.complete <=> Len(r.partial) = Len(p) + n
  <2>1. Len(p) \in Nat /\ Len(r.partial) = Len(p) + k
    BY <1>6, <1>7
  <2> QED
    BY <1>1, <1>7, <2>1
<1>9. ~r.complete => r.rest = <<>>
  BY <1>1, <1>3, <1>7
<1> QED
  BY <1>5, <1>6, <1>7, <1>8, <1>9 DEF Filled

\* A buffer q that begins with the bytes of the message p knows its size as soon
\* as it holds the header, and holds p alone when it has that size.
LEMMA HeaderFirst ==
    ASSUME NEW p \in Payload, NEW x \in Seq(Byte),
           NEW q \in Seq(Byte), NEW r \in Seq(Byte), q \o r = Frame(p) \o x
    PROVE  /\ Len(q) >= HdrSize => SizeOf(q) = Len(p)
           /\ Len(q) = HdrSize + Len(p) =>
                 r = x /\ SubSeq(q, HdrSize + 1, HdrSize + Len(p)) = p
<1>1. /\ p \in Seq(Byte) /\ Len(p) \in 0..MaxSize
      /\ Frame(p) \in Seq(Byte) /\ Len(Frame(p)) = HdrSize + Len(p)
  BY FrameTyped
<1>2. PICK h \in Seq(Byte) : /\ Len(h) = HdrSize /\ FromBytes(h, Base) = Len(p)
                             /\ h \o p = Frame(p)
  BY <1>1, Headers DEF Frame
<1>3. p \o x \in Seq(Byte) /\ q \o r = h \o (p \o x)
  <2>1. (h \o p) \o x = h \o (p \o x)
    <3>1. Associative(h, p, x)
      BY <1>1, <1>2, Assoc
    <3> QED
      BY <3>1 DEF Associative
  <2> QED
    BY <1>1, <1>2, <2>1, Joined
<1>4. ASSUME Len(q) >= HdrSize PROVE SizeOf(q) = Len(p)
  <2>1. Len(h) <= Len(q)
    BY <1>2, <1>4, Sizes
  <2>2. SubSeq(q, 1, Len(h)) = h
    BY <1>1, <1>2, <1>3, <2>1, SameStart
  <2> QED
    BY <1>2, <2>2 DEF SizeOf
<1>5. ASSUME Len(q) = HdrSize + Len(p)
      PROVE  r = x /\ SubSeq(q, HdrSize + 1, HdrSize + Len(p)) = p
  <2>1. q = Frame(p) /\ r = x
    BY <1>1, <1>5, SameParts
  <2>2. SubSeq(h \o p, Len(h) + 1, Len(h) + Len(p)) = p
    BY <1>1, <1>2, SecondPart
  <2> QED
    BY <1>2, <2>1, <2>2
<1> QED
  BY <1>4, <1>5

-----------------------------------------------------------------------------
(***************************************************************************)
(* The steps.                                                              *)
(***************************************************************************)
\* When not all that was sent has been delivered, what is left begins with the
\* next message.
LEMMA NextFrame ==
    ASSUME NEW msgs \in Seq(Payload), NEW k \in 0..Len(msgs),
           NEW rest \in Seq(Byte), rest # <<>>,
           Frames(msgs, k) \o rest = Frames(msgs, Len(msgs))
    PROVE  /\ k < Len(msgs)
           /\ \E x \in Seq(Byte) :
                 /\ rest = Frame(msgs[k + 1]) \o x
                 /\ Frames(msgs, k + 1) \o x = Frames(msgs, Len(msgs))
<1>1. PICK done \in Seq(Byte) : done = Frames(msgs, k)
  BY FramesAre
<1>2. k < Len(msgs)
  <2>1. k # Len(msgs)
    BY <1>1, ConcatSimplifications
  <2> QED
    BY <2>1
<1>3. /\ k + 1 \in 0..Len(msgs) /\ k + 1 \in 1..Len(msgs) /\ (k + 1) - 1 = k
      /\ msgs[k + 1] \in Payload
  BY <1>2
<1>4. PICK x \in Seq(Byte) : Frames(msgs, Len(msgs)) = Frames(msgs, k + 1) \o x
  BY <1>3, FramesPrefix
<1>5. PICK fr \in Seq(Byte) :
         fr = Frame(msgs[k + 1]) /\ Frames(msgs, k + 1) = done \o fr
  <2>1. Frames(msgs, k + 1) = Frames(msgs, (k + 1) - 1) \o Frame(msgs[k + 1])
    BY <1>3, FramesAre
  <2>2. Frame(msgs[k + 1]) \in Seq(Byte)
    BY <1>3, FrameTyped
  <2> QED
    BY <1>1, <1>3, <2>1, <2>2
<1>6. done \o rest = (done \o fr) \o x
  BY <1>1, <1>4, <1>5
<1>7. rest = fr \o x
  <2>1. (done \o fr) \o x = done \o (fr \o x)
    <3>1. Associative(done, fr, x)
      BY Assoc
    <3> QED
      BY <3>1 DEF Associative
  <2>2. fr \o x \in Seq(Byte)
    BY Joined
  <2>3. done \o rest = done \o (fr \o x)
    BY <1>6, <2>1, Zenon
  <2> QED
    BY <2>2, <2>3, SameFront, Zenon
<1> QED
  BY <1>2, <1>4, <1>5, <1>7

\* In a state: while bytes are in the chunk a message is due, and the buffer, the
\* chunk and the stream begin with it.
LEMMA Due ==
    ASSUME IInv, chunk # <<>>
    PROVE  /\ Len(delivered) \in Nat /\ Len(delivered) < Len(sent)
           /\ sent[Len(delivered) + 1] \in Payload
           /\ \E x \in Seq(Byte) :
                 /\ partial_msg_ \o (chunk \o stream)
                        = Frame(sent[Len(delivered) + 1]) \o x
                 /\ Frames(sent, Len(delivered) + 1) \o x = Frames(sent, Len(sent))
<1>1. /\ sent \in Seq(Payload) /\ Len(delivered) \in 0..Len(sent)
      /\ partial_msg_ \in Seq(Byte) /\ chunk \in Seq(Byte) /\ stream \in Seq(Byte)
      /\ Frames(sent, Len(delivered)) \o (partial_msg_ \o (chunk \o stream))
             = Frames(sent, Len(sent))
  BY DEF IInv, TypeOK, InTransit
<1>2. chunk \o stream \in Seq(Byte) /\ Len(chunk \o stream) = Len(chunk) + Len(stream)
  BY <1>1, Joined
<1>3. PICK rest \in Seq(Byte) :
         /\ rest = partial_msg_ \o (chunk \o stream)
         /\ Len(rest) = Len(partial_msg_) + Len(chunk \o stream)
  <2>1. /\ partial_msg_ \o (chunk \o stream) \in Seq(Byte)
        /\ Len(partial_msg_ \o (chunk \o stream))
               = Len(partial_msg_) + Len(chunk \o stream)
    BY <1>1, <1>2, Joined, Zenon
  <2> QED
    BY <2>1, Zenon
<1>4. rest # <<>>
  <2>1. Len(chunk) # 0 /\ Len(chunk) \in Nat
    BY <1>1
  <2>2. Len(rest) # 0
    BY <1>1, <1>2, <1>3, <2>1
  <2> QED
    BY <2>2
<1>5. /\ Len(delivered) < Len(sent)
      /\ \E x \in Seq(Byte) :
            /\ rest = Frame(sent[Len(delivered) + 1]) \o x
            /\ Frames(sent, Len(delivered) + 1) \o x = Frames(sent, Len(sent))
  BY <1>1, <1>3, <1>4, NextFrame
<1>6. sent[Len(delivered) + 1] \in Payload
  BY <1>1, <1>5
<1>7. Len(delivered) \in Nat
  BY <1>1
<1> QED
  BY <1>3, <1>5, <1>6, <1>7, Zenon

\* Bytes moved from the chunk to the buffer are still before those of the stream.
LEMMA Moved ==
    ASSUME IInv, NEW q \in Seq(Byte), NEW r \in Seq(Byte),
           q \o r = partial_msg_ \o chunk
    PROVE  q \o (r \o stream) = partial_msg_ \o (chunk \o stream)
<1>1. partial_msg_ \in Seq(Byte) /\ chunk \in Seq(Byte) /\ stream \in Seq(Byte)
  BY DEF IInv, TypeOK
<1>2. Associative(q, r, stream)
  BY <1>1, Assoc
<1>3. Associative(partial_msg_, chunk, stream)
  BY <1>1, Assoc
<1> QED
  BY <1>2, <1>3, Zenon DEF Associative

\* A turn that ends inside a message keeps what it has taken.
LEMMA KeptInv ==
    ASSUME IInv, chunk # <<>>, NEW q \in Seq(Byte), NEW r \in Seq(Byte),
           q \o r = partial_msg_ \o chunk,
           Len(q) < HdrSize + Len(sent[Len(delivered) + 1]),
           partial_msg_' = q, chunk' = r, UNCHANGED <<sent, stream, delivered>>
    PROVE  IInv'
<1> DEFINE m == sent[Len(delivered) + 1]
<1>1. PICK x \in Seq(Byte) : partial_msg_ \o (chunk \o stream) = Frame(m) \o x
  BY Due
<1>2. m \in Payload /\ Len(m) \in 0..MaxSize
  BY Due, FrameTyped
<1>3. q \o (r \o stream) = partial_msg_ \o (chunk \o stream)
  BY Moved
<1>4. r \o stream \in Seq(Byte)
  BY Joined DEF IInv, TypeOK
<1>5. Len(q) >= HdrSize => SizeOf(q) = Len(m)
  BY <1>1, <1>2, <1>3, <1>4, HeaderFirst
<1> HIDE DEF m
<1>6. Len(q) >= HdrSize => HdrSize + SizeOf(q) - Len(q) > 0
  <2>1. Len(q) \in Nat /\ Len(q) < HdrSize + Len(m)
    BY DEF m
  <2> QED
    BY <1>2, <1>5, <2>1, Sizes
<1>7. Len(q) <= HdrSize + MaxSize
  <2>1. Len(q) \in Nat /\ Len(q) < HdrSize + Len(m)
    BY DEF m
  <2> QED
    BY <1>2, <2>1, Sizes
<1>8. TypeOK'
  BY <1>7 DEF IInv, TypeOK
<1>9. InTransit'
  BY <1>3 DEF IInv, InTransit
<1>10. BufferIncomplete'
  BY <1>6 DEF BufferIncomplete, Missing
<1> QED
  BY <1>8, <1>9, <1>10 DEF IInv

\* What the first part of a turn leaves: the size, or no more bytes.
LEMMA ReadSizeFields ==
    ASSUME IInv, NEW hdr, hdr = ReadSize
    PROVE  /\ hdr.partial \in Seq(Byte) /\ hdr.rest \in Seq(Byte)
           /\ hdr.partial \o hdr.rest = partial_msg_ \o chunk
           /\ hdr.complete => /\ Len(hdr.partial) >= HdrSize
                              /\ \/ Len(hdr.partial) = HdrSize
                                 \/ Missing(hdr.partial) > 0
           /\ ~hdr.complete => Len(hdr.partial) < HdrSize
<1>1. /\ partial_msg_ \in Seq(Byte) /\ chunk \in Seq(Byte) /\ Len(partial_msg_) \in Nat
      /\ Len(partial_msg_) >= HdrSize => Missing(partial_msg_) > 0
  BY DEF IInv, TypeOK, BufferIncomplete
<1>2. CASE Len(partial_msg_) < HdrSize
  <2>1. PICK n \in Nat : n = HdrSize - Len(partial_msg_)
    BY <1>1, <1>2, Sizes
  <2>2. hdr = FillBuffer(n, partial_msg_, chunk)
    BY <1>2, <2>1 DEF ReadSize
  <2>3. /\ hdr.partial \in Seq(Byte) /\ hdr.rest \in Seq(Byte)
        /\ hdr.partial \o hdr.rest = partial_msg_ \o chunk
        /\ Len(hdr.partial) <= Len(partial_msg_) + n
        /\ hdr.complete <=> Len(hdr.partial) = Len(partial_msg_) + n
    <3>1. Filled(n, partial_msg_, chunk, hdr)
      BY <1>1, <2>2, FillBufferFields
    <3> QED
      BY <3>1, Zenon DEF Filled
  <2>4. Len(partial_msg_) + n = HdrSize /\ Len(hdr.partial) \in Nat
    BY <1>1, <2>1, <2>3, Sizes
  <2> QED
    BY <2>3, <2>4, Sizes
<1>3. CASE ~(Len(partial_msg_) < HdrSize)
  <2>1. hdr = [partial |-> partial_msg_, rest |-> chunk, complete |-> TRUE]
    BY <1>3 DEF ReadSize
  <2>2. Len(partial_msg_) >= HdrSize
    BY <1>1, <1>3, Sizes
  <2> QED
    BY <1>1, <2>1, <2>2
<1> QED
  BY <1>2, <1>3

\* A turn of the loop keeps the invariant, and delivers the message that is due or
\* none.
LEMMA LoopTurnStep ==
    ASSUME IInv, LoopTurn
    PROVE  IInv' /\ (Fifo!Deliver \/ UNCHANGED <<sent, delivered>>)
<1> DEFINE d == Len(delivered)
           m == sent[d + 1]
<1>1. PICK hdr : hdr = ReadSize
  OBVIOUS
<1>2. PICK body : body = FillBuffer(Missing(hdr.partial), hdr.partial, hdr.rest)
  OBVIOUS
<1>3. /\ chunk # <<>> /\ UNCHANGED <<sent, stream>>
      /\ \/ /\ ~hdr.complete
            /\ partial_msg_' = hdr.partial /\ chunk' = hdr.rest
            /\ UNCHANGED delivered
         \/ /\ hdr.complete /\ ~body.complete
            /\ partial_msg_' = body.partial /\ chunk' = body.rest
            /\ UNCHANGED delivered
         \/ /\ hdr.complete /\ body.complete
            /\ delivered' = Append(delivered,
                   SubSeq(body.partial, HdrSize + 1, HdrSize + SizeOf(hdr.partial)))
            /\ partial_msg_' = <<>> /\ chunk' = body.rest
  BY <1>1, <1>2 DEF LoopTurn, AfterMessage
<1>4. PICK x \in Seq(Byte) :
         /\ partial_msg_ \o (chunk \o stream) = Frame(m) \o x
         /\ Frames(sent, d + 1) \o x = Frames(sent, Len(sent))
  BY <1>3, Due
<1>5. d \in Nat /\ d < Len(sent) /\ m \in Payload /\ Len(m) \in 0..MaxSize
  BY <1>3, Due, FrameTyped
<1>6. /\ partial_msg_ \in Seq(Byte) /\ chunk \in Seq(Byte) /\ stream \in Seq(Byte)
      /\ sent \in Seq(Payload) /\ delivered \in Seq(Payload)
  BY DEF IInv, TypeOK
<1>7. /\ hdr.partial \in Seq(Byte) /\ hdr.rest \in Seq(Byte)
      /\ hdr.partial \o hdr.rest = partial_msg_ \o chunk
      /\ hdr.complete => /\ Len(hdr.partial) >= HdrSize
                         /\ \/ Len(hdr.partial) = HdrSize
                            \/ Missing(hdr.partial) > 0
      /\ ~hdr.complete => Len(hdr.partial) < HdrSize
  BY <1>1, ReadSizeFields
<1> HIDE DEF m, d
<1>8. CASE ~hdr.complete
  <2>1. Len(hdr.partial) < HdrSize + Len(m)
    <3>1. Len(hdr.partial) \in Nat /\ Len(hdr.partial) < HdrSize
      BY <1>7, <1>8
    <3> QED
      BY <1>5, <3>1, Sizes
  <2>2. /\ partial_msg_' = hdr.partial /\ chunk' = hdr.rest
        /\ UNCHANGED <<sent, stream, delivered>>
    BY <1>3, <1>8
  <2> QED
    BY <1>3, <1>7, <2>1, <2>2, KeptInv DEF m, d
<1>9. CASE hdr.complete
  \* The size is the one of the message that is due, and what is missing of the
  \* message is no negative number.
  <2>1. SizeOf(hdr.partial) = Len(m)
    <3>1. hdr.partial \o (hdr.rest \o stream) = Frame(m) \o x
      <4>1. hdr.partial \o (hdr.rest \o stream) = partial_msg_ \o (chunk \o stream)
        BY <1>7, Moved, Zenon
      <4> QED
        BY <1>4, <4>1
    <3>2. hdr.rest \o stream \in Seq(Byte)
      BY <1>6, <1>7, Joined
    <3> QED
      BY <1>5, <1>7, <1>9, <3>1, <3>2, HeaderFirst
  <2>2. PICK n \in Nat : n = Missing(hdr.partial) /\ Len(hdr.partial) + n = HdrSize + Len(m)
    <3>1. /\ Missing(hdr.partial) = HdrSize + Len(m) - Len(hdr.partial)
          /\ Len(hdr.partial) \in Nat
      BY <1>7, <2>1 DEF Missing
    <3>2. Missing(hdr.partial) \in Nat
      <4>1. Len(hdr.partial) = HdrSize \/ Missing(hdr.partial) > 0
        BY <1>7, <1>9
      <4>2. HdrSize + Len(m) - HdrSize = Len(m) /\ Len(m) \in Nat
        BY <1>5, Sizes
      <4>3. Missing(hdr.partial) \in Int
        BY <1>5, <3>1, Sizes
      <4> QED
        BY <3>1, <4>1, <4>2, <4>3
    <3>3. Len(hdr.partial) + Missing(hdr.partial) = HdrSize + Len(m)
      BY <1>5, <3>1, Sizes
    <3> QED
      BY <3>2, <3>3
  <2>3. /\ body.partial \in Seq(Byte) /\ body.rest \in Seq(Byte)
        /\ body.partial \o body.rest = hdr.partial \o hdr.rest
        /\ Len(body.partial) <= HdrSize + Len(m)
        /\ body.complete <=> Len(body.partial) = HdrSize + Len(m)
    <3>1. PICK p \in Seq(Byte), c \in Seq(Byte) : p = hdr.partial /\ c = hdr.rest
      BY <1>7
    <3>2. body = FillBuffer(n, p, c)
      BY <1>2, <2>2, <3>1
    <3>3. /\ body.partial \in Seq(Byte) /\ body.rest \in Seq(Byte)
          /\ body.partial \o body.rest = p \o c
          /\ Len(body.partial) <= Len(p) + n
          /\ body.complete <=> Len(body.partial) = Len(p) + n
      <4>1. Filled(n, p, c, body)
        BY <3>2, FillBufferFields
      <4> QED
        BY <4>1, Zenon DEF Filled
    <3>4. Len(p) + n = HdrSize + Len(m)
      BY <2>2, <3>1
    <3> QED
      BY <3>1, <3>3, <3>4, Zenon
  <2>4. body.partial \o body.rest = partial_msg_ \o chunk
    BY <1>7, <2>3
  <2>5. CASE ~body.complete
    <3>1. Len(body.partial) < HdrSize + Len(m)
      <4>1. Len(body.partial) \in Nat /\ Len(body.partial) # HdrSize + Len(m)
        BY <2>3, <2>5
      <4>2. Len(body.partial) <= HdrSize + Len(m) /\ HdrSize + Len(m) \in Nat
        BY <1>5, <2>3, Sizes
      <4> QED
        BY <4>1, <4>2
    <3>2. /\ partial_msg_' = body.partial /\ chunk' = body.rest
          /\ UNCHANGED <<sent, stream, delivered>>
      BY <1>3, <1>9, <2>5
    <3> QED
      BY <1>3, <2>3, <2>4, <3>1, <3>2, KeptInv DEF m, d
  <2>6. CASE body.complete
    <3>1. body.partial \o (body.rest \o stream) = Frame(m) \o x
      <4>1. body.partial \o (body.rest \o stream) = partial_msg_ \o (chunk \o stream)
        BY <2>3, <2>4, Moved, Zenon
      <4> QED
        BY <1>4, <4>1
    <3>2. body.rest \o stream \in Seq(Byte)
      BY <1>6, <2>3, Joined
    <3>3. /\ body.rest \o stream = x
          /\ SubSeq(body.partial, HdrSize + 1, HdrSize + Len(m)) = m
      BY <1>5, <2>3, <2>6, <3>1, <3>2, HeaderFirst
    <3>4. /\ delivered' = Append(delivered, m) /\ partial_msg_' = <<>>
          /\ chunk' = body.rest /\ UNCHANGED <<sent, stream>>
      BY <1>3, <1>9, <2>1, <2>6, <3>3
    <3>5. Len(delivered') = d + 1 /\ delivered' \in Seq(Payload)
      BY <1>5, <1>6, <3>4 DEF d
    <3>6. TypeOK'
      <4>1. Len(<<>>) <= HdrSize + MaxSize /\ <<>> \in Seq(Byte)
        BY Sizes
      <4> QED
        BY <2>3, <3>4, <3>5, <4>1 DEF IInv, TypeOK
    <3>7. InTransit'
      <4>1. <<>> \o (body.rest \o stream) = x
        BY <3>2, <3>3, ConcatEmptySeq
      <4>2. Frames(sent, d + 1) \o (<<>> \o (body.rest \o stream))
                = Frames(sent, Len(sent))
        BY <1>4, <4>1
      <4> QED
        BY <3>4, <3>5, <4>2 DEF InTransit
    <3>8. BufferIncomplete'
      <4>1. ~(Len(<<>>) >= HdrSize)
        BY Sizes
      <4> QED
        BY <3>4, <4>1 DEF BufferIncomplete
    <3>9. Len(delivered') <= Len(sent')
      BY <1>5, <1>6, <3>4, <3>5
    <3>10. Fifo!Deliver
      BY <1>5, <3>4 DEF Fifo!Deliver, m, d
    <3> QED
      BY <3>6, <3>7, <3>8, <3>9, <3>10 DEF IInv
  <2> QED
    BY <2>5, <2>6
<1> QED
  BY <1>8, <1>9

\* send() puts the bytes of one message more behind all others.
LEMMA SendMsgStep == IInv /\ SendMsg => IInv'
<1> SUFFICES ASSUME IInv, SendMsg PROVE IInv'
  OBVIOUS
<1>1. PICK p \in Payload : /\ sent' = Append(sent, p)
                           /\ stream' = stream \o Header(Len(p)) \o p
  BY DEF SendMsg
<1>2. UNCHANGED <<chunk, partial_msg_, delivered>> /\ Len(sent) < MaxSent
  BY DEF SendMsg
<1>3. /\ sent \in Seq(Payload) /\ Len(delivered) \in 0..Len(sent)
      /\ partial_msg_ \in Seq(Byte) /\ chunk \in Seq(Byte) /\ stream \in Seq(Byte)
  BY DEF IInv, TypeOK
<1>4. PICK fr \in Seq(Byte) : fr = Frame(p) /\ stream' = stream \o fr
  <2>1. /\ p \in Seq(Byte) /\ Header(Len(p)) \in Seq(Byte) /\ Frame(p) \in Seq(Byte)
    BY FrameTyped, Headers
  <2>2. (stream \o Header(Len(p))) \o p = stream \o (Header(Len(p)) \o p)
    <3>1. Associative(stream, Header(Len(p)), p)
      BY <1>3, <2>1, Assoc
    <3> QED
      BY <3>1 DEF Associative
  <2> QED
    BY <1>1, <2>1, <2>2 DEF Frame
<1>5. /\ sent' \in Seq(Payload) /\ Len(sent') = Len(sent) + 1
      /\ stream' \in Seq(Byte)
  BY <1>1, <1>3, <1>4, Joined
<1>6. InTransit'
  <2>1. PICK done \in Seq(Byte) : done = Frames(sent, Len(delivered))
    BY <1>3, FramesAre
  <2>2. PICK q \in Seq(Byte), c \in Seq(Byte), t \in Seq(Byte) :
           q = partial_msg_ /\ c = chunk /\ t = stream
    BY <1>3
  <2>3. done \o (q \o (c \o t)) = Frames(sent, Len(sent))
    BY <2>1, <2>2 DEF IInv, InTransit
  <2>4. done \o (q \o (c \o (t \o fr))) = (done \o (q \o (c \o t))) \o fr
    <3>1. c \o t \in Seq(Byte) /\ Associative(c, t, fr)
      BY Joined, Assoc
    <3>2. PICK ct \in Seq(Byte) : ct = c \o t
      BY <3>1
    <3>3. q \o ct \in Seq(Byte) /\ Associative(q, ct, fr)
      BY Joined, Assoc
    <3>4. PICK qct \in Seq(Byte) : qct = q \o ct
      BY <3>3
    <3>5. Associative(done, qct, fr)
      BY Assoc
    <3> QED
      BY <3>1, <3>2, <3>3, <3>4, <3>5, Zenon DEF Associative
  <2>5. /\ Frames(sent', Len(delivered)) = done
        /\ Frames(sent', Len(sent) + 1) = Frames(sent, Len(sent)) \o fr
    BY <1>1, <1>3, <1>4, <2>1, FramesAppend
  <2>6. Frames(sent', Len(delivered)) \o (q \o (c \o (t \o fr)))
            = Frames(sent', Len(sent'))
    BY <1>5, <2>3, <2>4, <2>5, Zenon
  <2> QED
    BY <1>2, <1>4, <2>2, <2>6 DEF InTransit
<1>7. TypeOK'
  <2>1. Len(sent) \in Nat /\ Len(sent') <= MaxSent
    BY <1>2, <1>3, <1>5, Sizes
  <2> QED
    BY <1>2, <1>5, <2>1 DEF IInv, TypeOK
<1>8. Len(delivered') <= Len(sent')
  BY <1>2, <1>3, <1>5
<1>9. BufferIncomplete'
  BY <1>2 DEF IInv, BufferIncomplete, Missing
<1> QED
  BY <1>6, <1>7, <1>8, <1>9 DEF IInv

\* The transport cuts the stream and loses nothing.
LEMMA ReceiveStep == IInv /\ Receive => IInv'
<1> SUFFICES ASSUME IInv, Receive PROVE IInv'
  OBVIOUS
<1>1. PICK n \in 1..Len(stream) : /\ chunk' = SubSeq(stream, 1, n)
                                  /\ stream' = SubSeq(stream, n + 1, Len(stream))
  BY DEF Receive
<1>2. chunk = <<>> /\ UNCHANGED <<sent, partial_msg_, delivered>>
  BY DEF Receive
<1>3. stream \in Seq(Byte)
  BY DEF IInv, TypeOK
<1>4. chunk' \in Seq(Byte) /\ stream' \in Seq(Byte)
  <2>1. \A i \in 1..n : stream[i] \in Byte
    BY <1>3
  <2>2. \A i \in (n + 1)..Len(stream) : stream[i] \in Byte
    BY <1>3
  <2>3. SubSeq(stream, 1, n) \in Seq(Byte)
    BY <2>1, SubSeqProperties
  <2>4. SubSeq(stream, n + 1, Len(stream)) \in Seq(Byte)
    BY <1>3, <2>2, SubSeqProperties
  <2> QED
    BY <1>1, <2>3, <2>4
<1>5. chunk' \o stream' = chunk \o stream
  <2>1. 1 \in 1..(Len(stream) + 1) /\ n \in (1 - 1)..Len(stream)
        /\ Len(stream) \in n..Len(stream)
    BY <1>3
  <2>2. SubSeq(stream, 1, n) \o SubSeq(stream, n + 1, Len(stream))
            = SubSeq(stream, 1, Len(stream))
    BY <1>3, <2>1, ConcatAdjacentSubSeq
  <2>3. SubSeq(stream, 1, Len(stream)) = stream /\ <<>> \o stream = stream
    BY <1>3, SubSeqFull, ConcatEmptySeq
  <2> QED
    BY <1>1, <1>2, <2>2, <2>3
<1>6. TypeOK' /\ Len(delivered') <= Len(sent')
  BY <1>2, <1>4 DEF IInv, TypeOK
<1>7. InTransit' /\ BufferIncomplete'
  BY <1>2, <1>5 DEF IInv, InTransit, BufferIncomplete, Missing
<1> QED
  BY <1>6, <1>7 DEF IInv

LEMMA InitInv == Init => IInv
<1> SUFFICES ASSUME Init PROVE IInv
  OBVIOUS
<1>1. TypeOK /\ Len(delivered) <= Len(sent)
  BY Sizes DEF Init, TypeOK
<1>2. InTransit
  <2>1. Frames(<<>>, 0) = <<>> /\ Len(<<>>) = 0
    <3>1. <<>> \in Seq(Payload) /\ Len(<<>>) = 0
      OBVIOUS
    <3> QED
      BY <3>1, FramesAre
  <2>2. <<>> \o (<<>> \o (<<>> \o <<>>)) = <<>>
    OBVIOUS
  <2> QED
    BY <2>1, <2>2 DEF Init, InTransit
<1>3. BufferIncomplete
  BY Sizes DEF Init, BufferIncomplete
<1> QED
  BY <1>1, <1>2, <1>3 DEF IInv

LEMMA NextInv == IInv /\ [Next]_vars => IInv'
<1> SUFFICES ASSUME IInv, [Next]_vars PROVE IInv'
  OBVIOUS
<1>1. CASE UNCHANGED vars
  BY <1>1 DEF vars, IInv, TypeOK, InTransit, BufferIncomplete, Missing
<1> QED
  BY <1>1, SendMsgStep, ReceiveStep, LoopTurnStep DEF Next

-----------------------------------------------------------------------------
(***************************************************************************)
(* The theorems.                                                           *)
(***************************************************************************)
\* The inductive invariant: the bytes delivered, in the buffer, in the chunk and
\* in the stream are those that were sent, and the buffer never holds a whole
\* message between two turns of on_receive().
THEOREM Invariance == Spec => []IInv
BY InitInv, NextInv, PTL DEF Spec

\* The buffer never outgrows one whole message.
THEOREM TypeCorrect == Spec => []TypeOK
<1>1. IInv => TypeOK
  BY DEF IInv
<1> QED
  BY <1>1, Invariance, PTL

\* Between two calls of on_receive() no whole message waits in the buffer.
THEOREM NoneHeldBack == Spec => []NothingHeldBack
<1>1. IInv => NothingHeldBack
  BY DEF IInv, BufferIncomplete, NothingHeldBack
<1> QED
  BY <1>1, Invariance, PTL

\* However the stream is cut, the messages come out in order, each whole and once:
\* the steps of the abstract message FIFO.
THEOREM DeliversInOrder == Spec => Fifo!Safety
<1>1. Init => Fifo!Init
  BY DEF Init, Fifo!Init
<1>2. IInv /\ [Next]_vars => [Fifo!Next]_<<sent, delivered>>
  <2> SUFFICES ASSUME IInv, [Next]_vars
               PROVE  Fifo!Next \/ UNCHANGED <<sent, delivered>>
    OBVIOUS
  <2>1. CASE SendMsg
    BY <2>1 DEF SendMsg, Fifo!Next, Fifo!SendMsg
  <2>2. CASE Receive \/ UNCHANGED vars
    BY <2>2 DEF Receive, vars
  <2>3. CASE LoopTurn
    BY <2>3, LoopTurnStep DEF Fifo!Next
  <2> QED
    BY <2>1, <2>2, <2>3 DEF Next
<1> QED
  BY <1>1, <1>2, Invariance, PTL DEF Spec, Fifo!Safety
=============================================================================
