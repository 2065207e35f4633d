----------------------------- MODULE Pinger_proofs -----------------------------
(***************************************************************************)
(* The pinger for every process identifier, every time and every length of *)
(* the options: the race of reply, timeout and release, and the bytes of a *)
(* packet.                                                                 *)
(***************************************************************************)
EXTENDS Pinger, SequenceTheorems, TLAPS

\* A step that gives no answer, and starts neither the receive nor the timer
\* again once it has ended.
LEMMA NoAnswerStep ==
    ASSUME IInv, TypeOK', UNCHANGED answers,
           pinger.op = "none" => pinger'.op = "none",
           timer = "none" => timer' = "none"
    PROVE  IInv'
BY DEF IInv, OneAnswerOfAKind, AnswerEndsItsSource, Given

\* A step that gives an answer of a kind that has not been given.
LEMMA AnswerStep ==
    ASSUME IInv, NEW ok \in BOOLEAN, Answer(ok), ok \notin Given
    PROVE  /\ answers' \in Seq(BOOLEAN)
           /\ OneAnswerOfAKind'
           /\ Given' = Given \union {ok}
<1> DEFINE n == Len(answers)
<1>1. answers \in Seq(BOOLEAN) /\ n \in Nat
  BY DEF IInv, TypeOK
<1>2. /\ answers' \in Seq(BOOLEAN) /\ Len(answers') = n + 1
      /\ \A i \in 1..n : answers'[i] = answers[i]
      /\ answers'[n + 1] = ok
  BY <1>1, AppendProperties DEF Answer
<1>3. \A i \in 1..n : answers[i] # ok
  BY DEF Given
<1>4. 1..(n + 1) = 1..n \union {n + 1} /\ n + 1 \notin 1..n
  BY <1>1
<1> HIDE DEF n
<1>5. Given' = Given \union {ok}
  BY <1>2, <1>4 DEF Given, n
<1>6. OneAnswerOfAKind'
  <2> SUFFICES ASSUME NEW i \in 1..(n + 1), NEW j \in 1..(n + 1),
                      answers'[i] = answers'[j]
               PROVE  i = j
    BY <1>2 DEF OneAnswerOfAKind
  <2>1. \A k, l \in 1..n : answers[k] = answers[l] => k = l
    BY DEF IInv, OneAnswerOfAKind, n
  <2> QED
    BY <1>2, <1>3, <1>4, <2>1
<1> QED
  BY <1>2, <1>5, <1>6

LEMMA InitInv == Init => IInv
<1> SUFFICES ASSUME Init PROVE IInv
  OBVIOUS
<1>1. answers \in Seq(BOOLEAN) /\ Len(answers) = 0
  BY EmptySeq DEF Init
<1>2. TypeOK
  BY <1>1 DEF Init, TypeOK, NewResource, Resource, OpState, Queued
<1>3. OneAnswerOfAKind /\ Given = {}
  BY <1>1 DEF OneAnswerOfAKind, Given
<1> QED
  BY <1>2, <1>3 DEF IInv, AnswerEndsItsSource

LEMMA NextInv == IInv /\ [Next]_vars => IInv'
<1> SUFFICES ASSUME IInv, [Next]_vars PROVE IInv'
  OBVIOUS
<1>1. TypeOK
  BY DEF IInv
<1> USE DEF OpState, Queued, Resource
<1>2. /\ pinger \in Resource
      /\ pinger.cancelled <=> ~pinger.owned
      /\ send \in OpState /\ timer \in OpState
      /\ request \in [pid : Pids, time_sent_ : Times]
      /\ answers \in Seq(BOOLEAN) /\ aborted \in BOOLEAN
      /\ IF pinger.op = "ok" THEN packet \in Packet ELSE packet = NoPacket
  BY <1>1 DEF TypeOK
<1>3. ASSUME UNCHANGED request PROVE UNCHANGED Packet
  BY <1>3 DEF Packet, Message, get_identifier, unique_number
<1>4. CASE GiveUp
  <2>1. /\ pinger' \in Resource
        /\ pinger'.cancelled /\ ~pinger'.owned
        /\ pinger'.op = IF pinger.attached THEN Abort(pinger.op) ELSE pinger.op
    BY <1>2, <1>4 DEF GiveUp, Release, Cancel, Abort
  <2>2. TypeOK'
    BY <1>2, <1>3, <1>4, <2>1 DEF GiveUp, TypeOK, Abort
  <2> QED
    BY <1>4, <2>1, <2>2, NoAnswerStep DEF GiveUp, Abort
<1>5. CASE SendCompletes \/ TimerExpires \/ OnSend \/ OnTimeoutAborted
  <2>1. UNCHANGED <<pinger, answers, request, packet>>
    BY <1>5 DEF SendCompletes, TimerExpires, OnSend, OnTimeoutAborted
  <2>2. send' \in OpState /\ timer' \in OpState /\ aborted' \in BOOLEAN
        /\ (timer = "none" => timer' = "none")
    BY <1>2, <1>5 DEF SendCompletes, TimerExpires, OnSend, OnTimeoutAborted
  <2>3. TypeOK'
    BY <1>2, <1>3, <2>1, <2>2 DEF TypeOK
  <2> QED
    BY <2>1, <2>2, <2>3, NoAnswerStep
<1>6. CASE ReceiveCompletes
  <2>1. TypeOK'
    BY <1>2, <1>3, <1>6 DEF ReceiveCompletes, TypeOK
  <2> QED
    BY <1>6, <2>1, NoAnswerStep DEF ReceiveCompletes
<1>7. CASE OnReceiveIgnored \/ OnReceiveForeign
  <2>1. TypeOK'
    BY <1>2, <1>3, <1>7 DEF OnReceiveIgnored, OnReceiveForeign, TypeOK
  <2> QED
    BY <1>7, <2>1, NoAnswerStep DEF OnReceiveIgnored, OnReceiveForeign
<1>8. CASE OnTimeoutExpired
  <2>1. FALSE \notin Given
    BY <1>8 DEF OnTimeoutExpired, IInv, AnswerEndsItsSource
  <2>2. /\ answers' \in Seq(BOOLEAN) /\ OneAnswerOfAKind'
        /\ Given' = Given \union {FALSE}
    BY <1>8, <2>1, AnswerStep DEF OnTimeoutExpired
  <2>3. TypeOK'
    BY <1>2, <1>3, <1>8, <2>2 DEF OnTimeoutExpired, TypeOK, Abort
  <2>4. AnswerEndsItsSource'
    BY <1>2, <1>8, <2>2 DEF OnTimeoutExpired, IInv, AnswerEndsItsSource, Abort
  <2> QED
    BY <2>2, <2>3, <2>4 DEF IInv
<1>9. CASE OnReceiveReply
  <2>1. TRUE \notin Given
    BY <1>9 DEF OnReceiveReply, IInv, AnswerEndsItsSource
  <2>2. /\ answers' \in Seq(BOOLEAN) /\ OneAnswerOfAKind'
        /\ Given' = Given \union {TRUE}
    BY <1>9, <2>1, AnswerStep DEF OnReceiveReply
  <2>3. TypeOK'
    BY <1>2, <1>3, <1>9, <2>2 DEF OnReceiveReply, EndsReceiving, TypeOK, Abort
  <2>4. AnswerEndsItsSource'
    BY <1>2, <1>9, <2>2
    DEF OnReceiveReply, EndsReceiving, IInv, AnswerEndsItsSource, Abort
  <2> QED
    BY <2>2, <2>3, <2>4 DEF IInv
<1>10. CASE UNCHANGED vars
  <2>1. TypeOK'
    BY <1>1, <1>3, <1>10 DEF vars, TypeOK
  <2> QED
    BY <1>10, <2>1, NoAnswerStep DEF vars
<1> QED
  BY <1>4, <1>5, <1>6, <1>7, <1>8, <1>9, <1>10 DEF Next, HandleTimer, HandleReceive

-----------------------------------------------------------------------------
\* The inductive invariant holds in every state the pinger reaches.
THEOREM Invariance == Spec => []IInv
BY InitInv, NextInv, PTL DEF Spec

\* The flag is raised by giving the pinger up and only so, and the buffer holds a
\* packet exactly while its handler is queued.
THEOREM TypeCorrect == Spec => []TypeOK
BY Invariance, PTL DEF IInv

\* The owner is told of a success once at most, and of a timeout once at most.
THEOREM AnsweredOnce == Spec => []OneAnswerOfAKind
BY Invariance, PTL DEF IInv

-----------------------------------------------------------------------------
\* The bytes of a packet, for any numbers in it.
Byte == {n \in Nat : n < 256}
Word == {n \in Nat : n < 65536}

\* The options in 32-bit words: how the header of a packet counts them.
OptionWords == {n \in Nat : n <= 10}

LEMMA RangeIsWord == ASSUME NEW n \in Int, 0 <= n, n < 65536 PROVE n \in Word
BY DEF Word

LEMMA ShortIsWord == ASSUME NEW n \in Nat PROVE Short(n) \in Word
BY DEF Short, Word

\* A 16-bit number is what its two bytes are decoded to.
LEMMA EncodedWord ==
    ASSUME NEW n \in Word
    PROVE  n \div 256 \in Byte /\ n % 256 \in Byte /\ (n \div 256) * 256 + (n % 256) = n
BY DEF Word, Byte

\* Quotient and remainder of a number of at most 16 bits and a carry, and of the
\* sum of three words.
LEMMA NoCarry ==
    ASSUME NEW n \in Int, 0 <= n, n < 65536 PROVE n \div 65536 = 0 /\ n % 65536 = n
OBVIOUS

LEMMA OneCarry ==
    ASSUME NEW n \in Int, 65536 <= n, n < 131072
    PROVE  n \div 65536 = 1 /\ n % 65536 = n - 65536
OBVIOUS

LEMMA TwoCarries ==
    ASSUME NEW n \in Int, 0 <= n, n < 196608
    PROVE  LET q == n \div 65536
               r == n % 65536
           IN /\ q \in Int /\ 0 <= q /\ q <= 2
              /\ r \in Int /\ 0 <= r /\ r < 65536
              /\ n = 65536 * q + r
<1>1. n = 65536 * (n \div 65536) + (n % 65536)
  OBVIOUS
<1>2. 0 <= n % 65536 /\ n % 65536 < 65536 /\ n % 65536 \in Int
  OBVIOUS
<1>3. n \div 65536 \in Int /\ 0 <= n \div 65536 /\ n \div 65536 <= 2
  OBVIOUS
<1> QED
  BY <1>1, <1>2, <1>3

\* The checksum of words that add up to n.
SumChecksum(n) == LET folded == (n \div 65536) + (n % 65536)
                  IN 65535 - Short(folded + (folded \div 65536))

\* A checksum of carries and remainder makes the words add up to all ones: the
\* sum of the words overflows 16 bits twice at most.
LEMMA ChecksumCompletes ==
    ASSUME NEW n \in Int, 0 <= n, n < 196608
    PROVE  /\ SumChecksum(n) \in Int /\ 0 <= SumChecksum(n) /\ SumChecksum(n) < 65536
           /\ (n + SumChecksum(n)) % 65535 = 0
<1> DEFINE q == n \div 65536
           r == n % 65536
           folded == q + r
           c == 65535 - Short(folded + (folded \div 65536))
<1>4. SumChecksum(n) = c
  BY DEF SumChecksum
<1>1. /\ q \in Int /\ 0 <= q /\ q <= 2
      /\ r \in Int /\ 0 <= r /\ r < 65536
      /\ n = 65536 * q + r
  BY TwoCarries
<1> HIDE DEF q, r
<1>2. /\ c \in Int /\ 0 <= c /\ c < 65536
      /\ n + c = 65535 * (q + 1) \/ n + c = 65535 * (q + 2)
  <2>1. folded \in Int /\ 0 <= folded /\ folded < 65538
    BY <1>1
  <2>2. CASE folded < 65536
    <3>1. folded \div 65536 = 0
      BY <2>1, <2>2, NoCarry
    <3>2. folded + (folded \div 65536) = folded
      BY <2>1, <3>1
    <3>3. folded % 65536 = folded
      BY <2>1, <2>2, NoCarry
    <3>4. c = 65535 - folded
      BY <3>2, <3>3 DEF Short
    <3> QED
      BY <1>1, <2>1, <2>2, <3>4
  <2>3. CASE folded >= 65536
    <3>1. folded \div 65536 = 1
      BY <2>1, <2>3, OneCarry
    <3>2. (folded + 1) % 65536 = folded + 1 - 65536
      BY <2>1, <2>3, OneCarry
    <3>3. c = 131070 - folded
      BY <2>1, <3>1, <3>2 DEF Short
    <3> QED
      BY <1>1, <2>1, <2>3, <3>3
  <2> QED
    BY <2>1, <2>2, <2>3
<1> HIDE DEF c
<1>3. (n + c) % 65535 = 0
  BY <1>1, <1>2
<1> QED
  BY <1>2, <1>3, <1>4

\* Two strings of bytes, one after the other.
LEMMA Joined ==
    ASSUME NEW s \in Seq(Nat), NEW t \in Seq(Nat)
    PROVE  /\ s \o t \in Seq(Nat)
           /\ Len(s \o t) = Len(s) + Len(t)
           /\ \A i \in 1..Len(s) : (s \o t)[i] = s[i]
           /\ \A i \in 1..Len(t) : (s \o t)[Len(s) + i] = t[i]
<1>1. Len(s) \in Nat /\ Len(t) \in Nat
  OBVIOUS
<1>2. /\ s \o t \in Seq(Nat)
      /\ Len(s \o t) = Len(s) + Len(t)
      /\ \A i \in 1..(Len(s) + Len(t)) :
            (s \o t)[i] = IF i <= Len(s) THEN s[i] ELSE t[i - Len(s)]
  BY ConcatProperties
<1>3. ASSUME NEW i \in 1..Len(s) PROVE (s \o t)[i] = s[i]
  BY <1>1, <1>2
<1>4. ASSUME NEW i \in 1..Len(t) PROVE (s \o t)[Len(s) + i] = t[i]
  BY <1>1, <1>2
<1> QED
  BY <1>2, <1>3, <1>4

LEMMA WordJoined ==
    ASSUME NEW s \in Seq(Nat), NEW t \in Seq(Nat), Len(t) = 2
    PROVE  /\ s \o t \in Seq(Nat) /\ Len(s \o t) = Len(s) + 2
           /\ \A i \in 1..Len(s) : (s \o t)[i] = s[i]
           /\ (s \o t)[Len(s) + 1] = t[1] /\ (s \o t)[Len(s) + 2] = t[2]
<1> DEFINE u == s \o t
<1>1. /\ u \in Seq(Nat)
      /\ Len(u) = Len(s) + Len(t)
      /\ \A i \in 1..Len(s) : u[i] = s[i]
      /\ \A i \in 1..Len(t) : u[Len(s) + i] = t[i]
  BY Joined, Zenon
<1> HIDE DEF u
<1>2. u[Len(s) + 1] = t[1] /\ u[Len(s) + 2] = t[2]
  BY <1>1
<1> QED
  BY <1>1, <1>2 DEF u

LEMMA EncodedBytes ==
    ASSUME NEW n \in Word
    PROVE  /\ encode(n) \in Seq(Nat) /\ Len(encode(n)) = 2
           /\ encode(n)[1] * 256 + encode(n)[2] = n
BY EncodedWord DEF encode, Byte

\* The eight bytes of an ICMP header.
LEMMA IcmpBytes ==
    ASSUME NEW type \in Nat, NEW checksum \in Word, NEW identifier \in Word,
           NEW number \in Word
    PROVE  LET icmp == Icmp(type, 0, checksum, identifier, number)
           IN /\ icmp \in Seq(Nat) /\ Len(icmp) = 8
              /\ icmp[1] = type /\ icmp[2] = 0
              /\ decode(icmp, 2, 3) = checksum
              /\ decode(icmp, 4, 5) = identifier
              /\ decode(icmp, 6, 7) = number
<1> DEFINE a == <<type, 0>>
           b == encode(checksum)
           c == encode(identifier)
           d == encode(number)
           ab == a \o b
           abc == ab \o c
           icmp == abc \o d
<1>1. a \in Seq(Nat) /\ Len(a) = 2 /\ a[1] = type /\ a[2] = 0
  OBVIOUS
<1>2. /\ b \in Seq(Nat) /\ Len(b) = 2
      /\ c \in Seq(Nat) /\ Len(c) = 2
      /\ d \in Seq(Nat) /\ Len(d) = 2
  BY EncodedBytes
<1>3. /\ b[1] * 256 + b[2] = checksum
      /\ c[1] * 256 + c[2] = identifier
      /\ d[1] * 256 + d[2] = number
  BY EncodedBytes
<1>4. Icmp(type, 0, checksum, identifier, number) = icmp
  BY DEF Icmp
<1> HIDE DEF a, b, c, d
<1>5. /\ ab \in Seq(Nat) /\ Len(ab) = Len(a) + 2
      /\ \A i \in 1..Len(a) : ab[i] = a[i]
      /\ ab[Len(a) + 1] = b[1] /\ ab[Len(a) + 2] = b[2]
  <2>1. a \in Seq(Nat) /\ b \in Seq(Nat) /\ Len(b) = 2
    BY <1>1, <1>2
  <2> QED
    BY <2>1, WordJoined
<1> HIDE DEF ab
<1>6. /\ Len(ab) = 4
      /\ ab[1] = a[1] /\ ab[2] = a[2] /\ ab[3] = b[1] /\ ab[4] = b[2]
  BY <1>1, <1>5
<1>7. /\ abc \in Seq(Nat) /\ Len(abc) = Len(ab) + 2
      /\ \A i \in 1..Len(ab) : abc[i] = ab[i]
      /\ abc[Len(ab) + 1] = c[1] /\ abc[Len(ab) + 2] = c[2]
  <2>1. ab \in Seq(Nat) /\ c \in Seq(Nat) /\ Len(c) = 2
    BY <1>2, <1>5
  <2> QED
    BY <2>1, WordJoined
<1> HIDE DEF abc
<1>8. /\ Len(abc) = 6
      /\ abc[1] = a[1] /\ abc[2] = a[2] /\ abc[3] = b[1] /\ abc[4] = b[2]
      /\ abc[5] = c[1] /\ abc[6] = c[2]
  BY <1>6, <1>7
<1>9. /\ icmp \in Seq(Nat) /\ Len(icmp) = Len(abc) + 2
      /\ \A i \in 1..Len(abc) : icmp[i] = abc[i]
      /\ icmp[Len(abc) + 1] = d[1] /\ icmp[Len(abc) + 2] = d[2]
  <2>1. abc \in Seq(Nat) /\ d \in Seq(Nat) /\ Len(d) = 2
    BY <1>2, <1>7
  <2> QED
    BY <2>1, WordJoined
<1> HIDE DEF icmp
<1>10. /\ Len(icmp) = 8
       /\ icmp[1] = a[1] /\ icmp[2] = a[2] /\ icmp[3] = b[1] /\ icmp[4] = b[2]
       /\ icmp[5] = c[1] /\ icmp[6] = c[2] /\ icmp[7] = d[1] /\ icmp[8] = d[2]
  BY <1>8, <1>9
<1>11. /\ decode(icmp, 2, 3) = checksum
       /\ decode(icmp, 4, 5) = identifier
       /\ decode(icmp, 6, 7) = number
  BY <1>3, <1>10 DEF decode
<1> QED
  BY <1>1, <1>4, <1>9, <1>10, <1>11

-----------------------------------------------------------------------------
LEMMA ZerosTyped == ASSUME NEW n \in Nat PROVE Zeros(n) \in Seq(Nat) /\ Len(Zeros(n)) = n
BY DEF Zeros

\* Where the parts of a packet are.
Address == {source \in Seq(Nat) : Len(source) = 4}

Parts(p, source, words, icmp) ==
    /\ p \in Seq(Nat) /\ Len(p) = 20 + 4 * words + Len(icmp)
    /\ p[1] = 69 + words
    /\ \A i \in 1..4 : p[12 + i] = source[i]
    /\ \A i \in 1..Len(icmp) : p[20 + 4 * words + i] = icmp[i]

LEMMA Ipv4Bytes ==
    ASSUME NEW source \in Address, NEW words \in OptionWords, NEW icmp \in Seq(Nat)
    PROVE  Parts(Ipv4(source, 4 * words, icmp), source, words, icmp)
<1> DEFINE options == 4 * words
<1> DEFINE a == <<64 + 5 + (options \div 4)>>
           b == Zeros(11)
           c == Zeros(4 + options)
           ab == a \o b
           abs == ab \o source
           absc == abs \o c
           p == absc \o icmp
<1>14. options \in Nat /\ options \div 4 = words
  BY DEF OptionWords
<1> HIDE DEF options
<1>1. a \in Seq(Nat) /\ Len(a) = 1 /\ a[1] = 69 + words
  BY <1>14
<1>2. b \in Seq(Nat) /\ Len(b) = 11 /\ c \in Seq(Nat) /\ Len(c) = 4 + options
  <2>1. 11 \in Nat /\ 4 + options \in Nat
    BY <1>14
  <2> QED
    BY <2>1, ZerosTyped, Zenon
<1>3. Ipv4(source, options, icmp) = p
  BY DEF Ipv4
<1> HIDE DEF a, b, c
<1>15. source \in Seq(Nat) /\ Len(source) = 4
  BY DEF Address
<1>4. /\ ab \in Seq(Nat)
      /\ Len(ab) = Len(a) + Len(b)
      /\ \A i \in 1..Len(a) : ab[i] = a[i]
  BY <1>1, <1>2, Joined
<1> HIDE DEF ab
<1>5. /\ abs \in Seq(Nat)
      /\ Len(abs) = Len(ab) + Len(source)
      /\ \A i \in 1..Len(ab) : abs[i] = ab[i]
      /\ \A i \in 1..Len(source) : abs[Len(ab) + i] = source[i]
  BY <1>4, <1>15, Joined
<1> HIDE DEF abs
<1>6. /\ absc \in Seq(Nat)
      /\ Len(absc) = Len(abs) + Len(c)
      /\ \A i \in 1..Len(abs) : absc[i] = abs[i]
  BY <1>2, <1>5, Joined
<1> HIDE DEF absc
<1>7. /\ p \in Seq(Nat)
      /\ Len(p) = Len(absc) + Len(icmp)
      /\ \A i \in 1..Len(absc) : p[i] = absc[i]
      /\ \A i \in 1..Len(icmp) : p[Len(absc) + i] = icmp[i]
  BY <1>6, Joined
<1> HIDE DEF p
<1>8. Len(ab) = 12 /\ Len(abs) = 16
  BY <1>1, <1>2, <1>4, <1>5, <1>15
<1>9. options \in Nat /\ Len(absc) = 20 + options
  BY <1>2, <1>6, <1>8, <1>14
<1>10. Len(p) = 20 + options + Len(icmp)
  BY <1>7, <1>9
<1>11. p[1] = a[1]
  <2>1. 1 \in 1..Len(a) /\ 1 \in 1..Len(ab) /\ 1 \in 1..Len(abs) /\ 1 \in 1..Len(absc)
    BY <1>1, <1>8, <1>9
  <2> QED
    BY <1>4, <1>5, <1>6, <1>7, <2>1
<1>12. ASSUME NEW i \in 1..4 PROVE p[12 + i] = source[i]
  <2>1. 12 + i \in 1..Len(abs) /\ 12 + i \in 1..Len(absc)
    BY <1>8, <1>9
  <2>2. abs[12 + i] = source[i]
    BY <1>5, <1>8, <1>15
  <2> QED
    BY <1>6, <1>7, <2>1, <2>2
<1>13. ASSUME NEW i \in 1..Len(icmp) PROVE p[20 + options + i] = icmp[i]
  BY <1>7, <1>9
<1> QED
  BY <1>1, <1>3, <1>7, <1>10, <1>11, <1>12, <1>13 DEF options, Parts

-----------------------------------------------------------------------------
\* What a sealed header says, and that it checks out.
LEMMA SealedBytes ==
    ASSUME NEW type \in Byte, NEW identifier \in Word, NEW number \in Word
    PROVE  LET icmp == Sealed(type, identifier, number)
           IN /\ icmp \in Seq(Nat) /\ Len(icmp) = 8
              /\ icmp[1] = type
              /\ decode(icmp, 4, 5) = identifier
              /\ decode(icmp, 6, 7) = number
              /\ ChecksOut(icmp)
<1> DEFINE high == type * 256
           sum == high + identifier + number
           c == SumChecksum(sum)
           icmp == Sealed(type, identifier, number)
<1>1. /\ identifier \in Int /\ 0 <= identifier /\ identifier <= 65535
      /\ number \in Int /\ 0 <= number /\ number <= 65535
  BY DEF Word
<1>2. high \in Int /\ 0 <= high /\ high <= 65280
  BY DEF Byte
<1>3. high + 0 = high /\ high + 0 + identifier + number = high + identifier + number
  BY <1>2
<1>4. type \in Nat /\ compute_checksum(type, 0, identifier, number) = c
  BY <1>3 DEF compute_checksum, SumChecksum, Byte
<1> HIDE DEF high
<1>5. sum \in Int /\ 0 <= sum /\ sum < 196608
  BY <1>1, <1>2
<1> HIDE DEF sum
<1>6. c \in Int /\ 0 <= c /\ c < 65536 /\ (sum + c) % 65535 = 0
  BY <1>5, ChecksumCompletes
<1> HIDE DEF c
<1>7. c \in Word
  BY <1>6, RangeIsWord
<1>8. icmp = Icmp(type, 0, c, identifier, number)
  BY <1>4 DEF Sealed
<1> HIDE DEF icmp
<1>9. /\ icmp \in Seq(Nat) /\ Len(icmp) = 8
      /\ icmp[1] = type /\ icmp[2] = 0
      /\ decode(icmp, 2, 3) = c
      /\ decode(icmp, 4, 5) = identifier
      /\ decode(icmp, 6, 7) = number
  BY <1>4, <1>7, <1>8, IcmpBytes
<1>10. decode(icmp, 0, 1) = high
  BY <1>2, <1>3, <1>9 DEF decode, high
<1>11. high + c + identifier + number = sum + c
  BY <1>1, <1>2, <1>6 DEF sum
<1>12. ChecksOut(icmp)
  BY <1>6, <1>9, <1>10, <1>11 DEF ChecksOut
<1> QED
  BY <1>9, <1>12 DEF icmp

LEMMA FirstByte ==
    ASSUME NEW words \in OptionWords
    PROVE  (69 + words) \div 16 = 4 /\ (69 + words) % 16 = 5 + words
BY DEF OptionWords

\* The test for the reply: whole, from the destination, an echo reply with the
\* numbers of the request, whatever options the packet has.
LEMMA IsReplyWhenEqual ==
    ASSUME NEW source \in Address, NEW destination \in Address, NEW words \in OptionWords,
           NEW icmp \in Seq(Nat), Len(icmp) = 8, NEW i, NEW n
    PROVE  IsReply(Ipv4(source, 4 * words, icmp), destination, i, n) <=>
               /\ source = destination
               /\ icmp[1] = echo_reply
               /\ decode(icmp, 4, 5) = i
               /\ decode(icmp, 6, 7) = n
<1> DEFINE options == 4 * words
           p == Ipv4(source, 4 * words, icmp)
           h == icmp_hdr(p)
<1>10. Parts(p, source, words, icmp)
  BY Ipv4Bytes
<1>2. options \in Nat /\ (5 + words) * 4 = 20 + options
  BY DEF OptionWords
<1> HIDE DEF p, options
<1>1. /\ p \in Seq(Nat) /\ p[1] = 69 + words
      /\ \A k \in 1..4 : p[12 + k] = source[k]
  BY <1>10 DEF Parts
<1>9. Len(p) = 20 + options + 8 /\ \A k \in 1..8 : p[20 + options + k] = icmp[k]
  BY <1>10 DEF Parts, options
<1>3. version(p) = 4 /\ header_length(p) = 20 + options
  BY <1>1, <1>2, FirstByte DEF version, header_length
<1>4. Readable(p)
  BY <1>2, <1>3, <1>9 DEF Readable
<1>5. source_address(p) = source
  <2> DEFINE a == source_address(p)
  <2>1. \A k \in 13..16 : p[k] \in Nat
    <3>1. \A k \in 13..16 : k \in 1..Len(p)
      BY <1>2, <1>9
    <3> QED
      BY <1>1, <3>1, ElementOfSeq
  <2>2. /\ a \in Seq(Nat) /\ Len(a) = 4
        /\ \A k \in 1..4 : a[k] = p[13 + k - 1]
    BY <2>1, SubSeqProperties DEF source_address
  <2> HIDE DEF a
  <2>3. \A k \in 1..4 : 13 + k - 1 = 12 + k
    OBVIOUS
  <2>4. \A k \in 1..4 : a[k] = source[k]
    BY <1>1, <2>2, <2>3
  <2>5. a = source
    BY <2>2, <2>4, SeqEqual DEF Address
  <2> QED
    BY <2>5 DEF a
<1>6. \A k \in 1..8 : h[k] = icmp[k]
  <2> DEFINE m == 20 + options + 1
             e == 20 + options + 8
  <2>1. m \in Int /\ e \in Int /\ m <= e /\ e - m + 1 = 8
    BY <1>2
  <2>2. \A k \in m..e : p[k] \in Nat
    <3>1. \A k \in m..e : k \in 1..Len(p)
      BY <1>2, <1>9
    <3> QED
      BY <1>1, <3>1, ElementOfSeq
  <2>3. \A k \in 1..8 : m + k - 1 = 20 + options + k
    BY <1>2
  <2>4. h = SubSeq(p, m, e)
    BY <1>3 DEF icmp_hdr
  <2> HIDE DEF m, e, h
  <2>5. \A k \in 1..(e - m + 1) : SubSeq(p, m, e)[k] = p[m + k - 1]
    BY <2>1, <2>2, SubSeqProperties
  <2> QED
    BY <1>9, <2>1, <2>3, <2>4, <2>5
<1> HIDE DEF h
<1>7. /\ h[1] = icmp[1]
      /\ decode(h, 4, 5) = decode(icmp, 4, 5)
      /\ decode(h, 6, 7) = decode(icmp, 6, 7)
  BY <1>6 DEF decode
<1>8. IsReply(p, destination, i, n) <=>
          /\ source = destination
          /\ icmp[1] = echo_reply
          /\ decode(icmp, 4, 5) = i
          /\ decode(icmp, 6, 7) = n
  BY <1>4, <1>5, <1>7 DEF IsReply, h
<1> QED
  BY <1>8 DEF p

\* A packet that is cut short is not taken for a reply.
LEMMA CutShort ==
    ASSUME NEW source \in Address, NEW words \in OptionWords,
           NEW icmp \in Seq(Nat), Len(icmp) = 7
    PROVE  ~Readable(Ipv4(source, 4 * words, icmp))
<1> DEFINE options == 4 * words
           p == Ipv4(source, 4 * words, icmp)
<1>4. Parts(p, source, words, icmp)
  BY Ipv4Bytes
<1>1. Len(p) = 20 + options + 7 /\ p[1] = 69 + words
  BY <1>4 DEF Parts
<1>2. options \in Nat /\ (5 + words) * 4 = 20 + options
  BY DEF OptionWords
<1> HIDE DEF p, options
<1>3. header_length(p) = 20 + options
  BY <1>1, <1>2, FirstByte DEF header_length
<1>5. ~Readable(p)
  BY <1>1, <1>2, <1>3 DEF Readable
<1> QED
  BY <1>5 DEF p

-----------------------------------------------------------------------------
LEMMA RequestNumbers ==
    ASSUME TypeOK PROVE get_identifier \in Word /\ unique_number \in Word
BY NumbersAssumption, ShortIsWord DEF TypeOK, get_identifier, unique_number

\* A packet that a host may receive, taken apart.
LEMMA PacketShape ==
    ASSUME TypeOK, NEW p \in Packet
    PROVE  /\ p # NoPacket
           /\ p.source \in Address /\ p.whole \in BOOLEAN
           /\ \E words \in OptionWords : p.options = 4 * words
           /\ p.icmp.type \in Byte
           /\ p.icmp.identifier \in Word /\ p.icmp.number \in Word
<1>1. /\ p.source \in {Destination, Elsewhere} /\ p.options \in Options
      /\ p.icmp \in Message /\ p.whole \in BOOLEAN
      /\ p = [source |-> p.source, options |-> p.options, icmp |-> p.icmp,
             whole |-> p.whole]
  BY DEF Packet
<1>2. p # NoPacket
  BY <1>1 DEF NoPacket
<1>3. Destination \in Address /\ Elsewhere \in Address
  BY DEF Destination, Elsewhere, Address
<1>4. \E words \in OptionWords : p.options = 4 * words
  <2>1. p.options \in 0..40 /\ p.options % 4 = 0
    BY <1>1, NumbersAssumption
  <2>2. p.options = 4 * (p.options \div 4) /\ p.options \div 4 \in OptionWords
    BY <2>1 DEF OptionWords
  <2> QED
    BY <2>2
<1>5. /\ p.icmp.type \in {0, 3, 8}
      /\ p.icmp.identifier \in Word /\ p.icmp.number \in Word
  <2>1. /\ Short(request.pid + 1) \in Word /\ Short(request.time_sent_ + 1) \in Word
        /\ 0 \in Word
    <3>1. request.pid \in Nat /\ request.time_sent_ \in Nat
      BY NumbersAssumption DEF TypeOK
    <3>2. request.pid + 1 \in Nat /\ request.time_sent_ + 1 \in Nat
      BY <3>1
    <3> QED
      BY <3>2, ShortIsWord DEF Word
  <2> QED
    BY <1>1, <2>1, RequestNumbers DEF Message, echo_reply, echo_request
<1>6. p.icmp.type \in Byte
  BY <1>5 DEF Byte
<1> QED
  BY <1>1, <1>2, <1>3, <1>4, <1>5, <1>6

\* The condition of on_receive() holds of the reply to this request, and of no
\* other packet that the host may receive.
LEMMA FoundIsGenuine ==
    ASSUME TypeOK, NEW p \in Packet
    PROVE  IsReply(Bytes(p), Destination, get_identifier, unique_number) <=> Genuine(p)
<1> DEFINE icmp == Sealed(p.icmp.type, p.icmp.identifier, p.icmp.number)
<1>1. PICK words \in OptionWords : p.options = 4 * words
  BY PacketShape
<1>2. /\ p.source \in Address /\ Destination \in Address
      /\ p.icmp.type \in Byte
      /\ p.icmp.identifier \in Word /\ p.icmp.number \in Word
  BY PacketShape DEF Destination, Address
<1>3. /\ icmp \in Seq(Nat) /\ Len(icmp) = 8
      /\ icmp[1] = p.icmp.type
      /\ decode(icmp, 4, 5) = p.icmp.identifier
      /\ decode(icmp, 6, 7) = p.icmp.number
  BY <1>2, SealedBytes
<1>4. Bytes(p) = Ipv4(p.source, 4 * words, IF p.whole THEN icmp ELSE SubSeq(icmp, 1, 7))
  BY <1>1, PacketShape DEF Bytes
<1> HIDE DEF icmp
<1>5. Genuine(p) <=> /\ p.source = Destination /\ p.whole
                     /\ p.icmp.type = echo_reply
                     /\ p.icmp.identifier = get_identifier
                     /\ p.icmp.number = unique_number
  <2>1. /\ p = [source |-> p.source, options |-> p.options, icmp |-> p.icmp,
                whole |-> p.whole]
        /\ p.whole \in BOOLEAN /\ p.icmp \in Message
    BY DEF Packet
  <2>2. p.icmp = [type |-> p.icmp.type, identifier |-> p.icmp.identifier,
                  number |-> p.icmp.number]
    BY <2>1 DEF Message
  <2> QED
    BY <2>1, <2>2 DEF Genuine
<1>6. CASE p.whole
  <2>1. Bytes(p) = Ipv4(p.source, 4 * words, icmp)
    BY <1>4, <1>6
  <2> QED
    BY <1>2, <1>3, <1>5, <1>6, <2>1, IsReplyWhenEqual
<1>7. CASE ~p.whole
  <2> DEFINE short == SubSeq(icmp, 1, 7)
  <2>1. short \in Seq(Nat) /\ Len(short) = 7
    <3>1. icmp \in Seq(Nat) /\ \A k \in 1..7 : k \in 1..Len(icmp)
      BY <1>3
    <3>2. \A k \in 1..7 : icmp[k] \in Nat
      BY <3>1, ElementOfSeq
    <3> QED
      BY <3>2, SubSeqProperties
  <2>2. Bytes(p) = Ipv4(p.source, 4 * words, short)
    BY <1>4, <1>7
  <2> HIDE DEF short
  <2>3. ~Readable(Bytes(p))
    BY <1>2, <2>1, <2>2, CutShort
  <2> QED
    BY <1>5, <1>7, <2>3 DEF IsReply
<1> QED
  BY <1>6, <1>7

\* A host that is pinged accepts the request; the reply to it ends the ping,
\* whatever options it has, and no other packet does.
THEOREM RepliesRecognised == Spec => RepliesAreRecognised
<1>1. Init => ChecksOut(EchoRequest(get_identifier, unique_number))
  <2> SUFFICES ASSUME Init
               PROVE  ChecksOut(EchoRequest(get_identifier, unique_number))
    OBVIOUS
  <2>1. get_identifier \in Word /\ unique_number \in Word
    BY InitInv, RequestNumbers DEF IInv
  <2>2. echo_request \in Byte
    BY DEF echo_request, Byte
  <2> QED
    BY <2>1, <2>2, SealedBytes DEF EchoRequest
<1>2. ASSUME IInv
      PROVE  /\ OnReceiveReply => Genuine(packet)
             /\ OnReceiveForeign => ~Genuine(packet)
  <2>1. ASSUME ~Ignored PROVE packet \in Packet
    BY <1>2, <2>1 DEF IInv, TypeOK, Ignored
  <2> QED
    BY <1>2, <2>1, FoundIsGenuine DEF IInv, OnReceiveReply, OnReceiveForeign, Found
<1>3. IInv => [/\ OnReceiveReply => Genuine(packet)
               /\ OnReceiveForeign => ~Genuine(packet)]_vars
  BY <1>2
<1> QED
  BY <1>1, <1>3, Invariance, PTL DEF Spec, RepliesAreRecognised
=============================================================================
