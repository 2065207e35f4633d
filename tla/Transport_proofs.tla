--------------------------- MODULE Transport_proofs ---------------------------
(***************************************************************************)
(* The safety of the transport for every number of messages, every size of *)
(* message and every set of codes on which the owner gives it up.          *)
(***************************************************************************)
EXTENDS Transport, Operators_proofs

-----------------------------------------------------------------------------
LEMMA InitInv == Init => IInv
<1> SUFFICES ASSUME Init PROVE IInv
  OBVIOUS
<1>1. TypeOK
  <2>1. <<>> \in Seq(1..MaxMsgs) /\ <<>> \in Seq(Report)
    BY EmptySeq
  <2>2. NewTransport \in TransportState(1..MaxMsgs, Units)
    BY <2>1 DEF NewTransport, TransportState, OpState
  <2>3. <<0, Units>> \in (0..MaxMsgs) \X (1..Units) /\ 0 \in 0..MaxMsgs
    BY UnitsAssumption, MaxMsgsAssumption
  <2> QED
    BY <2>1, <2>2, <2>3 DEF Init, TypeOK
<1>2. QueueInOrder /\ OneWriteAtATime /\ WriteAligned /\ ReadyIsIdle
      /\ NotReadyIsBusy /\ CancelledWhenReleased /\ AbortedWhenCancelled
  BY DEF Init, NewTransport, QueueInOrder, OneWriteAtATime, WriteAligned,
         ReadyIsIdle, NotReadyIsBusy, CancelledWhenReleased,
         AbortedWhenCancelled
<1>3. LossReleases /\ OneLossReported
  BY DEF Init, LossReleases, OneLossReported
<1> QED
  BY <1>1, <1>2, <1>3 DEF IInv

LEMMA AcceptMsgInv == IInv /\ AcceptMsg => IInv'
<1> SUFFICES ASSUME IInv, AcceptMsg PROVE IInv'
  OBVIOUS
<1> DEFINE Msgs == 1..MaxMsgs
           m == accepted + 1
           len == Len(t.msgs)
<1>1. t \in TransportState(Msgs, Units) /\ t.msgs \in Seq(Msgs) /\ len \in Nat
  BY DEF IInv, TypeOK, TransportState
<1>2. accepted \in Nat /\ m \in Msgs /\ m \in 0..MaxMsgs
  BY MaxMsgsAssumption DEF IInv, TypeOK, AcceptMsg
<1>3. t' = Send(t, m)
  BY DEF AcceptMsg
<1>4. accepted' = accepted + 1 /\ t.owned /\ UNCHANGED <<wire, received, reported>>
  BY DEF AcceptMsg
<1>5. Units \in Nat \ {0}
  BY UnitsAssumption
<1>6. len <= accepted /\ \A k \in 1..len : t.msgs[k] = accepted - len + k
  BY DEF IInv, QueueInOrder
<1> HIDE DEF Msgs, m
<1>7. CASE t.msgs = <<>> /\ t.ready
  <2> DEFINE new == [msg |-> m, sent |-> 0, code |-> "pending"]
  <2>1. /\ Send(t, m) \in TransportState(Msgs, Units)
        /\ Send(t, m).msgs = <<>> /\ ~Send(t, m).ready
        /\ Send(t, m).writes = t.writes \union {new}
        /\ Send(t, m).owned = t.owned /\ Send(t, m).cancelled = t.cancelled
        /\ Send(t, m).op = t.op
    <3>1. t \in TransportState(Msgs, Units) /\ m \in Msgs
      BY <1>1, <1>2
    <3> HIDE DEF new
    <3>2. /\ Send(t, m) \in TransportState(Msgs, Units)
          /\ Send(t, m).msgs = <<>>
          /\ Send(t, m).writes = t.writes \union
                 {[msg |-> m, sent |-> 0, code |-> "pending"]}
          /\ ~Send(t, m).ready
          /\ Send(t, m).owned = t.owned
          /\ Send(t, m).cancelled = t.cancelled
          /\ Send(t, m).op = t.op
      BY <3>1, <1>5, <1>7, SendNowFields
    <3> QED
      BY <3>2 DEF new
  <2>2. t.writes = {} /\ wire' = <<accepted, Units>>
    BY <1>4, <1>7 DEF IInv, ReadyIsIdle
  <2>3. /\ t'.writes = {new} /\ t'.msgs = <<>> /\ ~t'.ready
        /\ t'.owned = t.owned /\ t'.cancelled = t.cancelled /\ t'.op = t.op
    BY <1>3, <2>1, <2>2
  <2>4. Len(t'.msgs) = 0
    BY <2>3
  <2>5. QueueInOrder'
    BY <1>2, <1>4, <2>4 DEF QueueInOrder
  <2>6. WriteAligned'
    <3>1. m = accepted' - Len(t'.msgs) /\ accepted = m - 1
      BY <1>2, <1>4, <2>4 DEF m
    <3>2. /\ new.msg = m /\ new.sent = 0 /\ new.code = "pending" /\ 0 < Units
      BY <1>5
    <3> QED
      BY <2>2, <2>3, <3>1, <3>2 DEF WriteAligned
  <2>7. TypeOK'
    BY <1>2, <1>3, <1>4, <2>1 DEF IInv, TypeOK, Msgs, m
  <2> QED
    BY <1>4, <2>3, <2>5, <2>6, <2>7
    DEF IInv, OneWriteAtATime, ReadyIsIdle, NotReadyIsBusy,
        CancelledWhenReleased, AbortedWhenCancelled, LossReleases, OneLossReported
<1>8. CASE ~(t.msgs = <<>> /\ t.ready)
  <2>1. /\ Send(t, m) \in TransportState(Msgs, Units)
        /\ Send(t, m).msgs = Append(t.msgs, m) /\ Send(t, m).ready = t.ready
        /\ Send(t, m).writes = t.writes
        /\ Send(t, m).owned = t.owned /\ Send(t, m).cancelled = t.cancelled
        /\ Send(t, m).op = t.op
    BY <1>1, <1>2, <1>5, <1>8, SendLaterFields
  <2>2. /\ t'.msgs = Append(t.msgs, m) /\ t'.ready = t.ready
        /\ t'.writes = t.writes /\ t'.owned = t.owned /\ t'.cancelled = t.cancelled
        /\ t'.op = t.op
    BY <1>3, <2>1
  <2>3. /\ Len(t'.msgs) = len + 1
        /\ \A k \in 1..len : t'.msgs[k] = t.msgs[k]
        /\ t'.msgs[len + 1] = m
    BY <1>1, <1>2, <2>2, AppendProperties
  <2>4. accepted' - Len(t'.msgs) = accepted - len
    <3> HIDE DEF len
    <3> QED
      BY <1>1, <1>2, <1>4, <2>3
  <2>5. QueueInOrder'
    <3>1. Len(t'.msgs) <= accepted'
      BY <1>1, <1>2, <1>4, <1>6, <2>3
    <3>2. ASSUME NEW k \in 1..(len + 1) PROVE t'.msgs[k] = accepted - len + k
      <4> HIDE DEF len
      <4>1. CASE k = len + 1
        BY <1>1, <1>2, <2>3, <4>1 DEF m
      <4>2. CASE k # len + 1
        <5>1. k \in 1..len
          BY <1>1, <4>2
        <5> QED
          BY <1>6, <2>3, <5>1
      <4> QED
        BY <4>1, <4>2
    <3> QED
      BY <2>3, <2>4, <3>1, <3>2 DEF QueueInOrder
  <2>6. WriteAligned'
    BY <1>4, <2>2, <2>4 DEF IInv, WriteAligned
  <2>7. ReadyIsIdle'
    BY <1>8, <2>2 DEF IInv, ReadyIsIdle
  <2>8. TypeOK'
    BY <1>2, <1>3, <1>4, <2>1 DEF IInv, TypeOK, Msgs, m
  <2> QED
    BY <1>4, <2>2, <2>5, <2>6, <2>7, <2>8
    DEF IInv, OneWriteAtATime, NotReadyIsBusy, SendFailed,
        CancelledWhenReleased, AbortedWhenCancelled, LossReleases, OneLossReported
<1> QED
  BY <1>7, <1>8

LEMMA GiveUpInv == IInv /\ GiveUp => IInv'
<1> SUFFICES ASSUME IInv, GiveUp PROVE IInv'
  OBVIOUS
<1>1. /\ t' = ReleaseTransport(t)
      /\ UNCHANGED <<accepted, wire, received, reported>>
      /\ t \in TransportState(1..MaxMsgs, Units)
  BY DEF GiveUp, IInv, TypeOK
<1>2. /\ t' \in TransportState(1..MaxMsgs, Units)
      /\ t'.msgs = t.msgs /\ t'.ready = t.ready
      /\ t'.writes = {[w EXCEPT !.code = Abort(@)] : w \in t.writes}
      /\ ~t'.owned /\ t'.cancelled /\ t'.op \in {t.op, "aborted"}
  BY <1>1, UnitsAssumption, ReleaseFields
<1>3. TypeOK'
  BY <1>1, <1>2 DEF IInv, TypeOK
<1>4. QueueInOrder' /\ OneWriteAtATime' /\ ReadyIsIdle' /\ NotReadyIsBusy'
  BY <1>1, <1>2 DEF IInv, QueueInOrder, OneWriteAtATime, ReadyIsIdle, NotReadyIsBusy
<1>5. WriteAligned'
  BY <1>1, <1>2 DEF IInv, TypeOK, TransportState, Write, WriteAligned, Abort
<1>6. CancelledWhenReleased' /\ AbortedWhenCancelled' /\ LossReleases'
      /\ OneLossReported'
  BY <1>1, <1>2 DEF IInv, CancelledWhenReleased, AbortedWhenCancelled, LossReleases, OneLossReported
<1> QED
  BY <1>3, <1>4, <1>5, <1>6 DEF IInv

\* The steps of the kernel that only touch the write under way.
LEMMA NewWriteInv ==
    ASSUME IInv, NEW w \in t.writes, NEW v \in Write(1..MaxMsgs, Units),
           t' = [t EXCEPT !.writes = (@ \ {w}) \union {v}],
           v.msg = w.msg,
           wire' \in (0..MaxMsgs) \X (1..Units),
           wire' = IF v.sent = 0 THEN <<v.msg - 1, Units>> ELSE <<v.msg, v.sent>>,
           v.code \in {"pending", "again"} => v.sent < Units,
           v.code = "ok" => v.sent = Units,
           v.code # "aborted",
           UNCHANGED <<accepted, received, reported>>
    PROVE  IInv'
<1>1. t \in TransportState(1..MaxMsgs, Units)
  BY DEF IInv, TypeOK
<1>2. /\ t' \in TransportState(1..MaxMsgs, Units)
      /\ t'.msgs = t.msgs /\ t'.ready = t.ready /\ t'.owned = t.owned
      /\ t'.cancelled = t.cancelled /\ t'.op = t.op
      /\ t'.writes = (t.writes \ {w}) \union {v}
  BY <1>1 DEF TransportState
<1>3. t'.writes = {v}
  BY <1>2 DEF IInv, OneWriteAtATime
<1>4. TypeOK'
  BY <1>2 DEF IInv, TypeOK
<1>5. WriteAligned'
  <2>1. v.msg = accepted' - Len(t'.msgs)
    BY <1>2 DEF IInv, WriteAligned
  <2> QED
    BY <1>3, <2>1 DEF WriteAligned
<1>6. ReadyIsIdle'
  BY <1>2 DEF IInv, ReadyIsIdle
<1> QED
  BY <1>2, <1>3, <1>4, <1>5, <1>6
  DEF IInv, QueueInOrder, OneWriteAtATime, NotReadyIsBusy, SendFailed,
      CancelledWhenReleased, AbortedWhenCancelled, LossReleases, OneLossReported

LEMMA PutUnitInv == ASSUME IInv, NEW w \in t.writes, PutUnit(w) PROVE IInv'
<1> DEFINE v == [w EXCEPT !.sent = @ + 1,
                          !.code = IF w.sent + 1 = Units THEN "ok" ELSE "again"]
<1>1. w \in Write(1..MaxMsgs, Units) /\ w.code = "pending" /\ w.sent < Units
  BY DEF IInv, TypeOK, TransportState, PutUnit, WriteAligned
<1>2. w.sent \in 0..Units /\ w.msg \in 1..MaxMsgs /\ Units \in Nat \ {0}
  BY <1>1, UnitsAssumption DEF Write
<1>3. /\ v \in Write(1..MaxMsgs, Units)
      /\ v.msg = w.msg /\ v.sent = w.sent + 1 /\ v.sent # 0
      /\ v.code = IF w.sent + 1 = Units THEN "ok" ELSE "again"
  <2>1. w.sent + 1 \in 0..Units /\ w.sent + 1 # 0
    BY <1>1, <1>2
  <2>2. (IF w.sent + 1 = Units THEN "ok" ELSE "again") \in WriteCode
    BY DEF WriteCode, Queued
  <2> QED
    BY <1>1, <2>1, <2>2 DEF Write
<1>4. /\ wire' = <<w.msg, w.sent + 1>>
      /\ t' = [t EXCEPT !.writes = (@ \ {w}) \union {v}]
      /\ UNCHANGED <<accepted, received, reported>>
  BY DEF PutUnit
<1>5. wire' \in (0..MaxMsgs) \X (1..Units)
  BY <1>1, <1>2, <1>4, MaxMsgsAssumption
<1> HIDE DEF v
<1>6. /\ v.code \in {"pending", "again"} => v.sent < Units
      /\ v.code = "ok" => v.sent = Units
      /\ v.code # "aborted"
      /\ wire' = IF v.sent = 0 THEN <<v.msg - 1, Units>> ELSE <<v.msg, v.sent>>
  BY <1>1, <1>2, <1>3, <1>4
<1> QED
  BY <1>3, <1>4, <1>5, <1>6, NewWriteInv

LEMMA WriteStepsInv ==
    ASSUME IInv, NEW w \in t.writes, w.code \in {"pending", "again"},
           NEW code \in {"pending"} \union Errors,
           t' = WriteSteps(w, code),
           UNCHANGED <<accepted, wire, received, reported>>
    PROVE  IInv'
<1> DEFINE v == [w EXCEPT !.code = code]
<1>1. w \in Write(1..MaxMsgs, Units) /\ w.sent < Units
  BY DEF IInv, TypeOK, TransportState, WriteAligned
<1>2. /\ v \in Write(1..MaxMsgs, Units)
      /\ v.msg = w.msg /\ v.sent = w.sent /\ v.code = code
  BY <1>1 DEF Write, WriteCode, Queued, Errors
<1>3. t' = [t EXCEPT !.writes = (@ \ {w}) \union {v}]
  BY DEF WriteSteps
<1>4. wire' \in (0..MaxMsgs) \X (1..Units)
  BY DEF IInv, TypeOK
<1>5. wire' = IF w.sent = 0 THEN <<w.msg - 1, Units>> ELSE <<w.msg, w.sent>>
  BY DEF IInv, WriteAligned
<1> HIDE DEF v
<1>6. /\ v.code \in {"pending", "again"} => v.sent < Units
      /\ v.code = "ok" => v.sent = Units
      /\ v.code # "aborted"
      /\ wire' = IF v.sent = 0 THEN <<v.msg - 1, Units>> ELSE <<v.msg, v.sent>>
  BY <1>1, <1>2, <1>5 DEF Errors
<1> QED
  BY <1>2, <1>3, <1>4, <1>6, NewWriteInv

\* The steps that only touch the receive.
LEMMA NewReadInv ==
    ASSUME IInv, NEW code \in OpState, t' = [t EXCEPT !.op = code],
           code # "refused", code = "aborted" => t.cancelled,
           received' \in BOOLEAN, UNCHANGED <<accepted, wire, reported>>
    PROVE  IInv'
<1>1. t \in TransportState(1..MaxMsgs, Units)
  BY DEF IInv, TypeOK
<1>2. /\ t' \in TransportState(1..MaxMsgs, Units)
      /\ t'.msgs = t.msgs /\ t'.ready = t.ready /\ t'.owned = t.owned
      /\ t'.cancelled = t.cancelled /\ t'.writes = t.writes /\ t'.op = code
  BY <1>1 DEF TransportState
<1>3. TypeOK'
  BY <1>2 DEF IInv, TypeOK
<1>4. WriteAligned' /\ ReadyIsIdle' /\ QueueInOrder'
  BY <1>2 DEF IInv, WriteAligned, ReadyIsIdle, QueueInOrder
<1> QED
  BY <1>2, <1>3, <1>4
  DEF IInv, OneWriteAtATime, NotReadyIsBusy, SendFailed,
      CancelledWhenReleased, AbortedWhenCancelled, LossReleases, OneLossReported

\* A handler that ends, reports its error, and lets the owner react.
LEMMA ReportErrorInv ==
    ASSUME IInv, ~t.cancelled,
           NEW ended \in TransportState(1..MaxMsgs, Units),
           ended.msgs = t.msgs, ended.ready = t.ready,
           ended.owned = t.owned, ended.cancelled = t.cancelled,
           ended.op \in {t.op, "none"},
           NEW by \in {"send", "receive"}, NEW code \in Errors,
           ended.writes \subseteq t.writes,
           by = "receive" => ended.writes = t.writes,
           ReportError(ended, by, code),
           UNCHANGED <<accepted, wire, received>>
    PROVE  IInv'
<1> DEFINE len == Len(reported)
           rep == [by |-> by, code |-> code]
           rel == code \in DropOn /\ t.owned
           r == ReleaseTransport(ended)
<1>1. t.owned
  BY DEF IInv, CancelledWhenReleased
<1>2. reported \in Seq(Report) /\ rep \in Report /\ reported' = Append(reported, rep)
  BY DEF IInv, TypeOK, Report, ReportError
<1>3. /\ reported' \in Seq(Report) /\ len \in Nat /\ Len(reported') = len + 1
      /\ \A i \in 1..len : reported'[i] = reported[i]
      /\ reported'[len + 1] = rep
  BY <1>2, AppendProperties
<1>4. \A i \in 1..len : reported[i].code \notin DropOn
  BY <1>1 DEF IInv, LossReleases
<1>5. /\ r \in TransportState(1..MaxMsgs, Units)
      /\ r.msgs = ended.msgs /\ r.ready = ended.ready /\ ~r.owned /\ r.cancelled
      /\ r.writes = {[w EXCEPT !.code = Abort(@)] : w \in ended.writes}
      /\ r.op \in {ended.op, "aborted"}
  BY UnitsAssumption, ReleaseFields
<1>6. t' = IF code \in DropOn /\ t.owned THEN r ELSE ended
  BY DEF ReportError
<1> HIDE DEF r
<1>7. /\ t' \in TransportState(1..MaxMsgs, Units)
      /\ t'.msgs = t.msgs /\ t'.ready = t.ready
      /\ t'.cancelled <=> ~t'.owned
      /\ code \in DropOn => ~t'.owned
  BY <1>1, <1>5, <1>6 DEF IInv, CancelledWhenReleased
<1>8. \A v \in t'.writes : \E w \in t.writes :
          v = w \/ v = [w EXCEPT !.code = Abort(@)]
  BY <1>5, <1>6
<1>9. TypeOK'
  BY <1>3, <1>7 DEF IInv, TypeOK
<1>10. OneWriteAtATime' /\ ReadyIsIdle' /\ QueueInOrder' /\ CancelledWhenReleased'
  <2>1. OneWriteAtATime'
    BY <1>5, <1>6 DEF IInv, OneWriteAtATime
  <2>2. ReadyIsIdle'
    BY <1>7, <1>8 DEF IInv, ReadyIsIdle
  <2>3. QueueInOrder' /\ CancelledWhenReleased'
    BY <1>7 DEF IInv, QueueInOrder, CancelledWhenReleased
  <2> QED
    BY <2>1, <2>2, <2>3
<1>11. WriteAligned'
  <2> SUFFICES ASSUME NEW v \in t'.writes
               PROVE  /\ v.msg = accepted' - Len(t'.msgs)
                      /\ wire' = IF v.sent = 0 THEN <<v.msg - 1, Units>>
                                               ELSE <<v.msg, v.sent>>
                      /\ v.code \in {"pending", "again"} => v.sent < Units
                      /\ v.code = "ok" => v.sent = Units
    BY DEF WriteAligned
  <2>1. PICK w \in t.writes : v = w \/ v = [w EXCEPT !.code = Abort(@)]
    BY <1>8
  <2>2. w \in Write(1..MaxMsgs, Units)
    BY DEF IInv, TypeOK, TransportState
  <2>3. /\ v.msg = w.msg /\ v.sent = w.sent
        /\ v.code = w.code \/ v.code = "aborted"
    BY <2>1, <2>2 DEF Write, Abort
  <2>4. /\ w.msg = accepted - Len(t.msgs)
        /\ wire = IF w.sent = 0 THEN <<w.msg - 1, Units>> ELSE <<w.msg, w.sent>>
        /\ w.code \in {"pending", "again"} => w.sent < Units
        /\ w.code = "ok" => w.sent = Units
    BY DEF IInv, WriteAligned
  <2> QED
    BY <1>7, <2>3, <2>4
<1>12. NotReadyIsBusy'
  <2>1. CASE by = "send"
    <3>1. reported'[len + 1].by = "send" /\ len + 1 \in 1..Len(reported')
      BY <1>3, <2>1
    <3> QED
      BY <3>1 DEF NotReadyIsBusy, SendFailed
  <2>2. CASE by = "receive"
    <3>1. SendFailed => SendFailed'
      BY <1>3 DEF SendFailed
    <3>2. t'.owned => t'.writes = t.writes
      BY <1>5, <1>6, <2>2
    <3> QED
      BY <1>1, <1>7, <3>1, <3>2 DEF IInv, NotReadyIsBusy
  <2> QED
    BY <2>1, <2>2
<1>13. LossReleases'
  BY <1>3, <1>4, <1>7 DEF LossReleases
<1>14. OneLossReported'
  BY <1>3, <1>4 DEF OneLossReported
<1>15. AbortedWhenCancelled'
  <2>1. CASE t' = ended
    BY <2>1 DEF IInv, AbortedWhenCancelled
  <2>2. CASE t' = r
    BY <1>5, <2>2 DEF IInv, AbortedWhenCancelled
  <2> QED
    BY <1>6, <2>1, <2>2
<1> QED
  BY <1>9, <1>10, <1>11, <1>12, <1>13, <1>14, <1>15 DEF IInv

LEMMA OnSendIgnoredInv ==
    ASSUME IInv, NEW w \in t.writes, OnSendIgnored(w) PROVE IInv'
<1>1. t \in TransportState(1..MaxMsgs, Units) /\ Units \in Nat \ {0}
  BY UnitsAssumption DEF IInv, TypeOK
<1>2. /\ t' = Done(t, w) /\ t.cancelled
      /\ UNCHANGED <<accepted, wire, received, reported>>
  BY DEF OnSendIgnored, OnSendEnds, Ignored, Cancelled
<1>3. /\ Done(t, w) \in TransportState(1..MaxMsgs, Units)
      /\ Done(t, w).msgs = t.msgs /\ Done(t, w).writes = t.writes \ {w}
      /\ Done(t, w).ready = t.ready /\ Done(t, w).owned = t.owned
      /\ Done(t, w).cancelled = t.cancelled /\ Done(t, w).op = t.op
  BY <1>1, DoneFields
<1>4. TypeOK'
  BY <1>2, <1>3 DEF IInv, TypeOK
<1>5. WriteAligned' /\ ReadyIsIdle' /\ QueueInOrder'
  BY <1>2, <1>3 DEF IInv, WriteAligned, ReadyIsIdle, QueueInOrder
<1> QED
  BY <1>2, <1>3, <1>4, <1>5
  DEF IInv, OneWriteAtATime, NotReadyIsBusy, CancelledWhenReleased,
      AbortedWhenCancelled, LossReleases, OneLossReported

LEMMA OnSendErrorInv ==
    ASSUME IInv, NEW w \in t.writes, OnSendError(w) PROVE IInv'
<1>1. t \in TransportState(1..MaxMsgs, Units) /\ Units \in Nat \ {0}
  BY UnitsAssumption DEF IInv, TypeOK
<1>2. ~t.cancelled /\ UNCHANGED <<accepted, wire, received>>
  BY DEF OnSendError, Ignored, Cancelled
<1>3. ReportError(Done(t, w), "send", w.code)
  BY DEF OnSendError, OnSendEnds
<1>4. w.code \in Errors
  <2>1. w.code \in WriteCode
    BY <1>1 DEF TransportState, Write
  <2>2. w.code # "aborted"
    BY <1>2 DEF IInv, AbortedWhenCancelled
  <2> QED
    BY <2>1, <2>2 DEF OnSendError, Handlable, WriteCode, Queued, Errors
<1> DEFINE d == Done(t, w)
<1>5. /\ d \in TransportState(1..MaxMsgs, Units)
      /\ d.msgs = t.msgs /\ d.writes = t.writes \ {w} /\ d.ready = t.ready
      /\ d.owned = t.owned /\ d.cancelled = t.cancelled /\ d.op = t.op
  BY <1>1, DoneFields
<1>6. ReportError(d, "send", w.code)
  BY <1>3
<1> HIDE DEF d
<1>7. d.writes \subseteq t.writes /\ d.op \in {t.op, "none"}
  BY <1>5
<1> QED
  BY <1>2, <1>4, <1>5, <1>6, <1>7, ReportErrorInv

LEMMA OnSendDoneInv ==
    ASSUME IInv, NEW w \in t.writes, OnSendDone(w) PROVE IInv'
<1> DEFINE len == Len(t.msgs)
           y == OnSendOk(t, w)
<1>1. t \in TransportState(1..MaxMsgs, Units) /\ Units \in Nat \ {0}
  BY UnitsAssumption DEF IInv, TypeOK
<1>2. /\ t' = y /\ w.code = "ok" /\ ~t.cancelled
      /\ UNCHANGED <<accepted, wire, received, reported>>
  BY DEF OnSendDone, Ignored, Cancelled
<1>3. /\ y \in TransportState(1..MaxMsgs, Units)
      /\ t.msgs # <<>> =>
            /\ y.msgs = Tail(t.msgs)
            /\ y.writes = (t.writes \ {w}) \union
                  {[msg |-> Head(t.msgs), sent |-> 0, code |-> "pending"]}
            /\ y.ready = t.ready
      /\ t.msgs = <<>> => y.msgs = <<>> /\ y.writes = t.writes \ {w} /\ y.ready
      /\ y.owned = t.owned /\ y.cancelled = t.cancelled /\ y.op = t.op
  BY <1>1, OnSendOkFields
<1> HIDE DEF y
<1>4. t.writes \ {w} = {}
  BY DEF IInv, OneWriteAtATime
<1>5. accepted \in Nat /\ len \in Nat /\ t.msgs \in Seq(1..MaxMsgs)
  BY <1>1, MaxMsgsAssumption DEF IInv, TypeOK, TransportState
<1>6. wire = <<accepted - len, Units>>
  <2>1. w.sent = Units /\ w.msg = accepted - len
        /\ wire = IF w.sent = 0 THEN <<w.msg - 1, Units>> ELSE <<w.msg, w.sent>>
    BY <1>2 DEF IInv, WriteAligned
  <2> QED
    BY <1>1, <2>1
<1>7. TypeOK'
  BY <1>2, <1>3 DEF IInv, TypeOK
<1>8. CASE t.msgs # <<>>
  <2> DEFINE new == [msg |-> Head(t.msgs), sent |-> 0, code |-> "pending"]
  <2>1. /\ t'.msgs = Tail(t.msgs) /\ t'.writes = {new} /\ t'.ready = t.ready
        /\ t'.owned = t.owned /\ t'.cancelled = t.cancelled /\ t'.op = t.op
    BY <1>2, <1>3, <1>4, <1>8
  <2>2. /\ Len(Tail(t.msgs)) = len - 1 /\ len >= 1 /\ Head(t.msgs) = t.msgs[1]
        /\ \A k \in 1..(len - 1) : Tail(t.msgs)[k] = t.msgs[k + 1]
    BY <1>5, <1>8, HeadTailProperties
  <2>3. len <= accepted /\ \A k \in 1..len : t.msgs[k] = accepted - len + k
    BY DEF IInv, QueueInOrder
  <2> HIDE DEF len
  <2>4. Len(t'.msgs) = len - 1
    BY <2>1, <2>2
  <2>5. QueueInOrder'
    <3>1. len - 1 <= accepted
      BY <1>5, <2>3
    <3>2. ASSUME NEW k \in 1..(len - 1)
          PROVE t'.msgs[k] = accepted - (len - 1) + k
      <4>1. k + 1 \in 1..len /\ t'.msgs[k] = t.msgs[k + 1]
        BY <1>5, <2>1, <2>2
      <4> QED
        BY <1>5, <2>3, <4>1
    <3> QED
      BY <1>2, <2>4, <3>1, <3>2 DEF QueueInOrder
  <2>6. WriteAligned'
    <3>1. Head(t.msgs) = accepted - len + 1
      BY <1>5, <2>2, <2>3
    <3>2. Head(t.msgs) = accepted' - Len(t'.msgs) /\ accepted - len = Head(t.msgs) - 1
      BY <1>2, <1>5, <2>4, <3>1
    <3>3. wire' = <<Head(t.msgs) - 1, Units>>
      BY <1>2, <1>6, <3>2
    <3>4. /\ new.msg = Head(t.msgs) /\ new.sent = 0 /\ new.code = "pending"
          /\ 0 < Units
      BY <1>1
    <3> QED
      BY <2>1, <3>2, <3>3, <3>4 DEF WriteAligned
  <2>7. ~t'.ready
    BY <1>8, <2>1 DEF IInv, ReadyIsIdle
  <2> QED
    BY <1>2, <1>7, <2>1, <2>5, <2>6, <2>7
    DEF IInv, OneWriteAtATime, ReadyIsIdle, NotReadyIsBusy, CancelledWhenReleased,
        AbortedWhenCancelled, LossReleases, OneLossReported
<1>9. CASE t.msgs = <<>>
  <2>1. /\ t'.msgs = <<>> /\ t'.writes = {} /\ t'.ready
        /\ t'.owned = t.owned /\ t'.cancelled = t.cancelled /\ t'.op = t.op
    BY <1>2, <1>3, <1>4, <1>9
  <2>2. len = 0 /\ wire' = <<accepted', Units>>
    BY <1>2, <1>5, <1>6, <1>9
  <2>3. QueueInOrder'
    BY <1>2, <1>9, <2>1 DEF IInv, QueueInOrder
  <2> QED
    BY <1>2, <1>7, <2>1, <2>2, <2>3
    DEF IInv, OneWriteAtATime, WriteAligned, ReadyIsIdle, NotReadyIsBusy,
        CancelledWhenReleased, AbortedWhenCancelled, LossReleases, OneLossReported
<1> QED
  BY <1>8, <1>9

LEMMA HandleReceiveInv == IInv /\ HandleReceive => IInv'
<1> SUFFICES ASSUME IInv, HandleReceive PROVE IInv'
  OBVIOUS
<1>1. t \in TransportState(1..MaxMsgs, Units) /\ received \in BOOLEAN
  BY DEF IInv, TypeOK
<1>2. CASE OnReceiveIgnored
  <2>1. t' = [t EXCEPT !.op = "none"] /\ "none" \in OpState
        /\ UNCHANGED <<accepted, wire, received, reported>>
    BY <1>2 DEF OnReceiveIgnored, OnReceiveEnds, OpState
  <2> QED
    BY <1>1, <2>1, NewReadInv
<1>3. CASE OnReceiveData
  <2>1. t' = [t EXCEPT !.op = "pending"] /\ "pending" \in OpState
        /\ UNCHANGED <<accepted, wire, reported>> /\ received' = ~received
    BY <1>3 DEF OnReceiveData, OnReceiveOk, OpState
  <2> QED
    BY <1>1, <2>1, NewReadInv
<1>4. CASE OnReceiveError
  <2> DEFINE e == [t EXCEPT !.op = "none"]
  <2>1. ~t.cancelled /\ UNCHANGED <<accepted, wire, received>>
        /\ ReportError(e, "receive", t.op)
    BY <1>4 DEF OnReceiveError, OnReceiveEnds, Ignored, Cancelled
  <2>2. t.op \in Errors
    BY <1>4, <2>1 DEF OnReceiveError, Queued, Errors, IInv, AbortedWhenCancelled
  <2>3. /\ e \in TransportState(1..MaxMsgs, Units)
        /\ e.msgs = t.msgs /\ e.writes = t.writes /\ e.ready = t.ready
        /\ e.owned = t.owned /\ e.cancelled = t.cancelled /\ e.op = "none"
    BY <1>1 DEF TransportState, OpState
  <2> HIDE DEF e
  <2>4. e.writes \subseteq t.writes /\ e.op \in {t.op, "none"}
    BY <2>3
  <2> QED
    BY <2>1, <2>2, <2>3, <2>4, ReportErrorInv
<1> QED
  BY <1>2, <1>3, <1>4 DEF HandleReceive

-----------------------------------------------------------------------------
LEMMA NextInv == IInv /\ [Next]_vars => IInv'
<1> SUFFICES ASSUME IInv, [Next]_vars PROVE IInv'
  OBVIOUS
<1>1. CASE ReadCompletes
  <2>1. PICK code \in Errors \union {"ok"} : t' = [t EXCEPT !.op = code]
    BY <1>1 DEF ReadCompletes
  <2>2. /\ code \in OpState /\ code # "refused" /\ code # "aborted"
        /\ UNCHANGED <<accepted, wire, received, reported>>
    BY <1>1 DEF ReadCompletes, OpState, Queued, Errors
  <2>3. received' \in BOOLEAN
    BY <2>2 DEF IInv, TypeOK
  <2> QED
    BY <2>1, <2>2, <2>3, NewReadInv
<1>2. ASSUME NEW w \in t.writes, Continue(w) PROVE IInv'
  BY <1>2, WriteStepsInv DEF Continue
<1>3. ASSUME NEW w \in t.writes, WriteFails(w) PROVE IInv'
  <2>1. PICK code \in Errors : t' = WriteSteps(w, code)
    BY <1>3 DEF WriteFails
  <2> QED
    BY <1>3, <2>1, WriteStepsInv DEF WriteFails
<1>4. ASSUME NEW w \in t.writes, HandleSend(w) PROVE IInv'
  BY <1>4, OnSendIgnoredInv, OnSendErrorInv, OnSendDoneInv DEF HandleSend
<1>5. CASE UNCHANGED vars
  <2>1. /\ t' = t /\ accepted' = accepted /\ wire' = wire
        /\ received' = received /\ reported' = reported
    BY <1>5 DEF vars
  <2> QED
    BY <2>1 DEF IInv, TypeOK, QueueInOrder, OneWriteAtATime, WriteAligned,
                ReadyIsIdle, NotReadyIsBusy, SendFailed, CancelledWhenReleased,
                AbortedWhenCancelled, LossReleases, OneLossReported
<1> QED
  BY <1>1, <1>2, <1>3, <1>4, <1>5, AcceptMsgInv, GiveUpInv, PutUnitInv,
     HandleReceiveInv
  DEF Next

\* The inductive invariant holds in every state the transport reaches.
THEOREM Invariance == Spec => []IInv
BY InitInv, NextInv, PTL DEF Spec

\* Every variable keeps its type: on_error_ is called with a real error only,
\* never with the abort that giving the transport up causes.
THEOREM TypeCorrect == Spec => []TypeOK
BY Invariance, PTL DEF IInv

\* The strategy's single buffer is never given a second message while the
\* first is being written.
THEOREM WritesOneAtATime == Spec => []OneWriteAtATime
BY Invariance, PTL DEF IInv

\* No message is left in msgs_ without a write under way to pick it up, while
\* the transport is owned and no send has failed.
THEOREM NothingStranded == Spec => []NoStrandedMessage
<1>1. IInv => NoStrandedMessage
  BY DEF IInv, ReadyIsIdle, NotReadyIsBusy, NoStrandedMessage
<1> QED
  BY <1>1, Invariance, PTL

\* The owner is told of a lost connection once at most.
THEOREM LossReportedOnce == Spec => []OneLossReported
BY Invariance, PTL DEF IInv

\* An error of the receive is no failure of a send.
LEMMA ReceiveErrorIsNoFailure ==
    ASSUME TypeOK, ~SendFailed, NEW ended, NEW code \in Errors,
           ReportError(ended, "receive", code)
    PROVE  ~SendFailed'
<1> DEFINE new == [by |-> "receive", code |-> code]
<1>1. /\ reported \in Seq(Report) /\ new \in Report
      /\ reported' = Append(reported, new)
  BY DEF TypeOK, Report, ReportError
<1>2. new.by = "receive"
  OBVIOUS
<1> HIDE DEF new
<1>3. ASSUME NEW i \in 1..Len(reported') PROVE reported'[i].by # "send"
  <2>1. i \in 1..Len(reported) \/ reported'[i] = new
    BY <1>1, AppendProperties
  <2>2. i \in 1..Len(reported) => reported'[i] = reported[i]
    BY <1>1, AppendProperties
  <2> QED
    BY <1>2, <2>1, <2>2 DEF SendFailed
<1> QED
  BY <1>3 DEF SendFailed

LEMMA SilencedStep ==
    IInv /\ SilencedByFailure /\ [Next]_vars => SilencedByFailure'
<1> SUFFICES ASSUME IInv, SilencedByFailure, [Next]_vars PROVE SilencedByFailure'
  OBVIOUS
<1> DEFINE Silent(x) == ~x.ready /\ x.writes = {}
<1>1. t \in TransportState(1..MaxMsgs, Units) /\ Units \in Nat \ {0} /\ TypeOK
  BY UnitsAssumption DEF IInv, TypeOK
<1>2. ASSUME NEW x \in TransportState(1..MaxMsgs, Units), Silent(x)
      PROVE  Silent(ReleaseTransport(x))
  BY <1>1, <1>2, ReleaseFields
\* What is silent stays so: there is no write that could complete.
<1>3. CASE SendFailed
  <2>1. Silent(t)
    BY <1>3 DEF SilencedByFailure
  <2>2. CASE AcceptMsg
    <3>1. accepted + 1 \in 1..MaxMsgs
      BY <2>2, MaxMsgsAssumption DEF AcceptMsg, IInv, TypeOK
    <3> DEFINE m == accepted + 1
               Msgs == 1..MaxMsgs
    <3>2. Send(t, m).writes = t.writes /\ Send(t, m).ready = t.ready
      <4>1. t \in TransportState(Msgs, Units) /\ m \in Msgs
        BY <1>1, <3>1
      <4> HIDE DEF m, Msgs
      <4> QED
        BY <1>1, <2>1, <4>1, SendLaterFields
    <3> QED
      BY <2>1, <2>2, <3>2 DEF AcceptMsg, SilencedByFailure
  <2>3. CASE GiveUp
    BY <1>1, <1>2, <2>1, <2>3 DEF GiveUp, SilencedByFailure
  <2>4. CASE ReadCompletes \/ OnReceiveIgnored \/ OnReceiveData
    BY <1>1, <2>1, <2>4
    DEF ReadCompletes, OnReceiveIgnored, OnReceiveData, OnReceiveEnds,
        OnReceiveOk, TransportState, SilencedByFailure
  <2>5. CASE OnReceiveError
    <3> DEFINE e == [t EXCEPT !.op = "none"]
    <3>1. e \in TransportState(1..MaxMsgs, Units) /\ Silent(e)
      BY <1>1, <2>1 DEF TransportState, OpState
    <3>2. t' \in {e, ReleaseTransport(e)}
      BY <2>5 DEF OnReceiveError, OnReceiveEnds, ReportError
    <3> HIDE DEF e
    <3> QED
      BY <1>2, <3>1, <3>2 DEF SilencedByFailure
  <2> QED
    BY <2>1, <2>2, <2>3, <2>4, <2>5
    DEF Next, HandleReceive, vars, SilencedByFailure
\* And it is the failure of the only write there was that makes it silent.
<1>4. CASE ~SendFailed
  <2>1. ASSUME NEW w \in t.writes, OnSendError(w) PROVE SilencedByFailure'
    <3> DEFINE d == Done(t, w)
    <3>1. d \in TransportState(1..MaxMsgs, Units) /\ Silent(d)
      <4>1. t.writes \ {w} = {} /\ ~t.ready
        BY DEF IInv, OneWriteAtATime, ReadyIsIdle
      <4> QED
        BY <1>1, <4>1, DoneFields
    <3>2. t' \in {d, ReleaseTransport(d)}
      BY <2>1 DEF OnSendError, OnSendEnds, ReportError
    <3> HIDE DEF d
    <3> QED
      BY <1>2, <3>1, <3>2 DEF SilencedByFailure
  <2>2. CASE OnReceiveError
    <3>1. t.op \in Errors
      BY <2>2 DEF OnReceiveError, Ignored, Cancelled, Queued, Errors,
                  IInv, AbortedWhenCancelled
    <3>2. ReportError(OnReceiveEnds(t), "receive", t.op)
      BY <2>2 DEF OnReceiveError
    <3>3. ~SendFailed'
      BY <1>1, <1>4, <3>1, <3>2, ReceiveErrorIsNoFailure
    <3> QED
      BY <3>3 DEF SilencedByFailure
  <2>3. CASE reported' = reported
    BY <1>4, <2>3 DEF SilencedByFailure, SendFailed
  <2>4. ASSUME NEW w \in t.writes, PutUnit(w) \/ Continue(w) \/ WriteFails(w)
                                   \/ OnSendIgnored(w) \/ OnSendDone(w)
        PROVE  reported' = reported
    BY <2>4 DEF PutUnit, Continue, WriteFails, OnSendIgnored, OnSendDone
  <2>5. CASE AcceptMsg \/ GiveUp \/ ReadCompletes \/ OnReceiveIgnored
             \/ OnReceiveData \/ UNCHANGED vars
    <3>1. reported' = reported
      BY <2>5 DEF AcceptMsg, GiveUp, ReadCompletes, OnReceiveIgnored,
                  OnReceiveData, vars
    <3> QED
      BY <2>3, <3>1
  <2> QED
    BY <2>1, <2>2, <2>3, <2>4, <2>5 DEF Next, HandleReceive, HandleSend
<1> QED
  BY <1>3, <1>4

\* After a failed send nothing is ever written again: no message follows one
\* that was cut off, whatever is accepted later.
THEOREM FailureSilences == Spec => []SilencedByFailure
<1>1. Init => SilencedByFailure
  BY DEF Init, SilencedByFailure, SendFailed
<1> QED
  BY <1>1, SilencedStep, Invariance, PTL DEF Spec

\* A handler that runs after the transport was given up changes nothing that
\* its owner, which may be gone, can see.
THEOREM ReleasedIsSilent == Spec => SilentOnceReleased
<1> DEFINE Silent ==
        ~t.owned => /\ UNCHANGED <<accepted, received, reported>>
                    /\ t'.op = "pending" => t.op = "pending"
                    /\ \A w \in t'.writes : \E v \in t.writes : v.msg = w.msg
<1>1. IInv /\ [Next]_vars => [Silent]_vars
  <2> SUFFICES ASSUME IInv, Next, ~t.owned PROVE Silent
    BY DEF vars
  <2>1. t \in TransportState(1..MaxMsgs, Units) /\ Ignored
    BY DEF IInv, TypeOK, CancelledWhenReleased, Ignored, Cancelled
  <2>2. CASE ReadCompletes
    BY <2>1, <2>2 DEF ReadCompletes, TransportState, Errors
  <2>3. CASE HandleReceive
    BY <2>1, <2>3 DEF HandleReceive, OnReceiveIgnored, OnReceiveEnds,
                      OnReceiveError, OnReceiveData, TransportState
  <2>4. ASSUME NEW w \in t.writes,
               PutUnit(w) \/ Continue(w) \/ WriteFails(w)
        PROVE  Silent
    <3>1. w \in Write(1..MaxMsgs, Units)
      BY <2>1 DEF TransportState
    <3>2. PICK v : /\ t' = [t EXCEPT !.writes = (@ \ {w}) \union {v}]
                   /\ v.msg = w.msg
      <4>1. CASE PutUnit(w)
        <5> DEFINE v == [w EXCEPT !.sent = @ + 1,
                             !.code = IF w.sent + 1 = Units THEN "ok" ELSE "again"]
        <5>1. v.msg = w.msg
          BY <3>1 DEF Write
        <5>2. t' = [t EXCEPT !.writes = (@ \ {w}) \union {v}]
          BY <4>1 DEF PutUnit
        <5> QED
          BY <5>1, <5>2
      <4>2. ASSUME NEW code, t' = WriteSteps(w, code)
            PROVE  \E v : /\ t' = [t EXCEPT !.writes = (@ \ {w}) \union {v}]
                          /\ v.msg = w.msg
        <5> DEFINE v == [w EXCEPT !.code = code]
        <5>1. v.msg = w.msg
          BY <3>1 DEF Write
        <5>2. t' = [t EXCEPT !.writes = (@ \ {w}) \union {v}]
          BY <4>2 DEF WriteSteps
        <5> QED
          BY <5>1, <5>2
      <4> QED
        BY <2>4, <4>1, <4>2 DEF Continue, WriteFails
    <3>3. t'.writes = (t.writes \ {w}) \union {v} /\ t'.op = t.op
      BY <2>1, <3>2 DEF TransportState
    <3> QED
      BY <2>4, <3>2, <3>3 DEF PutUnit, Continue, WriteFails
  <2>5. ASSUME NEW w \in t.writes, HandleSend(w) PROVE Silent
    <3>1. OnSendIgnored(w)
      BY <2>1, <2>5 DEF HandleSend, OnSendError, OnSendDone
    <3>2. t'.writes = t.writes \ {w} /\ t'.op = t.op
      BY <2>1, <3>1 DEF OnSendIgnored, OnSendEnds, Done, TransportState
    <3> QED
      BY <3>1, <3>2 DEF OnSendIgnored
  <2> QED
    BY <2>2, <2>3, <2>4, <2>5 DEF Next, AcceptMsg, GiveUp
<1> QED
  BY <1>1, Invariance, PTL DEF Spec, SilentOnceReleased

\* underlying_transport_impl is a FIFO link: what is accepted appears on the
\* wire in order, whole and unmixed.
THEOREM Refinement == Spec => ImplementsFifoLink
<1>1. Init => Link!Init
  BY DEF Init, Link!Init
<1>2. IInv /\ [Next]_vars => [Link!Next]_<<accepted, wire>>
  <2> SUFFICES ASSUME IInv, [Next]_vars
               PROVE  Link!Next \/ UNCHANGED <<accepted, wire>>
    OBVIOUS
  <2>1. ASSUME NEW w \in t.writes, PutUnit(w) PROVE Link!Next
    <3>1. /\ w \in Write(1..MaxMsgs, Units)
          /\ Len(t.msgs) \in Nat /\ accepted \in Nat
      BY MaxMsgsAssumption DEF IInv, TypeOK, TransportState
    <3>2. /\ w.msg \in Nat \ {0} /\ w.sent \in Nat /\ w.sent < Units
          /\ Units \in Nat \ {0}
      BY <2>1, <3>1, MaxMsgsAssumption, UnitsAssumption
      DEF Write, PutUnit, IInv, WriteAligned
    <3>3. /\ w.msg = accepted - Len(t.msgs)
          /\ wire = IF w.sent = 0 THEN <<w.msg - 1, Units>> ELSE <<w.msg, w.sent>>
      BY DEF IInv, WriteAligned
    <3>4. wire' = <<w.msg, w.sent + 1>> /\ accepted' = accepted
      BY <2>1 DEF PutUnit
    <3>5. Link!Next1(wire) = <<w.msg, w.sent + 1>>
      BY <3>2, <3>3 DEF Link!Next1
    <3>6. w.msg <= accepted
      BY <3>1, <3>3
    <3> QED
      BY <3>4, <3>5, <3>6 DEF Link!Next, Link!Emit
  <2>2. CASE AcceptMsg
    BY <2>2 DEF AcceptMsg, Link!Next, Link!Accept
  <2> QED
    BY <2>1, <2>2
    DEF Next, vars, GiveUp, ReadCompletes, HandleReceive, OnReceiveIgnored,
        OnReceiveError, OnReceiveData, Continue, WriteFails, HandleSend,
        OnSendIgnored, OnSendError, OnSendDone
<1> QED
  BY <1>1, <1>2, Invariance, PTL DEF Spec, ImplementsFifoLink, Link!Spec
=============================================================================
