---------------------------- MODULE GoBackNProofs ----------------------------
(***************************************************************************)
(* A go-back-N flow implements Transfer, for every flow length and window, *)
(* whatever the network loses or reorders and whenever the timeout fires.  *)
(*                                                                         *)
(* The invariant says that the receiver has what it says it has, and that  *)
(* nobody knows more than the receiver: a reply under way, and the sender, *)
(* acknowledge packets below expected only.                                *)
(***************************************************************************)
EXTENDS GoBackN, DataTheorems, TLAPS

RepliesSound == \A k \in DOMAIN control : control[k].seq <= expected

PrefixReceived == 0 .. expected - 1 \subseteq rcvd

GbnInv ==
  /\ TypeOK
  /\ PrefixReceived
  /\ RepliesSound
  /\ sndUna <= expected
  /\ complete = (sndUna = NumPackets)
  /\ RtoArmed

-----------------------------------------------------------------------------
(* Channels.                                                               *)

\* Replies stay sound when one leaves, and when one is added that says no
\* more than expected.
LEMMA ReplyRemoved ==
  ASSUME control \in Seq(Reply), RepliesSound, NEW k \in DOMAIN control
  PROVE  /\ RemoveAt(control, k) \in Seq(Reply)
         /\ \A j \in DOMAIN RemoveAt(control, k) : RemoveAt(control, k)[j].seq <= expected
BY RemoveAtElements DEF RepliesSound

LEMMA ReplyAdded ==
  ASSUME control \in Seq(Reply), RepliesSound,
         expected \in 0 .. NumPackets, NEW e \in 0 .. NumPackets, expected <= e,
         NEW n \in BOOLEAN
  PROVE  LET c == Append(control, [nack |-> n, seq |-> e])
         IN c \in Seq(Reply) /\ \A j \in DOMAIN c : c[j].seq <= e
<1> DEFINE r == [nack |-> n, seq |-> e]
           c == Append(control, r)
<1>1. r \in Reply /\ r.seq = e
  BY DEF Reply
<1> HIDE DEF r
<1>2. c \in Seq(Reply) /\ Len(c) = Len(control) + 1
  BY <1>1
<1>3. ASSUME NEW j \in DOMAIN c PROVE c[j].seq <= e
  <2>1. CASE j \in DOMAIN control
    <3>1. c[j] = control[j] /\ control[j] \in Reply
      BY <2>1
    <3>2. control[j].seq \in 0 .. NumPackets /\ control[j].seq <= expected
      BY <2>1, <3>1 DEF Reply, RepliesSound
    <3> QED
      BY <3>1, <3>2, GoBackNAssumption
  <2>2. CASE j \notin DOMAIN control
    <3>1. c[j] = r
      BY <1>2, <2>2
    <3> QED
      BY <1>1, <3>1, GoBackNAssumption
  <2> QED
    BY <2>1, <2>2
<1> QED
  BY <1>2, <1>3 DEF r

-----------------------------------------------------------------------------
(* The invariant.                                                          *)

LEMMA GbnInvInit == Init => GbnInv
<1> SUFFICES ASSUME Init PROVE GbnInv
  OBVIOUS
<1>1. NumPackets \in Nat \ {0} /\ MaxLoss \in Nat /\ MaxSpurious \in Nat
  BY GoBackNAssumption
<1>2. /\ {expected, sndUna, sndNxt} \subseteq 0 .. NumPackets
      /\ heldNack \in 0 .. NumPackets \union {NoSeq}
      /\ losses \in 0 .. MaxLoss /\ spurious \in 0 .. MaxSpurious
      /\ sndUna <= expected /\ sndUna = sndNxt /\ sndUna <= sndNxt /\ ~ (sndUna < sndNxt)
      /\ sndUna # NumPackets
  BY <1>1 DEF Init
<1>3. /\ data \in Seq(Seqs) /\ control \in Seq(Reply) /\ DOMAIN control = {}
      /\ rcvd \subseteq Seqs /\ PrefixReceived
  BY DEF Init, PrefixReceived
<1>4. rtoTimer \in BOOLEAN /\ complete \in BOOLEAN /\ complete = FALSE
  BY Zenon DEF Init
<1>5. complete = (sndUna = NumPackets)
  BY <1>2, <1>4, Zenon
<1>6. TypeOK
  BY <1>2, <1>3, <1>4, Zenon DEF TypeOK
<1>7. RepliesSound
  BY <1>3, Zenon DEF RepliesSound
<1>8. RtoArmed
  BY <1>2, Zenon DEF RtoArmed
<1> QED
  BY <1>2, <1>3, <1>5, <1>6, <1>7, <1>8, Zenon DEF GbnInv

LEMMA SendInv ==
  ASSUME GbnInv, Send
  PROVE  GbnInv'
<1>1. TypeOK /\ RtoArmed /\ sndNxt < NumPackets /\ NumPackets \in Nat
  BY GoBackNAssumption DEF GbnInv, Send, CanSend
<1>2. data' \in Seq(Seqs)
  BY <1>1 DEF TypeOK, Send, Seqs
<1>3. TypeOK'
  BY <1>1, <1>2 DEF TypeOK, Send, receiverVars
<1>4. RtoArmed'
  BY <1>1 DEF RtoArmed, TypeOK, Send
<1> QED
  BY <1>3, <1>4 DEF GbnInv, RepliesSound, PrefixReceived, Send, receiverVars

LEMMA GetReplyInv ==
  ASSUME GbnInv, NEW k \in DOMAIN control, GetReply(k)
  PROVE  GbnInv'
<1> DEFINE reply == control[k]
<1>1. TypeOK /\ RepliesSound /\ RtoArmed /\ sndUna <= expected
      /\ NumPackets \in Nat
  BY GoBackNAssumption DEF GbnInv
<1>2. reply \in Reply /\ reply.seq <= expected
  BY <1>1 DEF TypeOK, RepliesSound
<1>3. reply.seq \in 0 .. NumPackets /\ reply.nack \in BOOLEAN
  BY <1>2 DEF Reply
<1>4. sndUna' = Larger(sndUna, reply.seq)
  BY DEF GetReply
<1>5. sndUna' \in 0 .. NumPackets /\ sndUna <= sndUna' /\ sndUna' <= expected
  BY <1>1, <1>2, <1>3, <1>4 DEF Larger, TypeOK
<1>6. complete' = (sndUna' = NumPackets)
  BY <1>1, <1>5 DEF GetReply
<1>7. sndNxt' \in 0 .. NumPackets /\ sndUna' <= sndNxt'
      /\ sndNxt' <= Larger(sndNxt, sndUna')
  BY <1>1, <1>5 DEF GetReply, Larger, TypeOK
<1>8. rtoTimer' = (~ complete' /\ (rtoTimer \/ Larger(sndNxt, sndUna') > sndUna'))
  BY DEF GetReply
<1>9. RtoArmed'
  <2>1. ASSUME ~ complete', sndUna' < sndNxt' PROVE rtoTimer'
    <3>1. Larger(sndNxt, sndUna') > sndUna'
      BY <1>1, <1>5, <1>7, <2>1 DEF Larger, TypeOK
    <3> QED
      BY <1>8, <2>1, <3>1, Zenon
  <2> QED
    BY <1>7, <2>1 DEF RtoArmed
<1>10. control' \in Seq(Reply) /\ RepliesSound'
  <2>1. control' = RemoveAt(control, k) /\ expected' = expected
    BY DEF GetReply, receiverVars
  <2> QED
    BY <1>1, <2>1, ReplyRemoved DEF TypeOK, RepliesSound
<1>11. complete' \in BOOLEAN /\ rtoTimer' \in BOOLEAN
  BY <1>6, <1>8, Zenon
<1>12. TypeOK'
  BY <1>1, <1>5, <1>7, <1>10, <1>11 DEF TypeOK, GetReply, receiverVars
<1>13. sndUna' <= expected' /\ PrefixReceived'
  BY <1>5 DEF GbnInv, PrefixReceived, GetReply, receiverVars
<1> QED
  BY <1>6, <1>9, <1>10, <1>12, <1>13 DEF GbnInv

\* What ReceiveUdp does to the receiver and to the replies.
LEMMA ReceiveUdpEffect ==
  ASSUME GbnInv, NEW seq \in Seqs, ReceiveUdp(seq)
  PROVE  /\ expected' \in 0 .. NumPackets
         /\ expected' = expected \/ (expected' = expected + 1 /\ seq = expected)
         /\ rcvd' = rcvd \/ rcvd' = rcvd \union {seq}
         /\ rcvd' \subseteq Seqs /\ PrefixReceived'
         /\ heldNack' \in 0 .. NumPackets \union {NoSeq}
         /\ control' \in Seq(Reply) /\ RepliesSound'
<1>0. rcvd \subseteq Seqs /\ PrefixReceived
  BY Zenon DEF GbnInv, TypeOK
<1>1. /\ control \in Seq(Reply) /\ RepliesSound /\ expected \in 0 .. NumPackets
      /\ heldNack \in 0 .. NumPackets \union {NoSeq}
      /\ seq \in 0 .. NumPackets - 1 /\ NumPackets \in Nat
  BY GoBackNAssumption DEF GbnInv, TypeOK, Seqs
<1>2. CASE InOrder(seq)
  <2>1. /\ expected' \in 0 .. NumPackets /\ expected <= expected'
        /\ expected' = expected \/ (expected' = expected + 1 /\ seq = expected)
    BY <1>1, <1>2 DEF InOrder, Larger
  <2>2. control' = Append(control, [nack |-> FALSE, seq |-> expected'])
        /\ heldNack' = heldNack
    BY <1>2 DEF InOrder
  <2>3. control' \in Seq(Reply) /\ RepliesSound'
    BY <1>1, <2>1, <2>2, ReplyAdded DEF RepliesSound
  <2>4. rcvd' = rcvd \union {seq}
    BY <1>2 DEF InOrder
  <2>5. PrefixReceived'
    <3>1. CASE expected' = expected
      BY <1>0, <2>4, <3>1 DEF PrefixReceived
    <3>2. CASE expected' = expected + 1 /\ seq = expected
      <4>1. 0 .. expected' - 1 = (0 .. expected - 1) \union {seq}
        BY <1>1, <3>2
      <4> QED
        BY <1>0, <2>4, <4>1, Zenon DEF PrefixReceived
    <3> QED
      BY <2>1, <3>1, <3>2
  <2> QED
    BY <1>0, <1>1, <2>1, <2>2, <2>3, <2>4, <2>5
<1>3. ASSUME expected' = expected, heldNack' \in {heldNack, expected},
             control' \in {control, Append(control, [nack |-> TRUE, seq |-> expected])}
      PROVE  /\ control' \in Seq(Reply) /\ RepliesSound'
             /\ heldNack' \in 0 .. NumPackets \union {NoSeq}
  <2>1. CASE control' = control
    BY <1>1, <1>3, <2>1 DEF RepliesSound
  <2>2. CASE control' = Append(control, [nack |-> TRUE, seq |-> expected])
    <3>1. expected <= expected /\ TRUE \in BOOLEAN
      BY <1>1
    <3>2. control' \in Seq(Reply) /\ \A j \in DOMAIN control' : control'[j].seq <= expected
      BY <1>1, <2>2, <3>1, ReplyAdded, Zenon
    <3> QED
      BY <1>1, <1>3, <3>2 DEF RepliesSound
  <2> QED
    BY <1>3, <2>1, <2>2
<1>4. CASE Gap(seq)
  BY <1>0, <1>1, <1>3, <1>4 DEF Gap, PrefixReceived
<1>5. CASE HeldGap(seq)
  BY <1>0, <1>1, <1>3, <1>5 DEF HeldGap, receiverVars, PrefixReceived
<1> QED
  BY <1>2, <1>4, <1>5 DEF ReceiveUdp

LEMMA DeliverInv ==
  ASSUME GbnInv, NEW k \in DOMAIN data, Deliver(k)
  PROVE  GbnInv'
<1>1. TypeOK /\ RtoArmed /\ sndUna <= expected /\ NumPackets \in Nat
  BY GoBackNAssumption DEF GbnInv
<1>2. data[k] \in Seqs /\ RemoveAt(data, k) \in Seq(Seqs)
  BY <1>1, RemoveAtElements DEF TypeOK
<1>3. /\ expected' \in 0 .. NumPackets
      /\ expected' = expected \/ expected' = expected + 1
      /\ rcvd' \subseteq Seqs /\ PrefixReceived'
      /\ heldNack' \in 0 .. NumPackets \union {NoSeq}
      /\ control' \in Seq(Reply) /\ RepliesSound'
  BY <1>2, ReceiveUdpEffect DEF Deliver
<1>4. TypeOK'
  BY <1>1, <1>2, <1>3 DEF TypeOK, Deliver, senderVars
<1>5. sndUna' <= expected'
  BY <1>1, <1>3 DEF TypeOK, Deliver, senderVars
<1>6. RtoArmed' /\ complete' = (sndUna' = NumPackets)
  BY <1>1 DEF GbnInv, RtoArmed, Deliver, senderVars
<1> QED
  BY <1>3, <1>4, <1>5, <1>6 DEF GbnInv

LEMMA LoseInv ==
  ASSUME GbnInv, Lose
  PROVE  GbnInv'
<1>1. TypeOK /\ RepliesSound /\ RtoArmed /\ sndUna <= expected
      /\ MaxLoss \in Nat
  BY GoBackNAssumption DEF GbnInv
<1>2. losses' \in 0 .. MaxLoss
  BY <1>1 DEF Lose, TypeOK
<1>3. data' \in Seq(Seqs) /\ control' \in Seq(Reply) /\ RepliesSound'
  <2>1. expected' = expected
    BY DEF Lose, receiverVars
  <2>2. ASSUME NEW k \in DOMAIN data, data' = RemoveAt(data, k), control' = control
        PROVE  data' \in Seq(Seqs) /\ control' \in Seq(Reply) /\ RepliesSound'
    BY <1>1, <2>1, <2>2, RemoveAtElements DEF TypeOK, RepliesSound
  <2>3. ASSUME NEW k \in DOMAIN control, control' = RemoveAt(control, k), data' = data
        PROVE  data' \in Seq(Seqs) /\ control' \in Seq(Reply) /\ RepliesSound'
    BY <1>1, <2>1, <2>3, ReplyRemoved DEF TypeOK, RepliesSound
  <2> QED
    BY <2>2, <2>3 DEF Lose
<1>4. TypeOK'
  BY <1>1, <1>2, <1>3 DEF TypeOK, Lose, receiverVars, senderVars
<1> QED
  BY <1>1, <1>3, <1>4 DEF GbnInv, RtoArmed, PrefixReceived, Lose, receiverVars, senderVars

\* The steps that touch neither a channel nor an acknowledgement.
LEMMA TimerStepsInv ==
  ASSUME GbnInv, NackIntervalOver \/ Rto
  PROVE  GbnInv'
<1>1. TypeOK /\ RepliesSound /\ RtoArmed /\ sndUna <= expected
      /\ MaxSpurious \in Nat
  BY GoBackNAssumption DEF GbnInv
<1>2. CASE NackIntervalOver
  BY <1>1, <1>2 
     DEF GbnInv, TypeOK, RepliesSound, PrefixReceived, RtoArmed, NackIntervalOver, senderVars
<1>3. CASE Rto
  <2>1. spurious' \in 0 .. MaxSpurious
    BY <1>1, <1>3 DEF Rto, TypeOK
  <2>2. /\ UNCHANGED <<receiverVars, sndUna, complete, data, control, losses>>
        /\ sndNxt' = sndUna /\ rtoTimer' = FALSE
    BY <1>3, Zenon DEF Rto
  <2>3. UNCHANGED <<expected, heldNack, rcvd, sndUna, complete, data, control, losses>>
    BY <2>2 DEF receiverVars
  <2>4. TypeOK'
    BY <1>1, <2>1, <2>2, <2>3 DEF TypeOK
  <2>5. RtoArmed'
    <3>1. sndUna' <= sndNxt' /\ ~ (sndUna' < sndNxt')
      BY <1>1, <2>2, <2>3 DEF TypeOK
    <3> QED
      BY <3>1, Zenon DEF RtoArmed
  <2>6. /\ RepliesSound' /\ PrefixReceived' /\ sndUna' <= expected'
        /\ complete' = (sndUna' = NumPackets)
    BY <1>1, <2>3 DEF GbnInv, RepliesSound, PrefixReceived
  <2> QED
    BY <2>4, <2>5, <2>6, Zenon DEF GbnInv
<1> QED
  BY <1>2, <1>3

LEMMA GbnInvNext == GbnInv /\ [Next]_vars => GbnInv'
<1> SUFFICES ASSUME GbnInv, [Next]_vars PROVE GbnInv'
  OBVIOUS
<1>1. CASE UNCHANGED vars
  BY <1>1 DEF vars, receiverVars, senderVars, GbnInv, TypeOK, RepliesSound,
              PrefixReceived, RtoArmed
<1>2. CASE \E k \in DOMAIN control : GetReply(k)
  BY <1>2, GetReplyInv
<1>3. CASE \E k \in DOMAIN data : Deliver(k)
  BY <1>3, DeliverInv
<1> QED
  BY <1>1, <1>2, <1>3, SendInv, LoseInv, TimerStepsInv DEF Next, Over

-----------------------------------------------------------------------------
(* Theorems.                                                               *)

\* Every variable of a go-back-N flow keeps its type.
THEOREM GbnTypeCorrect == Spec => []TypeOK
<1>1. GbnInv => TypeOK
  BY DEF GbnInv
<1> QED
  BY <1>1, GbnInvInit, GbnInvNext, PTL DEF Spec

\* Whatever is not acknowledged yet is under the retransmission timer, and
\* the assert of GetOnTheFly holds.
THEOREM GbnRtoArmed == Spec => []RtoArmed
<1>1. GbnInv => RtoArmed
  BY DEF GbnInv
<1> QED
  BY <1>1, GbnInvInit, GbnInvNext, PTL DEF Spec

\* A shorter prefix of the flow lies within a longer one.
LEMMA PrefixIncluded ==
  ASSUME NEW a \in Int, NEW b \in Int, a <= b
  PROVE  0 .. a - 1 \subseteq 0 .. b - 1
OBVIOUS

\* One step of the flow is one step of Transfer, or none.
LEMMA GbnStepRefines ==
  ASSUME GbnInv, [Next]_vars
  PROVE  [T!TransferNext]_(T!transferVars)
<1>0. /\ expected \in 0 .. NumPackets /\ sndUna \in 0 .. NumPackets
      /\ sndUna <= expected /\ PrefixReceived
  BY Zenon DEF GbnInv, TypeOK
<1>1. TypeOK /\ NumPackets \in Nat
  BY GoBackNAssumption DEF GbnInv
<1>2. ASSUME UNCHANGED <<rcvd, sndUna, complete>>
      PROVE  [T!TransferNext]_(T!transferVars)
  BY <1>2 DEF T!transferVars
<1>3. ASSUME NEW k \in DOMAIN control, GetReply(k)
      PROVE  [T!TransferNext]_(T!transferVars)
  <2>1. GbnInv' /\ expected' = expected /\ rcvd' = rcvd /\ complete = FALSE
    BY <1>1, <1>3, GetReplyInv DEF GetReply, receiverVars, TypeOK
  <2>2. /\ expected' \in 0 .. NumPackets /\ sndUna' \in 0 .. NumPackets
        /\ sndUna' <= expected'
    BY <2>1, Zenon DEF GbnInv, TypeOK
  <2>3. complete' = (sndUna' = NumPackets)
    BY <2>1, Zenon DEF GbnInv
  <2>4. sndUna <= sndUna'
    <3>1. control \in Seq(Reply)
      BY <1>1, Zenon DEF TypeOK
    <3>2. control[k] \in Reply
      BY <3>1
    <3>3. control[k].seq \in 0 .. NumPackets
      BY <3>2 DEF Reply
    <3>4. sndUna' = Larger(sndUna, control[k].seq)
      BY <1>3, Zenon DEF GetReply
    <3> QED
      BY <1>1, <1>0, <3>3, <3>4 DEF Larger
  <2>5. 0 .. sndUna' - 1 \subseteq rcvd
    <3>1. expected \in Int /\ sndUna' \in Int /\ sndUna' <= expected
      BY <1>1, <1>0, <2>1, <2>2
    <3> QED
      BY <1>0, <3>1, PrefixIncluded DEF PrefixReceived
  <2>6. CASE sndUna' = NumPackets
    <3>1. complete' = TRUE
      BY <2>3, <2>6, Zenon
    <3>2. T!Packets \ rcvd \subseteq {}
      BY <2>5, <2>6 DEF T!Packets
    <3> QED
      BY <2>1, <2>6, <3>1, <3>2 DEF T!TransferNext, T!Complete
  <2>7. CASE sndUna' # NumPackets
    <3>1. complete' = FALSE
      BY <2>3, <2>7, Zenon
    <3>2. sndUna' = sndUna \/ sndUna' \in sndUna + 1 .. NumPackets - 1
      BY <1>1, <1>0, <2>2, <2>4, <2>7
    <3> QED
      BY <1>2, <2>1, <2>5, <3>1, <3>2 DEF T!TransferNext, T!Acknowledge
  <2> QED
    BY <2>6, <2>7
<1>4. ASSUME NEW k \in DOMAIN data, Deliver(k)
      PROVE  [T!TransferNext]_(T!transferVars)
  <2>1. data[k] \in Seqs /\ ReceiveUdp(data[k]) /\ complete = FALSE
        /\ UNCHANGED <<sndUna, complete>>
    BY <1>1, <1>4 DEF Deliver, TypeOK, senderVars
  <2>2. rcvd' = rcvd \/ rcvd' = rcvd \union {data[k]}
    BY <2>1, ReceiveUdpEffect
  <2>3. CASE rcvd' = rcvd
    BY <1>2, <2>1, <2>3
  <2>4. CASE rcvd' = rcvd \union {data[k]}
    BY <2>1, <2>4 DEF T!TransferNext, T!Arrive, T!Packets, Seqs
  <2> QED
    BY <2>2, <2>3, <2>4
<1>5. CASE Send \/ NackIntervalOver \/ Lose \/ Rto \/ Over \/ UNCHANGED vars
  BY <1>2, <1>5 DEF Send, NackIntervalOver, Lose, Rto, Over, vars, receiverVars, senderVars
<1> QED
  BY <1>3, <1>4, <1>5 DEF Next

\* The go-back-N flow implements the abstract transfer: it completes only
\* after everything was delivered, and acknowledges nothing that was not.
THEOREM GbnImplementsTransfer == Spec => ImplementsTransfer
<1>1. Init => T!TransferInit
  BY DEF Init, T!TransferInit
<1> QED
  BY <1>1, GbnInvInit, GbnInvNext, GbnStepRefines, PTL
     DEF Spec, ImplementsTransfer, T!TransferSpec

=============================================================================
