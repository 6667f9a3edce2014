------------------------------ MODULE IrnProofs ------------------------------
(***************************************************************************)
(* An IRN flow implements Transfer and both its SACK lists are sound, for  *)
(* every flow length and BDP limit, whatever the network loses or reorders *)
(* and whenever the timeout fires.                                         *)
(*                                                                         *)
(* Two facts carry the proof beyond what it shares with go-back-N.  The    *)
(* lower bound and the list of the receiver are exactly what arrived.  And *)
(* a cumulative acknowledgement under way never names a packet that a SACK *)
(* of later packets names: the former was missing, the latter received,    *)
(* when the receiver's lower bound stood at the acknowledgement.           *)
(*                                                                         *)
(* The second half is about module IrnSack.  The list of an IrnSackManager *)
(* is kept normal: in ascending order, blocks apart.  A set has just one   *)
(* normal list (NormalExists, NormalIsBlocks), so that an operation whose  *)
(* result is normal is known by the numbers the result covers.             *)
(***************************************************************************)
EXTENDS Irn, DataTheorems

DataSent == Range(data) \subseteq 0 .. maxSeq /\ expected <= maxSeq + 1

RepliesSound ==
  \A r \in Range(control) :
    r.seq <= expected /\ (r.sack # NoSeq => r.sack \in rcvd)

AcksMissing ==
  \A r \in Range(control) :
    /\ r.seq \notin sacked
    /\ r.sack >= r.seq =>
         r.sack # sndUna /\ \A q \in Range(control) : q.seq # r.sack

IrnInv ==
  /\ TypeOK /\ AheadOfGap /\ SackSound /\ RtoArmed
  /\ DataSent /\ RepliesSound /\ AcksMissing
  /\ sndUna <= expected
  /\ complete = (sndUna = NumPackets)

-----------------------------------------------------------------------------
(* Blocks.                                                                 *)

\* What follows a number at most follows a larger one.
LEMMA SuccessorBound ==
  ASSUME NEW x \in Nat, NEW y \in Nat, NEW z \in Nat, x <= y + 1, y <= z
  PROVE  x <= z + 1
OBVIOUS

\* Prefixes of the flow grow with their end, which they do not contain.
LEMMA PrefixBounds ==
  ASSUME NEW a \in Int, NEW b \in Int
  PROVE  /\ a <= b => 0 .. a - 1 \subseteq 0 .. b - 1
         /\ a \notin 0 .. a - 1 /\ a \notin a + 1 .. b
OBVIOUS

\* The block that starts at n is a run of S that ends before a packet not in S.
LEMMA BlockEndProperties ==
  ASSUME NEW n \in 0 .. NumPackets, NEW S, S \subseteq Seqs
  PROVE  /\ BlockEnd(n, S) \in n .. NumPackets
         /\ n .. BlockEnd(n, S) - 1 \subseteq S
         /\ BlockEnd(n, S) \notin S
<1> DEFINE rest == {x \in n .. NumPackets : x \notin S}
<1>1. NumPackets \in Nat /\ n \in Nat
  BY IrnAssumption
<1>2. NumPackets \in rest /\ rest \subseteq Nat
  BY <1>1 DEF Seqs
<1>3. PICK e \in rest : \A x \in rest : e <= x
  BY <1>2, LeastNatural
<1>4. e \in n .. NumPackets /\ e \notin S
  OBVIOUS
<1>5. n .. e - 1 \subseteq S
  <2>1. ASSUME NEW x \in n .. e - 1, x \notin S PROVE FALSE
    <3>1. x \in rest /\ x < e
      BY <1>1, <1>4, <2>1
    <3> QED
      BY <1>1, <1>3, <1>4, <3>1
  <2> QED
    BY <2>1
<1>6. \E z \in n .. NumPackets : n .. z - 1 \subseteq S /\ z \notin S
  BY <1>4, <1>5
<1> QED
  BY <1>6 DEF BlockEnd

\* snd_nxt never moves back over a block, nor out of the flow, and moves only
\* if it stands at a SACKed packet; the list only shrinks.
LEMMA SkipProperties ==
  ASSUME NEW n \in 0 .. NumPackets, NEW S, S \subseteq Seqs
  PROVE  /\ Skip(n, S) \in n .. NumPackets
         /\ n \notin S => Skip(n, S) = n
         /\ SkipDiscard(n, S) \subseteq S
<1>1. Skip(n, S) \in n .. NumPackets
  <2>1. n \in n .. NumPackets
    BY IrnAssumption
  <2> QED
    BY <2>1, BlockEndProperties DEF Skip
<1>2. n \notin S => Skip(n, S) = n
  BY DEF Skip, FrontAt
<1>3. SkipDiscard(n, S) \subseteq S
  BY DEF SkipDiscard, From
<1> QED
  BY <1>1, <1>2, <1>3

\* The facts about constants and types that most steps need.
LEMMA Types ==
  ASSUME TypeOK
  PROVE  /\ NumPackets \in Nat /\ NumPackets > 0
         /\ MaxLoss \in Nat /\ MaxSpurious \in Nat
         /\ expected \in 0 .. NumPackets /\ sndUna \in 0 .. NumPackets
         /\ sndNxt \in 0 .. NumPackets /\ highestAck \in 0 .. NumPackets
         /\ recoverySeq \in 0 .. NumPackets
         /\ maxSeq \in 0 .. NumPackets - 1
         /\ ahead \subseteq Seqs /\ sacked \subseteq Seqs /\ rcvd \subseteq Seqs
         /\ data \in Seq(Seqs) /\ control \in Seq(Reply)
         /\ Range(data) \subseteq Seqs /\ Range(control) \subseteq Reply
<1>1. /\ NumPackets \in Nat /\ NumPackets > 0
      /\ MaxLoss \in Nat /\ MaxSpurious \in Nat
  BY IrnAssumption
<1> QED
  BY <1>1, ElementsTyped DEF TypeOK, Seqs

-----------------------------------------------------------------------------
(* The invariant.                                                          *)

LEMMA IrnInvInit == Init => IrnInv
<1> SUFFICES ASSUME Init PROVE IrnInv
  OBVIOUS
<1>1. NumPackets \in Nat /\ NumPackets > 0 /\ MaxLoss \in Nat /\ MaxSpurious \in Nat
  BY IrnAssumption
<1>2. /\ expected = 0 /\ sndUna = 0 /\ sndNxt = 0 /\ highestAck = 0 /\ maxSeq = 0
      /\ recoverySeq = 0 /\ losses = 0 /\ spurious = 0
      /\ ahead = {} /\ sacked = {} /\ rcvd = {} /\ data = <<>> /\ control = <<>>
  BY DEF Init
<1>3. /\ nackHeld = FALSE /\ recovery = FALSE /\ rtoTimer = FALSE /\ complete = FALSE
  BY Zenon DEF Init
<1>4. Range(data) = {} /\ Range(control) = {}
  BY <1>2 DEF Range
<1>5. /\ {expected, sndUna, sndNxt, highestAck, recoverySeq} \subseteq 0 .. NumPackets
      /\ {ahead, sacked, rcvd} \subseteq SUBSET Seqs
      /\ maxSeq \in Seqs /\ data \in Seq(Seqs) /\ control \in Seq(Reply)
      /\ losses \in 0 .. MaxLoss /\ spurious \in 0 .. MaxSpurious
  BY <1>1, <1>2 DEF Seqs
<1>6. {nackHeld, recovery, rtoTimer, complete} \subseteq BOOLEAN
  BY <1>3, Zenon
<1>7. TypeOK
  BY <1>5, <1>6, Zenon DEF TypeOK
<1>8. AheadOfGap /\ SackSound /\ sndUna <= expected /\ sndUna # NumPackets
      /\ sndUna <= sndNxt /\ ~ (sndUna < sndNxt)
  BY <1>1, <1>2 DEF AheadOfGap, SackSound
<1>9. RtoArmed /\ complete = (sndUna = NumPackets)
  BY <1>3, <1>8, Zenon DEF RtoArmed
<1>10. DataSent /\ RepliesSound /\ AcksMissing
  BY <1>2, <1>4 DEF DataSent, RepliesSound, AcksMissing
<1> QED
  BY <1>7, <1>8, <1>9, <1>10, Zenon DEF IrnInv

LEMMA SendInv ==
  ASSUME IrnInv, Send
  PROVE  IrnInv'
<1> DEFINE seq == Skip(sndNxt, sacked)
<1>1. TypeOK /\ AheadOfGap /\ SackSound /\ RtoArmed /\ DataSent /\ RepliesSound
      /\ AcksMissing /\ sndUna <= expected /\ complete = (sndUna = NumPackets)
  BY Zenon DEF IrnInv
<1>2. /\ seq < NumPackets /\ data' = Append(data, seq) /\ sndNxt' = seq + 1
      /\ sacked' = SkipDiscard(sndNxt, sacked) /\ maxSeq' = Larger(maxSeq, seq)
      /\ UNCHANGED <<expected, ahead, nackHeld, rcvd, sndUna, highestAck, recovery,
                     recoverySeq, complete, control, losses, spurious>>
  BY DEF Send, CanSend, receiverVars
<1>3. rtoTimer' = TRUE
  BY Zenon DEF Send
<1>4. seq \in sndNxt .. NumPackets /\ sacked' \subseteq sacked
  BY <1>1, <1>2, Types, SkipProperties
<1> HIDE DEF seq
<1>5. seq \in Seqs /\ sndNxt' \in 0 .. NumPackets /\ sndUna <= sndNxt'
      /\ maxSeq' \in Seqs /\ maxSeq <= maxSeq' /\ seq <= maxSeq'
  BY <1>1, <1>2, <1>4, Types DEF Seqs, Larger, RtoArmed
<1>6. data' \in Seq(Seqs) /\ Range(data') = Range(data) \union {seq}
  BY <1>1, <1>2, <1>5, Types, ElementsAppended
<1>7. TypeOK'
  BY <1>1, <1>2, <1>3, <1>4, <1>5, <1>6 DEF TypeOK
<1>8. AheadOfGap'
  BY <1>1, <1>2, <1>5, Types DEF AheadOfGap, Seqs
<1>9. SackSound'
  <2>1. sndUna + 1 .. maxSeq \subseteq sndUna + 1 .. maxSeq'
    BY <1>1, <1>5, Types DEF Seqs
  <2> QED
    BY <1>1, <1>2, <1>4, <2>1 DEF SackSound
<1>10. RtoArmed'
  BY <1>2, <1>3, <1>5 DEF RtoArmed
<1>11. DataSent'
  <2>1. 0 .. maxSeq \subseteq 0 .. maxSeq' /\ seq \in 0 .. maxSeq'
    BY <1>1, <1>5, Types DEF Seqs
  <2>2. Range(data') \subseteq 0 .. maxSeq'
    BY <1>1, <1>6, <2>1 DEF DataSent
  <2>3. expected \in Nat /\ maxSeq \in Nat /\ maxSeq' \in Nat /\ maxSeq <= maxSeq'
    BY <1>1, <1>5, Types DEF Seqs
  <2>4. expected <= maxSeq + 1
    BY <1>1 DEF DataSent
  <2>5. expected <= maxSeq' + 1
    BY <2>3, <2>4, SuccessorBound
  <2> QED
    BY <1>2, <2>2, <2>5 DEF DataSent
<1>12. RepliesSound' /\ AcksMissing'
  BY <1>1, <1>2, <1>4 DEF RepliesSound, AcksMissing
<1> QED
  BY <1>1, <1>2, <1>7, <1>8, <1>9, <1>10, <1>11, <1>12 DEF IrnInv

\* The steps that move snd_nxt, or a flag, and leave both channels alone.
LEMMA QuietStepsInv ==
  ASSUME IrnInv,
         UNCHANGED <<expected, ahead, rcvd, sndUna, highestAck, maxSeq, complete,
                     recoverySeq, data, control, losses>>,
         sndNxt' \in 0 .. NumPackets, sacked' \subseteq sacked,
         {nackHeld', recovery', rtoTimer'} \subseteq BOOLEAN,
         spurious' \in 0 .. MaxSpurious, RtoArmed'
  PROVE  IrnInv'
<1>1. TypeOK /\ AheadOfGap /\ SackSound /\ DataSent /\ RepliesSound
      /\ AcksMissing /\ sndUna <= expected /\ complete = (sndUna = NumPackets)
  BY Zenon DEF IrnInv
<1>2. TypeOK'
  BY <1>1 DEF TypeOK
<1>3. AheadOfGap' /\ SackSound' /\ DataSent' /\ RepliesSound' /\ AcksMissing'
  BY <1>1 DEF AheadOfGap, SackSound, DataSent, RepliesSound, AcksMissing
<1> QED
  BY <1>1, <1>2, <1>3 DEF IrnInv

LEMMA PollInv ==
  ASSUME IrnInv, Poll
  PROVE  IrnInv'
<1>1. TypeOK /\ SackSound /\ RtoArmed
  BY Zenon DEF IrnInv
<1>2. /\ sndNxt' = Skip(sndNxt, sacked) /\ sacked' = SkipDiscard(sndNxt, sacked)
      /\ sndNxt \in sacked
      /\ UNCHANGED <<expected, ahead, nackHeld, rcvd, sndUna, highestAck, maxSeq,
                     recovery, recoverySeq, rtoTimer, complete, data, control,
                     losses, spurious>>
  BY DEF Poll, FrontAt, receiverVars
<1>3. sndNxt' \in sndNxt .. NumPackets /\ sacked' \subseteq sacked
  BY <1>1, <1>2, Types, SkipProperties
<1>4. sndUna < sndNxt /\ sndUna' <= sndNxt' /\ sndNxt' \in 0 .. NumPackets
  BY <1>1, <1>2, <1>3, Types DEF SackSound
<1>5. RtoArmed'
  <2>1. ~ complete => rtoTimer
    BY <1>1, <1>4 DEF RtoArmed
  <2> QED
    BY <1>2, <1>4, <2>1 DEF RtoArmed
<1>6. {nackHeld', recovery', rtoTimer'} \subseteq BOOLEAN /\ spurious' \in 0 .. MaxSpurious
  BY <1>1, <1>2 DEF TypeOK
<1> QED
  BY <1>2, <1>3, <1>4, <1>5, <1>6, QuietStepsInv

LEMMA TimerStepsInv ==
  ASSUME IrnInv, NackIntervalOver \/ Rto
  PROVE  IrnInv'
<1>1. TypeOK /\ SackSound /\ RtoArmed
  BY Zenon DEF IrnInv
<1>2. CASE NackIntervalOver
  <2>1. /\ nackHeld' = FALSE
        /\ UNCHANGED <<expected, ahead, rcvd, sndUna, sndNxt, sacked, highestAck, maxSeq,
                       recovery, recoverySeq, rtoTimer, complete, data, control,
                       losses, spurious>>
    BY <1>2 DEF NackIntervalOver, senderVars
  <2>2. {nackHeld', recovery', rtoTimer'} \subseteq BOOLEAN
        /\ spurious' \in 0 .. MaxSpurious /\ sndNxt' \in 0 .. NumPackets
    BY <1>1, <2>1 DEF TypeOK
  <2>3. RtoArmed'
    BY <1>1, <2>1 DEF RtoArmed
  <2> QED
    BY <2>1, <2>2, <2>3, QuietStepsInv
<1>3. CASE Rto
  <2>1. /\ UNCHANGED <<receiverVars, sndUna, highestAck, maxSeq, recoverySeq,
                       complete, data, control, losses>>
        /\ sndNxt' = sndUna /\ sacked' = SkipDiscard(sndNxt, sacked)
    BY <1>3 DEF Rto
  <2>2. UNCHANGED <<expected, ahead, nackHeld, rcvd>>
    BY <2>1 DEF receiverVars
  <2>3. rtoTimer' = FALSE /\ recovery' = TRUE
    BY <1>3, Zenon DEF Rto
  <2>4. spurious' \in 0 .. MaxSpurious
    <3>1. spurious' = spurious \/ (spurious < MaxSpurious /\ spurious' = spurious + 1)
      BY <1>3 DEF Rto
    <3>2. spurious \in 0 .. MaxSpurious /\ MaxSpurious \in Nat
      BY <1>1, Types DEF TypeOK
    <3> QED
      BY <3>1, <3>2
  <2>5. sacked' \subseteq sacked /\ sndNxt' \in 0 .. NumPackets
    BY <1>1, <2>1, Types, SkipProperties
  <2>6. RtoArmed'
    <3>1. sndUna' <= sndNxt' /\ ~ (sndUna' < sndNxt')
      BY <1>1, <2>1, Types
    <3> QED
      BY <3>1, Zenon DEF RtoArmed
  <2>7. {nackHeld', recovery', rtoTimer'} \subseteq BOOLEAN
    BY <1>1, <2>2, <2>3 DEF TypeOK
  <2> QED
    BY <2>1, <2>2, <2>4, <2>5, <2>6, <2>7, QuietStepsInv
<1> QED
  BY <1>2, <1>3

\* A reply moves snd_una to the larger of itself and the acknowledgement: no
\* SACKed block starts there.
LEMMA GetReplyInv ==
  ASSUME IrnInv, NEW k \in DOMAIN control, GetReply(k)
  PROVE  IrnInv'
<1> DEFINE reply  == control[k]
           isSack == reply.sack # NoSeq
           una    == Larger(sndUna, reply.seq)
           marked == IF isSack THEN sacked \union {reply.sack} ELSE sacked
           kept   == From(una, marked)
           moved  == Larger(sndNxt, una)
           nxt    == Skip(moved, kept)
<1>1. TypeOK /\ AheadOfGap /\ SackSound /\ RtoArmed /\ DataSent /\ RepliesSound
      /\ AcksMissing /\ sndUna <= expected /\ complete = (sndUna = NumPackets)
  BY Zenon DEF IrnInv
<1>2. reply \in Range(control) /\ reply \in Reply
  BY <1>1, Types DEF Range
<1>3. reply.seq \in 0 .. NumPackets /\ reply.sack \in Seqs \union {NoSeq}
      /\ reply.seq <= expected /\ (isSack => reply.sack \in rcvd)
      /\ reply.seq \notin sacked
      /\ (reply.sack >= reply.seq => reply.sack # sndUna /\ reply.seq # reply.sack)
  BY <1>1, <1>2 DEF Reply, RepliesSound, AcksMissing
<1> HIDE DEF reply
<1>4. una \in 0 .. NumPackets /\ sndUna <= una /\ reply.seq <= una /\ una <= expected
      /\ una \in {sndUna, reply.seq}
  BY <1>1, <1>3, Types DEF Larger
<1>5. marked \subseteq Seqs /\ marked \subseteq rcvd
      /\ marked \subseteq sacked \union {reply.sack}
  BY <1>1, <1>3, Types DEF SackSound
<1>6. una \notin marked
  <2>1. una \notin sacked
    BY <1>1, <1>3, <1>4, Types DEF SackSound, Seqs
  <2>2. isSack => una # reply.sack
    BY <1>1, <1>3, <1>4, Types DEF Seqs, NoSeq
  <2> QED
    BY <2>1, <2>2
<1>7. sndUna' = una
  <2>1. Skip(una, marked) = una
    BY <1>4, <1>5, <1>6, SkipProperties
  <2>2. sndUna' = Skip(una, marked)
    BY DEF GetReply, reply
  <2> QED
    BY <2>1, <2>2
<1>8. kept \subseteq marked /\ kept \subseteq una + 1 .. NumPackets
  <2>1. kept \subseteq marked
    BY DEF From
  <2>2. ASSUME NEW x \in kept PROVE x \in una + 1 .. NumPackets
    <3>1. x \in marked /\ x >= una
      BY DEF From
    <3> HIDE DEF una, marked
    <3>2. x \in 0 .. NumPackets - 1 /\ x # una
      BY <1>5, <1>6, <3>1 DEF Seqs
    <3> QED
      BY <1>1, <1>4, <3>1, <3>2, Types
  <2> QED
    BY <2>1, <2>2
<1>9. /\ highestAck' = Larger(highestAck, reply.seq)
      /\ sacked' = SkipDiscard(moved, kept)
      /\ complete' = (sndUna' >= NumPackets)
      /\ rtoTimer' = (~ complete' /\ (rtoTimer \/ nxt > sndUna'))
      /\ Recover(isSack, nxt)
      /\ control' = RemoveAt(control, k)
      /\ UNCHANGED <<receiverVars, maxSeq, data, losses, spurious>>
  BY <1>7, Zenon DEF GetReply, reply
<1>10. UNCHANGED <<expected, ahead, nackHeld, rcvd, maxSeq, data, losses, spurious>>
  BY <1>9 DEF receiverVars
<1>11. moved \in 0 .. NumPackets /\ una <= moved
  BY <1>1, <1>4, Types DEF Larger
<1>12. kept \subseteq Seqs
  BY <1>5, <1>8
<1> HIDE DEF una, marked, kept, moved
<1>13. nxt \in moved .. NumPackets /\ sacked' \subseteq kept
  BY <1>9, <1>11, <1>12, SkipProperties
<1> HIDE DEF nxt, isSack
<1>14. sndNxt' \in {nxt, una} /\ recoverySeq' \in {recoverySeq, nxt}
  BY <1>7, <1>9 DEF Recover
<1>15. recovery' \in BOOLEAN
  <2>1. recovery' \in {TRUE, FALSE, recovery}
    BY <1>9 DEF Recover
  <2> QED
    BY <1>1, <2>1 DEF TypeOK
<1>16. sndNxt' \in 0 .. NumPackets /\ recoverySeq' \in 0 .. NumPackets
       /\ una <= sndNxt' /\ (una < sndNxt' => una < nxt)
  <2>1. NumPackets \in Nat /\ recoverySeq \in 0 .. NumPackets
    BY <1>1, Types
  <2>2. una \in 0 .. NumPackets /\ moved \in 0 .. NumPackets /\ una <= moved
    BY <1>4, <1>11
  <2>3. nxt \in 0 .. NumPackets /\ una <= nxt
    BY <1>13, <2>1, <2>2
  <2> QED
    BY <1>14, <2>1, <2>2, <2>3
<1>17. complete' = (sndUna' = NumPackets)
  BY <1>1, <1>4, <1>7, <1>9, Types
<1>18. RtoArmed'
  <2>1. ASSUME ~ complete', sndUna' < sndNxt' PROVE rtoTimer'
    <3>1. nxt > sndUna'
      BY <1>4, <1>7, <1>11, <1>13, <1>16, <2>1, Types, <1>1
    <3> QED
      BY <1>9, <2>1, <3>1, Zenon
  <2> QED
    BY <1>7, <1>16, <2>1 DEF RtoArmed
<1>19. control' \in Seq(Reply) /\ Range(control') \subseteq Range(control)
  BY <1>1, <1>9, Types, ElementsRemoved
<1>20. highestAck' = una
  BY <1>1, <1>9 DEF SackSound, una
<1>21. TypeOK'
  <2>1. rtoTimer' \in BOOLEAN /\ complete' \in BOOLEAN
    BY <1>9, <1>17, Zenon
  <2>2. {expected', sndUna', sndNxt', highestAck', recoverySeq'} \subseteq 0 .. NumPackets
    BY <1>1, <1>4, <1>7, <1>10, <1>16, <1>20, Types
  <2>3. {ahead', sacked', rcvd'} \subseteq SUBSET Seqs
    BY <1>1, <1>10, <1>12, <1>13, Types
  <2> QED
    BY <1>1, <1>10, <1>15, <1>19, <2>1, <2>2, <2>3 DEF TypeOK
<1>22. AheadOfGap' /\ DataSent'
  BY <1>1, <1>10 DEF AheadOfGap, DataSent
<1>23. SackSound'
  <2>1. rcvd \subseteq 0 .. maxSeq
    BY <1>1, Types DEF AheadOfGap, DataSent, Seqs
  <2>2. sacked' \subseteq rcvd /\ sacked' \subseteq una + 1 .. NumPackets
    BY <1>5, <1>8, <1>13
  <2>3. sacked' \subseteq una + 1 .. maxSeq
    BY <1>1, <1>4, <2>1, <2>2, Types
  <2> QED
    BY <1>7, <1>10, <1>20, <2>2, <2>3 DEF SackSound
<1>24. RepliesSound'
  BY <1>1, <1>10, <1>19 DEF RepliesSound
<1>25. AcksMissing'
  <2>1. ASSUME NEW r \in Range(control')
        PROVE  /\ r.seq \notin sacked'
               /\ r.sack >= r.seq =>
                    r.sack # sndUna' /\ \A q \in Range(control') : q.seq # r.sack
    <3>1. r \in Range(control) /\ r \in Reply
      BY <1>1, <1>19, <2>1, Types
    <3>2. r.seq \notin sacked'
      <4>1. r.seq \notin sacked
        BY <1>1, <3>1 DEF AcksMissing
      <4>2. CASE reply.sack \in sacked'
        <5>1. reply.sack \in una + 1 .. NumPackets
          BY <1>8, <1>13, <4>2
        <5>2. reply.sack >= reply.seq
          BY <1>3, <1>4, <5>1
        <5> QED
          BY <1>1, <1>2, <1>5, <1>8, <1>13, <3>1, <4>1, <5>2 DEF AcksMissing
      <4>3. CASE reply.sack \notin sacked'
        BY <1>5, <1>8, <1>13, <4>1, <4>3
      <4> QED
        BY <4>2, <4>3
    <3>3. ASSUME r.sack >= r.seq
          PROVE  r.sack # sndUna' /\ \A q \in Range(control') : q.seq # r.sack
      BY <1>1, <1>2, <1>4, <1>7, <1>19, <3>1, <3>3 DEF AcksMissing
    <3> QED
      BY <3>2, <3>3
  <2> QED
    BY <2>1 DEF AcksMissing
<1> QED
  BY <1>4, <1>7, <1>10, <1>17, <1>18, <1>21, <1>22, <1>23, <1>24, <1>25, Zenon DEF IrnInv

\* What a packet does to the receiver: the lower bound and the list stay
\* exactly what arrived.
LEMMA ReceiverEffect ==
  ASSUME IrnInv, NEW seq \in Seqs, seq <= maxSeq, ReceiveUdp(seq), maxSeq' = maxSeq
  PROVE  /\ expected' \in expected .. NumPackets /\ expected' <= maxSeq + 1
         /\ ahead' \subseteq Seqs
         /\ nackHeld' \in BOOLEAN
         /\ rcvd' = rcvd \union {seq}
         /\ AheadOfGap'
<1>1. TypeOK /\ AheadOfGap /\ expected <= maxSeq + 1
  BY Zenon DEF IrnInv, DataSent
<1>2. /\ NumPackets \in Nat /\ expected \in 0 .. NumPackets
      /\ seq \in 0 .. NumPackets - 1 /\ maxSeq \in 0 .. NumPackets - 1
      /\ ahead \subseteq Seqs /\ nackHeld \in BOOLEAN
      /\ rcvd = (0 .. expected - 1) \union ahead
      /\ ahead \subseteq expected + 1 .. maxSeq
      /\ expected <= maxSeq + 1
  BY <1>1, Types DEF AheadOfGap, TypeOK, Seqs
<1>3. CASE InOrder(seq)
  <2> DEFINE e == BlockEnd(seq, ahead \union {seq})
  <2>1. /\ seq = expected /\ expected' = e /\ ahead' = From(e, ahead)
        /\ rcvd' = rcvd \union {seq} /\ nackHeld' = nackHeld
    BY <1>3 DEF InOrder
  <2>2. /\ e \in seq .. NumPackets /\ seq .. e - 1 \subseteq ahead \union {seq}
        /\ e \notin ahead \union {seq}
    <3>1. ahead \union {seq} \subseteq Seqs /\ seq \in 0 .. NumPackets
      BY <1>2
    <3> QED
      BY <3>1, BlockEndProperties
  <2> HIDE DEF e
  <2>3. e \in expected + 1 .. NumPackets /\ e - 1 \in ahead \union {seq}
    BY <1>2, <2>1, <2>2
  <2>4. e <= maxSeq + 1
    BY <1>2, <2>3
  <2>5. ahead' \subseteq e + 1 .. maxSeq /\ ahead' \subseteq ahead
    <3>1. ahead' \subseteq ahead
      BY <2>1 DEF From
    <3>2. ASSUME NEW x \in ahead' PROVE x \in e + 1 .. maxSeq
      <4>1. x \in ahead /\ x >= e /\ x # e
        BY <2>1, <2>2 DEF From
      <4>2. x \in expected + 1 .. maxSeq
        BY <1>2, <4>1
      <4> QED
        BY <1>2, <2>3, <4>1, <4>2
    <3> QED
      BY <3>1, <3>2
  <2>6. (0 .. expected - 1) \union ahead \union {expected}
          = (0 .. e - 1) \union From(e, ahead)
    <3>1. ASSUME NEW x \in (0 .. expected - 1) \union ahead \union {expected}
          PROVE  x \in (0 .. e - 1) \union From(e, ahead)
      BY <1>2, <2>3 DEF From, Seqs
    <3>2. ASSUME NEW x \in (0 .. e - 1) \union From(e, ahead)
          PROVE  x \in (0 .. expected - 1) \union ahead \union {expected}
      <4>1. CASE x \in From(e, ahead)
        BY <4>1 DEF From
      <4>2. CASE x \in 0 .. e - 1
        <5>1. x \in 0 .. expected - 1 \/ x \in seq .. e - 1
          BY <1>2, <2>1, <2>3, <4>2
        <5> QED
          BY <2>1, <2>2, <5>1
      <4> QED
        BY <3>2, <4>1, <4>2
    <3> QED
      BY <3>1, <3>2
  <2>7. AheadOfGap'
    BY <1>2, <2>1, <2>5, <2>6 DEF AheadOfGap
  <2> QED
    BY <1>2, <2>1, <2>3, <2>4, <2>5, <2>7
<1>4. CASE Duplicate(seq)
  <2>1. seq < expected /\ UNCHANGED <<expected, ahead, nackHeld, rcvd>>
    BY <1>4 DEF Duplicate, receiverVars
  <2>2. seq \in rcvd
    BY <1>2, <2>1
  <2> QED
    BY <1>1, <1>2, <2>1, <2>2 DEF AheadOfGap
<1>5. CASE Gap(seq)
  <2>1. /\ seq > expected /\ ahead' = ahead \union {seq} /\ rcvd' = rcvd \union {seq}
        /\ expected' = expected
    BY <1>5 DEF Gap
  <2>2. nackHeld' \in BOOLEAN
    BY <1>5 DEF Gap
  <2>3. AheadOfGap'
    BY <1>2, <2>1 DEF AheadOfGap
  <2> QED
    BY <1>2, <2>1, <2>2, <2>3
<1>6. CASE HeldGap(seq)
  <2>1. seq \in ahead /\ UNCHANGED <<expected, ahead, nackHeld, rcvd>>
    BY <1>6 DEF HeldGap, receiverVars
  <2> QED
    BY <1>1, <1>2, <2>1 DEF AheadOfGap
<1> QED
  BY <1>3, <1>4, <1>5, <1>6 DEF ReceiveUdp

\* And to the replies: one more at most, which acknowledges the lower bound;
\* a SACK above it names the packet just received, above every other reply.
LEMMA ReplyEffect ==
  ASSUME IrnInv, NEW seq \in Seqs, ReceiveUdp(seq), expected' \in expected .. NumPackets
  PROVE  \/ control' = control
         \/ \E sack \in Seqs \union {NoSeq} :
              /\ control' = Append(control, [seq |-> expected', sack |-> sack])
              /\ sack \in {NoSeq, seq}
              /\ sack >= expected' => sack > expected
<1>1. TypeOK
  BY Zenon DEF IrnInv
<1>2. expected \in Nat /\ seq \in Nat /\ expected' \in Nat /\ expected <= expected'
  BY <1>1, Types DEF Seqs
<1>3. CASE InOrder(seq) \/ Duplicate(seq)
  <2>1. seq <= expected /\ AnswerInOrder(seq)
    BY <1>2, <1>3 DEF InOrder, Duplicate
  <2>2. seq < expected'
    <3>1. CASE Duplicate(seq)
      BY <1>2, <3>1 DEF Duplicate
    <3>2. CASE InOrder(seq)
      <4> DEFINE S == ahead \union {seq}
      <4>1. S \subseteq Seqs /\ seq \in 0 .. NumPackets
        BY <1>1, Types DEF Seqs
      <4>2. expected' = BlockEnd(seq, S)
        BY <3>2 DEF InOrder
      <4>3. expected' # seq
        BY <4>1, <4>2, BlockEndProperties
      <4>4. expected' \in seq .. NumPackets
        BY <4>1, <4>2, BlockEndProperties
      <4> QED
        BY <1>2, <4>3, <4>4
    <3> QED
      BY <1>3, <3>1, <3>2
  <2>3. PICK sack \in {NoSeq, seq} :
          control' = Append(control, [seq |-> expected', sack |-> sack])
    BY <2>1 DEF AnswerInOrder, Answer
  <2>4. ~ (sack >= expected')
    BY <1>2, <2>2, <2>3 DEF NoSeq
  <2> QED
    BY <2>3, <2>4
<1>4. CASE Gap(seq)
  BY <1>2, <1>4 DEF Gap, Answer
<1>5. CASE HeldGap(seq)
  <2>1. control' = control \/ control' = Append(control, [seq |-> expected', sack |-> NoSeq])
    BY <1>5 DEF HeldGap, Answer
  <2>2. ~ (NoSeq >= expected')
    BY <1>2 DEF NoSeq
  <2> QED
    BY <2>1, <2>2
<1> QED
  BY <1>3, <1>4, <1>5 DEF ReceiveUdp

LEMMA DeliverInv ==
  ASSUME IrnInv, NEW k \in DOMAIN data, Deliver(k)
  PROVE  IrnInv'
<1> DEFINE seq == data[k]
<1>1. TypeOK /\ AheadOfGap /\ SackSound /\ RtoArmed /\ DataSent /\ RepliesSound
      /\ AcksMissing /\ sndUna <= expected /\ complete = (sndUna = NumPackets)
  BY Zenon DEF IrnInv
<1>2. /\ ReceiveUdp(seq) /\ data' = RemoveAt(data, k)
      /\ UNCHANGED <<sndUna, sndNxt, sacked, highestAck, maxSeq, recovery,
                     recoverySeq, rtoTimer, complete, losses, spurious>>
  BY DEF Deliver, senderVars
<1>3. seq \in Seqs /\ seq \in Range(data) /\ seq <= maxSeq
  BY <1>1, Types DEF Range, DataSent
<1>4. data' \in Seq(Seqs) /\ Range(data') \subseteq Range(data)
  BY <1>1, <1>2, Types, ElementsRemoved
<1> HIDE DEF seq
<1>5. /\ expected' \in expected .. NumPackets /\ expected' <= maxSeq + 1
      /\ ahead' \subseteq Seqs /\ nackHeld' \in BOOLEAN
      /\ rcvd' = rcvd \union {seq} /\ AheadOfGap'
  BY <1>2, <1>3, ReceiverEffect
<1>6. expected \in 0 .. NumPackets /\ expected' \in 0 .. NumPackets
      /\ expected <= expected' /\ rcvd' \subseteq Seqs
      /\ NumPackets \in Nat /\ maxSeq \in 0 .. NumPackets - 1
      /\ sndUna \in 0 .. NumPackets
  BY <1>1, <1>3, <1>5, Types
<1>7. expected' \notin rcvd'
  <2>1. rcvd' = (0 .. expected' - 1) \union ahead' /\ ahead' \subseteq expected' + 1 .. maxSeq
    BY <1>2, <1>5 DEF AheadOfGap
  <2>2. expected' \notin 0 .. expected' - 1 /\ expected' \notin expected' + 1 .. maxSeq
    <3>1. expected' \in Int /\ maxSeq \in Int
      BY <1>6
    <3> QED
      BY <3>1, PrefixBounds
  <2> QED
    BY <2>1, <2>2
<1>8. PICK extra \in SUBSET Reply :
        /\ control' \in Seq(Reply)
        /\ Range(control') = Range(control) \union extra
        /\ \A r \in extra :
             /\ r.seq = expected'
             /\ r.sack \in {NoSeq, seq}
             /\ r.sack >= expected' => r.sack > expected
  <2>1. CASE control' = control
    <3> WITNESS {} \in SUBSET Reply
    <3> QED
      BY <1>1, <2>1, Types
  <2>2. ASSUME NEW sack \in Seqs \union {NoSeq},
               control' = Append(control, [seq |-> expected', sack |-> sack]),
               sack \in {NoSeq, seq}, sack >= expected' => sack > expected
        PROVE  \E extra \in SUBSET Reply :
                 /\ control' \in Seq(Reply)
                 /\ Range(control') = Range(control) \union extra
                 /\ \A r \in extra :
                      /\ r.seq = expected'
                      /\ r.sack \in {NoSeq, seq}
                      /\ r.sack >= expected' => r.sack > expected
    <3> DEFINE new == [seq |-> expected', sack |-> sack]
    <3>1. new \in Reply /\ new.seq = expected' /\ new.sack = sack
      BY <1>6 DEF Reply
    <3>2. control' = Append(control, new)
      BY <2>2
    <3> HIDE DEF new
    <3>3. control' \in Seq(Reply) /\ Range(control') = Range(control) \union {new}
      BY <1>1, <3>1, <3>2, Types, ElementsAppended
    <3>4. {new} \in SUBSET Reply
      BY <3>1
    <3> WITNESS {new} \in SUBSET Reply
    <3> QED
      BY <2>2, <3>1, <3>3
  <2> QED
    BY <1>2, <1>3, <1>5, <2>1, <2>2, ReplyEffect
<1>9. TypeOK'
  BY <1>1, <1>2, <1>4, <1>5, <1>6, <1>8 DEF TypeOK
<1>10. SackSound' /\ RtoArmed'
  BY <1>1, <1>2, <1>5 DEF SackSound, RtoArmed
<1>11. DataSent'
  BY <1>1, <1>2, <1>4, <1>5 DEF DataSent
<1>12. RepliesSound'
  <2>1. ASSUME NEW r \in Range(control)
        PROVE  r.seq <= expected' /\ (r.sack # NoSeq => r.sack \in rcvd')
    <3>1. r \in Reply /\ r.seq <= expected /\ (r.sack # NoSeq => r.sack \in rcvd)
      BY <1>1, Types DEF RepliesSound
    <3> QED
      BY <1>5, <1>6, <3>1 DEF Reply
  <2>2. ASSUME NEW r \in extra
        PROVE  r.seq <= expected' /\ (r.sack # NoSeq => r.sack \in rcvd')
    BY <1>5, <1>6, <1>8
  <2> QED
    BY <1>8, <2>1, <2>2 DEF RepliesSound
<1>13. AcksMissing'
  <2>1. \A r \in Range(control) :
          r \in Reply /\ r.seq \in 0 .. NumPackets /\ r.seq <= expected
    BY <1>1, Types DEF RepliesSound, Reply
  <2>2. \A s \in sacked : s \in rcvd'
    BY <1>1, <1>5 DEF SackSound
  <2>3. ASSUME NEW r \in Range(control)
        PROVE  /\ r.seq \notin sacked'
               /\ r.sack >= r.seq =>
                    r.sack # sndUna' /\ \A q \in Range(control') : q.seq # r.sack
    <3>1. r.seq \notin sacked'
      BY <1>1, <1>2 DEF AcksMissing
    <3>2. ASSUME r.sack >= r.seq
          PROVE  r.sack # sndUna' /\ \A q \in Range(control') : q.seq # r.sack
      <4>1. r.sack # sndUna' /\ \A q \in Range(control) : q.seq # r.sack
        BY <1>1, <1>2, <3>2 DEF AcksMissing
      <4>2. r.sack # NoSeq
        BY <1>6, <2>1, <3>2 DEF NoSeq
      <4>3. r.sack \in rcvd'
        BY <1>1, <1>5, <4>2 DEF RepliesSound
      <4>4. \A q \in extra : q.seq # r.sack
        BY <1>7, <1>8, <4>3
      <4> QED
        BY <1>8, <4>1, <4>4
    <3> QED
      BY <3>1, <3>2
  <2>4. ASSUME NEW r \in extra
        PROVE  /\ r.seq \notin sacked'
               /\ r.sack >= r.seq =>
                    r.sack # sndUna' /\ \A q \in Range(control') : q.seq # r.sack
    <3>1. r.seq = expected' /\ (r.sack >= expected' => r.sack > expected)
          /\ r.sack \in {NoSeq, seq}
      BY <1>8
    <3>2. r.seq \notin sacked'
      BY <1>2, <1>7, <2>2, <3>1
    <3>3. ASSUME r.sack >= r.seq
          PROVE  r.sack # sndUna' /\ \A q \in Range(control') : q.seq # r.sack
      <4>1. r.sack > expected /\ r.sack \in Nat
        BY <1>3, <1>6, <3>1, <3>3 DEF NoSeq, Seqs
      <4>2. r.sack # sndUna'
        BY <1>1, <1>2, <1>6, <4>1
      <4>3. \A q \in Range(control) : q.seq # r.sack
        BY <1>6, <2>1, <4>1
      <4>4. r.sack \in rcvd'
        BY <1>5, <3>1, <4>1 DEF NoSeq
      <4>5. \A q \in extra : q.seq # r.sack
        BY <1>7, <1>8, <4>4
      <4> QED
        BY <1>8, <4>2, <4>3, <4>5
    <3> QED
      BY <3>2, <3>3
  <2> QED
    BY <1>8, <2>3, <2>4 DEF AcksMissing
<1>14. sndUna' <= expected' /\ complete' = (sndUna' = NumPackets)
  BY <1>1, <1>2, <1>6
<1> QED
  BY <1>5, <1>9, <1>10, <1>11, <1>12, <1>13, <1>14, Zenon DEF IrnInv

LEMMA LoseInv ==
  ASSUME IrnInv, Lose
  PROVE  IrnInv'
<1>1. TypeOK /\ AheadOfGap /\ SackSound /\ RtoArmed /\ DataSent /\ RepliesSound
      /\ AcksMissing /\ sndUna <= expected /\ complete = (sndUna = NumPackets)
  BY Zenon DEF IrnInv
<1>2. UNCHANGED <<expected, ahead, nackHeld, rcvd, sndUna, sndNxt, sacked, highestAck,
                  maxSeq, recovery, recoverySeq, rtoTimer, complete, spurious>>
  BY DEF Lose, receiverVars, senderVars
<1>3. losses' \in 0 .. MaxLoss
  BY <1>1, Types DEF Lose, TypeOK
<1>4. /\ data' \in Seq(Seqs) /\ Range(data') \subseteq Range(data)
      /\ control' \in Seq(Reply) /\ Range(control') \subseteq Range(control)
  <2>1. ASSUME NEW k \in DOMAIN data, data' = RemoveAt(data, k), control' = control
        PROVE  <1>4!:
    BY <1>1, <2>1, Types, ElementsRemoved
  <2>2. ASSUME NEW k \in DOMAIN control, control' = RemoveAt(control, k), data' = data
        PROVE  <1>4!:
    BY <1>1, <2>2, Types, ElementsRemoved
  <2> QED
    BY <2>1, <2>2 DEF Lose
<1>5. TypeOK'
  BY <1>1, <1>2, <1>3, <1>4 DEF TypeOK
<1>6. AheadOfGap' /\ SackSound' /\ RtoArmed' /\ DataSent'
  BY <1>1, <1>2, <1>4 DEF AheadOfGap, SackSound, RtoArmed, DataSent
<1>7. RepliesSound' /\ AcksMissing'
  BY <1>1, <1>2, <1>4 DEF RepliesSound, AcksMissing
<1> QED
  BY <1>1, <1>2, <1>5, <1>6, <1>7 DEF IrnInv

LEMMA IrnInvNext == IrnInv /\ [Next]_vars => IrnInv'
<1> SUFFICES ASSUME IrnInv, [Next]_vars PROVE IrnInv'
  OBVIOUS
<1>1. CASE UNCHANGED vars
  BY <1>1 DEF vars, receiverVars, senderVars, IrnInv, TypeOK, AheadOfGap, SackSound,
              RtoArmed, DataSent, RepliesSound, AcksMissing
<1>2. CASE \E k \in DOMAIN control : GetReply(k)
  BY <1>2, GetReplyInv
<1>3. CASE \E k \in DOMAIN data : Deliver(k)
  BY <1>3, DeliverInv
<1> QED
  BY <1>1, <1>2, <1>3, SendInv, PollInv, TimerStepsInv, LoseInv DEF Next, Over

-----------------------------------------------------------------------------
(* The list of blocks of an IrnSackManager.  Its two loops are folds; the  *)
(* function by which a fold is defined exists, and takes its steps one     *)
(* after the other.                                                        *)

\* The step of a fold, by the name of its operator.
Step(op, x, e) == CASE op = "Put" -> Put(x, e) [] op = "Merge" -> Merge(x, e)

\* it is the function by which FoldLeft is defined.
Folded(op, b, s, D, it) ==
  it = [t \in SUBSET D |-> IF t = {} THEN b
                           ELSE Step(op, it[t \ {Max(t)}], s[Max(t)])]

Folding(op, b, s) == CHOOSE it : Folded(op, b, s, DOMAIN s, it)

\* The states of a fold, from the first to the last.
Path(op, b, s, n, tr) ==
  /\ tr[0] = b
  /\ \A k \in 1 .. n : tr[k] = Step(op, tr[k - 1], s[k])

\* A function that folds a sequence exists: by adding the elements one by one.
LEMMA FoldedExists ==
  ASSUME NEW op, NEW b, NEW s, NEW n \in Nat
  PROVE  \E it : Folded(op, b, s, 1 .. n, it)
<1> DEFINE S == {k \in 0 .. n : \E it : Folded(op, b, s, 1 .. k, it)}
<1>1. 0 \in S
  <2> DEFINE it == [t \in SUBSET (1 .. 0) |-> b]
  <2>1. \A t \in SUBSET (1 .. 0) : t = {}
    OBVIOUS
  <2>2. it = [t \in SUBSET (1 .. 0) |->
               IF t = {} THEN b ELSE Step(op, it[t \ {Max(t)}], s[Max(t)])]
    BY <2>1
  <2> HIDE DEF it
  <2>3. Folded(op, b, s, 1 .. 0, it)
    BY <2>2 DEF Folded
  <2> QED
    BY <2>3
<1>2. ASSUME NEW k \in 1 .. n, k - 1 \in S PROVE k \in S
  <2>1. PICK f : Folded(op, b, s, 1 .. k - 1, f)
    BY <1>2
  <2> DEFINE g == [t \in SUBSET (1 .. k) |->
                    IF k \in t THEN Step(op, f[t \ {k}], s[k]) ELSE f[t]]
  <2>2. ASSUME NEW t \in SUBSET (1 .. k)
        PROVE  g[t] = IF t = {} THEN b ELSE Step(op, g[t \ {Max(t)}], s[Max(t)])
    <3>1. CASE k \in t
      <4>1. Max(t) = k
        BY <3>1, Largest
      <4>2. PICK u : u = t \ {k}
        OBVIOUS
      <4>3. u \in SUBSET (1 .. k) /\ k \notin u
        BY <4>2
      <4>4. g[u] = f[u]
        BY <4>3
      <4>5. g[t] = Step(op, f[u], s[k])
        BY <3>1, <4>2
      <4> HIDE DEF g
      <4> QED
        BY <3>1, <4>1, <4>2, <4>4, <4>5
    <3>2. CASE k \notin t
      <4>1. t \in SUBSET (1 .. k - 1)
        BY <3>2
      <4>2. g[t] = f[t]
        BY <3>2
      <4>3. f[t] = IF t = {} THEN b ELSE Step(op, f[t \ {Max(t)}], s[Max(t)])
        BY <2>1, <4>1 DEF Folded
      <4>4. PICK u : u = t \ {Max(t)}
        OBVIOUS
      <4>5. g[u] = f[u]
        BY <3>2, <4>1, <4>4
      <4> HIDE DEF g
      <4> QED
        BY <4>2, <4>3, <4>4, <4>5
    <3> QED
      BY <3>1, <3>2
  <2>3. g = [t \in SUBSET (1 .. k) |->
              IF t = {} THEN b ELSE Step(op, g[t \ {Max(t)}], s[Max(t)])]
    <3> HIDE DEF g
    <3>1. g = [t \in SUBSET (1 .. k) |-> g[t]]
      BY DEF g
    <3> QED
      BY <2>2, <3>1
  <2> HIDE DEF g
  <2>4. Folded(op, b, s, 1 .. k, g)
    BY <2>3 DEF Folded
  <2> QED
    BY <2>4
<1> HIDE DEF S
<1>3. n \in S
  BY <1>1, <1>2, Upwards
<1> QED
  BY <1>3 DEF S

\* A fold over a sequence takes its steps one after the other.
LEMMA FoldedPath ==
  ASSUME NEW op, NEW b, NEW s, NEW n \in Nat, DOMAIN s = 1 .. n
  PROVE  \E tr : Path(op, b, s, n, tr) /\ Folding(op, b, s)[DOMAIN s] = tr[n]
<1>1. PICK it : it = Folding(op, b, s) /\ Folded(op, b, s, 1 .. n, it)
  BY FoldedExists DEF Folding
<1> DEFINE tr == [k \in 0 .. n |-> it[1 .. k]]
<1>2. \A t \in SUBSET (1 .. n) :
        it[t] = IF t = {} THEN b ELSE Step(op, it[t \ {Max(t)}], s[Max(t)])
  BY <1>1 DEF Folded
<1>3. tr[0] = b
  <2>1. tr[0] = it[1 .. 0] /\ 1 .. 0 = {} /\ {} \in SUBSET (1 .. n)
    OBVIOUS
  <2>2. it[{}] = b
    BY <1>2, <2>1
  <2> HIDE DEF tr
  <2> QED
    BY <2>1, <2>2
<1>4. ASSUME NEW k \in 1 .. n PROVE tr[k] = Step(op, tr[k - 1], s[k])
  <2>1. 1 .. k \in SUBSET (1 .. n) /\ k \in 1 .. k /\ (1 .. k) \ {k} = 1 .. k - 1
    OBVIOUS
  <2>2. Max(1 .. k) = k
    BY Largest
  <2>3. it[1 .. k] = Step(op, it[1 .. k - 1], s[k])
    BY <1>2, <2>1, <2>2
  <2> QED
    BY <2>3
<1>5. tr[n] = it[DOMAIN s]
  OBVIOUS
<1> HIDE DEF tr
<1>6. Path(op, b, s, n, tr)
  BY <1>3, <1>4 DEF Path
<1> QED
  BY <1>1, <1>5, <1>6

\* FoldLeft is the fold whose step has the operator's name.
LEMMA FoldLeftPath ==
  ASSUME NEW b, NEW s, NEW n \in Nat, DOMAIN s = 1 .. n
  PROVE  /\ \E tr : Path("Put", b, s, n, tr) /\ FoldLeft(Put, b, s) = tr[n]
         /\ \E tr : Path("Merge", b, s, n, tr) /\ FoldLeft(Merge, b, s) = tr[n]
<1>1. FoldLeft(Put, b, s) = Folding("Put", b, s)[DOMAIN s]
  BY DEF FoldLeft, MapThenFoldSet, Folding, Folded, Step
<1>2. FoldLeft(Merge, b, s) = Folding("Merge", b, s)[DOMAIN s]
  BY DEF FoldLeft, MapThenFoldSet, Folding, Folded, Step
<1> QED
  BY <1>1, <1>2, FoldedPath

-----------------------------------------------------------------------------
(* Lists of blocks.  Put leaves a loose list, in which blocks may adjoin;  *)
(* Merge makes it normal.                                                  *)

SackBlock == [first : Nat, size : Nat \ {0}]

Loose(l) ==
  /\ l \in Seq(SackBlock)
  /\ \A i, j \in DOMAIN l : i < j => End(l[i]) <= l[j].first

Normal(l) ==
  /\ l \in Seq(SackBlock)
  /\ \A i, j \in DOMAIN l : i < j => End(l[i]) < l[j].first

\* All of l ends by x.
EndsBy(l, x) == \A i \in DOMAIN l : End(l[i]) <= x

CoveredTo(l, k) == UNION {l[i].first .. End(l[i]) - 1 : i \in 1 .. k}

\* What a block is, and what makes one.
LEMMA BlockTyped ==
  /\ \A b \in SackBlock :
       /\ b.first \in Nat /\ End(b) \in Nat /\ b.first < End(b)
       /\ Block(b.first, End(b)) = b
  /\ \A x, y \in Nat : x < y =>
       /\ Block(x, y) \in SackBlock
       /\ Block(x, y).first = x /\ End(Block(x, y)) = y
<1>1. ASSUME NEW b \in SackBlock PROVE Block(b.first, End(b)) = b
  <2>1. b.first \in Nat /\ b.size \in Nat /\ (b.first + b.size) - b.first = b.size
    BY DEF SackBlock
  <2>2. b = [first |-> b.first, size |-> b.size]
    BY DEF SackBlock
  <2> QED
    BY <2>1, <2>2 DEF Block, End
<1>2. ASSUME NEW x \in Nat, NEW y \in Nat, x < y
      PROVE  /\ Block(x, y) \in SackBlock
             /\ Block(x, y).first = x /\ End(Block(x, y)) = y
  BY <1>2 DEF SackBlock, Block, End
<1>3. \A b \in SackBlock : b.first \in Nat /\ End(b) \in Nat /\ b.first < End(b)
  BY DEF SackBlock, End
<1> QED
  BY <1>1, <1>2, <1>3

\* A block behind a loose list.
LEMMA LooseAppended ==
  ASSUME NEW l, Loose(l), NEW b \in SackBlock, EndsBy(l, b.first)
  PROVE  /\ Loose(Append(l, b)) /\ EndsBy(Append(l, b), End(b))
         /\ Covered(Append(l, b)) = Covered(l) \union b.first .. End(b) - 1
<1>1. PICK m : m = Append(l, b)
  OBVIOUS
<1>2. PICK n \in Nat : n = Len(l) /\ DOMAIN l = 1 .. n
  BY DEF Loose
<1>3. m \in Seq(SackBlock) /\ DOMAIN m = 1 .. n + 1
      /\ m[n + 1] = b /\ \A i \in 1 .. n : m[i] = l[i]
  BY <1>1, <1>2 DEF Loose
<1>4. \A i \in 1 .. n : l[i] \in SackBlock /\ End(l[i]) \in Nat /\ End(l[i]) <= b.first
  BY <1>2, BlockTyped DEF Loose, EndsBy
<1>5. b.first \in Nat /\ End(b) \in Nat /\ b.first < End(b)
  BY BlockTyped
<1>6. ASSUME NEW i \in 1 .. n + 1, NEW j \in 1 .. n + 1, i < j
      PROVE  End(m[i]) <= m[j].first
  <2>1. i \in 1 .. n
    BY <1>6
  <2>2. CASE j = n + 1
    BY <1>3, <1>4, <2>1, <2>2
  <2>3. CASE j # n + 1
    BY <1>2, <1>3, <1>6, <2>1, <2>3 DEF Loose
  <2> QED
    BY <2>2, <2>3
<1>7. ASSUME NEW i \in 1 .. n + 1 PROVE End(m[i]) <= End(b)
  <2>1. CASE i = n + 1
    BY <1>3, <1>5, <2>1
  <2>2. CASE i # n + 1
    <3>1. i \in 1 .. n
      BY <2>2
    <3> QED
      BY <1>3, <1>4, <1>5, <3>1
  <2> QED
    BY <2>1, <2>2
<1>8. Covered(m) = Covered(l) \union b.first .. End(b) - 1
  <2>1. 1 .. n + 1 = 1 .. n \union {n + 1}
    OBVIOUS
  <2>2. {m[i].first .. End(m[i]) - 1 : i \in 1 .. n + 1}
          = {l[i].first .. End(l[i]) - 1 : i \in 1 .. n} \union {b.first .. End(b) - 1}
    BY <1>3, <2>1
  <2> QED
    BY <1>2, <1>3, <2>2 DEF Covered
<1> QED
  BY <1>1, <1>3, <1>6, <1>7, <1>8 DEF Loose, EndsBy

\* The first k blocks of a normal list.
LEMMA FirstBlocks ==
  ASSUME NEW l, Normal(l), NEW n \in Nat, DOMAIN l = 1 .. n, NEW k \in 0 .. n
  PROVE  /\ Loose(SubSeq(l, 1, k)) /\ Covered(SubSeq(l, 1, k)) = CoveredTo(l, k)
         /\ k > 0 => EndsBy(SubSeq(l, 1, k), End(l[k]))
         /\ k < n => /\ EndsBy(SubSeq(l, 1, k), l[k + 1].first)
                     /\ SubSeq(l, 1, k + 1) = Append(SubSeq(l, 1, k), l[k + 1])
                     /\ CoveredTo(l, k + 1) =
                          CoveredTo(l, k) \union l[k + 1].first .. End(l[k + 1]) - 1
<1>1. PICK p : p = SubSeq(l, 1, k)
  OBVIOUS
<1>2. Len(l) = n /\ l \in Seq(SackBlock)
  BY DEF Normal
<1>3. p \in Seq(SackBlock) /\ DOMAIN p = 1 .. k /\ Len(p) = k
      /\ \A i \in 1 .. k : p[i] = l[i]
  BY <1>1, <1>2
<1>4. \A i \in 1 .. n : l[i] \in SackBlock /\ l[i].first \in Nat /\ End(l[i]) \in Nat
                        /\ l[i].first < End(l[i])
  BY <1>2, BlockTyped
<1>5. \A i, j \in 1 .. n : i < j => End(l[i]) < l[j].first
  BY DEF Normal
<1>6. \A i, j \in 1 .. n : i <= j => End(l[i]) <= End(l[j])
  <2>1. ASSUME NEW i \in 1 .. n, NEW j \in 1 .. n, i <= j PROVE End(l[i]) <= End(l[j])
    <3>1. CASE i = j
      BY <1>4, <3>1
    <3>2. CASE i < j
      <4>1. End(l[i]) < l[j].first
        BY <1>5, <3>2
      <4> QED
        BY <1>4, <4>1
    <3> QED
      BY <2>1, <3>1, <3>2
  <2> QED
    BY <2>1
<1>7. Loose(p)
  <2>1. \A i, j \in 1 .. k : i < j => End(p[i]) <= p[j].first
    BY <1>3, <1>4, <1>5
  <2> QED
    BY <1>3, <2>1 DEF Loose
<1>8. Covered(p) = CoveredTo(l, k)
  <2>1. {p[i].first .. End(p[i]) - 1 : i \in 1 .. k}
          = {l[i].first .. End(l[i]) - 1 : i \in 1 .. k}
    BY <1>3
  <2> QED
    BY <1>3, <2>1 DEF Covered, CoveredTo
<1>9. k > 0 => EndsBy(p, End(l[k]))
  BY <1>3, <1>6 DEF EndsBy
<1>10. ASSUME k < n
       PROVE  /\ EndsBy(p, l[k + 1].first)
              /\ SubSeq(l, 1, k + 1) = Append(p, l[k + 1])
              /\ CoveredTo(l, k + 1) =
                   CoveredTo(l, k) \union l[k + 1].first .. End(l[k + 1]) - 1
  <2>1. EndsBy(p, l[k + 1].first)
    <3>1. ASSUME NEW i \in 1 .. k PROVE End(p[i]) <= l[k + 1].first
      <4>1. End(l[i]) < l[k + 1].first
        BY <1>5, <1>10
      <4> QED
        BY <1>3, <1>4, <1>10, <4>1
    <3> QED
      BY <1>3, <3>1 DEF EndsBy
  <2>2. SubSeq(l, 1, k + 1) = Append(p, l[k + 1])
    <3>1. PICK q : q = SubSeq(l, 1, k + 1)
      OBVIOUS
    <3>2. q \in Seq(SackBlock) /\ Len(q) = k + 1 /\ \A i \in 1 .. k + 1 : q[i] = l[i]
      BY <1>2, <1>10, <3>1
    <3>3. PICK a : a = Append(p, l[k + 1])
      OBVIOUS
    <3>4. a \in Seq(SackBlock) /\ Len(a) = k + 1
          /\ a[k + 1] = l[k + 1] /\ \A i \in 1 .. k : a[i] = p[i]
      BY <1>3, <1>4, <1>10, <3>3
    <3>5. \A i \in 1 .. k + 1 : q[i] = a[i]
      BY <1>3, <3>2, <3>4
    <3>6. q = a
      BY <3>2, <3>4, <3>5, SeqEqual
    <3> QED
      BY <3>1, <3>3, <3>6
  <2>3. 1 .. k + 1 = 1 .. k \union {k + 1}
    OBVIOUS
  <2>4. {l[i].first .. End(l[i]) - 1 : i \in 1 .. k + 1}
          = {l[i].first .. End(l[i]) - 1 : i \in 1 .. k}
              \union {l[k + 1].first .. End(l[k + 1]) - 1}
    BY <2>3
  <2> QED
    BY <2>1, <2>2, <2>4 DEF CoveredTo
<1> QED
  BY <1>1, <1>7, <1>8, <1>9, <1>10

\* What the loop of sack has done with the first k blocks of l when the block
\* from f to e is put into it: passed all of them by, up to the one that
\* contains it; or inserted the pieces in front of acc.first; or all of them.
Passed(l, k, acc) == acc.out = SubSeq(l, 1, k)

PutInv(l, k, f, e, acc) ==
  /\ acc.first \in Nat /\ acc.end = e /\ acc.inside \in BOOLEAN
  /\ acc.inside => Passed(l, k, acc) /\ f .. e - 1 \subseteq Covered(l)
  /\ ~ acc.inside /\ acc.first < e =>
       /\ Loose(acc.out) /\ EndsBy(acc.out, acc.first)
       /\ Covered(acc.out) \union acc.first .. e - 1 =
            CoveredTo(l, k) \union f .. e - 1
       /\ \/ acc.first = f /\ Passed(l, k, acc)
          \/ k > 0 /\ acc.first = End(l[k])
  /\ ~ acc.inside /\ ~ (acc.first < e) =>
       /\ k > 0
       /\ Loose(acc.out) /\ EndsBy(acc.out, End(l[k]))
       /\ Covered(acc.out) = CoveredTo(l, k) \union f .. e - 1

\* What is put is split by the block from p to q.
LEMMA Pieces ==
  ASSUME NEW x \in Nat, NEW e \in Nat, NEW p \in Nat, NEW q \in Nat, x < e, p < q
  PROVE  /\ p <= x /\ x <= q /\ q < e =>
              p .. q - 1 \union q .. e - 1 = p .. q - 1 \union x .. e - 1
         /\ x < p /\ q < e =>
              x .. p - 1 \union p .. q - 1 \union q .. e - 1 = p .. q - 1 \union x .. e - 1
         /\ x < p /\ p < e /\ e <= q =>
              x .. p - 1 \union p .. q - 1 = p .. q - 1 \union x .. e - 1
OBVIOUS

\* Two blocks appended are joined one after the other.
LEMMA TwoAppended ==
  ASSUME NEW S, NEW l \in Seq(S), NEW a \in S, NEW b \in S
  PROVE  l \o <<a, b>> = Append(Append(l, a), b) /\ l \o <<b>> = Append(l, b)
OBVIOUS

\* The loop takes one more block.
LEMMA PutKeeps ==
  ASSUME NEW l, Normal(l), NEW n \in Nat, DOMAIN l = 1 .. n, NEW k \in 1 .. n,
         NEW f \in Nat, NEW e \in Nat, f < e, NEW acc, PutInv(l, k - 1, f, e, acc)
  PROVE  PutInv(l, k, f, e, Put(acc, l[k]))
<1>1. PICK b : b = l[k]
  OBVIOUS
<1>2. PICK p : p = b.first
  OBVIOUS
<1>3. PICK q : q = End(b)
  OBVIOUS
<1>4. PICK x : x = acc.first
  OBVIOUS
<1>5. PICK o : o = acc.out
  OBVIOUS
<1>6. PICK B : B = p .. q - 1
  OBVIOUS
<1>7. PICK C : C = CoveredTo(l, k - 1)
  OBVIOUS
<1>8. b \in SackBlock /\ p \in Nat /\ q \in Nat /\ p < q /\ x \in Nat
      /\ acc.end = e /\ acc.inside \in BOOLEAN
  <2>1. b \in SackBlock
    BY <1>1 DEF Normal
  <2> QED
    BY <1>2, <1>3, <1>4, <2>1, BlockTyped DEF PutInv
<1>9. PICK pre : pre = SubSeq(l, 1, k - 1)
  OBVIOUS
<1>10. /\ Loose(pre) /\ Covered(pre) = C /\ EndsBy(pre, p)
       /\ SubSeq(l, 1, k) = Append(pre, b) /\ CoveredTo(l, k) = C \union B
  <2>1. k - 1 \in 0 .. n /\ k - 1 < n /\ (k - 1) + 1 = k
    OBVIOUS
  <2> QED
    BY <1>1, <1>2, <1>3, <1>6, <1>7, <1>9, <2>1, FirstBlocks
<1>11. k - 1 > 0 => End(l[k - 1]) < p /\ End(l[k - 1]) \in Nat
  <2>1. ASSUME k - 1 > 0 PROVE End(l[k - 1]) < p /\ End(l[k - 1]) \in Nat
    <3>1. k - 1 \in 1 .. n /\ k - 1 < k /\ l[k - 1] \in SackBlock
      BY <2>1 DEF Normal
    <3> QED
      BY <1>1, <1>2, <3>1, BlockTyped DEF Normal
  <2> QED
    BY <2>1
<1>12. PICK a : a = Put(acc, b)
  OBVIOUS
<1>13. /\ a.end = e /\ a.inside \in BOOLEAN
       /\ a.inside <=> acc.inside \/ (x < e /\ ~ acc.inside /\ p <= x /\ e <= q)
       /\ a.first = IF x < e /\ ~ acc.inside /\ x <= q /\ (p <= x \/ q < e) THEN q
                    ELSE IF x < e /\ ~ acc.inside /\ x < p THEN e ELSE x
       /\ a.out = o \o (IF x < e /\ ~ acc.inside /\ x < p
                        THEN <<Block(x, IF e < p THEN e ELSE p), b>> ELSE <<b>>)
  BY <1>2, <1>3, <1>4, <1>5, <1>8, <1>12 DEF Put
<1>14. CASE acc.inside
  <2>1. a.out = o \o <<b>> /\ a.first = x /\ a.inside
    BY <1>13, <1>14
  <2>2. o = pre /\ f .. e - 1 \subseteq Covered(l)
    BY <1>5, <1>9, <1>14 DEF PutInv, Passed
  <2>3. a.out = SubSeq(l, 1, k)
    BY <1>8, <1>10, <2>1, <2>2, TwoAppended DEF Loose
  <2> QED
    BY <1>1, <1>8, <1>12, <1>13, <2>1, <2>2, <2>3 DEF PutInv, Passed
<1>15. CASE ~ acc.inside /\ ~ (x < e)
  <2>1. a.out = o \o <<b>> /\ a.first = x /\ ~ a.inside
    BY <1>13, <1>15
  <2>2. /\ k - 1 > 0
        /\ Loose(o) /\ EndsBy(o, End(l[k - 1])) /\ Covered(o) = C \union f .. e - 1
    BY <1>4, <1>5, <1>7, <1>15 DEF PutInv
  <2>3. EndsBy(o, p)
    <3>1. \A i \in DOMAIN o : End(o[i]) \in Nat
      BY <2>2, BlockTyped DEF Loose
    <3> QED
      BY <1>8, <1>11, <2>2, <3>1 DEF EndsBy
  <2>4. a.out = Append(o, b)
    BY <1>8, <2>1, <2>2, TwoAppended DEF Loose
  <2>5. /\ Loose(a.out) /\ EndsBy(a.out, q)
        /\ Covered(a.out) = CoveredTo(l, k) \union f .. e - 1
    BY <1>2, <1>3, <1>6, <1>8, <1>10, <2>2, <2>3, <2>4, LooseAppended
  <2> QED
    BY <1>1, <1>3, <1>8, <1>12, <1>13, <1>15, <2>1, <2>5 DEF PutInv
<1>16. CASE ~ acc.inside /\ x < e
  <2>1. /\ Loose(o) /\ EndsBy(o, x)
        /\ Covered(o) \union x .. e - 1 = C \union f .. e - 1
        /\ (x = f /\ o = pre) \/ (k - 1 > 0 /\ x = End(l[k - 1]))
    BY <1>4, <1>5, <1>7, <1>9, <1>16 DEF PutInv, Passed
  <2>2. p <= x => x = f /\ o = pre
    BY <1>8, <1>11, <2>1
  <2>3. a.end = e /\ (x < p => a.inside = FALSE)
    BY <1>8, <1>13, <1>16
  <2>4. CASE p <= x /\ e <= q
    <3>1. a.out = o \o <<b>> /\ a.inside /\ a.first \in Nat
      BY <1>8, <1>13, <1>16, <2>4
    <3>2. a.out = SubSeq(l, 1, k)
      <4>1. a.out = Append(pre, b)
        BY <1>8, <1>10, <2>2, <2>4, <3>1, TwoAppended DEF Loose
      <4> QED
        BY <1>10, <4>1
    <3>3. f .. e - 1 \subseteq B
      BY <1>6, <1>8, <2>2, <2>4
    <3>4. B \subseteq Covered(l)
      BY <1>1, <1>2, <1>3, <1>6 DEF Covered
    <3> QED
      BY <1>1, <1>12, <1>13, <3>1, <3>2, <3>3, <3>4 DEF PutInv, Passed
  <2>5. CASE p <= x /\ q < e
    <3>1. a.out = o \o <<b>> /\ ~ a.inside /\ a.first = IF x <= q THEN q ELSE x
      BY <1>8, <1>13, <1>16, <2>5
    <3>2. a.out = Append(pre, b)
      BY <1>8, <1>10, <2>2, <2>5, <3>1, TwoAppended DEF Loose
    <3>3. /\ Loose(a.out) /\ EndsBy(a.out, q)
          /\ Covered(a.out) = C \union B
      BY <1>2, <1>3, <1>6, <1>8, <1>10, <3>2, LooseAppended
    <3>4. a.first \in Nat /\ a.first < e
      BY <1>8, <1>16, <2>5, <3>1
    <3>5. EndsBy(a.out, a.first)
      <4>1. \A i \in DOMAIN a.out : End(a.out[i]) \in Nat
        BY <3>3, BlockTyped DEF Loose
      <4> QED
        BY <1>8, <3>1, <3>3, <4>1 DEF EndsBy
    <3>6. Covered(a.out) \union a.first .. e - 1 = CoveredTo(l, k) \union f .. e - 1
      <4>1. x = f
        BY <2>2, <2>5
      <4>2. CASE x <= q
        <5>1. B \union q .. e - 1 = B \union x .. e - 1
          BY <1>6, <1>8, <1>16, <2>5, <4>2, Pieces
        <5> QED
          BY <1>10, <3>1, <3>3, <4>1, <4>2, <5>1
      <4>3. CASE ~ (x <= q)
        BY <1>10, <3>1, <3>3, <4>1, <4>3
      <4> QED
        BY <4>2, <4>3
    <3>7. \/ a.first = f /\ Passed(l, k, a)
          \/ k > 0 /\ a.first = End(l[k])
      BY <1>1, <1>3, <1>10, <2>2, <2>5, <3>1, <3>2 DEF Passed
    <3> QED
      BY <1>1, <1>12, <1>13, <3>1, <3>3, <3>4, <3>5, <3>6, <3>7 DEF PutInv
  <2>6. CASE x < p
    <3>1. PICK y : y = IF e < p THEN e ELSE p
      OBVIOUS
    <3>2. PICK c : c = Block(x, y)
      OBVIOUS
    <3>3. /\ a.out = o \o <<c, b>> /\ ~ a.inside
          /\ a.first = IF q < e THEN q ELSE e
      BY <1>8, <1>13, <1>16, <2>6, <3>1, <3>2
    <3>4. y \in Nat /\ x < y /\ y <= p
      BY <1>8, <1>16, <2>6, <3>1
    <3>5. c \in SackBlock /\ c.first = x /\ End(c) = y
      BY <1>8, <3>2, <3>4, BlockTyped
    <3>6. /\ Loose(Append(o, c)) /\ EndsBy(Append(o, c), y)
          /\ Covered(Append(o, c)) = Covered(o) \union x .. y - 1
      BY <2>1, <3>5, LooseAppended
    <3>7. EndsBy(Append(o, c), p)
      <4>1. \A i \in DOMAIN Append(o, c) : End(Append(o, c)[i]) \in Nat
        BY <3>6, BlockTyped DEF Loose
      <4> QED
        BY <1>8, <3>4, <3>6, <4>1 DEF EndsBy
    <3>8. a.out = Append(Append(o, c), b)
      BY <1>8, <2>1, <3>3, <3>5, TwoAppended DEF Loose
    <3>9. /\ Loose(a.out) /\ EndsBy(a.out, q)
          /\ Covered(a.out) = Covered(o) \union x .. y - 1 \union B
      BY <1>2, <1>3, <1>6, <1>8, <3>6, <3>7, <3>8, LooseAppended
    <3>10. CASE q < e
      <4>1. y = p /\ a.first = q
        BY <1>8, <3>1, <3>3, <3>10
      <4>2. x .. y - 1 \union B \union q .. e - 1 = B \union x .. e - 1
        BY <1>6, <1>8, <1>16, <2>6, <3>10, <4>1, Pieces
      <4>3. Covered(a.out) \union a.first .. e - 1 = CoveredTo(l, k) \union f .. e - 1
        BY <1>10, <2>1, <3>9, <4>1, <4>2
      <4> QED
        <5>1. a.first = End(l[k]) /\ a.first \in Nat /\ a.first < e
              /\ Loose(a.out) /\ EndsBy(a.out, a.first)
          BY <1>1, <1>3, <1>8, <3>9, <3>10, <4>1
        <5>2. a.inside \in BOOLEAN /\ ~ a.inside /\ a.end = e
          BY <2>3, <2>6
        <5> QED
          BY <1>12, <1>1, <4>3, <5>1, <5>2 DEF PutInv
    <3>11. CASE ~ (q < e)
      <4>1. a.first = e
        BY <3>3, <3>11
      <4>2. x .. y - 1 \union B = B \union x .. e - 1
        <5>1. CASE e <= p
          <6>1. y = e
            BY <1>8, <3>1, <5>1
          <6> QED
            BY <6>1
        <5>2. CASE ~ (e <= p)
          <6>1. y = p
            BY <1>8, <3>1, <5>2
          <6> QED
            BY <1>6, <1>8, <1>16, <2>6, <3>11, <5>2, <6>1, Pieces
        <5> QED
          BY <5>1, <5>2
      <4>3. Covered(a.out) = CoveredTo(l, k) \union f .. e - 1
        BY <1>10, <2>1, <3>9, <4>2
      <4> QED
        <5>1. a.first = e /\ Loose(a.out) /\ EndsBy(a.out, End(l[k]))
          BY <1>1, <1>3, <3>9, <4>1
        <5>2. a.inside \in BOOLEAN /\ ~ a.inside /\ a.end = e
          BY <2>3, <2>6
        <5> QED
          BY <1>12, <1>1, <4>3, <5>1, <5>2 DEF PutInv
    <3> QED
      BY <3>10, <3>11
  <2> QED
    BY <1>8, <2>4, <2>5, <2>6
<1> QED
  BY <1>8, <1>14, <1>15, <1>16

\* The first blocks of a list and one more.
LEMMA CoveredStep ==
  ASSUME NEW l, NEW k \in Nat, k > 0
  PROVE  CoveredTo(l, k) = CoveredTo(l, k - 1) \union l[k].first .. End(l[k]) - 1
<1>1. 1 .. k = 1 .. k - 1 \union {k}
  OBVIOUS
<1>2. {l[i].first .. End(l[i]) - 1 : i \in 1 .. k}
        = {l[i].first .. End(l[i]) - 1 : i \in 1 .. k - 1}
            \union {l[k].first .. End(l[k]) - 1}
  BY <1>1
<1> QED
  BY <1>2 DEF CoveredTo

\* What l covers lies before its end; a normal list is loose.
LEMMA NormalEnds ==
  ASSUME NEW l, Normal(l), l # <<>>
  PROVE  /\ Loose(l) /\ EndsBy(l, End(Last(l)))
         /\ Last(l) \in SackBlock /\ End(Last(l)) \in Nat
<1>1. PICK n \in Nat : n = Len(l) /\ DOMAIN l = 1 .. n
  BY DEF Normal
<1>2. l \in Seq(SackBlock) /\ n > 0
  BY <1>1 DEF Normal
<1>3. \A i \in 1 .. n : /\ l[i] \in SackBlock /\ l[i].first \in Nat /\ End(l[i]) \in Nat
                        /\ l[i].first < End(l[i])
  BY <1>1, <1>2, BlockTyped
<1>4. \A i, j \in 1 .. n : i < j => End(l[i]) < l[j].first
  BY <1>1 DEF Normal
<1>5. Last(l) = l[n] /\ n \in 1 .. n
  BY <1>1, <1>2 DEF Last
<1>6. ASSUME NEW i \in 1 .. n PROVE End(l[i]) <= End(l[n])
  <2>1. CASE i = n
    BY <1>3, <2>1
  <2>2. CASE i # n
    <3>1. i < n /\ End(l[i]) < l[n].first
      BY <1>4, <1>5, <2>2
    <3> QED
      BY <1>3, <1>5, <3>1
  <2> QED
    BY <2>1, <2>2
<1>7. Loose(l)
  <2>1. \A i, j \in 1 .. n : i < j => End(l[i]) <= l[j].first
    BY <1>3, <1>4
  <2> QED
    BY <1>1, <1>2, <2>1 DEF Loose
<1> QED
  BY <1>1, <1>3, <1>5, <1>6, <1>7 DEF EndsBy

\* A block at a distance behind a normal list.
LEMMA NormalAppended ==
  ASSUME NEW l, Normal(l), NEW b \in SackBlock, l # <<>> => End(Last(l)) < b.first
  PROVE  /\ Normal(Append(l, b)) /\ Append(l, b) # <<>> /\ Last(Append(l, b)) = b
         /\ Covered(Append(l, b)) = Covered(l) \union b.first .. End(b) - 1
<1>1. PICK m : m = Append(l, b)
  OBVIOUS
<1>2. PICK n \in Nat : n = Len(l) /\ DOMAIN l = 1 .. n /\ l \in Seq(SackBlock)
  BY DEF Normal
<1>3. m \in Seq(SackBlock) /\ DOMAIN m = 1 .. n + 1 /\ Len(m) = n + 1
      /\ m[n + 1] = b /\ \A i \in 1 .. n : m[i] = l[i]
  BY <1>1, <1>2
<1>4. b.first \in Nat
  BY BlockTyped
<1>5. ASSUME NEW i \in 1 .. n PROVE End(l[i]) \in Nat /\ End(l[i]) < b.first
  <2>1. l # <<>>
    BY <1>2, <1>5
  <2>2. End(l[i]) \in Nat /\ End(l[i]) <= End(Last(l)) /\ End(Last(l)) \in Nat
        /\ End(Last(l)) < b.first
    BY <1>2, <2>1, NormalEnds, BlockTyped DEF EndsBy
  <2> QED
    BY <1>4, <2>2
<1>6. ASSUME NEW i \in 1 .. n + 1, NEW j \in 1 .. n + 1, i < j
      PROVE  End(m[i]) < m[j].first
  <2>1. i \in 1 .. n
    BY <1>6
  <2>2. CASE j = n + 1
    BY <1>3, <1>5, <2>1, <2>2
  <2>3. CASE j # n + 1
    BY <1>2, <1>3, <1>6, <2>1, <2>3 DEF Normal
  <2> QED
    BY <2>2, <2>3
<1>7. Loose(l) /\ EndsBy(l, b.first)
  <2>1. Loose(l)
    <3>1. CASE l = <<>>
      BY <1>2, <3>1 DEF Loose
    <3> QED
      BY <3>1, NormalEnds
  <2>2. EndsBy(l, b.first)
    BY <1>2, <1>4, <1>5 DEF EndsBy
  <2> QED
    BY <2>1, <2>2
<1>8. Last(m) = b /\ m # <<>>
  BY <1>3 DEF Last
<1> QED
  BY <1>1, <1>3, <1>6, <1>7, <1>8, LooseAppended DEF Normal

\* The last block gets longer.
LEMMA LastExtended ==
  ASSUME NEW l, Normal(l), l # <<>>, NEW z \in Nat, End(Last(l)) < z
  PROVE  LET m == Append(SubSeq(l, 1, Len(l) - 1), Block(Last(l).first, z))
         IN  /\ Normal(m) /\ m # <<>> /\ End(Last(m)) = z
             /\ Covered(m) = Covered(l) \union End(Last(l)) .. z - 1
<1>1. PICK n \in Nat : n = Len(l) /\ DOMAIN l = 1 .. n /\ l \in Seq(SackBlock)
  BY DEF Normal
<1>2. n > 0
  BY <1>1
<1>3. PICK b : b = l[n] /\ b = Last(l)
  BY <1>1 DEF Last
<1>4. PICK p : p = SubSeq(l, 1, n - 1)
  OBVIOUS
<1>5. b \in SackBlock /\ b.first \in Nat /\ End(b) \in Nat /\ b.first < End(b)
  BY <1>3, NormalEnds, BlockTyped
<1>6. p \in Seq(SackBlock) /\ Len(p) = n - 1 /\ DOMAIN p = 1 .. n - 1
      /\ \A i \in 1 .. n - 1 : p[i] = l[i]
  BY <1>1, <1>2, <1>4
<1>7. Normal(p)
  <2>1. ASSUME NEW i \in 1 .. n - 1, NEW j \in 1 .. n - 1, i < j
        PROVE  End(p[i]) < p[j].first
    <3>1. i \in DOMAIN l /\ j \in DOMAIN l
      BY <1>1
    <3> QED
      BY <1>6, <2>1, <3>1 DEF Normal
  <2> QED
    BY <1>6, <2>1 DEF Normal
<1>8. p # <<>> => End(Last(p)) < b.first
  <2>1. ASSUME p # <<>> PROVE End(Last(p)) < b.first
    <3>1. n - 1 \in 1 .. n - 1 /\ n - 1 \in 1 .. n /\ n \in 1 .. n /\ n - 1 < n
      BY <1>2, <1>6, <2>1
    <3>2. Last(p) = l[n - 1]
      BY <1>6, <3>1 DEF Last
    <3> QED
      BY <1>1, <1>3, <3>1, <3>2 DEF Normal
  <2> QED
    BY <2>1
<1>9. PICK c : c = Block(b.first, z)
  OBVIOUS
<1>10. c \in SackBlock /\ c.first = b.first /\ End(c) = z
  BY <1>3, <1>5, <1>9, BlockTyped
<1>11. /\ Normal(Append(p, c)) /\ Append(p, c) # <<>> /\ Last(Append(p, c)) = c
       /\ Covered(Append(p, c)) = Covered(p) \union b.first .. z - 1
  BY <1>7, <1>8, <1>10, NormalAppended
<1>12. Covered(l) = Covered(p) \union b.first .. End(b) - 1
  <2>1. CoveredTo(l, n - 1) = Covered(p)
    BY <1>1, <1>2, <1>4, FirstBlocks
  <2>2. CoveredTo(l, n) = Covered(p) \union b.first .. End(b) - 1
    BY <1>2, <1>3, <2>1, CoveredStep
  <2> QED
    BY <1>1, <2>2 DEF Covered, CoveredTo
<1>13. b.first .. z - 1 = b.first .. End(b) - 1 \union End(b) .. z - 1
  BY <1>3, <1>5
<1> QED
  BY <1>1, <1>3, <1>4, <1>9, <1>10, <1>11, <1>12, <1>13

\* The second pass after k blocks of l: what they cover, in normal form.
MergeInv(l, k, m) ==
  /\ Normal(m) /\ Covered(m) = CoveredTo(l, k)
  /\ IF k = 0 THEN m = <<>> ELSE m # <<>> /\ End(Last(m)) = End(l[k])

LEMMA MergeKeeps ==
  ASSUME NEW l, Loose(l), NEW n \in Nat, DOMAIN l = 1 .. n, NEW k \in 1 .. n,
         NEW m, MergeInv(l, k - 1, m)
  PROVE  MergeInv(l, k, Merge(m, l[k]))
<1>1. PICK b : b = l[k]
  OBVIOUS
<1>2. b \in SackBlock /\ b.first \in Nat /\ End(b) \in Nat /\ b.first < End(b)
  BY <1>1, BlockTyped DEF Loose
<1>3. CoveredTo(l, k) = Covered(m) \union b.first .. End(b) - 1
  BY <1>1, CoveredStep DEF MergeInv
<1>4. Normal(m)
  BY DEF MergeInv
<1>5. m # <<>> => End(Last(m)) \in Nat /\ End(Last(m)) <= b.first
  <2>1. ASSUME m # <<>> PROVE End(Last(m)) \in Nat /\ End(Last(m)) <= b.first
    <3>1. k - 1 # 0
      BY <2>1 DEF MergeInv
    <3>2. k - 1 \in 1 .. n /\ k - 1 < k
      BY <3>1
    <3>3. End(l[k - 1]) <= b.first
      BY <1>1, <3>2 DEF Loose
    <3>4. End(Last(m)) = End(l[k - 1])
      BY <3>1 DEF MergeInv
    <3> QED
      BY <1>4, <2>1, <3>3, <3>4, NormalEnds
  <2> QED
    BY <2>1
<1>6. CASE m # <<>> /\ End(Last(m)) = b.first
  <2>1. PICK x : x = Append(SubSeq(m, 1, Len(m) - 1), Block(Last(m).first, End(b)))
    OBVIOUS
  <2>2. Merge(m, b) = x
    BY <1>6, <2>1 DEF Merge, Front
  <2>3. /\ Normal(x) /\ x # <<>> /\ End(Last(x)) = End(b)
        /\ Covered(x) = Covered(m) \union b.first .. End(b) - 1
    BY <1>2, <1>4, <1>6, <2>1, LastExtended
  <2> QED
    BY <1>1, <1>3, <2>2, <2>3 DEF MergeInv
<1>7. CASE ~ (m # <<>> /\ End(Last(m)) = b.first)
  <2>1. Merge(m, b) = Append(m, b)
    BY <1>7 DEF Merge
  <2>2. m # <<>> => End(Last(m)) < b.first
    BY <1>2, <1>5, <1>7
  <2>3. /\ Normal(Append(m, b)) /\ Append(m, b) # <<>> /\ Last(Append(m, b)) = b
        /\ Covered(Append(m, b)) = Covered(m) \union b.first .. End(b) - 1
    BY <1>2, <1>4, <2>2, NormalAppended
  <2> QED
    BY <1>1, <1>3, <2>1, <2>3 DEF MergeInv
<1> QED
  BY <1>6, <1>7

\* The second pass makes a loose list normal.
LEMMA Merged ==
  ASSUME NEW l, Loose(l)
  PROVE  Normal(FoldLeft(Merge, <<>>, l))
         /\ Covered(FoldLeft(Merge, <<>>, l)) = Covered(l)
<1>1. PICK n \in Nat : DOMAIN l = 1 .. n
  BY DEF Loose
<1>2. PICK tr : Path("Merge", <<>>, l, n, tr) /\ FoldLeft(Merge, <<>>, l) = tr[n]
  BY <1>1, FoldLeftPath
<1> DEFINE S == {k \in 0 .. n : MergeInv(l, k, tr[k])}
<1>3. 0 \in S
  <2>1. <<>> \in Seq(SackBlock) /\ DOMAIN <<>> = {}
    OBVIOUS
  <2>2. Normal(<<>>) /\ Covered(<<>>) = {} /\ CoveredTo(l, 0) = {}
    BY <2>1 DEF Normal, Covered, CoveredTo
  <2>3. MergeInv(l, 0, <<>>)
    BY <2>2 DEF MergeInv
  <2>4. tr[0] = <<>>
    BY <1>2 DEF Path
  <2> QED
    BY <2>3, <2>4
<1>4. ASSUME NEW k \in 1 .. n, k - 1 \in S PROVE k \in S
  <2>1. tr[k] = Merge(tr[k - 1], l[k])
    BY <1>2 DEF Path, Step
  <2>2. MergeInv(l, k - 1, tr[k - 1])
    BY <1>4
  <2>3. MergeInv(l, k, tr[k])
    BY <1>1, <2>1, <2>2, MergeKeeps
  <2> QED
    BY <2>3
<1>5. MergeInv(l, n, tr[n])
  <2> HIDE DEF S
  <2>1. n \in S
    BY <1>3, <1>4, Upwards
  <2> QED
    BY <2>1 DEF S
<1> QED
  BY <1>1, <1>2, <1>5 DEF MergeInv, Covered, CoveredTo

\* sack keeps the list normal, and adds to it what is put.
LEMMA SackIsUnion ==
  ASSUME NEW l, Normal(l), NEW f \in Nat, NEW e \in Nat, f <= e
  PROVE  /\ Normal(Sack(l, f, e - f))
         /\ Covered(Sack(l, f, e - f)) = Covered(l) \union f .. e - 1
<1>1. PICK n \in Nat : n = Len(l) /\ DOMAIN l = 1 .. n /\ l \in Seq(SackBlock)
  BY DEF Normal
<1>2. e - f \in Nat /\ f + (e - f) = e
  OBVIOUS
<1>3. CASE f = e
  <2>1. e - f = 0 /\ f .. e - 1 = {}
    BY <1>3
  <2> QED
    BY <2>1 DEF Sack
<1>4. CASE f # e
  <2>1. f < e /\ e - f # 0
    BY <1>4
  <2>2. PICK b : b = [out |-> <<>>, first |-> f, end |-> e, inside |-> FALSE]
    OBVIOUS
  <2>3. PICK tr : Path("Put", b, l, n, tr) /\ FoldLeft(Put, b, l) = tr[n]
    BY <1>1, FoldLeftPath
  <2> DEFINE S == {k \in 0 .. n : PutInv(l, k, f, e, tr[k])}
  <2>4. 0 \in S
    <3>1. tr[0] = b /\ SubSeq(l, 1, 0) = <<>>
      BY <1>1, <2>3 DEF Path
    <3>2. <<>> \in Seq(SackBlock) /\ DOMAIN <<>> = {}
      OBVIOUS
    <3>3. Loose(<<>>) /\ EndsBy(<<>>, f) /\ Covered(<<>>) = {} /\ CoveredTo(l, 0) = {}
      BY <3>2 DEF Loose, EndsBy, Covered, CoveredTo
    <3>4. PutInv(l, 0, f, e, b)
      BY <2>1, <2>2, <3>1, <3>3 DEF PutInv, Passed
    <3> QED
      BY <3>1, <3>4
  <2>5. ASSUME NEW k \in 1 .. n, k - 1 \in S PROVE k \in S
    <3>1. tr[k] = Put(tr[k - 1], l[k])
      BY <2>3 DEF Path, Step
    <3>2. PutInv(l, k - 1, f, e, tr[k - 1])
      BY <2>5
    <3>3. PutInv(l, k, f, e, tr[k])
      BY <1>1, <2>1, <3>1, <3>2, PutKeeps
    <3> QED
      BY <3>3
  <2>6. PICK acc : acc = tr[n] /\ PutInv(l, n, f, e, acc)
    <3> HIDE DEF S
    <3>1. n \in S
      BY <2>4, <2>5, Upwards
    <3> QED
      BY <3>1 DEF S
  <2>7. PICK x : x = acc.first
    OBVIOUS
  <2>8. PICK all : all = IF x < e THEN Append(acc.out, Block(x, e)) ELSE acc.out
    OBVIOUS
  <2>9. Sack(l, f, e - f) = IF acc.inside THEN acc.out ELSE FoldLeft(Merge, <<>>, all)
    <3>1. acc.end = e
      BY <2>6 DEF PutInv
    <3> QED
      BY <1>2, <2>1, <2>2, <2>3, <2>6, <2>7, <2>8, <3>1 DEF Sack
  <2>10. Covered(l) = CoveredTo(l, n)
    BY <1>1 DEF Covered, CoveredTo
  <2>11. CASE acc.inside
    <3>1. acc.out = l /\ f .. e - 1 \subseteq Covered(l)
      <4>1. SubSeq(l, 1, n) = l
        BY <1>1
      <4> QED
        BY <2>6, <2>11, <4>1 DEF PutInv, Passed
    <3> QED
      BY <2>9, <2>11, <3>1
  <2>12. CASE ~ acc.inside
    <3>1. Loose(all) /\ Covered(all) = Covered(l) \union f .. e - 1
      <4>1. CASE x < e
        <5>1. /\ Loose(acc.out) /\ EndsBy(acc.out, x) /\ x \in Nat
              /\ Covered(acc.out) \union x .. e - 1 = Covered(l) \union f .. e - 1
          BY <2>6, <2>7, <2>10, <2>12, <4>1 DEF PutInv
        <5>2. PICK c : c = Block(x, e)
          OBVIOUS
        <5>3. c \in SackBlock /\ c.first = x /\ End(c) = e
          BY <4>1, <5>1, <5>2, BlockTyped
        <5>4. all = Append(acc.out, c)
          BY <2>8, <4>1, <5>2
        <5> QED
          BY <5>1, <5>3, <5>4, LooseAppended
      <4>2. CASE ~ (x < e)
        BY <2>6, <2>7, <2>8, <2>10, <2>12, <4>2 DEF PutInv
      <4> QED
        BY <4>1, <4>2
    <3> QED
      BY <2>9, <2>12, <3>1, Merged
  <2> QED
    BY <2>11, <2>12
<1> QED
  BY <1>3, <1>4

\* discardUpTo keeps the list normal, and keeps what does not end by x.
LEMMA DiscardIsRest ==
  ASSUME NEW l, Normal(l), NEW x \in Nat
  PROVE  /\ Normal(DiscardUpTo(l, x))
         /\ Covered(DiscardUpTo(l, x)) = {s \in Covered(l) : s >= x}
<1>1. PICK n \in Nat : n = Len(l) /\ DOMAIN l = 1 .. n /\ l \in Seq(SackBlock)
  BY DEF Normal
<1>2. \A i \in 1 .. n : /\ l[i] \in SackBlock /\ l[i].first \in Nat /\ End(l[i]) \in Nat
                        /\ l[i].first < End(l[i])
  BY <1>1, BlockTyped
<1>3. \A i, j \in 1 .. n : i < j => End(l[i]) < l[j].first
  BY <1>1 DEF Normal
<1>4. \A s : s \in Covered(l) <=> \E i \in 1 .. n : s \in l[i].first .. End(l[i]) - 1
  BY <1>1 DEF Covered
<1>5. PICK K : K = {i \in DOMAIN l : End(l[i]) > x}
  OBVIOUS
<1>6. CASE K = {}
  <2>1. DiscardUpTo(l, x) = <<>>
    BY <1>5, <1>6 DEF DiscardUpTo
  <2>2. {s \in Covered(l) : s >= x} = {}
    <3>1. ASSUME NEW s \in Covered(l), s >= x PROVE FALSE
      <4>1. PICK i \in 1 .. n : s \in l[i].first .. End(l[i]) - 1
        BY <1>4, <3>1
      <4>2. ~ (End(l[i]) > x)
        BY <1>1, <1>5, <1>6
      <4> QED
        BY <1>2, <3>1, <4>1, <4>2
    <3> QED
      BY <3>1
  <2>3. <<>> \in Seq(SackBlock) /\ DOMAIN <<>> = {}
    OBVIOUS
  <2> QED
    BY <2>1, <2>2, <2>3 DEF Normal, Covered
<1>7. CASE K # {}
  <2>1. PICK m \in K : \A i \in K : m <= i
    <3>1. K \subseteq Nat
      BY <1>1, <1>5
    <3> QED
      BY <1>7, <3>1, LeastNatural
  <2>2. Min(K) = m
    <3>1. PICK y : y = Min(K)
      OBVIOUS
    <3>2. y \in K /\ \A i \in K : y <= i
      BY <2>1, <3>1 DEF Min
    <3>3. y \in Nat /\ m \in Nat
      BY <1>1, <1>5, <3>2
    <3> QED
      BY <2>1, <3>1, <3>2, <3>3
  <2>3. m \in 1 .. n /\ End(l[m]) > x
    BY <1>1, <1>5
  <2>4. PICK r : r = SubSeq(l, m, n)
    OBVIOUS
  <2>5. r \in Seq(SackBlock) /\ Len(r) = n - m + 1 /\ DOMAIN r = 1 .. n - m + 1
        /\ \A i \in 1 .. n - m + 1 : r[i] = l[i + m - 1]
    <3>1. m \in Nat /\ 1 <= m /\ m <= n /\ Len(l) = n
      BY <1>1, <2>3
    <3>2. r \in Seq(SackBlock) /\ Len(r) = n - m + 1
      BY <1>1, <2>4, <3>1
    <3>3. ASSUME NEW i \in 1 .. n - m + 1 PROVE r[i] = l[i + m - 1]
      BY <1>1, <2>4, <3>1
    <3> QED
      BY <3>2, <3>3
  <2>6. PICK z : z = IF r[1].first < x THEN [r EXCEPT ![1] = Block(x, End(r[1]))] ELSE r
    OBVIOUS
  <2>7. DiscardUpTo(l, x) = z
    BY <1>1, <1>5, <1>7, <2>2, <2>4, <2>6 DEF DiscardUpTo
  <2>8. r[1] = l[m] /\ 1 \in 1 .. n - m + 1
    BY <2>3, <2>5
  <2>9. Block(x, End(r[1])) \in SackBlock /\ Block(x, End(r[1])).first = x
        /\ End(Block(x, End(r[1]))) = End(r[1])
    BY <1>2, <2>3, <2>8, BlockTyped
  <2>10. z \in Seq(SackBlock) /\ DOMAIN z = 1 .. n - m + 1
    BY <2>5, <2>6, <2>8, <2>9
  <2>11. /\ z[1].first = (IF l[m].first < x THEN x ELSE l[m].first)
         /\ End(z[1]) = End(l[m])
         /\ \A i \in 2 .. n - m + 1 : z[i] = l[i + m - 1]
    BY <2>5, <2>6, <2>8, <2>9
  <2>12. \A i \in 1 .. n - m + 1 : i + m - 1 \in 1 .. n /\ End(z[i]) = End(l[i + m - 1])
    <3>1. ASSUME NEW i \in 1 .. n - m + 1
          PROVE  i + m - 1 \in 1 .. n /\ End(z[i]) = End(l[i + m - 1])
      <4>1. CASE i = 1
        BY <2>3, <2>11, <4>1
      <4>2. CASE i # 1
        <5>1. i \in 2 .. n - m + 1 /\ i + m - 1 \in 1 .. n
          BY <2>3, <4>2
        <5> QED
          BY <2>11, <5>1
      <4> QED
        BY <4>1, <4>2
    <3> QED
      BY <3>1
  <2>13. \A i \in 2 .. n - m + 1 : x < z[i].first /\ z[i].first = l[i + m - 1].first
    <3>1. ASSUME NEW i \in 2 .. n - m + 1
          PROVE  x < z[i].first /\ z[i].first = l[i + m - 1].first
      <4>1. i + m - 1 \in 1 .. n /\ m < i + m - 1
        BY <2>3
      <4>2. End(l[m]) < l[i + m - 1].first
        BY <1>3, <2>3, <4>1
      <4> QED
        BY <1>2, <2>3, <2>11, <4>1, <4>2
    <3> QED
      BY <3>1
  <2>14. Normal(z)
    <3>1. ASSUME NEW i \in 1 .. n - m + 1, NEW j \in 1 .. n - m + 1, i < j
          PROVE  End(z[i]) < z[j].first
      <4>1. j \in 2 .. n - m + 1 /\ i + m - 1 < j + m - 1
            /\ i + m - 1 \in 1 .. n /\ j + m - 1 \in 1 .. n
        BY <2>3, <3>1
      <4>2. End(l[i + m - 1]) < l[j + m - 1].first
        BY <1>3, <4>1
      <4> QED
        BY <2>12, <2>13, <4>1, <4>2
    <3> QED
      BY <2>10, <3>1 DEF Normal
  <2>15. \A s : s \in Covered(z) <=>
                  \E i \in 1 .. n - m + 1 : s \in z[i].first .. End(z[i]) - 1
    BY <2>10 DEF Covered
  <2>16. ASSUME NEW s \in Covered(z) PROVE s \in Covered(l) /\ s >= x
    <3>1. PICK i \in 1 .. n - m + 1 : s \in z[i].first .. End(z[i]) - 1
      BY <2>15, <2>16
    <3>2. i + m - 1 \in 1 .. n /\ End(z[i]) = End(l[i + m - 1])
      BY <2>12
    <3>3. l[i + m - 1].first <= z[i].first /\ x <= z[i].first /\ z[i].first \in Nat
      <4>1. CASE i = 1
        BY <1>2, <2>3, <2>11, <4>1
      <4>2. CASE i # 1
        <5>1. i \in 2 .. n - m + 1
          BY <4>2
        <5> QED
          BY <1>2, <2>13, <3>2, <5>1
      <4> QED
        BY <4>1, <4>2
    <3>4. s \in l[i + m - 1].first .. End(l[i + m - 1]) - 1 /\ s >= x
      BY <1>2, <3>1, <3>2, <3>3
    <3> QED
      BY <1>4, <3>2, <3>4
  <2>17. ASSUME NEW s \in Covered(l), s >= x PROVE s \in Covered(z)
    <3>1. PICK j \in 1 .. n : s \in l[j].first .. End(l[j]) - 1
      BY <1>4, <2>17
    <3>2. End(l[j]) > x
      BY <1>2, <2>17, <3>1
    <3>3. j \in K
      BY <1>1, <1>5, <3>2
    <3>4. PICK i \in 1 .. n - m + 1 : j = i + m - 1
      <4>1. j - m + 1 \in 1 .. n - m + 1 /\ j = (j - m + 1) + m - 1
        BY <2>1, <2>3, <3>3
      <4> QED
        BY <4>1
    <3>5. z[i].first <= s /\ z[i].first \in Nat
      <4>1. CASE i = 1
        <5>1. j = m
          BY <2>3, <3>4, <4>1
        <5> QED
          BY <1>2, <2>3, <2>11, <2>17, <3>1, <4>1, <5>1
      <4>2. CASE i # 1
        <5>1. i \in 2 .. n - m + 1
          BY <4>2
        <5> QED
          BY <1>2, <2>13, <3>1, <3>4, <5>1
      <4> QED
        BY <4>1, <4>2
    <3>6. End(z[i]) = End(l[j])
      BY <2>12, <3>4
    <3>7. s \in z[i].first .. End(z[i]) - 1
      BY <1>2, <3>1, <3>5, <3>6
    <3> QED
      BY <2>15, <3>7
  <2>18. Covered(z) = {s \in Covered(l) : s >= x}
    BY <2>16, <2>17
  <2> QED
    BY <2>7, <2>14, <2>18
<1> QED
  BY <1>6, <1>7

\* A block is in one of the list exactly when the list covers it.
LEMMA BlockExistsIsSubset ==
  ASSUME NEW l, Normal(l), NEW f \in Nat, NEW e \in Nat, f < e
  PROVE  BlockExists(l, f, e - f) <=> f .. e - 1 \subseteq Covered(l)
<1>1. PICK n \in Nat : n = Len(l) /\ DOMAIN l = 1 .. n /\ l \in Seq(SackBlock)
  BY DEF Normal
<1>2. \A i \in 1 .. n : /\ l[i].first \in Nat /\ End(l[i]) \in Nat
                        /\ l[i].first < End(l[i])
  BY <1>1, BlockTyped
<1>3. \A i, j \in 1 .. n : i < j => End(l[i]) < l[j].first
  BY <1>1 DEF Normal
<1>4. \A s : s \in Covered(l) <=> \E i \in 1 .. n : s \in l[i].first .. End(l[i]) - 1
  BY <1>1 DEF Covered
<1>5. BlockExists(l, f, e - f) <=> \E i \in 1 .. n : l[i].first <= f /\ e <= End(l[i])
  <2>1. f + (e - f) = e
    OBVIOUS
  <2> QED
    BY <1>1, <2>1 DEF BlockExists
<1>6. ASSUME NEW i \in 1 .. n, l[i].first <= f /\ e <= End(l[i])
      PROVE  f .. e - 1 \subseteq Covered(l)
  <2>1. f .. e - 1 \subseteq l[i].first .. End(l[i]) - 1
    BY <1>2, <1>6
  <2> QED
    BY <1>4, <2>1
<1>7. ASSUME f .. e - 1 \subseteq Covered(l)
      PROVE  \E i \in 1 .. n : l[i].first <= f /\ e <= End(l[i])
  <2>1. f \in f .. e - 1
    OBVIOUS
  <2>2. PICK i \in 1 .. n : f \in l[i].first .. End(l[i]) - 1
    BY <1>4, <1>7, <2>1
  <2>3. e <= End(l[i])
    <3> SUFFICES ASSUME ~ (e <= End(l[i])) PROVE FALSE
      OBVIOUS
    <3>1. End(l[i]) \in f .. e - 1
      BY <1>2, <2>2
    <3>2. PICK j \in 1 .. n : End(l[i]) \in l[j].first .. End(l[j]) - 1
      BY <1>4, <1>7, <3>1
    <3>3. l[j].first <= End(l[i]) /\ End(l[i]) < End(l[j])
      BY <1>2, <3>2
    <3>4. ~ (i < j) /\ i # j
      BY <1>2, <1>3, <3>3
    <3>5. j < i
      BY <3>4
    <3>6. End(l[j]) < l[i].first
      BY <1>3, <3>5
    <3> QED
      BY <1>2, <3>3, <3>6
  <2> QED
    BY <1>2, <2>2, <2>3
<1> QED
  BY <1>5, <1>6, <1>7

\* Every set has a normal list: put its numbers into it one by one.
LEMMA NormalExists ==
  ASSUME NEW n \in Nat, NEW S, S \subseteq 0 .. n - 1
  PROVE  \E l : Normal(l) /\ Covered(l) = S
<1> DEFINE Q == {k \in 0 .. n : \E l : Normal(l) /\ Covered(l) = S \intersect 0 .. k - 1}
<1>1. 0 \in Q
  <2>1. <<>> \in Seq(SackBlock) /\ DOMAIN <<>> = {} /\ S \intersect 0 .. 0 - 1 = {}
    OBVIOUS
  <2>2. Normal(<<>>) /\ Covered(<<>>) = S \intersect 0 .. 0 - 1
    BY <2>1 DEF Normal, Covered
  <2> QED
    BY <2>2
<1>2. ASSUME NEW k \in 1 .. n, k - 1 \in Q PROVE k \in Q
  <2>1. PICK l : Normal(l) /\ Covered(l) = S \intersect 0 .. k - 1 - 1
    BY <1>2
  <2>2. 0 .. k - 1 = 0 .. k - 1 - 1 \union {k - 1} /\ k - 1 .. k - 1 = {k - 1}
    OBVIOUS
  <2>3. CASE k - 1 \in S
    <3>1. /\ Normal(Sack(l, k - 1, k - (k - 1)))
          /\ Covered(Sack(l, k - 1, k - (k - 1))) = Covered(l) \union k - 1 .. k - 1
      BY <2>1, SackIsUnion
    <3>2. Covered(Sack(l, k - 1, k - (k - 1))) = S \intersect 0 .. k - 1
      BY <2>1, <2>2, <2>3, <3>1
    <3> QED
      BY <3>1, <3>2
  <2>4. CASE k - 1 \notin S
    <3>1. Covered(l) = S \intersect 0 .. k - 1
      BY <2>1, <2>2, <2>4
    <3> QED
      BY <2>1, <3>1
  <2> QED
    BY <2>3, <2>4
<1>3. n \in Q
  <2> HIDE DEF Q
  <2> QED
    BY <1>1, <1>2, Upwards
<1> QED
  BY <1>3

\* The normal list of a set is the one of Blocks.
LEMMA NormalIsBlocks ==
  ASSUME NEW l, Normal(l), NEW S, Covered(l) = S
  PROVE  l = Blocks(S)
<1>1. PICK n \in Nat : n = Len(l) /\ DOMAIN l = 1 .. n /\ l \in Seq(SackBlock)
  BY DEF Normal
<1>2. \A i \in 1 .. n : /\ l[i] \in SackBlock /\ l[i].first \in Nat /\ End(l[i]) \in Nat
                        /\ l[i].first < End(l[i]) /\ Block(l[i].first, End(l[i])) = l[i]
  BY <1>1, BlockTyped
<1>3. \A i, j \in 1 .. n : i < j => End(l[i]) < l[j].first
  BY <1>1 DEF Normal
<1>4. \A s : s \in S <=> \E i \in 1 .. n : s \in l[i].first .. End(l[i]) - 1
  BY <1>1 DEF Covered
<1>5. \A i, j \in 1 .. n : i < j <=> l[i].first < l[j].first
  <2>1. ASSUME NEW i \in 1 .. n, NEW j \in 1 .. n, i < j
        PROVE  l[i].first < l[j].first
    <3>1. End(l[i]) < l[j].first
      BY <1>3, <2>1
    <3> QED
      BY <1>2, <3>1
  <2>2. ASSUME NEW i \in 1 .. n, NEW j \in 1 .. n, l[i].first < l[j].first
        PROVE  i < j
    <3>1. i # j /\ ~ (l[j].first < l[i].first)
      BY <1>2, <2>2
    <3>2. ~ (j < i)
      BY <2>1, <3>1
    <3> QED
      BY <3>1, <3>2
  <2> QED
    BY <2>1, <2>2
<1> DEFINE starts == {s \in S : s - 1 \notin S}
           nth(k) == CHOOSE s \in starts : Cardinality({r \in starts : r <= s}) = k
           run(s) == CHOOSE e \in {x + 1 : x \in S} :
                       e > s /\ s .. e - 1 \subseteq S /\ e \notin S
<1>6. Blocks(S) = [k \in 1 .. Cardinality(starts) |-> Block(nth(k), run(nth(k)))]
  BY DEF Blocks
<1>7. \A i \in 1 .. n : End(l[i]) \notin S
  <2>1. ASSUME NEW i \in 1 .. n, End(l[i]) \in S PROVE FALSE
    <3>1. PICK j \in 1 .. n : End(l[i]) \in l[j].first .. End(l[j]) - 1
      BY <1>4, <2>1
    <3>2. l[j].first <= End(l[i]) /\ End(l[i]) < End(l[j])
      BY <1>2, <3>1
    <3>3. ~ (i < j) /\ i # j
      BY <1>2, <1>3, <3>2
    <3>4. j < i
      BY <3>3
    <3>5. End(l[j]) < l[i].first
      BY <1>3, <3>4
    <3> QED
      BY <1>2, <3>2, <3>5
  <2> QED
    BY <2>1
<1>8. \A i \in 1 .. n : l[i].first \in starts
  <2>1. ASSUME NEW i \in 1 .. n PROVE l[i].first \in S /\ l[i].first - 1 \notin S
    <3>1. l[i].first \in l[i].first .. End(l[i]) - 1
      BY <1>2
    <3>2. ASSUME l[i].first - 1 \in S PROVE FALSE
      <4>1. PICK j \in 1 .. n : l[i].first - 1 \in l[j].first .. End(l[j]) - 1
        BY <1>4, <3>2
      <4>2. l[j].first < l[i].first /\ l[i].first <= End(l[j])
        BY <1>2, <4>1
      <4>3. j < i
        BY <1>5, <4>2
      <4>4. End(l[j]) < l[i].first
        BY <1>3, <4>3
      <4> QED
        BY <1>2, <4>2, <4>4
    <3> QED
      BY <1>4, <3>1, <3>2
  <2> QED
    BY <2>1
<1>9. \A s \in starts : \E i \in 1 .. n : s = l[i].first
  <2>1. ASSUME NEW s \in starts PROVE \E i \in 1 .. n : s = l[i].first
    <3>1. PICK i \in 1 .. n : s \in l[i].first .. End(l[i]) - 1
      BY <1>4
    <3>2. s = l[i].first
      <4>1. ASSUME s # l[i].first PROVE s - 1 \in l[i].first .. End(l[i]) - 1
        BY <1>2, <3>1, <4>1
      <4>2. ASSUME s # l[i].first PROVE FALSE
        BY <1>4, <4>1, <4>2
      <4> QED
        BY <4>2
    <3> QED
      BY <3>2
  <2> QED
    BY <2>1
<1> HIDE DEF starts
<1>10. \A k \in 0 .. n : Cardinality({l[i].first : i \in 1 .. k}) = k
  <2>1. ASSUME NEW k \in 0 .. n PROVE Cardinality({l[i].first : i \in 1 .. k}) = k
    <3> DEFINE firsts == {l[i].first : i \in 1 .. k}
               f == [i \in 1 .. k |-> l[i].first]
    <3>1. \A i, j \in 1 .. k : i # j => f[i] # f[j]
      <4>1. ASSUME NEW i \in 1 .. k, NEW j \in 1 .. k, i # j PROVE f[i] # f[j]
        <5>1. i \in 1 .. n /\ j \in 1 .. n /\ (i < j \/ j < i)
          BY <4>1
        <5>2. l[i].first < l[j].first \/ l[j].first < l[i].first
          BY <1>5, <5>1
        <5> QED
          BY <1>2, <5>1, <5>2
      <4> QED
        BY <4>1
    <3>2. f \in Bijection(1 .. k, firsts)
      BY <3>1 DEF Bijection, Injection, Surjection, IsInjective
    <3>3. IsFiniteSet(1 .. k) /\ Cardinality(1 .. k) = k
      BY FS_Interval
    <3> QED
      BY <3>2, <3>3, FS_Bijection DEF ExistsBijection
  <2> QED
    BY <2>1
<1>11. Cardinality(starts) = n
  <2>1. starts = {l[i].first : i \in 1 .. n}
    BY <1>8, <1>9
  <2> QED
    BY <1>10, <2>1
<1>12. \A k \in 1 .. n : Cardinality({r \in starts : r <= l[k].first}) = k
  <2>1. ASSUME NEW k \in 1 .. n
        PROVE  {r \in starts : r <= l[k].first} = {l[i].first : i \in 1 .. k}
    <3>1. ASSUME NEW r \in starts, r <= l[k].first PROVE \E i \in 1 .. k : r = l[i].first
      <4>1. PICK i \in 1 .. n : r = l[i].first
        BY <1>9
      <4>2. ~ (k < i)
        BY <1>2, <1>5, <3>1, <4>1
      <4> QED
        BY <4>1, <4>2
    <3>2. ASSUME NEW i \in 1 .. k PROVE l[i].first \in starts /\ l[i].first <= l[k].first
      <4>1. i \in 1 .. n /\ (i = k \/ i < k)
        OBVIOUS
      <4> QED
        BY <1>2, <1>5, <1>8, <4>1
    <3> QED
      BY <3>1, <3>2
  <2> QED
    BY <1>10, <2>1
<1>13. ASSUME NEW k \in 1 .. n PROVE nth(k) = l[k].first
  <2>1. PICK y : y = nth(k)
    OBVIOUS
  <2>2. l[k].first \in starts /\ Cardinality({r \in starts : r <= l[k].first}) = k
    BY <1>8, <1>12
  <2>3. y \in starts /\ Cardinality({r \in starts : r <= y}) = k
    BY <2>1, <2>2
  <2>4. PICK j \in 1 .. n : y = l[j].first
    BY <1>9, <2>3
  <2>5. j = k
    BY <1>12, <2>3, <2>4
  <2> QED
    BY <2>1, <2>4, <2>5
<1>14. ASSUME NEW k \in 1 .. n PROVE run(l[k].first) = End(l[k])
  <2>1. PICK a : a = l[k].first
    OBVIOUS
  <2>2. PICK z : z = End(l[k])
    OBVIOUS
  <2>3. a \in Nat /\ z \in Nat /\ a < z /\ z \notin S /\ a .. z - 1 \subseteq S
    BY <1>2, <1>4, <1>7, <2>1, <2>2
  <2>4. z \in {x + 1 : x \in S}
    <3>1. z - 1 \in S /\ z = (z - 1) + 1
      BY <2>3
    <3> QED
      BY <3>1
  <2>5. PICK e : e = run(a)
    OBVIOUS
  <2>6. e \in {x + 1 : x \in S} /\ e > a /\ a .. e - 1 \subseteq S /\ e \notin S
    BY <2>3, <2>4, <2>5
  <2>7. e \in Nat
    <3>1. S \subseteq Nat
      BY <1>2, <1>4
    <3> QED
      BY <2>6, <3>1
  <2>8. ~ (e < z)
    <3>1. ASSUME e < z PROVE e \in a .. z - 1
      BY <2>3, <2>6, <2>7, <3>1
    <3> QED
      BY <2>3, <2>6, <3>1
  <2>9. ~ (z < e)
    <3>1. ASSUME z < e PROVE z \in a .. e - 1
      BY <2>3, <2>7, <3>1
    <3> QED
      BY <2>3, <2>6, <3>1
  <2> QED
    BY <2>1, <2>2, <2>3, <2>5, <2>7, <2>8, <2>9
<1>15. \A k \in 1 .. n : Block(nth(k), run(nth(k))) = l[k]
  BY <1>2, <1>13, <1>14
<1> HIDE DEF nth, run
<1>16. Blocks(S) = [k \in 1 .. n |-> l[k]]
  BY <1>6, <1>11, <1>15
<1>17. l = [k \in 1 .. n |-> l[k]]
  BY <1>1
<1> QED
  BY <1>16, <1>17

\* On the list for a set the operations of IrnSackManager are those of the set.
LEMMA ListAgrees ==
  ASSUME NEW n \in Nat, NEW S, S \subseteq 0 .. n - 1
  PROVE  Agrees(S, 0 .. n)
<1>1. PICK l : Normal(l) /\ Covered(l) = S
  BY NormalExists
<1>2. l = Blocks(S)
  BY <1>1, NormalIsBlocks
<1>3. ASSUME NEW f \in 0 .. n, NEW e \in 0 .. n, f <= e
      PROVE  /\ Sack(l, f, e - f) = Blocks(S \union f .. e - 1)
             /\ f .. e - 1 # {} =>
                  (BlockExists(l, f, e - f) <=> f .. e - 1 \subseteq S)
  <2>1. f \in Nat /\ e \in Nat
    OBVIOUS
  <2>2. /\ Normal(Sack(l, f, e - f))
        /\ Covered(Sack(l, f, e - f)) = S \union f .. e - 1
    BY <1>1, <1>3, <2>1, SackIsUnion
  <2>3. f .. e - 1 # {} => f < e
    BY <2>1
  <2> QED
    BY <1>1, <2>1, <2>2, <2>3, NormalIsBlocks, BlockExistsIsSubset
<1>4. ASSUME NEW x \in 0 .. n
      PROVE  DiscardUpTo(l, x) = Blocks({s \in S : s >= x})
  <2>1. /\ Normal(DiscardUpTo(l, x))
        /\ Covered(DiscardUpTo(l, x)) = {s \in S : s >= x}
    BY <1>1, DiscardIsRest
  <2> QED
    BY <2>1, NormalIsBlocks
<1> QED
  BY <1>1, <1>2, <1>3, <1>4 DEF Agrees

-----------------------------------------------------------------------------
(* Theorems.                                                               *)

\* Every variable of an IRN flow keeps its type.
THEOREM IrnTypeCorrect == Spec => []TypeOK
<1>1. IrnInv => TypeOK
  BY DEF IrnInv
<1> QED
  BY <1>1, IrnInvInit, IrnInvNext, PTL DEF Spec

\* The sender skips, over the blocks of irn.m_sack, only packets that arrived,
\* and its lower bound is never one of them.
THEOREM IrnSackSound == Spec => []SackSound
<1>1. IrnInv => SackSound
  BY DEF IrnInv
<1> QED
  BY <1>1, IrnInvInit, IrnInvNext, PTL DEF Spec

\* The receiver's lower bound and m_irn_sack_ are exactly what arrived, and
\* the list lies behind a gap.
THEOREM IrnAheadOfGap == Spec => []AheadOfGap
<1>1. IrnInv => AheadOfGap
  BY DEF IrnInv
<1> QED
  BY <1>1, IrnInvInit, IrnInvNext, PTL DEF Spec

\* What the rest of the specification says of sets of packets, IrnSackManager
\* does with lists of blocks: sack, discardUpTo and blockExists agree with the
\* set operations on every list that occurs.
THEOREM IrnSackListExact == Spec => []SackListExact
<1>1. ASSUME IrnInv PROVE SackListExact
  <2>1. ahead \in SUBSET Seqs /\ sacked \in SUBSET Seqs
    BY <1>1 DEF IrnInv, TypeOK
  <2>2. ASSUME NEW S \in SUBSET Seqs PROVE ListIsSet[S]
    <3>1. Agrees(S, 0 .. NumPackets)
      BY IrnAssumption, ListAgrees DEF Seqs
    <3> QED
      BY <3>1, Zenon DEF ListIsSet
  <2> QED
    BY <2>1, <2>2, Zenon DEF SackListExact
<1> QED
  BY <1>1, IrnInvInit, IrnInvNext, PTL DEF Spec

\* Whatever is not acknowledged yet is under the retransmission timer, and
\* the assert of GetOnTheFly holds.
THEOREM IrnRtoArmed == Spec => []RtoArmed
<1>1. IrnInv => RtoArmed
  BY DEF IrnInv
<1> QED
  BY <1>1, IrnInvInit, IrnInvNext, PTL DEF Spec

\* One step of the flow is one step of Transfer, or none.
LEMMA IrnStepRefines ==
  ASSUME IrnInv, [Next]_vars
  PROVE  [T!TransferNext]_(T!transferVars)
<1>1. TypeOK /\ AheadOfGap /\ sndUna <= expected /\ complete = (sndUna = NumPackets)
  BY Zenon DEF IrnInv
<1>2. ASSUME UNCHANGED <<rcvd, sndUna, complete>>
      PROVE  [T!TransferNext]_(T!transferVars)
  BY <1>2 DEF T!transferVars
<1>3. ASSUME NEW k \in DOMAIN control, GetReply(k)
      PROVE  [T!TransferNext]_(T!transferVars)
  <2>1. IrnInv' /\ UNCHANGED <<expected, rcvd>>
    BY <1>3, GetReplyInv DEF GetReply, receiverVars
  <2>2. complete = FALSE
    BY <1>1, <1>3 DEF GetReply, TypeOK
  <2>3. sndUna' \in 0 .. NumPackets /\ sndUna' <= expected
    BY <1>1, <2>1 DEF IrnInv, TypeOK
  <2>4. complete' = (sndUna' = NumPackets)
    BY <2>1, Zenon DEF IrnInv
  <2>5. sndUna <= sndUna'
    <3>1. sndUna = highestAck /\ sndUna' = highestAck'
      BY <1>3, <2>1 DEF IrnInv, SackSound
    <3>2. control[k] \in Reply /\ highestAck' = Larger(highestAck, control[k].seq)
      BY <1>1, <1>3, Types DEF GetReply
    <3> QED
      BY <1>1, <3>1, <3>2, Types DEF Larger, Reply
  <2>6. 0 .. sndUna' - 1 \subseteq rcvd
    <3>1. expected \in Int /\ sndUna' \in Int /\ sndUna' <= expected
      BY <1>1, <2>3, Types
    <3> QED
      BY <1>1, <3>1, PrefixBounds DEF AheadOfGap
  <2>7. CASE sndUna' = NumPackets
    <3>1. complete' = TRUE
      BY <2>4, <2>7, Zenon
    <3>2. T!Packets \ rcvd \subseteq {}
      BY <2>6, <2>7 DEF T!Packets
    <3> QED
      BY <2>1, <2>2, <2>7, <3>1, <3>2 DEF T!TransferNext, T!Complete
  <2>8. CASE sndUna' # NumPackets
    <3>1. complete' = FALSE
      BY <2>4, <2>8, Zenon
    <3>2. sndUna' = sndUna \/ sndUna' \in sndUna + 1 .. NumPackets - 1
      BY <1>1, <2>3, <2>5, <2>8, Types
    <3> QED
      BY <1>2, <2>1, <2>2, <2>6, <3>1, <3>2 DEF T!TransferNext, T!Acknowledge
  <2> QED
    BY <2>7, <2>8
<1>4. ASSUME NEW k \in DOMAIN data, Deliver(k)
      PROVE  [T!TransferNext]_(T!transferVars)
  <2>1. data[k] \in Seqs /\ data[k] <= maxSeq /\ ReceiveUdp(data[k])
        /\ complete = FALSE /\ UNCHANGED <<sndUna, complete, maxSeq>>
    BY <1>1, <1>4, Types DEF Deliver, TypeOK, senderVars, IrnInv, DataSent, Range
  <2>2. rcvd' = rcvd \union {data[k]}
    BY <2>1, ReceiverEffect
  <2> QED
    BY <2>1, <2>2 DEF T!TransferNext, T!Arrive, T!Packets, Seqs
<1>5. CASE Send \/ Poll \/ NackIntervalOver \/ Lose \/ Rto \/ Over \/ UNCHANGED vars
  BY <1>2, <1>5 DEF Send, Poll, NackIntervalOver, Lose, Rto, Over, vars, receiverVars, senderVars
<1> QED
  BY <1>3, <1>4, <1>5 DEF Next

\* The IRN flow implements the abstract transfer: it completes only after
\* everything was delivered, and acknowledges nothing that was not.
THEOREM IrnImplementsTransfer == Spec => ImplementsTransfer
<1>1. Init => T!TransferInit
  BY DEF Init, T!TransferInit
<1> QED
  BY <1>1, IrnInvInit, IrnInvNext, IrnStepRefines, PTL
     DEF Spec, ImplementsTransfer, T!TransferSpec

=============================================================================
