--------------------------------- MODULE Irn ---------------------------------
(***************************************************************************)
(* A flow with IRN: the branches of RdmaHw and RdmaQueuePair taken when    *)
(* m_irn is set, with a network that loses and reorders.  Both ends keep   *)
(* the packets received out of order in an IrnSackManager; here that is    *)
(* the set of the packets its blocks cover; module IrnSack has the blocks. *)
(*                                                                         *)
(* Sequence numbers count packets, so that a block of the SACK list starts *)
(* and ends at a packet.  PFC is off, as the run script demands of IRN,    *)
(* and there is no send window beside IRN's own.                           *)
(***************************************************************************)
EXTENDS IrnSack

CONSTANTS
  NumPackets,    \* m_size, in packets
  Bdp,           \* irn.m_bdp, in packets
  MaxLoss,       \* bound: packets the network loses, data and control
  MaxSpurious,   \* bound: timeouts while something is still under way
  MaxInFlight    \* bound: packets in flight, for sending data

ASSUME IrnAssumption ==
  /\ {NumPackets, Bdp, MaxInFlight} \subseteq Nat \ {0}
  /\ {MaxLoss, MaxSpurious} \subseteq Nat

VARIABLES
  expected,      \* ReceiverNextExpectedSeq
  ahead,         \* m_irn_sack_: the packets received beyond a gap
  nackHeld,      \* Now() < m_nackTimer
  rcvd,          \* history: the packets that arrived
  sndUna,        \* snd_una
  sndNxt,        \* snd_nxt
  sacked,        \* irn.m_sack: the packets known to be received
  highestAck,    \* irn.m_highest_ack
  maxSeq,        \* irn.m_max_seq
  recovery,      \* irn.m_recovery
  recoverySeq,   \* irn.m_recovery_seq
  rtoTimer,      \* m_retransmit.IsRunning()
  complete,      \* QpComplete was called
  data,          \* the data packets in flight; any may arrive next
  control,       \* the replies (0xFD) in flight, likewise
  losses,        \* packets lost so far
  spurious       \* early timeouts so far

receiverVars == <<expected, ahead, nackHeld, rcvd>>
senderVars == <<sndUna, sndNxt, sacked, highestAck, maxSeq, recovery,
                recoverySeq, rtoTimer, complete>>
vars == <<receiverVars, senderVars, data, control, losses, spurious>>

Seqs == 0 .. NumPackets - 1
LastSeq == NumPackets - 1
NoSeq == -1

\* sack is irnNack, or NoSeq where irnNackSize is 0.
Reply == [seq : 0 .. NumPackets, sack : Seqs \union {NoSeq}]

Init ==
  /\ expected = 0 /\ ahead = {} /\ nackHeld = FALSE /\ rcvd = {}
  /\ sndUna = 0 /\ sndNxt = 0 /\ sacked = {}
  /\ highestAck = 0 /\ maxSeq = 0
  /\ recovery = FALSE /\ recoverySeq = 0
  /\ rtoTimer = FALSE /\ complete = FALSE
  /\ data = <<>> /\ control = <<>>
  /\ losses = 0 /\ spurious = 0

Larger(a, b) == IF a >= b THEN a ELSE b

From(n, S) == {s \in S : s >= n}

\* Faulty variant: one too far.
BlockEndBeyond(n, S) ==
  CHOOSE e \in n .. NumPackets :
    /\ n .. e - 2 \subseteq S
    /\ IF n \in S THEN e > n /\ (e = NumPackets \/ e - 1 \notin S) ELSE e = n

\* The end of the block of S that starts at n.
BlockEnd(n, S) ==
  CHOOSE e \in n .. NumPackets : n .. e - 1 \subseteq S /\ e \notin S

\* peekFrontBlock returns a block that starts at n.
FrontAt(n, S) == n \in S /\ \A s \in S : n <= s

\* What GetBytesLeft and IsFinished do to snd_nxt: over the front block.
Skip(nxt, S) == IF FrontAt(nxt, S) THEN BlockEnd(nxt, S) ELSE nxt

\* And to the SACK list.
SkipDiscard(nxt, S) == IF FrontAt(nxt, S) THEN From(BlockEnd(nxt, S), S) ELSE S

-----------------------------------------------------------------------------
(* The sender.                                                             *)

\* GetIrnBytesInFlight is unsigned: the first alternative fails where
\* everything sent is acknowledged and the difference wraps.
CanIrnTransmit ==
  \/ maxSeq >= highestAck /\ maxSeq - highestAck + 1 < Bdp
  \/ sndNxt < highestAck + Bdp

\* Faulty variant: off by one.
CanSendBeyond == CanIrnTransmit /\ Skip(sndNxt, sacked) <= NumPackets

\* GetNextQindex: CanIrnTransmit looks at snd_nxt before GetBytesLeft moves it.
CanSend == CanIrnTransmit /\ Skip(sndNxt, sacked) < NumPackets

\* GetNxtPacket and PktSent.
Send ==
  LET seq == Skip(sndNxt, sacked)
  IN /\ ~ complete
     /\ CanSend
     /\ Len(data) + Len(control) < MaxInFlight
     /\ data' = Append(data, seq)
     /\ sndNxt' = seq + 1
     /\ sacked' = SkipDiscard(sndNxt, sacked)
     /\ maxSeq' = Larger(maxSeq, seq)
     /\ rtoTimer' = TRUE
     /\ UNCHANGED <<receiverVars, sndUna, highestAck, recovery, recoverySeq,
                    complete, control, losses, spurious>>

\* GetNextQindex does not choose the flow, having called GetBytesLeft.
Poll ==
  /\ ~ complete
  /\ FrontAt(sndNxt, sacked)
  /\ sndNxt' = Skip(sndNxt, sacked)
  /\ sacked' = SkipDiscard(sndNxt, sacked)
  /\ UNCHANGED <<receiverVars, sndUna, highestAck, maxSeq, recovery,
                 recoverySeq, rtoTimer, complete, data, control, losses, spurious>>

\* RecoverQueue on the first SACK; a reply without one ends the recovery.
Recover(isSack, nxt) ==
  LET still == recovery /\ sndUna' < recoverySeq
  IN \/ /\ isSack /\ ~ still
        /\ sndNxt' = sndUna'
        /\ recovery' = TRUE
        /\ recoverySeq' = nxt
     \/ /\ isSack /\ still
        /\ sndNxt' = nxt
        /\ UNCHANGED <<recovery, recoverySeq>>
     \/ /\ ~ isSack
        /\ sndNxt' = nxt
        /\ recovery' = FALSE
        /\ UNCHANGED recoverySeq

\* ReceiveAck.  The timer is looked at before RecoverQueue.
GetReply(k) ==
  LET reply  == control[k]
      isSack == reply.sack # NoSeq
      una    == Larger(sndUna, reply.seq)
      marked == IF isSack THEN sacked \union {reply.sack} ELSE sacked
      kept   == From(sndUna', marked)
      moved  == Larger(sndNxt, sndUna')
      nxt    == Skip(moved, kept)
  IN /\ ~ complete
     /\ sndUna' = Skip(una, marked)
     /\ highestAck' = Larger(highestAck, reply.seq)
     /\ sacked' = SkipDiscard(moved, kept)
     /\ complete' = (sndUna' >= NumPackets)
     /\ rtoTimer' = (~ complete' /\ (rtoTimer \/ nxt > sndUna'))
     /\ Recover(isSack, nxt)
     /\ control' = RemoveAt(control, k)
     /\ UNCHANGED <<receiverVars, maxSeq, data, losses, spurious>>

-----------------------------------------------------------------------------
(* The receiver.                                                           *)

Answer(sack) == control' = Append(control, [seq |-> expected', sack |-> sack])

\* Faulty variant: the reply names the packet that is missing.
AnswerMissing(seq) == Answer(IF ahead' = {} THEN NoSeq ELSE expected')

\* ReceiverCheckSeq returns 6 when nothing is missing, and 2 otherwise: the
\* reply then names the packet it answers, received in order or not.
AnswerInOrder(seq) == Answer(IF ahead' = {} THEN NoSeq ELSE seq)

\* Faulty variant: the list keeps what the lower bound has passed.
InOrderKept(seq) ==
  /\ seq = expected
  /\ expected' = BlockEnd(seq, ahead \union {seq})
  /\ rcvd' = rcvd \union {seq}
  /\ UNCHANGED <<ahead, nackHeld>>
  /\ AnswerInOrder(seq)

\* The expected packet moves the lower bound over the block it adjoins.
InOrder(seq) ==
  /\ seq = expected
  /\ expected' = BlockEnd(seq, ahead \union {seq})
  /\ ahead' = From(expected', ahead)
  /\ rcvd' = rcvd \union {seq}
  /\ AnswerInOrder(seq)
  /\ UNCHANGED nackHeld

\* Faulty variant: a packet that was received is not answered again.
DuplicateSilent(seq) == seq < expected /\ UNCHANGED <<receiverVars, control>>

Duplicate(seq) ==
  /\ seq < expected
  /\ UNCHANGED receiverVars
  /\ AnswerInOrder(seq)

Gap(seq) ==
  /\ seq > expected
  /\ ~ (seq \in ahead /\ nackHeld)
  /\ nackHeld' = TRUE
  /\ ahead' = ahead \union {seq}
  /\ rcvd' = rcvd \union {seq}
  /\ UNCHANGED expected
  /\ Answer(seq)

\* Returns 4: NACKed already.  The last packet of the flow is answered even
\* so, with a reply that is no SACK.
HeldGap(seq) ==
  /\ seq > expected
  /\ seq \in ahead /\ nackHeld
  /\ UNCHANGED receiverVars
  /\ IF seq = LastSeq THEN Answer(NoSeq) ELSE UNCHANGED control

ReceiveUdp(seq) == InOrder(seq) \/ Duplicate(seq) \/ Gap(seq) \/ HeldGap(seq)

Deliver(k) ==
  /\ ~ complete
  /\ ReceiveUdp(data[k])
  /\ data' = RemoveAt(data, k)
  /\ UNCHANGED <<senderVars, losses, spurious>>

\* m_nack_interval has passed.
NackIntervalOver ==
  /\ ~ complete
  /\ nackHeld
  /\ nackHeld' = FALSE
  /\ UNCHANGED <<expected, ahead, rcvd, senderVars, data, control, losses, spurious>>

-----------------------------------------------------------------------------
(* Loss and timeout.                                                       *)

Lose ==
  /\ ~ complete
  /\ losses < MaxLoss
  /\ losses' = losses + 1
  /\ \/ \E k \in DOMAIN data : data' = RemoveAt(data, k) /\ UNCHANGED control
     \/ \E k \in DOMAIN control : control' = RemoveAt(control, k) /\ UNCHANGED data
  /\ UNCHANGED <<receiverVars, senderVars, spurious>>

Quiet == data = <<>> /\ control = <<>> /\ ~ CanSend

\* Faulty variant: RecoverQueue is missing.
RtoNoRecover ==
  /\ ~ complete
  /\ rtoTimer
  /\ rtoTimer' = FALSE
  /\ recovery' = TRUE
  /\ IF Quiet THEN UNCHANGED spurious
     ELSE spurious < MaxSpurious /\ spurious' = spurious + 1
  /\ UNCHANGED <<receiverVars, sndUna, sndNxt, sacked, highestAck, maxSeq,
                 recoverySeq, complete, data, control, losses>>

\* HandleTimeout, with IsFinished and RecoverQueue; the timer is not
\* restarted.
Rto ==
  /\ ~ complete
  /\ rtoTimer
  /\ rtoTimer' = FALSE
  /\ sacked' = SkipDiscard(sndNxt, sacked)
  /\ sndNxt' = sndUna
  /\ recovery' = TRUE
  /\ IF Quiet THEN UNCHANGED spurious
     ELSE spurious < MaxSpurious /\ spurious' = spurious + 1
  /\ UNCHANGED <<receiverVars, sndUna, highestAck, maxSeq, recoverySeq,
                 complete, data, control, losses>>

\* What still arrives after QpComplete finds no queue pair.
Over == complete /\ UNCHANGED vars

Next ==
  \/ Send
  \/ Poll
  \/ \E k \in DOMAIN control : GetReply(k)
  \/ \E k \in DOMAIN data : Deliver(k)
  \/ NackIntervalOver
  \/ Lose
  \/ Rto
  \/ Over

Spec == Init /\ [][Next]_vars

\* As for go-back-N: nothing is assumed about the NACK interval, nor about
\* polls that send nothing.
Fairness ==
  /\ WF_vars(Send)
  /\ WF_vars(\E k \in DOMAIN control : GetReply(k))
  /\ WF_vars(\E k \in DOMAIN data : Deliver(k))
  /\ WF_vars(Rto)

FairSpec == Spec /\ Fairness

-----------------------------------------------------------------------------
(* Properties.                                                             *)

TypeOK ==
  /\ {expected, sndUna, sndNxt, highestAck, recoverySeq} \subseteq 0 .. NumPackets
  /\ {ahead, sacked, rcvd} \subseteq SUBSET Seqs
  /\ maxSeq \in Seqs
  /\ {nackHeld, recovery, rtoTimer, complete} \subseteq BOOLEAN
  /\ data \in Seq(Seqs)
  /\ control \in Seq(Reply)
  /\ losses \in 0 .. MaxLoss
  /\ spurious \in 0 .. MaxSpurious

\* The sender skips only packets that have arrived, and the packet at its
\* lower bound is never one of them: the jump of snd_una over a front block
\* (rdma-hw.cc:1254) is not taken, so that snd_una is m_highest_ack, which
\* the BDP limit counts from.
SackSound ==
  /\ sacked \subseteq rcvd
  /\ sacked \subseteq sndUna + 1 .. maxSeq
  /\ sndUna = highestAck

\* The lower bound and the list stand for the packets that arrived, neither
\* more nor less; those of the list lie behind a gap (the assert of
\* rdma-hw.cc:1495), and no packet arrives that was not sent.
AheadOfGap ==
  /\ rcvd = (0 .. expected - 1) \union ahead
  /\ ahead \subseteq expected + 1 .. maxSeq

\* The list algorithms of IrnSackManager (rdma-queue-pair.cc:277-375), which
\* insert, split and merge blocks, treat the lists that occur as the sets that
\* the rest of this module takes them for.
ListIsSet == [S \in SUBSET Seqs |-> Agrees(S, 0 .. NumPackets)]

SackListExact == ListIsSet[ahead] /\ ListIsSet[sacked]

\* Unacknowledged packets are under a retransmission timer although neither
\* HandleTimeout nor RecoverQueue starts it, and snd_una is never ahead of
\* snd_nxt (the assert of GetOnTheFly, rdma-queue-pair.cc:149).
RtoArmed == sndUna <= sndNxt /\ (~ complete /\ sndUna < sndNxt => rtoTimer)

\* IRN keeps the promise of Transfer without exception.
T == INSTANCE Transfer WITH
       Total     <- NumPackets,
       Tolerated <- {},
       delivered <- rcvd,
       acked     <- sndUna,
       done      <- complete

ImplementsTransfer == T!TransferSpec

\* Every flow completes, whatever is lost, as long as the network does not
\* lose for ever.
Termination == <> complete

\* What is in flight stays below m_bdp, the "BDP Limit for IRN in Bytes"
\* (rdma-hw.cc:134).
WithinBdp == maxSeq - highestAck < Bdp

=============================================================================
