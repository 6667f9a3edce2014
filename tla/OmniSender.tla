----------------------------- MODULE OmniSender -----------------------------
(***************************************************************************)
(* The sending side of an OmniDMA flow: the queue pair (RdmaQueuePair),    *)
(* its queue of packets to retransmit (SenderAdamap), and the handlers of  *)
(* RdmaHw that work on them: GetNxtPacket with PktSent, ReceiveAck and     *)
(* HandleTimeout.                                                          *)
(*                                                                         *)
(* Sequence numbers count packets; the byte numbers of the code are these  *)
(* times the MTU.  Rates, windows that vary with the rate and the          *)
(* congestion controllers are left out: they only delay a packet.          *)
(***************************************************************************)
EXTENDS OmniFlow, SequencesExt

CONSTANT Window  \* m_win, in packets; 0 stands for no window

ASSUME WindowAssumption == Window \in Nat

VARIABLES
  sndUna,        \* snd_una
  sndNxt,        \* snd_nxt
  maxNormalAck,  \* omniDMA.m_maxNormalAckSeq
  lossQueue,     \* lossSeqQueue, a sequence of packets to retransmit
  rtoTimer,      \* m_retransmit.IsRunning()
  complete       \* QpComplete was called

senderVars == <<sndUna, sndNxt, maxNormalAck, lossQueue, rtoTimer, complete>>

SenderInit ==
  /\ sndUna = 0
  /\ sndNxt = 0
  /\ maxNormalAck = 0
  /\ lossQueue = <<>>
  /\ rtoTimer = FALSE
  /\ complete = FALSE

Highest(S) == CHOOSE x \in S : \A y \in S : y <= x

OnTheFly == sndNxt - sndUna

IsWinBound == Window # 0 /\ OnTheFly >= Window

-----------------------------------------------------------------------------
(* GetNextQindex, GetNxtPacket and PktSent.                                *)

\* Retransmissions go first and are not subject to the window.
CanRetransmit == lossQueue # <<>>

CanSendNew == ~ CanRetransmit /\ sndNxt < NumPackets /\ ~ IsWinBound

NextPacket ==
  IF CanRetransmit THEN Head(lossQueue)
  ELSE [seq |-> sndNxt, tier |-> 0, index |-> NoIndex]

GetNxtPacket ==
  /\ ~ complete
  /\ \/ CanRetransmit /\ lossQueue' = Tail(lossQueue) /\ UNCHANGED sndNxt
     \/ CanSendNew /\ sndNxt' = sndNxt + 1 /\ UNCHANGED lossQueue
  /\ rtoTimer' = TRUE
  /\ UNCHANGED <<sndUna, maxNormalAck, complete>>

-----------------------------------------------------------------------------
(* ReceiveAck                                                              *)

\* The k-th smallest packet of S.
Nth(S, k) == CHOOSE s \in S : Cardinality({r \in S : r <= s}) = k

\* Faulty variant: the first packet an Adamap describes is taken to be the
\* one at its startSeq.
LossEntriesShifted(a, tier, index) ==
  [k \in 1 .. Cardinality(Missing(a)) |->
     [seq |-> Nth(Missing(a), k) - 1, tier |-> tier, index |-> index]]

\* SenderAdamap::Enqueue: one queue element per packet the Adamap misses, in
\* the order of the packets.
LossEntries(a, tier, index) ==
  [k \in 1 .. Cardinality(Missing(a)) |->
     [seq |-> Nth(Missing(a), k), tier |-> tier, index |-> index]]

\* Faulty variant: 0xFA packets without an Adamap acknowledge nothing.
AcknowledgedNacks(m) ==
  IF m.type = "ack" THEN m.seq ELSE IF m.type = "nack" THEN m.cum ELSE 0

\* What a control packet says about the packets the receiver has.
Acknowledged(m) ==
  IF m.type = "ack" THEN m.seq
  ELSE IF m.type = "finish" THEN NumPackets
  ELSE m.cum

\* Faulty variant: snd_nxt may fall behind snd_una.
ReceiveAckNoBump(m) ==
  /\ ~ complete
  /\ maxNormalAck' = IF m.type = "ack" THEN Highest({maxNormalAck, m.seq})
                     ELSE maxNormalAck
  /\ sndUna' = Highest({sndUna, maxNormalAck', Acknowledged(m)})
  /\ lossQueue' = IF m.type = "nack"
                  THEN lossQueue \o LossEntries(m.adamap, m.tier, m.index)
                  ELSE lossQueue
  /\ complete' = (sndUna' >= NumPackets)
  /\ rtoTimer' = (~ complete' /\ (rtoTimer \/ sndNxt > sndUna'))
  /\ UNCHANGED sndNxt

ReceiveAck(m) ==
  /\ ~ complete
  /\ maxNormalAck' = IF m.type = "ack" THEN Highest({maxNormalAck, m.seq})
                     ELSE maxNormalAck
  /\ sndUna' = Highest({sndUna, maxNormalAck', Acknowledged(m)})
  /\ sndNxt' = Highest({sndNxt, sndUna'})
  /\ lossQueue' = IF m.type = "nack"
                  THEN lossQueue \o LossEntries(m.adamap, m.tier, m.index)
                  ELSE lossQueue
  /\ complete' = (sndUna' >= NumPackets)
  /\ rtoTimer' = (~ complete' /\ (rtoTimer \/ sndNxt' > sndUna'))

-----------------------------------------------------------------------------
\* Faulty variant: RecoverQueue is missing.
HandleTimeoutNoRecover ==
  /\ rtoTimer
  /\ sndUna' = Highest({sndUna, maxNormalAck})
  /\ sndNxt' = Highest({sndNxt, sndUna'})
  /\ rtoTimer' = FALSE
  /\ UNCHANGED <<maxNormalAck, lossQueue, complete>>

\* HandleTimeout, with RecoverQueue: back to the first unacknowledged packet.
\* The timer is not restarted before the next packet or acknowledgement.
HandleTimeout ==
  /\ rtoTimer
  /\ sndUna' = Highest({sndUna, maxNormalAck})
  /\ sndNxt' = sndUna'
  /\ rtoTimer' = FALSE
  /\ UNCHANGED <<maxNormalAck, lossQueue, complete>>

-----------------------------------------------------------------------------
(* Properties.                                                             *)

SenderTypeOK ==
  /\ {sndUna, sndNxt, maxNormalAck} \subseteq 0 .. NumPackets
  /\ lossQueue \in Seq(Packet)
  /\ rtoTimer \in BOOLEAN /\ complete \in BOOLEAN

\* The assert of GetOnTheFly (rdma-queue-pair.cc:149), and no packet beyond
\* the last one has been sent.
WindowOrder == sndUna <= sndNxt /\ sndNxt <= NumPackets

\* Unacknowledged packets are under a retransmission timer.
RtoArmed == ~ complete /\ sndUna < sndNxt => rtoTimer

=============================================================================
