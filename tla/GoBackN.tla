------------------------------- MODULE GoBackN -------------------------------
(***************************************************************************)
(* A go-back-N flow: the branches of RdmaHw that are taken when neither    *)
(* IRN nor OmniDMA is enabled (ReceiverCheckSeq, ReceiveUdp, ReceiveAck,   *)
(* HandleTimeout, GetNxtPacket), with a network that loses and reorders.   *)
(*                                                                         *)
(* Sequence numbers count packets.  L2AckInterval is 1, so that every      *)
(* expected packet is acknowledged, and L2BackToZero is off.               *)
(***************************************************************************)
EXTENDS Integers, SequencesExt

CONSTANTS
  NumPackets,    \* m_size, in packets
  Window,        \* m_win, in packets; 0 stands for no window
  MaxLoss,       \* bound: packets the network loses, data and control
  MaxSpurious,   \* bound: timeouts while something is still under way
  MaxInFlight    \* bound: packets in flight, for sending data

ASSUME GoBackNAssumption ==
  /\ {NumPackets, MaxInFlight} \subseteq Nat \ {0}
  /\ {Window, MaxLoss, MaxSpurious} \subseteq Nat

VARIABLES
  expected,      \* ReceiverNextExpectedSeq
  heldNack,      \* m_lastNACK while m_nackTimer lies ahead, else NoSeq
  rcvd,          \* history: the packets that were accepted
  sndUna,        \* snd_una
  sndNxt,        \* snd_nxt
  rtoTimer,      \* m_retransmit.IsRunning()
  complete,      \* QpComplete was called
  data,          \* the data packets in flight; any may arrive next
  control,       \* the ACKs (0xFC) and NACKs (0xFD) in flight, likewise
  losses,        \* packets lost so far
  spurious       \* early timeouts so far

receiverVars == <<expected, heldNack, rcvd>>
senderVars == <<sndUna, sndNxt, rtoTimer, complete>>
vars == <<receiverVars, senderVars, data, control, losses, spurious>>

Seqs == 0 .. NumPackets - 1
LastSeq == NumPackets - 1
NoSeq == -1

Reply == [nack : BOOLEAN, seq : 0 .. NumPackets]

Init ==
  /\ expected = 0 /\ heldNack = NoSeq /\ rcvd = {}
  /\ sndUna = 0 /\ sndNxt = 0 /\ rtoTimer = FALSE /\ complete = FALSE
  /\ data = <<>> /\ control = <<>>
  /\ losses = 0 /\ spurious = 0

Larger(a, b) == IF a >= b THEN a ELSE b

-----------------------------------------------------------------------------
(* The sender.                                                             *)

\* Faulty variant: off by one.
CanSendBeyond == sndNxt <= NumPackets /\ ~ (Window # 0 /\ sndNxt - sndUna >= Window)

\* GetNextQindex: something is left to send and the window allows it.
CanSend == sndNxt < NumPackets /\ ~ (Window # 0 /\ sndNxt - sndUna >= Window)

\* GetNxtPacket and PktSent.
Send ==
  /\ ~ complete
  /\ CanSend
  /\ Len(data) + Len(control) < MaxInFlight
  /\ data' = Append(data, sndNxt)
  /\ sndNxt' = sndNxt + 1
  /\ rtoTimer' = TRUE
  /\ UNCHANGED <<receiverVars, sndUna, complete, control, losses, spurious>>

\* ReceiveAck: a NACK acknowledges, too, and then returns to snd_una.  The
\* timer is looked at before that.
GetReply(k) ==
  LET reply == control[k]
      nxt   == Larger(sndNxt, sndUna')
  IN /\ ~ complete
     /\ sndUna' = Larger(sndUna, reply.seq)
     /\ sndNxt' = IF reply.nack THEN sndUna' ELSE nxt
     /\ complete' = (sndUna' >= NumPackets)
     /\ rtoTimer' = (~ complete' /\ (rtoTimer \/ nxt > sndUna'))
     /\ control' = RemoveAt(control, k)
     /\ UNCHANGED <<receiverVars, data, losses, spurious>>

-----------------------------------------------------------------------------
(* The receiver.                                                           *)

\* Faulty variant: a packet that was received is not acknowledged again.
InOrderSilent(seq) ==
  /\ seq <= expected
  /\ expected' = Larger(expected, seq + 1)
  /\ rcvd' = rcvd \union {seq}
  /\ UNCHANGED heldNack
  /\ control' = IF seq = expected
                THEN Append(control, [nack |-> FALSE, seq |-> expected'])
                ELSE control

\* ReceiverCheckSeq returns 1: the expected packet, or one that was received.
InOrder(seq) ==
  /\ seq <= expected
  /\ expected' = Larger(expected, seq + 1)
  /\ rcvd' = rcvd \union {seq}
  /\ UNCHANGED heldNack
  /\ control' = Append(control, [nack |-> FALSE, seq |-> expected'])

\* Faulty variant: the packet behind the gap is accepted.
GapAccepted(seq) ==
  /\ seq > expected
  /\ heldNack # expected
  /\ heldNack' = expected
  /\ expected' = seq + 1
  /\ rcvd' = rcvd \union {seq}
  /\ control' = Append(control, [nack |-> TRUE, seq |-> expected'])

\* Returns 2: a gap.  One NACK per interval and expected packet.
Gap(seq) ==
  /\ seq > expected
  /\ heldNack # expected
  /\ heldNack' = expected
  /\ UNCHANGED <<expected, rcvd>>
  /\ control' = Append(control, [nack |-> TRUE, seq |-> expected])

\* Returns 4: a gap whose NACK was sent already.  The last packet of the flow
\* is answered even so, and not as an ACK.
HeldGap(seq) ==
  /\ seq > expected
  /\ heldNack = expected
  /\ UNCHANGED receiverVars
  /\ control' = IF seq = LastSeq
                THEN Append(control, [nack |-> TRUE, seq |-> expected])
                ELSE control

ReceiveUdp(seq) == InOrder(seq) \/ Gap(seq) \/ HeldGap(seq)

Deliver(k) ==
  /\ ~ complete
  /\ ReceiveUdp(data[k])
  /\ data' = RemoveAt(data, k)
  /\ UNCHANGED <<senderVars, losses, spurious>>

\* m_nack_interval has passed.
NackIntervalOver ==
  /\ ~ complete
  /\ heldNack # NoSeq
  /\ heldNack' = NoSeq
  /\ UNCHANGED <<expected, rcvd, senderVars, data, control, losses, spurious>>

-----------------------------------------------------------------------------
(* Loss and timeout.                                                       *)

Lose ==
  /\ ~ complete
  /\ losses < MaxLoss
  /\ losses' = losses + 1
  /\ \/ \E k \in DOMAIN data : data' = RemoveAt(data, k) /\ UNCHANGED control
     \/ \E k \in DOMAIN control : control' = RemoveAt(control, k) /\ UNCHANGED data
  /\ UNCHANGED <<receiverVars, senderVars, spurious>>

Quiet == data = <<>> /\ control = <<>> /\ ~ CanSend

\* Faulty variant: RecoverQueue is missing.
RtoNoRecover ==
  /\ ~ complete
  /\ rtoTimer
  /\ rtoTimer' = FALSE
  /\ IF Quiet THEN UNCHANGED spurious
     ELSE spurious < MaxSpurious /\ spurious' = spurious + 1
  /\ UNCHANGED <<receiverVars, sndUna, sndNxt, complete, data, control, losses>>

\* HandleTimeout, with RecoverQueue; the timer is not restarted.
Rto ==
  /\ ~ complete
  /\ rtoTimer
  /\ sndNxt' = sndUna
  /\ rtoTimer' = FALSE
  /\ IF Quiet THEN UNCHANGED spurious
     ELSE spurious < MaxSpurious /\ spurious' = spurious + 1
  /\ UNCHANGED <<receiverVars, sndUna, complete, data, control, losses>>

\* What still arrives after QpComplete finds no queue pair.
Over == complete /\ UNCHANGED vars

Next ==
  \/ Send
  \/ \E k \in DOMAIN control : GetReply(k)
  \/ \E k \in DOMAIN data : Deliver(k)
  \/ NackIntervalOver
  \/ Lose
  \/ Rto
  \/ Over

Spec == Init /\ [][Next]_vars

\* The NIC sends what it may, packets that are not lost arrive, and the
\* timeout fires.  Nothing is assumed about the NACK interval.
Fairness ==
  /\ WF_vars(Send)
  /\ WF_vars(\E k \in DOMAIN control : GetReply(k))
  /\ WF_vars(\E k \in DOMAIN data : Deliver(k))
  /\ WF_vars(Rto)

FairSpec == Spec /\ Fairness

-----------------------------------------------------------------------------
(* Properties.                                                             *)

TypeOK ==
  /\ {expected, sndUna, sndNxt} \subseteq 0 .. NumPackets
  /\ heldNack \in 0 .. NumPackets \union {NoSeq}
  /\ rcvd \subseteq Seqs
  /\ rtoTimer \in BOOLEAN /\ complete \in BOOLEAN
  /\ data \in Seq(Seqs)
  /\ control \in Seq(Reply)
  /\ losses \in 0 .. MaxLoss
  /\ spurious \in 0 .. MaxSpurious

\* Unacknowledged packets are under a retransmission timer, although neither
\* HandleTimeout nor RecoverQueue starts it, and snd_una is never ahead of
\* snd_nxt (the assert of GetOnTheFly, rdma-queue-pair.cc:149).
RtoArmed == sndUna <= sndNxt /\ (~ complete /\ sndUna < sndNxt => rtoTimer)

\* A go-back-N flow keeps the promise of Transfer without exception.
T == INSTANCE Transfer WITH
       Total     <- NumPackets,
       Tolerated <- {},
       delivered <- rcvd,
       acked     <- sndUna,
       done      <- complete

ImplementsTransfer == T!TransferSpec

\* Every flow completes, whatever is lost, as long as the network does not
\* lose for ever.
Termination == <> complete

=============================================================================
