------------------------------ MODULE OmniDma -------------------------------
(***************************************************************************)
(* One OmniDMA flow from its first packet to QpComplete: OmniSender and    *)
(* OmniReceiver joined by a network that loses, delays and, if told so,    *)
(* reorders packets.                                                       *)
(*                                                                         *)
(* Data packets keep their order on a single path (Reordering = FALSE).    *)
(* Control packets may always overtake one another: each reply waits for   *)
(* the DMA delay of the contexts it touched before it is queued.           *)
(*                                                                         *)
(* A timer may fire at any moment.  When nothing is under way any more it  *)
(* is free to; firing earlier (a spurious timeout) takes from a budget.    *)
(***************************************************************************)
EXTENDS OmniReceiver, OmniSender, Bags

CONSTANTS
  Reordering,    \* may data packets overtake one another?
  MaxLoss,       \* bound: packets the network loses, data and control
  MaxSpurious,   \* bound: spurious timeouts, of any timer
  MaxData,       \* bound: data packets in flight
  MaxControl     \* bound: control packets in flight, for sending new data

ASSUME OmniDmaAssumption ==
  /\ Reordering \in BOOLEAN
  /\ {MaxLoss, MaxSpurious, MaxControl} \subseteq Nat
  /\ MaxData \in Nat \ {0}

VARIABLES
  data,          \* the data packets in flight, oldest first
  control,       \* the control packets in flight, a bag
  losses,        \* packets lost so far
  spurious       \* spurious timeouts so far

networkVars == <<data, control, losses, spurious>>

vars == <<receiverVars, senderVars, networkVars>>

Init ==
  /\ ReceiverInit
  /\ SenderInit
  /\ data = <<>>
  /\ control = EmptyBag
  /\ losses = 0
  /\ spurious = 0

Running == ~ complete /\ ~ aborted

ControlMessages == BagToSet(control)

Emit(messages) == control' = control (+) SetToBag(messages)

-----------------------------------------------------------------------------
(* The sender's steps.                                                     *)

Send ==
  /\ Running
  /\ Len(data) < MaxData
  /\ CanSendNew => BagCardinality(control) < MaxControl
  /\ GetNxtPacket
  /\ data' = Append(data, NextPacket)
  /\ UNCHANGED <<receiverVars, control, losses, spurious>>

GetAck(m) ==
  /\ Running
  /\ ReceiveAck(m)
  /\ control' = control (-) SetToBag({m})
  /\ UNCHANGED <<receiverVars, data, losses, spurious>>

-----------------------------------------------------------------------------
(* The receiver's steps.                                                   *)

\* The positions in data of the packets that can leave the network next.
Deliverable ==
  {k \in DOMAIN data : Reordering \/ k = 1}

Deliver(k) ==
  /\ Running
  /\ ReceiveUdp(data[k])
  /\ \E active \in {b \in BOOLEAN : b => ActiveNackEntries(data[k]) # {}} :
       Emit(UdpReplies(data[k], active))
  /\ data' = RemoveAt(data, k)
  /\ UNCHANGED <<senderVars, losses, spurious>>

Fail(k) ==
  /\ Running
  /\ Abort(data[k])
  /\ data' = RemoveAt(data, k)
  /\ UNCHANGED <<senderVars, control, losses, spurious>>

-----------------------------------------------------------------------------
(* Loss in the network.                                                    *)

LoseData(k) ==
  /\ Running
  /\ losses < MaxLoss
  /\ data' = RemoveAt(data, k)
  /\ losses' = losses + 1
  /\ UNCHANGED <<receiverVars, senderVars, control, spurious>>

LoseControl(m) ==
  /\ Running
  /\ losses < MaxLoss
  /\ control' = control (-) SetToBag({m})
  /\ losses' = losses + 1
  /\ UNCHANGED <<receiverVars, senderVars, data, spurious>>

-----------------------------------------------------------------------------
(* Timeouts.                                                               *)

\* Nothing is in flight, and the sender has nothing it may send.
Quiet ==
  /\ data = <<>>
  /\ control = EmptyBag
  /\ ~ CanRetransmit
  /\ ~ CanSendNew

\* The early firing of a timer is paid for, the due one is not.
Pay ==
  IF Quiet THEN UNCHANGED spurious
  ELSE spurious < MaxSpurious /\ spurious' = spurious + 1

ListTimeout ==
  /\ Running
  /\ HandleOmniListTimeout
  /\ Emit(ListTimeoutReplies)
  /\ Pay
  /\ UNCHANGED <<senderVars, data, losses>>

\* Any of the entries may have expired, not only all of them at once.
TableTimeout ==
  /\ Running
  /\ HandleOmniTableTimeout
  /\ \E Expired \in SUBSET table :
       /\ Expired = {} => table = {}
       /\ Emit(TableTimeoutReplies(Expired))
  /\ Pay
  /\ UNCHANGED <<senderVars, data, losses>>

Rto ==
  /\ Running
  /\ HandleTimeout
  /\ Pay
  /\ UNCHANGED <<receiverVars, data, control, losses>>

-----------------------------------------------------------------------------
\* The flow is over; what still arrives then finds no queue pair.
Over == ~ Running /\ UNCHANGED vars

Next ==
  \/ Send
  \/ \E m \in ControlMessages : GetAck(m) \/ LoseControl(m)
  \/ \E k \in Deliverable : Deliver(k) \/ Fail(k) \/ LoseData(k)
  \/ ListTimeout
  \/ TableTimeout
  \/ Rto
  \/ Over

Spec == Init /\ [][Next]_vars

\* The simulator delivers what it does not lose, and timers fire.  A due
\* timeout may be postponed by other timeouts, hence strong fairness.
Fairness ==
  /\ WF_vars(Send)
  /\ WF_vars(\E m \in ControlMessages : GetAck(m))
  /\ WF_vars(\E k \in Deliverable : Deliver(k) \/ Fail(k))
  /\ SF_vars(ListTimeout)
  /\ SF_vars(TableTimeout)
  /\ SF_vars(Rto)

FairSpec == Spec /\ Fairness

-----------------------------------------------------------------------------
(* Properties.                                                             *)

ControlType ==
  [type : {"nack"}, tier : {1, 2}, index : Nat \union {NoIndex},
   adamap : AdamapType, cum : 0 .. NumPackets]
    \union [type : {"pending", "finish"}, cum : 0 .. NumPackets]
    \union [type : {"ack"}, seq : 0 .. NumPackets]

TypeOK ==
  /\ ReceiverTypeOK
  /\ SenderTypeOK
  /\ data \in Seq(Packet)
  /\ IsABag(control) /\ ControlMessages \subseteq ControlType
  /\ losses \in 0 .. MaxLoss
  /\ spurious \in 0 .. MaxSpurious

\* The later retransmissions under way fit the table entry they name: the
\* asserts on that path (adamap-receiver.cc:549, 568, 587) never fail.
Retransmissions ==
  {data[k] : k \in DOMAIN data} \union {lossQueue[k] : k \in DOMAIN lossQueue}

MultiInRange ==
  \A p \in Retransmissions : p.tier = 2 => MultiAsserts(p.seq, p.index)

\* The flow keeps the promise of Transfer, except that it may complete
\* without packet 0, for which the Adamap has no bit, and without packets of
\* the last bitmap, which the finish condition does not look at.
T == INSTANCE Transfer WITH
       Total     <- NumPackets,
       Tolerated <- {0} \union (NumPackets - BitmapSize .. LastSeq - 1),
       delivered <- rcvd,
       acked     <- sndUna,
       done      <- complete

ImplementsTransfer == T!TransferSpec

\* Every flow ends: it completes, or an assert has stopped the simulator.
Termination == <> ~ Running

-----------------------------------------------------------------------------
(* Statements of the code that the model refutes.                          *)

\* adamap-receiver.cc:283, "Flow %u get all packets. Finishes.": when the
\* finish condition holds, no packet is missing.
FinishMeansAll == isFinished => rcvd = Seqs

\* adamap-receiver.cc:393, assert (seq < m_startSeq + 1): a first
\* retransmission never arrives ahead of the current window.
FirstBehindWindow ==
  \A k \in Deliverable : data[k].tier = 1 => data[k].seq < startSeq + 1

=============================================================================
