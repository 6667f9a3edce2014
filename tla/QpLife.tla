------------------------------- MODULE QpLife -------------------------------
(***************************************************************************)
(* The life cycle of queue pairs: m_qpMap and akashic_Qp at the sender,    *)
(* m_rxQpMap and akashic_RxQp at the receiver, and what still arrives      *)
(* after a flow is complete.  A flow stands for its key; the four look-ups *)
(* of the code (two of them by the flipped five-tuple) agree on it.        *)
(*                                                                         *)
(* What is sent and when a flow is complete is left open: the transports   *)
(* are modules of their own.                                               *)
(***************************************************************************)
EXTENDS Integers

CONSTANTS
  Flows,
  MaxInFlight    \* bound: packets, and replies, of a flow in flight

VARIABLES
  qpMap,         \* the flows in m_qpMap
  akashicQp,     \* akashic_Qp
  rxQpMap,       \* the flows in m_rxQpMap
  akashicRxQp,   \* akashic_RxQp
  retrans,       \* flows whose SenderAdamap holds retransmissions
  data,          \* per flow: data packets in flight
  replies        \* per flow: ACKs and NACKs in flight

tables == <<qpMap, akashicQp, rxQpMap, akashicRxQp>>
vars == <<tables, retrans, data, replies>>

Init ==
  /\ qpMap = {} /\ akashicQp = {}
  /\ rxQpMap = {} /\ akashicRxQp = {}
  /\ retrans = {}
  /\ data = [f \in Flows |-> 0]
  /\ replies = [f \in Flows |-> 0]

AddQueuePair(f) ==
  /\ f \notin qpMap \union akashicQp
  /\ qpMap' = qpMap \union {f}
  /\ UNCHANGED <<akashicQp, rxQpMap, akashicRxQp, retrans, data, replies>>

\* GetNextQindex walks the queue pairs of the NIC, not m_qpMap: a completed
\* flow is passed over only once nothing is left to retransmit.
Send(f) ==
  /\ f \in qpMap \/ f \in retrans
  /\ data[f] < MaxInFlight
  /\ data' = [data EXCEPT ![f] = @ + 1]
  /\ \/ f \in qpMap /\ UNCHANGED retrans
     \/ retrans' = retrans \ {f}
  /\ UNCHANGED <<tables, replies>>

\* ReceiveUdp asks GetRxQp to create what it does not find.
ReceiveUdp(f) ==
  /\ data[f] > 0
  /\ data' = [data EXCEPT ![f] = @ - 1]
  /\ rxQpMap' = rxQpMap \union {f}
  /\ \/ UNCHANGED replies
     \/ replies[f] < MaxInFlight /\ replies' = [replies EXCEPT ![f] = @ + 1]
  /\ UNCHANGED <<qpMap, akashicQp, akashicRxQp, retrans>>

\* The list and the table timeout of a receiver.
RxTimeout(f) ==
  /\ f \in rxQpMap
  /\ replies[f] < MaxInFlight
  /\ replies' = [replies EXCEPT ![f] = @ + 1]
  /\ UNCHANGED <<tables, retrans, data>>

\* QpComplete: qp_finish deletes the receiver's queue pair, by a call that
\* bypasses the network, and DeleteQueuePair the sender's.
QpComplete(f) ==
  /\ akashicRxQp' = akashicRxQp \union {f}
  /\ rxQpMap' = rxQpMap \ {f}
  /\ akashicQp' = akashicQp \union {f}
  /\ qpMap' = qpMap \ {f}

\* ReceiveAck: the flow goes on, perhaps with retransmissions to send, or is
\* complete.  A reply to a completed flow is dropped.
ReceiveAck(f) ==
  /\ replies[f] > 0
  /\ replies' = [replies EXCEPT ![f] = @ - 1]
  /\ \/ /\ f \in qpMap
        /\ retrans' \in {retrans, retrans \union {f}}
        /\ UNCHANGED tables
     \/ f \in qpMap /\ QpComplete(f) /\ UNCHANGED retrans
     \/ f \notin qpMap /\ UNCHANGED <<tables, retrans>>
  /\ UNCHANGED data

\* A packet or a reply is dropped on its way.
Lose(f) ==
  /\ \/ data[f] > 0 /\ data' = [data EXCEPT ![f] = @ - 1] /\ UNCHANGED replies
     \/ replies[f] > 0 /\ replies' = [replies EXCEPT ![f] = @ - 1] /\ UNCHANGED data
  /\ UNCHANGED <<tables, retrans>>

Next ==
  \E f \in Flows :
    \/ AddQueuePair(f) \/ Send(f) \/ ReceiveUdp(f)
    \/ RxTimeout(f) \/ ReceiveAck(f) \/ Lose(f)

Spec == Init /\ [][Next]_vars

-----------------------------------------------------------------------------
(* Properties.                                                             *)

TypeOK ==
  /\ qpMap \subseteq Flows /\ akashicQp \subseteq Flows
  /\ rxQpMap \subseteq Flows /\ akashicRxQp \subseteq Flows
  /\ retrans \subseteq Flows
  /\ data \in [Flows -> Nat]
  /\ replies \in [Flows -> Nat]

\* A reply belongs to a flow the sender has or had: ReceiveAck never ends the
\* program with "NIC cannot find the flow" (rdma-hw.cc:1140), although a
\* receiver that was deleted and created anew goes on sending replies.
RepliesKnown ==
  \A f \in Flows : replies[f] > 0 => f \in qpMap \union akashicQp

\* A flow completes once, at both ends: the asserts of DeleteQueuePair and
\* DeleteRxQp hold whenever QpComplete may be called.
DeletedOnce == qpMap \intersect (akashicQp \union akashicRxQp) = {}

\* A data packet that arrives when its flow is complete is dropped ("just
\* drop", rdma-hw.cc:527): a receiver on record as deleted does not come back.
NeverRevived == rxQpMap \intersect akashicRxQp = {}

=============================================================================
