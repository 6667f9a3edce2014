----------------------------- MODULE QpLifeProofs -----------------------------
(***************************************************************************)
(* Theorems about QpLife, for any set of flows and any bound on what is in *)
(* flight.  A receiver may come back after its flow is complete            *)
(* (NeverRevived does not hold), and goes on sending replies; these are    *)
(* the facts that make that harmless for the sender.                       *)
(***************************************************************************)
EXTENDS QpLife, TLAPS

\* The flows AddQueuePair has ever been called for.
Known == qpMap \union akashicQp

\* Whatever can bring about a reply belongs to a known flow; the sender's and
\* the receiver's records of deleted flows are the same, and disjoint from
\* the sender's live ones.
IInv ==
  /\ TypeOK
  /\ \A f \in Flows : data[f] > 0 \/ replies[f] > 0 => f \in Known
  /\ rxQpMap \union retrans \subseteq Known
  /\ akashicQp = akashicRxQp
  /\ qpMap \intersect akashicQp = {}

LEMMA QpLifeInit == Init => IInv
  BY DEF Init, IInv, TypeOK, Known

LEMMA QpLifeNext == IInv /\ [Next]_vars => IInv'
<1> SUFFICES ASSUME IInv, [Next]_vars
             PROVE  IInv'
  OBVIOUS
<1> USE DEF IInv, TypeOK, Known
<1>1. ASSUME NEW f \in Flows, AddQueuePair(f)
      PROVE  IInv'
  BY <1>1 DEF AddQueuePair
<1>2. ASSUME NEW f \in Flows, Send(f)
      PROVE  IInv'
  BY <1>2 DEF Send, tables
<1>3. ASSUME NEW f \in Flows, ReceiveUdp(f)
      PROVE  IInv'
  BY <1>3 DEF ReceiveUdp
<1>4. ASSUME NEW f \in Flows, RxTimeout(f)
      PROVE  IInv'
  BY <1>4 DEF RxTimeout, tables
<1>5. ASSUME NEW f \in Flows, ReceiveAck(f)
      PROVE  IInv'
  <2>1. /\ replies' \in [Flows -> Nat]
        /\ \A g \in Flows : replies'[g] > 0 => replies[g] > 0
        /\ data' = data
    BY <1>5 DEF ReceiveAck
  <2>2. CASE f \in qpMap /\ retrans' \in {retrans, retrans \union {f}} /\ UNCHANGED tables
    BY <2>1, <2>2 DEF tables
  <2>3. CASE f \in qpMap /\ QpComplete(f) /\ UNCHANGED retrans
    BY <2>1, <2>3 DEF QpComplete
  <2>4. CASE f \notin qpMap /\ UNCHANGED <<tables, retrans>>
    BY <2>1, <2>4 DEF tables
  <2> QED
    BY <1>5, <2>2, <2>3, <2>4 DEF ReceiveAck
<1>6. ASSUME NEW f \in Flows, Lose(f)
      PROVE  IInv'
  BY <1>6 DEF Lose, tables
<1>7. CASE UNCHANGED vars
  BY <1>7 DEF vars, tables
<1> QED
  BY <1>1, <1>2, <1>3, <1>4, <1>5, <1>6, <1>7 DEF Next

LEMMA QpLifeInvariant == Spec => []IInv
  BY QpLifeInit, QpLifeNext, PTL DEF Spec

\* Every reply that arrives belongs to a flow the sender has or had, also
\* those of a receiver that came back: ReceiveAck (rdma-hw.cc:1124-1147)
\* never takes its exit for an unknown flow.
THEOREM RepliesAlwaysKnown == Spec => []RepliesKnown
<1>1. IInv => RepliesKnown
  BY DEF IInv, RepliesKnown, Known
<1> QED
  BY <1>1, QpLifeInvariant, PTL

\* Neither end deletes a queue pair twice (DeleteQueuePair, DeleteRxQp,
\* called by QpComplete).
THEOREM AlwaysDeletedOnce == Spec => []DeletedOnce
<1>1. IInv => DeletedOnce
  BY DEF IInv, DeletedOnce
<1> QED
  BY <1>1, QpLifeInvariant, PTL

=============================================================================
