------------------------------ MODULE Transfer ------------------------------
(***************************************************************************)
(* What a transport of this simulator promises, whatever its recovery      *)
(* scheme: packets get delivered, the sender's acknowledged prefix grows   *)
(* only over delivered packets, and a flow that completes has delivered    *)
(* everything but, at worst, the packets in Tolerated.                     *)
(***************************************************************************)
EXTENDS Integers

CONSTANTS
  Total,         \* number of packets
  Tolerated      \* packets a completed flow may lack

VARIABLES
  delivered,     \* the packets that have arrived, a set
  acked,         \* packets 0 .. acked - 1 are acknowledged to the sender
  done           \* the sender has retired the flow

transferVars == <<delivered, acked, done>>

Packets == 0 .. Total - 1

TransferInit == delivered = {} /\ acked = 0 /\ done = FALSE

Arrive ==
  /\ ~ done
  /\ \E s \in Packets : delivered' = delivered \union {s}
  /\ UNCHANGED <<acked, done>>

Acknowledge ==
  /\ ~ done
  /\ acked' \in acked + 1 .. Total - 1
  /\ 0 .. acked' - 1 \subseteq delivered
  /\ UNCHANGED <<delivered, done>>

Complete ==
  /\ ~ done
  /\ Packets \ delivered \subseteq Tolerated
  /\ acked' = Total
  /\ done' = TRUE
  /\ UNCHANGED delivered

TransferNext == Arrive \/ Acknowledge \/ Complete

TransferSpec == TransferInit /\ [][TransferNext]_transferVars

=============================================================================
