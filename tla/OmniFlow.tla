------------------------------ MODULE OmniFlow ------------------------------
(***************************************************************************)
(* What the two ends of a flow share: the packets of the flow and the data *)
(* packets that carry them (SeqTsHeader, FlowStatTag).                     *)
(***************************************************************************)
EXTENDS Adamap

CONSTANT NumPackets  \* m_size, in packets; they are numbered 0 .. NumPackets - 1

ASSUME NumPacketsAssumption == NumPackets \in Nat \ {0}

Seqs == 0 .. NumPackets - 1

\* The packet that FLOW_END or FLOW_START_AND_END marks.
LastSeq == NumPackets - 1

NoIndex == -1

\* seq, omni_type (0 for the normal path; above 1 it counts as 2), and the
\* table index that a later retransmission carries.
Packet == [seq : Seqs, tier : 0 .. 2, index : Nat \union {NoIndex}]

=============================================================================
