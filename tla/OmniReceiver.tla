---------------------------- MODULE OmniReceiver ----------------------------
(***************************************************************************)
(* The receiving side of OmniDMA in RdmaHw: ReceiveUdp with everything it  *)
(* calls (ReceiverCheckSeq, UpdateOmniCumulativeAckSeq, Record, the active *)
(* NACK of the last accessed table entry, assertFinish,                    *)
(* EnsureOmniTimeoutTimers) and the two timeout handlers.                  *)
(*                                                                         *)
(* The module is open: it accepts any packet at any time.  OmniDma closes  *)
(* it with the sender and the network.  What a handler hands to the NIC is *)
(* given by the Replies operators, over the state before and after it.     *)
(***************************************************************************)
EXTENDS OmniFlow, ReceiverAdamap

VARIABLES
  expected,      \* ReceiverNextExpectedSeq
  rcvd,          \* the packets received: m_omni_sack_ and what it discarded
  lastAccess,    \* m_last_access_table_index
  listTimer,     \* m_omni_list_retransmit.IsRunning()
  tableTimer,    \* m_omni_table_retransmit.IsRunning()
  aborted        \* an assert failed and the simulator stopped

receiverVars ==
  <<adamapVars, expected, rcvd, lastAccess, listTimer, tableTimer, aborted>>

\* omni_cumulative_ack_seq: the first packet not received.
CumAck(R) == CHOOSE n \in 0 .. NumPackets : n \notin R /\ 0 .. n - 1 \subseteq R

ReceiverInit ==
  /\ AdamapInit
  /\ expected = 0
  /\ rcvd = {}
  /\ lastAccess = NoIndex
  /\ listTimer = FALSE
  /\ tableTimer = FALSE
  /\ aborted = FALSE

-----------------------------------------------------------------------------
(* Control packets.  0xFA packets carry the cumulative ACK: an OmniNACK    *)
(* with an Adamap, the 65001 marker without one, and the 65002 marker.     *)

Nack(tier, index, adamap) ==
  [type |-> "nack", tier |-> tier, index |-> index, adamap |-> adamap,
   cum |-> CumAck(rcvd')]

EntryNack(e) == Nack(2, e.tableIndex, e.adamap)

Pending == [type |-> "pending", cum |-> CumAck(rcvd')]

Finish == [type |-> "finish", cum |-> CumAck(rcvd')]

Ack == [type |-> "ack", seq |-> expected']

-----------------------------------------------------------------------------
(* ReceiveUdp                                                              *)

\* ReceiverCheckSeq returns 1 (an ACK is due) for the expected packet and
\* for the one before it, whose end reaches the expected byte.
AckDue(p) == p.seq = expected \/ p.seq = expected - 1

\* Faulty variant: called before the packet is recorded.
EnsureTimersEarly(listRunning, tableRunning) ==
  /\ listTimer' = (~ isFinished' /\ (listRunning \/ list # <<>>))
  /\ tableTimer' = (~ isFinished' /\ (tableRunning \/ table # {}))

\* EnsureOmniTimeoutTimers, called with the state the handler leaves.
EnsureTimers(listRunning, tableRunning) ==
  /\ listTimer' = (~ isFinished' /\ (listRunning \/ list' # <<>>))
  /\ tableTimer' = (~ isFinished' /\ (tableRunning \/ table' # {}))

\* Everything a packet updates before and besides Record.
NotePacket(p) ==
  /\ gotLast' = (gotLast \/ p.seq = LastSeq)
  /\ expected' = IF p.seq = expected THEN expected + 1 ELSE expected
  /\ rcvd' = rcvd \union {p.seq}
  /\ lastAccess' = IF p.tier = 2 THEN p.index ELSE lastAccess

AssertsHold(p) ==
  /\ p.tier = 1 => FirstAsserts(p.seq)
  /\ p.tier = 2 => MultiAsserts(p.seq, p.index)

Record(p) ==
  \/ p.tier = 0 /\ RecordNormal(p.seq)
  \/ p.tier = 1 /\ RecordFirst(p.seq)
  \/ p.tier = 2 /\ RecordMulti(p.seq, p.index)

\* A multi-retransmission whose entry is gone: the handler returns early,
\* past assertFinish, the timers and the reply.
Dropped(p) == p.tier = 2 /\ Lookup(p.index) = {}

ReceiveUdp(p) ==
  /\ ~ aborted
  /\ AssertsHold(p)
  /\ NotePacket(p)
  /\ Record(p)
  /\ IF Dropped(p)
     THEN UNCHANGED <<isFinished, listTimer, tableTimer>>
     ELSE /\ isFinished' = (isFinished \/ FinishCondition')
          /\ EnsureTimers(listTimer, tableTimer)
  /\ UNCHANGED aborted

\* A failed assert ends the program.
Abort(p) ==
  /\ ~ aborted
  /\ ~ AssertsHold(p)
  /\ aborted' = TRUE
  /\ UNCHANGED <<adamapVars, expected, rcvd, lastAccess, listTimer, tableTimer>>

\* The entry an active NACK repeats: the one accessed before this packet's,
\* if it is still in the table (it is then unfinished).
ActiveNackEntries(p) ==
  {e \in table' : p.tier = 2 /\ p.index # lastAccess /\ e.tableIndex = lastAccess}

\* One NACK for every table entry this packet has created.
NewEntryReplies == {EntryNack(e) : e \in {n \in table' : n.tableIndex >= nextIndex}}

\* force_send_omni65002: the finish condition before or after the handler.
ForceFinish == FinishCondition \/ FinishCondition'

NodeClosed == Len(list') > Len(list)

MainReply(p) ==
  IF ForceFinish THEN {Finish}
  ELSE IF p.tier = 0 /\ NodeClosed THEN {Nack(1, NoIndex, Last(list'))}
  ELSE IF ~ (AckDue(p) \/ p.seq = LastSeq) THEN {}
  ELSE IF gotLast' THEN {Pending}
  ELSE {Ack}

\* active tells whether the last accessed entry has not expired yet.
UdpReplies(p, active) ==
  (IF active THEN {EntryNack(e) : e \in ActiveNackEntries(p)} ELSE {})
    \union (IF Dropped(p) THEN {} ELSE NewEntryReplies \union MainReply(p))

-----------------------------------------------------------------------------
(* The timeouts.  Which contexts have expired is left open; what one      *)
(* firing does not find expired is left to the next one.                   *)

HandleOmniListTimeout ==
  /\ ~ aborted
  /\ listTimer
  /\ IF isFinished \/ list = <<>>
     THEN UNCHANGED <<startSeq, bitmap, list, table, nextIndex>>
     ELSE \E n \in 1 .. Len(list) : HeadsToTable(n)
  /\ UNCHANGED <<gotLast, isFinished, expected, rcvd, lastAccess, aborted>>
  /\ EnsureTimers(FALSE, tableTimer)

ListTimeoutReplies == NewEntryReplies

HandleOmniTableTimeout ==
  /\ ~ aborted
  /\ tableTimer
  /\ UNCHANGED <<adamapVars, expected, rcvd, lastAccess, aborted>>
  /\ EnsureTimers(listTimer, FALSE)

\* Expired is the set of the table entries that have expired.
TableTimeoutReplies(Expired) == {EntryNack(e) : e \in Expired}

-----------------------------------------------------------------------------
ReceiverNext ==
  \/ \E p \in Packet : ReceiveUdp(p) \/ Abort(p)
  \/ HandleOmniListTimeout
  \/ HandleOmniTableTimeout

ReceiverSpec == ReceiverInit /\ [][ReceiverNext]_receiverVars

-----------------------------------------------------------------------------
(* Properties.                                                             *)

ReceiverTypeOK ==
  /\ startSeq \in Nat
  /\ bitmap \subseteq Bits
  /\ list \in Seq(AdamapType)
  /\ table \subseteq Entry
  /\ nextIndex \in Nat
  /\ gotLast \in BOOLEAN /\ isFinished \in BOOLEAN /\ aborted \in BOOLEAN
  /\ listTimer \in BOOLEAN /\ tableTimer \in BOOLEAN
  /\ expected \in Nat
  /\ rcvd \subseteq Seqs
  /\ lastAccess \in Nat \union {NoIndex}

\* The packets some loss context in the list or in the table asks for.
Contexts == {list[i] : i \in DOMAIN list} \union {e.adamap : e \in table}

Requested == UNION {Missing(a) : a \in Contexts}

\* The packets a bitmap, of whatever place, says have been received.
Noted ==
  {startSeq + 1 + o : o \in bitmap}
    \union UNION {Covers(a) \ Missing(a) : a \in Contexts}

\* Moving loss from the window to the list, from node to node, and from the
\* list to the table loses none of it: a packet behind the window that has
\* not arrived is still in some context (packet 0 has no bit).
NoLostContext == 1 .. startSeq \subseteq rcvd \union Requested

\* No bitmap claims a packet that has not arrived.
BitsSound == Noted \subseteq rcvd

\* A context that waits for packets has its timeout running, as long as the
\* receiver has not declared the flow finished.
TimersArmed ==
  ~ isFinished => /\ list # <<>> => listTimer
                  /\ table # {} => tableTimer

\* Table indices identify entries, and entries have no range.
TableSound ==
  /\ \A e \in table : e.tableIndex < nextIndex /\ NoRange(e.adamap)
  /\ \A e, f \in table : e.tableIndex = f.tableIndex => e = f

\* A table index stands for the same packets as long as it is in the table,
\* and its bits are only ever set.
EntriesOnlyFill ==
  [][\A e \in table : \A f \in table' : e.tableIndex = f.tableIndex =>
       /\ f.adamap = [e.adamap EXCEPT !.bitmap = f.adamap.bitmap]
       /\ e.adamap.bitmap \subseteq f.adamap.bitmap]_table

=============================================================================
