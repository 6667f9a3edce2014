--------------------------- MODULE ReceiverAdamap ---------------------------
(***************************************************************************)
(* The receiver's loss contexts (class ReceiverAdamap).  Loss is recorded  *)
(* in three places that hand it on to one another:                         *)
(*                                                                         *)
(*   - the current bitmap: m_startSeq and m_bitmap, the window in which    *)
(*     first transmissions are noted;                                      *)
(*   - the linked list m_finishedBitmaps: windows that were closed because *)
(*     a packet arrived behind them, each announced by one OmniNACK;       *)
(*   - the lookup table m_lookupTable: what is still missing after the     *)
(*     first retransmission, one bitmap per entry, found by its index.     *)
(*                                                                         *)
(* Record(seq, retrans_tier, ..) has one action per return value.  An      *)
(* assert that fails stops the simulator: no Record action is enabled then *)
(* and OmniReceiver's Abort takes its place.                               *)
(*                                                                         *)
(* Abstracted here: the head cache of the list and the LRU of the table,   *)
(* which only decide the DMA delay of a reply; lastCallTime and the RTT    *)
(* average, which only decide when a timeout fires (it may fire at any     *)
(* time); retransmission tiers above 1, which the code treats alike (2).   *)
(***************************************************************************)
EXTENDS Adamap, SequencesExt

VARIABLES
  startSeq,      \* m_startSeq
  bitmap,        \* m_bitmap, the offsets whose bit is 1
  list,          \* m_finishedBitmaps, a sequence of Adamaps
  table,         \* m_lookupTable, a set of [tableIndex, adamap]: indices only
                 \* grow, so the order of the code's list is the index order
  nextIndex,     \* m_currTableIndex
  gotLast,       \* get_last_packet (and omni_last_packet, set with it)
  isFinished     \* isFinished

adamapVars == <<startSeq, bitmap, list, table, nextIndex, gotLast, isFinished>>

Entry == [tableIndex : Nat, adamap : AdamapType]

AdamapInit ==
  /\ startSeq = 0
  /\ bitmap = {}
  /\ list = <<>>
  /\ table = {}
  /\ nextIndex = 0
  /\ gotLast = FALSE
  /\ isFinished = FALSE

-----------------------------------------------------------------------------
(* Record, retrans_tier = 0: a packet of the normal path.                  *)

\* -1: nothing noted yet and the packet is the next one, or packet 0.
RecordInOrder(seq) ==
  /\ bitmap = {}
  /\ seq = startSeq + 1 \/ seq = 0
  /\ startSeq' = seq
  /\ UNCHANGED <<bitmap, list, table, nextIndex>>

IsInOrder(seq) == bitmap = {} /\ (seq = startSeq + 1 \/ seq = 0)

\* -7: a packet the window has passed.
RecordStale(seq) ==
  /\ ~ IsInOrder(seq)
  /\ seq <= startSeq
  /\ UNCHANGED <<startSeq, bitmap, list, table, nextIndex>>

\* -5: a packet inside the current bitmap.
RecordInBitmap(seq) ==
  /\ ~ IsInOrder(seq)
  /\ seq > startSeq
  /\ seq - startSeq - 1 < BitmapSize
  /\ bitmap' = bitmap \union {seq - startSeq - 1}
  /\ UNCHANGED <<startSeq, list, table, nextIndex>>

\* The window as the Adamap that is closed by the arrival of seq.
ClosedWindow(seq) ==
  [startSeq |-> startSeq, reprLength |-> seq - startSeq - 1, bitmap |-> bitmap]

\* Faulty variant: ResetCurrentBitmap is missing.
RecordNewNodeNoReset(seq) ==
  /\ ~ IsInOrder(seq)
  /\ seq > startSeq
  /\ seq - startSeq - 1 >= BitmapSize
  /\ list' = Append(list, ClosedWindow(seq))
  /\ startSeq' = seq
  /\ UNCHANGED <<bitmap, table, nextIndex>>

\* -6: a packet behind the bitmap closes the window and opens the next one.
RecordNewNode(seq) ==
  /\ ~ IsInOrder(seq)
  /\ seq > startSeq
  /\ seq - startSeq - 1 >= BitmapSize
  /\ list' = Append(list, ClosedWindow(seq))
  /\ startSeq' = seq
  /\ bitmap' = {}
  /\ UNCHANGED <<table, nextIndex>>

RecordNormal(seq) ==
  \/ RecordInOrder(seq)
  \/ RecordStale(seq)
  \/ RecordInBitmap(seq)
  \/ RecordNewNode(seq)

-----------------------------------------------------------------------------
(* Moving chunks of list nodes to the table.  A chunk is named by a pair   *)
(* <<node, offset>>; they are pushed node by node and front to back, each  *)
(* with the next m_currTableIndex.                                         *)

Rank(P, p) ==
  Cardinality({q \in P : q[1] < p[1] \/ (q[1] = p[1] /\ q[2] < p[2])})

Entries(P, nodes) ==
  {[tableIndex |-> nextIndex + Rank(P, p), adamap |-> Chunk(nodes[p[1]], p[2])]
     : p \in P}

\* Faulty variant: one index is used up, however many entries are pushed.
PushChunksOneIndex(P, nodes) ==
  /\ table' = table \union Entries(P, nodes)
  /\ nextIndex' = IF P = {} THEN nextIndex ELSE nextIndex + 1

PushChunks(P, nodes) ==
  /\ table' = table \union Entries(P, nodes)
  /\ nextIndex' = nextIndex + Cardinality(P)

\* The chunks of node i that PutLinkedListHeadToTable pushes.
SplitChunks(i) == {<<i, d>> : d \in SplitStarts(list[i])}

-----------------------------------------------------------------------------
(* Record, retrans_tier = 1: a first retransmission, looked up in the list *)
(* by its sequence number (FindSequenceInHeadBitmaps).                     *)

\* -11 and -12: an empty list, a packet before its head, or in no node.
NotInList(seq) ==
  list # <<>> => \/ seq <= list[1].startSeq
                 \/ \A i \in 1 .. Len(list) : seq \notin Covers(list[i])

RecordFirstMiss(seq) ==
  /\ NotInList(seq)
  /\ UNCHANGED <<startSeq, bitmap, list, table, nextIndex>>

\* Node i is the one FindSequenceInHeadBitmaps returns.
IsTarget(i, seq) ==
  /\ ~ NotInList(seq)
  /\ seq \in Covers(list[i])
  /\ \A j \in 1 .. i - 1 : seq \notin Covers(list[j])

\* Faulty variant: off by one.
OffsetOneOff(i, seq) == seq - list[i].startSeq

Offset(i, seq) == seq - list[i].startSeq - 1

\* The nodes before the target leave the list; their chunks enter the table.
ChunksBefore(i) == UNION {SplitChunks(j) : j \in 1 .. i - 1}

\* -14, -15, -16, -17: the packet has a bit in the target's bitmap.  When it
\* was the last hole, what is still missing before it is copied to the table
\* and the node is erased or slides to the next stretch of its range.
RecordFirstInBitmap(i, seq) ==
  LET offset == Offset(i, seq)
      node   == WithBit(list[i], offset)
      last   == LastHole(node, offset)
      own    == IF last /\ ~ BitmapFull(node) THEN {<<i, 0>>} ELSE {}
      left   == IF ~ last THEN <<node>>
                ELSE IF NoRange(node) THEN <<>>
                ELSE <<Slide(node, BitmapSize)>>
  IN /\ IsTarget(i, seq)
     /\ offset < BitmapSize
     /\ PushChunks(ChunksBefore(i) \union own, [list EXCEPT ![i] = node])
     /\ list' = left \o SubSeq(list, i + 1, Len(list))
     /\ UNCHANGED <<startSeq, bitmap>>

\* -18: the packet lies in the target's range.  The chunks before the one it
\* belongs to are pushed as they are, full or not.
RecordFirstInRange(i, seq) ==
  LET offset == Offset(i, seq)
      base   == offset - (offset % BitmapSize)
      own    == {<<i, d>> : d \in {c \in ChunkStarts(list[i]) : c < base}}
      node   == WithBit(Slide(list[i], base), offset - base)
  IN /\ IsTarget(i, seq)
     /\ offset >= BitmapSize
     /\ PushChunks(ChunksBefore(i) \union own, list)
     /\ list' = <<node>> \o SubSeq(list, i + 1, Len(list))
     /\ UNCHANGED <<startSeq, bitmap>>

\* The asserts on the way: the packet is not ahead of the window, and its
\* bit in the target node is still 0.
FirstAsserts(seq) ==
  /\ seq < startSeq + 1
  /\ \A i \in 1 .. Len(list) :
       IsTarget(i, seq) => Offset(i, seq) \notin list[i].bitmap

RecordFirst(seq) ==
  /\ FirstAsserts(seq)
  /\ \/ RecordFirstMiss(seq)
     \/ \E i \in 1 .. Len(list) :
          RecordFirstInBitmap(i, seq) \/ RecordFirstInRange(i, seq)

-----------------------------------------------------------------------------
(* Record, retrans_tier > 1: a later retransmission carries its table index. *)

Lookup(index) == {e \in table : e.tableIndex = index}

\* -100: the entry is gone.
RecordMultiMiss(index) ==
  /\ Lookup(index) = {}
  /\ UNCHANGED <<startSeq, bitmap, list, table, nextIndex>>

\* Faulty variant: the new bit replaces the bitmap.
RecordMultiHitReplace(seq, index) ==
  \E e \in Lookup(index) :
    LET a == [e.adamap EXCEPT !.bitmap = {seq - e.adamap.startSeq - 1}]
        kept == IF BitmapFull(a) THEN {} ELSE {[e EXCEPT !.adamap = a]}
    IN /\ table' = (table \ {e}) \union kept
       /\ UNCHANGED <<startSeq, bitmap, list, nextIndex>>

\* -20: note the packet; an entry without missing packets is erased.
RecordMultiHit(seq, index) ==
  \E e \in Lookup(index) :
    LET a == WithBit(e.adamap, seq - e.adamap.startSeq - 1)
        kept == IF BitmapFull(a) THEN {} ELSE {[e EXCEPT !.adamap = a]}
    IN /\ table' = (table \ {e}) \union kept
       /\ UNCHANGED <<startSeq, bitmap, list, nextIndex>>

\* The asserts on the way: the packet belongs to the entry, which has no range.
MultiAsserts(seq, index) ==
  \A e \in Lookup(index) : seq \in Covers(e.adamap) /\ NoRange(e.adamap)

RecordMulti(seq, index) ==
  /\ MultiAsserts(seq, index)
  /\ RecordMultiMiss(index) \/ RecordMultiHit(seq, index)

-----------------------------------------------------------------------------
\* PutLinkedListHeadToTable and EraseLinkedListHeadAndRefill on the first n
\* nodes, one after the other.
HeadsToTable(n) ==
  /\ PushChunks(ChunksBefore(n + 1), list)
  /\ list' = SubSeq(list, n + 1, Len(list))
  /\ UNCHANGED <<startSeq, bitmap>>

\* Faulty variant: the table is not looked at.
FinishConditionNoTable == gotLast /\ list = <<>>

\* IsFinishConditionSatisfied; an entry is erased when it becomes finished,
\* so assertTableFinish says that the table is empty.
FinishCondition == gotLast /\ list = <<>> /\ table = {}

=============================================================================
