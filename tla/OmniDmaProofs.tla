---------------------------- MODULE OmniDmaProofs ----------------------------
(***************************************************************************)
(* The safety of the OmniDMA receiver and of a whole OmniDMA flow, for     *)
(* every bitmap size, flow length and window, whether or not data packets  *)
(* overtake one another, and for any number of losses and timeouts.        *)
(*                                                                         *)
(* The first three parts are about the receiver by itself (ReceiverSpec),  *)
(* whatever packets arrive in whatever order, as often as they like, and   *)
(* whenever a timeout fires.  Its invariant is ReceiverInv, and the heart  *)
(* of it AdamapInv(rcvd), about the three places that record loss:         *)
(* together they account for every packet of a set R of received ones      *)
(* behind the window, and no bit is set for a packet outside R.  Parts 1   *)
(* and 2 show that each operation of ReceiverAdamap keeps AdamapInv(R) for *)
(* a fixed R; in part 3 R is what rcvd is after a step of the receiver.    *)
(*                                                                         *)
(* Part 4 is about the flow.  The receiver's part of every step of the     *)
(* flow is a step of ReceiverSpec or leaves the receiver alone, so that    *)
(* ReceiverInv holds there too.  What FlowInv adds ties the sender and the *)
(* packets under way to it: each of them was true of the receiver when it  *)
(* was sent and nothing the receiver does afterwards makes it false.       *)
(***************************************************************************)
EXTENDS OmniDma, DataTheorems

-----------------------------------------------------------------------------
(* 1. The receiver: what the operators on Adamaps do to the packets an     *)
(* Adamap asks for (Missing) and to those it says have been received       *)
(* (Received).                                                             *)

Received(a) == Covers(a) \ Missing(a)

\* Setting the bit of a packet takes that packet, and no other, off the list
\* of the missing ones.
LEMMA WithBitMissing ==
  ASSUME NEW a \in AdamapType, NEW s \in Covers(a), s - a.startSeq - 1 \in Bits
  PROVE  LET b == WithBit(a, s - a.startSeq - 1)
         IN /\ b \in AdamapType
            /\ Covers(b) = Covers(a)
            /\ Missing(b) = Missing(a) \ {s}
BY BitmapSizeAssumption DEF AdamapType, Covers, Missing, WithBit, Bits

\* The piece at d asks for the packets of a that lie in it, no more.
LEMMA ChunkMissing ==
  ASSUME NEW a \in AdamapType, NEW d \in 0 .. a.reprLength - 1
  PROVE  /\ Chunk(a, d) \in AdamapType
         /\ NoRange(Chunk(a, d))
         /\ \A s \in Missing(a) :
              d <= s - a.startSeq - 1 /\ s - a.startSeq - 1 < d + BitmapSize
                => s \in Missing(Chunk(a, d))
         /\ Received(Chunk(a, d)) \subseteq Received(a)
         /\ Covers(Chunk(a, d)) \subseteq Covers(a)
<1>1. BitmapSize \in Nat \ {0} /\ a.startSeq \in Nat /\ a.reprLength \in Nat \ {0}
      /\ d \in Nat /\ a.bitmap \subseteq Bits
  BY BitmapSizeAssumption DEF AdamapType
<1> DEFINE b == Slide(a, d)
           c == Chunk(a, d)
<1>2. /\ b.startSeq = a.startSeq + d
      /\ b.reprLength = a.reprLength - d
      /\ b.bitmap = IF d = 0 THEN a.bitmap ELSE {}
  BY DEF Slide
<1>3. b \in AdamapType
  BY <1>1 DEF Slide, AdamapType
<1>4. /\ c.startSeq = a.startSeq + d
      /\ c.reprLength = IF a.reprLength - d <= BitmapSize
                        THEN a.reprLength - d ELSE BitmapSize
      /\ c.bitmap = IF d = 0 THEN a.bitmap ELSE {}
      /\ c \in AdamapType
  BY <1>1, <1>2, <1>3 DEF Chunk, BitmapPart, AdamapType
<1> HIDE DEF b, c
<1>5. NoRange(c)
  BY <1>1, <1>4 DEF NoRange
<1>6. ASSUME NEW s \in Missing(a),
             d <= s - a.startSeq - 1, s - a.startSeq - 1 < d + BitmapSize
      PROVE  s \in Missing(c)
  BY <1>1, <1>4, <1>6 DEF Missing, Covers, Bits
<1>7. Received(c) \subseteq Received(a)
  BY <1>1, <1>4 DEF Received, Missing, Covers, Bits
<1>8. Covers(c) \subseteq Covers(a)
  BY <1>1, <1>4 DEF Covers
<1> QED
  BY <1>4, <1>5, <1>6, <1>7, <1>8 DEF c

\* What is left behind d asks for the packets of a behind d.
LEMMA SlideMissing ==
  ASSUME NEW a \in AdamapType, NEW d \in 0 .. a.reprLength - 1
  PROVE  /\ Slide(a, d) \in AdamapType
         /\ \A s \in Missing(a) :
              d <= s - a.startSeq - 1 => s \in Missing(Slide(a, d))
         /\ Received(Slide(a, d)) \subseteq Received(a)
         /\ Covers(Slide(a, d)) \subseteq Covers(a)
<1>1. BitmapSize \in Nat \ {0} /\ a.startSeq \in Nat /\ a.reprLength \in Nat \ {0}
      /\ d \in Nat /\ a.bitmap \subseteq Bits
  BY BitmapSizeAssumption DEF AdamapType
<1> DEFINE b == Slide(a, d)
<1>2. /\ b.startSeq = a.startSeq + d
      /\ b.reprLength = a.reprLength - d
      /\ b.bitmap = IF d = 0 THEN a.bitmap ELSE {}
      /\ b \in AdamapType
  BY <1>1 DEF Slide, AdamapType
<1> HIDE DEF b
<1>3. ASSUME NEW s \in Missing(a), d <= s - a.startSeq - 1
      PROVE  s \in Missing(b)
  BY <1>1, <1>2, <1>3 DEF Missing, Covers, Bits
<1>4. Received(b) \subseteq Received(a)
  BY <1>1, <1>2 DEF Received, Missing, Covers, Bits
<1>5. Covers(b) \subseteq Covers(a)
  BY <1>1, <1>2 DEF Covers
<1> QED
  BY <1>2, <1>3, <1>4, <1>5 DEF b

\* Every packet lies in one of the pieces.
LEMMA ChunkOf ==
  ASSUME NEW a \in AdamapType, NEW s \in Covers(a)
  PROVE  LET o == s - a.startSeq - 1
             d == o - (o % BitmapSize)
         IN /\ o \in Nat
            /\ d \in ChunkStarts(a)
            /\ d <= o
            /\ o < d + BitmapSize
<1> DEFINE o == s - a.startSeq - 1
           q == o \div BitmapSize
           d == o - (o % BitmapSize)
<1>1. BitmapSize \in Nat \ {0} /\ a.startSeq \in Nat /\ a.reprLength \in Nat \ {0}
  BY BitmapSizeAssumption DEF AdamapType
<1>2. o \in 0 .. a.reprLength - 1
  BY <1>1 DEF Covers
<1> HIDE DEF o
<1>3. q \in Nat /\ q <= o /\ o % BitmapSize \in 0 .. BitmapSize - 1
  BY <1>1, <1>2
<1>4. o = (BitmapSize * q) + (o % BitmapSize)
  BY <1>1, <1>2
<1>5. BitmapSize * q \in Nat /\ BitmapSize * q = q * BitmapSize
  BY <1>1, <1>3
<1>6. d = q * BitmapSize /\ d \in Nat /\ d <= o /\ o < d + BitmapSize
  BY <1>1, <1>2, <1>3, <1>4, <1>5
<1>7. q \in 0 .. a.reprLength
  BY <1>1, <1>2, <1>3
<1>8. d \in ChunkStarts(a)
  <2> HIDE DEF q, d
  <2> QED BY <1>1, <1>2, <1>6, <1>7 DEF ChunkStarts
<1> QED
  BY <1>2, <1>6, <1>8 DEF o

\* Splitting an Adamap asks for every packet that the Adamap asks for.
LEMMA SplitCovers ==
  ASSUME NEW a \in AdamapType, NEW s \in Missing(a)
  PROVE  \E d \in SplitStarts(a) : s \in Missing(Chunk(a, d))
<1> DEFINE o == s - a.startSeq - 1
           d == o - (o % BitmapSize)
<1>1. s \in Covers(a)
  BY DEF Missing
<1>2. d \in ChunkStarts(a) /\ d <= o /\ o < d + BitmapSize
  BY <1>1, ChunkOf
<1>3. d \in 0 .. a.reprLength - 1
  BY <1>2 DEF ChunkStarts
<1>4. s \in Missing(Chunk(a, d)) /\ Chunk(a, d) \in AdamapType /\ NoRange(Chunk(a, d))
  BY <1>2, <1>3, ChunkMissing
<1> HIDE DEF d
<1>5. ~ BitmapFull(Chunk(a, d))
  BY <1>4, BitmapSizeAssumption
     DEF BitmapFull, BitsInUse, Missing, Covers, NoRange, Bits, AdamapType
<1> QED
  BY <1>2, <1>4, <1>5 DEF SplitStarts

\* An Adamap without range whose bits in use are all 1 asks for nothing.
LEMMA FullMissing ==
  ASSUME NEW a \in AdamapType, NoRange(a), BitmapFull(a)
  PROVE  Missing(a) = {}
BY BitmapSizeAssumption
   DEF BitmapFull, BitsInUse, Missing, Covers, NoRange, Bits, AdamapType

-----------------------------------------------------------------------------
(* 2. The receiver: its operations.  The invariant.                        *)

AdamapTypeOK ==
  /\ startSeq \in Nat
  /\ bitmap \subseteq Bits
  /\ list \in Seq(AdamapType)
  /\ table \subseteq Entry
  /\ nextIndex \in Nat

Nodes(l) == {l[k] : k \in DOMAIN l}

TableAdamaps == {e.adamap : e \in table}

AllContexts == Nodes(list) \union TableAdamaps

Indexed ==
  /\ \A e \in table : e.tableIndex < nextIndex /\ NoRange(e.adamap)
  /\ \A e, f \in table : e.tableIndex = f.tableIndex => e = f

AllRequested(R) ==
  \A s \in 1 .. startSeq : s \in R \/ \E a \in AllContexts : s \in Missing(a)

AllNoted(R) ==
  /\ \A o \in bitmap : startSeq + 1 + o \in R
  /\ \A a \in AllContexts : Received(a) \subseteq R

AdamapInv(R) ==
  /\ AdamapTypeOK
  /\ Indexed
  /\ AllRequested(R)
  /\ AllNoted(R)
  /\ startSeq \in R \union {0}

(* What one step does with the contexts there were before it.              *)

\* Whatever was asked for is asked for again, unless it is in R.
Kept(R) ==
  \A a \in AllContexts : \A s \in Missing(a) :
    s \in R \/ \E b \in AllContexts' : s \in Missing(b)

\* No context speaks of other packets than one there was, but for those in S.
Narrowed(S) ==
  \A b \in AllContexts' :
    Covers(b) \subseteq S \/ \E a \in AllContexts : Covers(b) \subseteq Covers(a)

\* An index that was given out stands for the entry it stood for, with the
\* bits that were set still set.
EntriesFilled ==
  /\ nextIndex' >= nextIndex
  /\ \A f \in table' : f.tableIndex < nextIndex =>
       \E e \in table : /\ e.tableIndex = f.tableIndex
                        /\ f.adamap = [e.adamap EXCEPT !.bitmap = f.adamap.bitmap]
                        /\ e.adamap.bitmap \subseteq f.adamap.bitmap

Traced(R, S) == Kept(R) /\ Narrowed(S) /\ EntriesFilled

LEMMA EntryIsItself ==
  ASSUME AdamapTypeOK, NEW e \in table
  PROVE  e.adamap = [e.adamap EXCEPT !.bitmap = e.adamap.bitmap]
<1>1. e.adamap \in AdamapType
  BY DEF AdamapTypeOK, Entry
<1> QED
  BY <1>1 DEF AdamapType

LEMMA TableUnchanged ==
  ASSUME AdamapTypeOK, table' = table, nextIndex' = nextIndex
  PROVE  EntriesFilled
<1>1. nextIndex' >= nextIndex
  BY DEF AdamapTypeOK
<1> QED
  BY <1>1, EntryIsItself DEF EntriesFilled

\* A step that leaves list and table alone.
LEMMA ContextsUnchanged ==
  ASSUME AdamapTypeOK, list' = list, table' = table, nextIndex' = nextIndex,
         NEW R, NEW S
  PROVE  Traced(R, S)
<1>1. AllContexts' = AllContexts
  BY DEF AllContexts, TableAdamaps
<1>2. Kept(R) /\ Narrowed(S)
  BY <1>1 DEF Kept, Narrowed
<1> QED
  BY <1>2, TableUnchanged DEF Traced

LEMMA TracedWider ==
  ASSUME NEW R, NEW S, NEW Q, S \subseteq Q, Traced(R, S)
  PROVE  Traced(R, Q)
BY DEF Traced, Narrowed

LEMMA AdamapInvMonotone ==
  ASSUME NEW R, NEW Q, R \subseteq Q, AdamapInv(R)
  PROVE  AdamapInv(Q)
BY DEF AdamapInv, AllRequested, AllNoted

-----------------------------------------------------------------------------
(* The normal path.                                                        *)

LEMMA RecordNormalInv ==
  ASSUME NEW R, NEW seq \in Nat, seq \in R, AdamapInv(R), RecordNormal(seq)
  PROVE  AdamapInv(R)' /\ Traced(R, 1 .. seq - 1)
<1>0. AdamapTypeOK
  BY DEF AdamapInv
<1>1. BitmapSize \in Nat \ {0} /\ startSeq \in Nat /\ bitmap \subseteq Bits
      /\ list \in Seq(AdamapType)
  BY BitmapSizeAssumption DEF AdamapInv, AdamapTypeOK
<1>2. CASE RecordInOrder(seq)
  <2>1. AdamapTypeOK' /\ Indexed' /\ AllContexts' = AllContexts
    BY <1>1, <1>2 DEF AdamapInv, AdamapTypeOK, Indexed, AllContexts, TableAdamaps,
                      RecordInOrder
  <2>2. \A s \in 1 .. startSeq' : s \in 1 .. startSeq \/ s = seq
    BY <1>1, <1>2 DEF RecordInOrder
  <2>3. AllRequested(R)'
    BY <2>1, <2>2 DEF AdamapInv, AllRequested
  <2>4. AllNoted(R)'
    BY <1>2, <2>1 DEF AdamapInv, AllNoted, RecordInOrder
  <2> QED
    BY <1>0, <1>2, <2>1, <2>3, <2>4, ContextsUnchanged DEF AdamapInv, RecordInOrder
<1>3. CASE RecordStale(seq)
  <2>1. AdamapInv(R)'
    BY <1>3 DEF RecordStale, AdamapInv, AdamapTypeOK, Indexed, AllRequested,
                AllNoted, AllContexts, TableAdamaps
  <2> QED
    BY <1>0, <1>3, <2>1, ContextsUnchanged DEF RecordStale
<1>4. CASE RecordInBitmap(seq)
  <2>0. bitmap' \subseteq Bits
    BY <1>1, <1>4 DEF RecordInBitmap, Bits
  <2>1. AdamapTypeOK' /\ Indexed' /\ AllContexts' = AllContexts
    BY <1>4, <2>0 DEF AdamapInv, AdamapTypeOK, Indexed, AllContexts, TableAdamaps,
                      RecordInBitmap
  <2>2. AllRequested(R)'
    BY <1>4, <2>1 DEF AdamapInv, AllRequested, RecordInBitmap
  <2>3. AllNoted(R)'
    BY <1>1, <1>4, <2>1 DEF AdamapInv, AllNoted, RecordInBitmap
  <2> QED
    BY <1>0, <1>4, <2>1, <2>2, <2>3, ContextsUnchanged DEF AdamapInv, RecordInBitmap
<1>5. CASE RecordNewNode(seq)
  <2> DEFINE w == ClosedWindow(seq)
  <2>1. w \in AdamapType /\ w.startSeq = startSeq /\ w.bitmap = bitmap
        /\ w.reprLength = seq - startSeq - 1
    BY <1>1, <1>5 DEF ClosedWindow, AdamapType, RecordNewNode
  <2> HIDE DEF w
  <2>2. list' = Append(list, w) /\ table' = table /\ nextIndex' = nextIndex
        /\ startSeq' = seq /\ bitmap' = {} /\ startSeq < seq
    BY <1>1, <1>5 DEF RecordNewNode, w
  <2>3. list' \in Seq(AdamapType) /\ Nodes(list') = Nodes(list) \union {w}
    BY <1>1, <2>1, <2>2 DEF Nodes
  <2>4. AllContexts' = AllContexts \union {w}
    BY <2>2, <2>3 DEF AllContexts, TableAdamaps
  <2>5. AdamapTypeOK' /\ Indexed'
    BY <2>2, <2>3 DEF AdamapInv, AdamapTypeOK, Indexed
  <2>6. ASSUME NEW s \in 1 .. seq, s \notin R, s > startSeq
        PROVE  s \in Missing(w)
    <3>1. s # seq /\ s \in Covers(w)
      BY <1>1, <2>1, <2>6 DEF Covers
    <3>2. s - startSeq - 1 \notin bitmap
      BY <1>1, <2>6 DEF AdamapInv, AllNoted, Bits
    <3> QED
      BY <2>1, <3>1, <3>2 DEF Missing
  <2>7. AllRequested(R)'
    <3> SUFFICES ASSUME NEW s \in 1 .. seq, s \notin R
                 PROVE  \E a \in AllContexts' : s \in Missing(a)
      BY <2>2 DEF AllRequested
    <3>1. CASE s > startSeq
      BY <2>4, <2>6, <3>1
    <3>2. CASE s <= startSeq
      BY <1>1, <2>4, <3>2 DEF AdamapInv, AllRequested
    <3> QED
      BY <1>1, <3>1, <3>2
  <2>8. Received(w) \subseteq R
    BY <1>1, <2>1 DEF AdamapInv, AllNoted, Received, Missing, Covers, Bits
  <2>9. AllNoted(R)'
    BY <2>2, <2>4, <2>8 DEF AdamapInv, AllNoted
  <2>10. Covers(w) \subseteq 1 .. seq - 1
    BY <1>1, <2>1, <2>2 DEF Covers
  <2>11. Kept(R) /\ Narrowed(1 .. seq - 1)
    BY <2>4, <2>10 DEF Kept, Narrowed
  <2>12. EntriesFilled
    BY <1>0, <2>2, TableUnchanged
  <2> QED
    BY <2>2, <2>5, <2>7, <2>9, <2>11, <2>12 DEF AdamapInv, Traced
<1> QED
  BY <1>2, <1>3, <1>4, <1>5 DEF RecordNormal

-----------------------------------------------------------------------------
(* Pushing chunks of list nodes to the table.                              *)

\* P names pieces of nodes.
IsChunkSet(P, nodes) ==
  /\ IsFiniteSet(P)
  /\ \A p \in P : /\ p = <<p[1], p[2]>>
                  /\ p[1] \in DOMAIN nodes
                  /\ p[2] \in 0 .. nodes[p[1]].reprLength - 1

Below(P, p) == {q \in P : q[1] < p[1] \/ (q[1] = p[1] /\ q[2] < p[2])}

\* The ranks of the pieces are distinct numbers below the number of pieces.
LEMMA RankInjective ==
  ASSUME NEW P, NEW nodes \in Seq(AdamapType), IsChunkSet(P, nodes)
  PROVE  /\ Cardinality(P) \in Nat
         /\ \A p \in P : Rank(P, p) \in Nat /\ Rank(P, p) < Cardinality(P)
         /\ \A p, q \in P : Rank(P, p) = Rank(P, q) => p = q
<1>1. IsFiniteSet(P)
  BY DEF IsChunkSet
<1>2. \A p \in P : p[1] \in Nat /\ p[2] \in Nat /\ p = <<p[1], p[2]>>
  <2> SUFFICES ASSUME NEW p \in P
               PROVE  p[1] \in Nat /\ p[2] \in Nat /\ p = <<p[1], p[2]>>
    OBVIOUS
  <2>1. p[1] \in DOMAIN nodes /\ p[2] \in 0 .. nodes[p[1]].reprLength - 1
        /\ p = <<p[1], p[2]>>
    BY DEF IsChunkSet
  <2>2. p[1] \in Nat /\ nodes[p[1]] \in AdamapType
    BY <2>1
  <2>3. nodes[p[1]].reprLength \in Nat
    BY <2>2 DEF AdamapType
  <2> QED
    BY <2>1, <2>2, <2>3
<1>3. \A p \in P : Rank(P, p) = Cardinality(Below(P, p))
  BY DEF Rank, Below
<1>4. \A p \in P : Below(P, p) \subseteq P /\ p \notin Below(P, p)
  BY <1>2 DEF Below
<1>5. \A p \in P : IsFiniteSet(Below(P, p))
  BY <1>1, <1>4, FS_Subset
<1>6. \A p \in P : /\ Cardinality(Below(P, p)) \in Nat
                   /\ Cardinality(Below(P, p)) < Cardinality(P)
  <2> SUFFICES ASSUME NEW p \in P
               PROVE  /\ Cardinality(Below(P, p)) \in Nat
                      /\ Cardinality(Below(P, p)) < Cardinality(P)
    OBVIOUS
  <2>1. Below(P, p) \subseteq P /\ Below(P, p) # P
    BY <1>4
  <2>2. /\ Cardinality(Below(P, p)) <= Cardinality(P)
        /\ Cardinality(Below(P, p)) = Cardinality(P) => Below(P, p) = P
    BY <1>1, <2>1, FS_Subset
  <2>3. Cardinality(Below(P, p)) \in Nat /\ Cardinality(P) \in Nat
    BY <1>1, <1>5, FS_CardinalityType
  <2> QED
    BY <2>1, <2>2, <2>3
<1>7. ASSUME NEW p \in P, NEW q \in P,
             p[1] < q[1] \/ (p[1] = q[1] /\ p[2] < q[2])
      PROVE  Cardinality(Below(P, p)) < Cardinality(Below(P, q))
  <2>1. Below(P, p) \subseteq Below(P, q)
    BY <1>2, <1>7 DEF Below
  <2>2. p \in Below(P, q) /\ p \notin Below(P, p)
    BY <1>4, <1>7 DEF Below
  <2>3. /\ Cardinality(Below(P, p)) <= Cardinality(Below(P, q))
        /\ Cardinality(Below(P, p)) = Cardinality(Below(P, q))
             => Below(P, p) = Below(P, q)
    BY <1>5, <2>1, FS_Subset
  <2>4. Cardinality(Below(P, p)) \in Nat /\ Cardinality(Below(P, q)) \in Nat
    BY <1>6
  <2> QED
    BY <2>2, <2>3, <2>4
<1>8. \A p, q \in P : p = q \/ (p[1] < q[1] \/ (p[1] = q[1] /\ p[2] < q[2]))
                            \/ (q[1] < p[1] \/ (p[1] = q[1] /\ q[2] < p[2]))
  <2> SUFFICES ASSUME NEW p \in P, NEW q \in P
               PROVE  p = q \/ (p[1] < q[1] \/ (p[1] = q[1] /\ p[2] < q[2]))
                            \/ (q[1] < p[1] \/ (p[1] = q[1] /\ q[2] < p[2]))
    OBVIOUS
  <2>1. p[1] = q[1] /\ p[2] = q[2] => p = q
    BY <1>2
  <2> QED
    BY <1>2, <2>1
<1>9. \A p, q \in P : Rank(P, p) = Rank(P, q) => p = q
  BY <1>3, <1>6, <1>7, <1>8
<1>10. Cardinality(P) \in Nat
  BY <1>1, FS_CardinalityType
<1> QED
  BY <1>3, <1>6, <1>9, <1>10

LEMMA PushChunksInv ==
  ASSUME NEW P, NEW nodes \in Seq(AdamapType), IsChunkSet(P, nodes),
         AdamapTypeOK, Indexed, PushChunks(P, nodes)
  PROVE  /\ table' \subseteq Entry
         /\ nextIndex' \in Nat
         /\ Indexed'
         /\ TableAdamaps' = TableAdamaps \union {Chunk(nodes[p[1]], p[2]) : p \in P}
         /\ EntriesFilled
<1>1. table \subseteq Entry /\ nextIndex \in Nat
  BY DEF AdamapTypeOK
<1>2. table' = table \union Entries(P, nodes) /\ nextIndex' = nextIndex + Cardinality(P)
  BY DEF PushChunks
<1>3. /\ Cardinality(P) \in Nat
      /\ \A p \in P : Rank(P, p) \in Nat /\ Rank(P, p) < Cardinality(P)
      /\ \A p, q \in P : Rank(P, p) = Rank(P, q) => p = q
  BY RankInjective
<1>4. \A p \in P : Chunk(nodes[p[1]], p[2]) \in AdamapType
                   /\ NoRange(Chunk(nodes[p[1]], p[2]))
  <2> SUFFICES ASSUME NEW p \in P
               PROVE  Chunk(nodes[p[1]], p[2]) \in AdamapType
                      /\ NoRange(Chunk(nodes[p[1]], p[2]))
    OBVIOUS
  <2>1. nodes[p[1]] \in AdamapType /\ p[2] \in 0 .. nodes[p[1]].reprLength - 1
    BY DEF IsChunkSet
  <2> QED
    BY <2>1, ChunkMissing
<1>5. \A e \in Entries(P, nodes) :
        \E p \in P : e = [tableIndex |-> nextIndex + Rank(P, p),
                          adamap |-> Chunk(nodes[p[1]], p[2])]
  BY DEF Entries
<1>6. Entries(P, nodes) \subseteq Entry
  BY <1>1, <1>3, <1>4, <1>5 DEF Entry
<1>7. nextIndex' \in Nat /\ table' \subseteq Entry
  BY <1>1, <1>2, <1>3, <1>6
<1>8. \A e \in table' : e.tableIndex < nextIndex' /\ NoRange(e.adamap)
  <2> SUFFICES ASSUME NEW e \in table'
               PROVE  e.tableIndex < nextIndex' /\ NoRange(e.adamap)
    OBVIOUS
  <2>1. CASE e \in table
    <3>1. e.tableIndex < nextIndex /\ NoRange(e.adamap) /\ e.tableIndex \in Nat
      BY <1>1, <2>1 DEF Indexed, Entry
    <3> QED
      BY <1>1, <1>2, <1>3, <3>1
  <2>2. CASE e \in Entries(P, nodes)
    <3>1. PICK p \in P : e = [tableIndex |-> nextIndex + Rank(P, p),
                              adamap |-> Chunk(nodes[p[1]], p[2])]
      BY <1>5, <2>2
    <3>2. e.tableIndex = nextIndex + Rank(P, p)
          /\ e.adamap = Chunk(nodes[p[1]], p[2])
      BY <3>1
    <3>3. NoRange(e.adamap)
      BY <1>4, <3>2
    <3> HIDE DEF NoRange
    <3>4. e.tableIndex < nextIndex'
      BY <1>1, <1>2, <1>3, <3>2
    <3> QED
      BY <3>3, <3>4
  <2> QED
    BY <1>2, <2>1, <2>2
<1>9. \A e, f \in table' : e.tableIndex = f.tableIndex => e = f
  <2> SUFFICES ASSUME NEW e \in table', NEW f \in table',
                      e.tableIndex = f.tableIndex
               PROVE  e = f
    OBVIOUS
  <2>1. \A g \in table : g.tableIndex \in Nat /\ g.tableIndex < nextIndex
    BY <1>1 DEF Indexed, Entry
  <2>2. \A g \in Entries(P, nodes) : g.tableIndex \in Nat /\ g.tableIndex >= nextIndex
    BY <1>1, <1>3, <1>5
  <2>3. CASE e \in table /\ f \in table
    BY <2>3 DEF Indexed
  <2>4. CASE e \in Entries(P, nodes) /\ f \in Entries(P, nodes)
    <3>1. PICK p \in P : e = [tableIndex |-> nextIndex + Rank(P, p),
                              adamap |-> Chunk(nodes[p[1]], p[2])]
      BY <1>5, <2>4
    <3>2. PICK q \in P : f = [tableIndex |-> nextIndex + Rank(P, q),
                              adamap |-> Chunk(nodes[q[1]], q[2])]
      BY <1>5, <2>4
    <3>3. e.tableIndex = nextIndex + Rank(P, p) /\ f.tableIndex = nextIndex + Rank(P, q)
      BY <3>1, <3>2
    <3>4. Rank(P, p) = Rank(P, q)
      <4>1. Rank(P, p) \in Nat /\ Rank(P, q) \in Nat
        BY <1>3
      <4>2. nextIndex + Rank(P, p) = nextIndex + Rank(P, q)
        BY <3>3
      <4> QED
        BY <1>1, <4>1, <4>2
    <3> QED
      BY <1>3, <3>1, <3>2, <3>4
  <2> QED
    BY <1>1, <1>2, <2>1, <2>2, <2>3, <2>4
<1>10. TableAdamaps' = TableAdamaps \union {Chunk(nodes[p[1]], p[2]) : p \in P}
  <2> DEFINE C == {Chunk(nodes[p[1]], p[2]) : p \in P}
             E == {e.adamap : e \in Entries(P, nodes)}
  <2>1. E = C
    <3>1. ASSUME NEW x \in E PROVE x \in C
      <4>1. PICK e \in Entries(P, nodes) : x = e.adamap
        OBVIOUS
      <4>2. PICK p \in P : e = [tableIndex |-> nextIndex + Rank(P, p),
                                adamap |-> Chunk(nodes[p[1]], p[2])]
        BY <1>5
      <4> QED
        BY <4>1, <4>2
    <3>2. ASSUME NEW x \in C PROVE x \in E
      <4>1. PICK p \in P : x = Chunk(nodes[p[1]], p[2])
        OBVIOUS
      <4> DEFINE e == [tableIndex |-> nextIndex + Rank(P, p),
                       adamap |-> Chunk(nodes[p[1]], p[2])]
      <4>2. e \in Entries(P, nodes) /\ e.adamap = x
        BY <4>1 DEF Entries
      <4> QED
        BY <4>2
    <3> QED
      BY <3>1, <3>2
  <2> QED
    BY <1>2, <2>1 DEF TableAdamaps
<1>11. EntriesFilled
  <2>1. nextIndex' >= nextIndex
    BY <1>1, <1>2, <1>3
  <2>2. \A f \in Entries(P, nodes) : ~ f.tableIndex < nextIndex
    BY <1>1, <1>3, <1>5
  <2> QED
    BY <1>2, <2>1, <2>2, EntryIsItself DEF EntriesFilled
<1> QED
  BY <1>7, <1>8, <1>9, <1>10, <1>11 DEF Indexed

-----------------------------------------------------------------------------
(* The first retransmission, and the timeout of the head.                  *)

\* What is left of the list when its first i nodes are replaced.
LEMMA NodesReplaced ==
  ASSUME NEW left \in Seq(AdamapType), NEW i \in 1 .. Len(list),
         list \in Seq(AdamapType)
  PROVE  LET l == left \o SubSeq(list, i + 1, Len(list))
         IN /\ l \in Seq(AdamapType)
            /\ Nodes(l) = Nodes(left) \union {list[j] : j \in i + 1 .. Len(list)}
<1> DEFINE tail == SubSeq(list, i + 1, Len(list))
           l == left \o tail
<1>1. Len(list) \in Nat /\ i \in Nat /\ Len(left) \in Nat
  OBVIOUS
<1>2. /\ tail \in Seq(AdamapType)
      /\ Len(tail) = Len(list) - i
      /\ \A k \in 1 .. Len(list) - i : tail[k] = list[k + i]
  BY <1>1
<1> HIDE DEF tail
<1>3. /\ l \in Seq(AdamapType)
      /\ Len(l) = Len(left) + Len(tail)
      /\ DOMAIN l = 1 .. Len(left) + Len(tail)
      /\ \A k \in 1 .. Len(left) : l[k] = left[k]
      /\ \A k \in 1 .. Len(tail) : l[k + Len(left)] = tail[k]
  <2>1. /\ l \in Seq(AdamapType)
        /\ Len(l) = Len(left) + Len(tail)
        /\ \A k \in 1 .. Len(left) + Len(tail) :
             l[k] = IF k <= Len(left) THEN left[k] ELSE tail[k - Len(left)]
    BY <1>2, ConcatProperties, Zenon
  <2> HIDE DEF l
  <2>2. Len(tail) \in Nat /\ DOMAIN l = 1 .. Len(l)
    BY <1>2, <2>1
  <2>3. \A k \in 1 .. Len(left) : l[k] = left[k]
    BY <1>1, <2>1, <2>2
  <2>4. ASSUME NEW k \in 1 .. Len(tail) PROVE l[k + Len(left)] = tail[k]
    <3>1. k + Len(left) \in 1 .. Len(l) /\ ~ (k + Len(left) <= Len(left))
          /\ (k + Len(left)) - Len(left) = k
      BY <1>1, <2>1, <2>2
    <3> QED
      BY <2>1, <3>1
  <2> QED
    BY <2>1, <2>2, <2>3, <2>4
<1> HIDE DEF l
<1>4. ASSUME NEW k \in DOMAIN l
      PROVE  l[k] \in Nodes(left) \/ \E j \in i + 1 .. Len(list) : l[k] = list[j]
  <2>1. k \in Nat /\ 1 <= k /\ k <= Len(left) + (Len(list) - i)
    BY <1>2, <1>3
  <2>2. CASE k <= Len(left)
    BY <1>3, <2>1, <2>2 DEF Nodes
  <2>3. CASE k > Len(left)
    <3>1. k - Len(left) \in 1 .. Len(list) - i
      BY <1>1, <2>1, <2>3
    <3>2. l[k] = tail[k - Len(left)] /\ tail[k - Len(left)] = list[k - Len(left) + i]
      <4> DEFINE m == k - Len(left)
      <4>1. m \in 1 .. Len(list) - i /\ k = m + Len(left)
        BY <1>1, <2>1, <3>1
      <4> HIDE DEF m
      <4> QED
        BY <1>2, <1>3, <4>1 DEF m
    <3> QED
      BY <1>1, <3>1, <3>2
  <2> QED
    BY <1>1, <2>1, <2>2, <2>3
<1>5. ASSUME NEW k \in DOMAIN left PROVE left[k] \in Nodes(l)
  <2>1. k \in 1 .. Len(left) /\ Len(tail) \in Nat
    BY <1>1, <1>2
  <2>2. left[k] = l[k] /\ k \in DOMAIN l
    BY <1>1, <1>3, <2>1
  <2> QED
    BY <2>2 DEF Nodes
<1>6. ASSUME NEW j \in i + 1 .. Len(list) PROVE list[j] \in Nodes(l)
  <2> DEFINE m == j - i
  <2>1. m \in 1 .. Len(list) - i /\ j = m + i
    BY <1>1
  <2> HIDE DEF m
  <2>2. list[j] = tail[m] /\ m \in 1 .. Len(tail)
    BY <1>1, <1>2, <2>1
  <2>3. tail[m] = l[m + Len(left)] /\ m + Len(left) \in DOMAIN l
    BY <1>1, <1>2, <1>3, <2>2
  <2> QED
    BY <2>2, <2>3 DEF Nodes
<1>7. Nodes(l) \subseteq Nodes(left) \union {list[j] : j \in i + 1 .. Len(list)}
  BY <1>4 DEF Nodes
<1>8. Nodes(left) \union {list[j] : j \in i + 1 .. Len(list)} \subseteq Nodes(l)
  BY <1>5, <1>6 DEF Nodes
<1>9. l \in Seq(AdamapType)
      /\ Nodes(l) = Nodes(left) \union {list[j] : j \in i + 1 .. Len(list)}
  BY <1>3, <1>7, <1>8
<1> QED
  BY <1>9 DEF l, tail

\* A finite family of finite sets has a finite union.
LEMMA FamilyFinite ==
  ASSUME NEW n \in Int, NEW F, F = [j \in 1 .. n |-> F[j]],
         \A j \in 1 .. n : IsFiniteSet(F[j])
  PROVE  IsFiniteSet(UNION {F[j] : j \in 1 .. n})
<1> DEFINE G == {F[j] : j \in 1 .. n}
<1>1. F \in Surjection(1 .. n, G)
  BY DEF Surjection
<1>2. IsFiniteSet(1 .. n)
  BY FS_Interval
<1>3. IsFiniteSet(G)
  <2> HIDE DEF G
  <2> QED BY <1>1, <1>2, FS_Surjection
<1> QED
  BY <1>3, FS_UNION

\* SplitChunks and ChunksBefore name pieces of the list.
LEMMA SplitChunkSet ==
  ASSUME list \in Seq(AdamapType), NEW i \in 1 .. Len(list) + 1
  PROVE  /\ \A j \in 1 .. Len(list) : IsChunkSet(SplitChunks(j), list)
         /\ IsChunkSet(ChunksBefore(i), list)
         /\ \A p \in ChunksBefore(i) : p[1] \in 1 .. i - 1
<1>1. ASSUME NEW j \in 1 .. Len(list)
      PROVE  IsChunkSet(SplitChunks(j), list) /\ \A p \in SplitChunks(j) : p[1] = j
  <2>1. list[j] \in AdamapType /\ j \in DOMAIN list
    OBVIOUS
  <2>2. list[j].reprLength \in Nat
    BY <2>1 DEF AdamapType
  <2>3. SplitStarts(list[j]) \subseteq 0 .. list[j].reprLength - 1
    BY DEF SplitStarts, ChunkStarts
  <2>4. IsFiniteSet(SplitStarts(list[j]))
    <3>1. 0 \in Int /\ list[j].reprLength - 1 \in Int
      BY <2>2
    <3>2. IsFiniteSet(0 .. list[j].reprLength - 1)
      BY <3>1, FS_Interval
    <3> QED
      BY <2>3, <3>2, FS_Subset
  <2>5. \A p \in SplitChunks(j) : p[1] = j /\ p[2] \in SplitStarts(list[j])
                                  /\ p = <<p[1], p[2]>>
    BY DEF SplitChunks
  <2>6. IsFiniteSet(SplitChunks(j))
    <3>1. SplitChunks(j) \subseteq {j} \X SplitStarts(list[j])
      BY DEF SplitChunks
    <3>2. IsFiniteSet({j})
      BY FS_Singleton
    <3>3. IsFiniteSet({j} \X SplitStarts(list[j]))
      BY <2>4, <3>2, FS_Product
    <3> QED
      BY <3>1, <3>3, FS_Subset
  <2> QED
    BY <2>1, <2>3, <2>5, <2>6 DEF IsChunkSet
<1>2. Len(list) \in Nat /\ i \in Nat /\ i - 1 \in Int /\ 1 .. i - 1 \subseteq 1 .. Len(list)
  OBVIOUS
<1>3. IsFiniteSet(ChunksBefore(i))
  <2> DEFINE F == [j \in 1 .. i - 1 |-> SplitChunks(j)]
  <2>1. \A j \in 1 .. i - 1 : IsFiniteSet(F[j])
    BY <1>1, <1>2 DEF IsChunkSet
  <2>2. F = [j \in 1 .. i - 1 |-> F[j]]
    OBVIOUS
  <2>3. {F[j] : j \in 1 .. i - 1} = {SplitChunks(j) : j \in 1 .. i - 1}
    OBVIOUS
  <2> HIDE DEF F
  <2>4. IsFiniteSet(UNION {F[j] : j \in 1 .. i - 1})
    BY <1>2, <2>1, <2>2, FamilyFinite
  <2> QED
    BY <2>3, <2>4 DEF ChunksBefore
<1>4. \A p \in ChunksBefore(i) : \E j \in 1 .. i - 1 : p \in SplitChunks(j)
  BY DEF ChunksBefore
<1>5. \A p \in ChunksBefore(i) : p[1] \in 1 .. i - 1
  BY <1>1, <1>2, <1>4
<1>6. IsChunkSet(ChunksBefore(i), list)
  BY <1>1, <1>2, <1>3, <1>4 DEF IsChunkSet
<1> QED
  BY <1>1, <1>5, <1>6

\* The nodes in left and the pieces P of nodes can take the place of the first
\* i nodes of the list.
InPlaceOf(R, i, P, nodes, left) ==
  /\ \A j \in 1 .. i : \A s \in Missing(list[j]) :
       \/ s \in R
       \/ \E a \in Nodes(left) : s \in Missing(a)
       \/ \E p \in P : s \in Missing(Chunk(nodes[p[1]], p[2]))
  /\ \A p \in P : /\ Received(Chunk(nodes[p[1]], p[2])) \subseteq R
                  /\ \E c \in AllContexts :
                       Covers(Chunk(nodes[p[1]], p[2])) \subseteq Covers(c)
  /\ \A a \in Nodes(left) : /\ Received(a) \subseteq R
                            /\ \E c \in AllContexts : Covers(a) \subseteq Covers(c)

\* The first i nodes of the list give way to left and to the pieces in P.
LEMMA ReplaceNodesInv ==
  ASSUME NEW R, AdamapInv(R), NEW i \in 1 .. Len(list),
         NEW P, NEW nodes \in Seq(AdamapType), IsChunkSet(P, nodes),
         NEW left \in Seq(AdamapType),
         PushChunks(P, nodes),
         list' = left \o SubSeq(list, i + 1, Len(list)),
         startSeq' = startSeq, bitmap' = bitmap,
         InPlaceOf(R, i, P, nodes, left)
  PROVE  AdamapInv(R)' /\ Traced(R, {})
<1>1. AdamapTypeOK /\ Indexed /\ list \in Seq(AdamapType)
  BY DEF AdamapInv, AdamapTypeOK
<1>2. /\ table' \subseteq Entry
      /\ nextIndex' \in Nat
      /\ Indexed'
      /\ TableAdamaps' = TableAdamaps \union {Chunk(nodes[p[1]], p[2]) : p \in P}
      /\ EntriesFilled
  BY <1>1, PushChunksInv
<1>3. /\ list' \in Seq(AdamapType)
      /\ Nodes(list') = Nodes(left) \union {list[j] : j \in i + 1 .. Len(list)}
  BY <1>1, NodesReplaced
<1>4. AdamapTypeOK'
  BY <1>1, <1>2, <1>3 DEF AdamapTypeOK
<1>5. AllContexts' = Nodes(list') \union TableAdamaps'
  BY DEF AllContexts
<1>6. Kept(R)
  <2> SUFFICES ASSUME NEW a \in AllContexts, NEW s \in Missing(a), s \notin R
               PROVE  \E b \in AllContexts' : s \in Missing(b)
    BY DEF Kept
  <2>2. CASE a \in TableAdamaps
    BY <1>2, <1>5, <2>2
  <2>3. ASSUME NEW j \in DOMAIN list, a = list[j]
        PROVE  \E b \in AllContexts' : s \in Missing(b)
    <3>1. j \in 1 .. Len(list)
      BY <1>1
    <3>2. CASE j > i
      BY <1>3, <1>5, <2>3, <3>1, <3>2
    <3>3. CASE j <= i
      <4>0. j \in 1 .. i /\ s \in Missing(list[j])
        BY <2>3, <3>1, <3>3
      <4>1. \/ \E b \in Nodes(left) : s \in Missing(b)
            \/ \E p \in P : s \in Missing(Chunk(nodes[p[1]], p[2]))
        BY <4>0 DEF InPlaceOf
      <4> QED
        BY <1>2, <1>3, <1>5, <4>1
    <3> QED
      BY <3>1, <3>2, <3>3
  <2> QED
    BY <2>2, <2>3 DEF AllContexts, Nodes
<1>7. AllNoted(R)'
  <2>1. \A j \in i + 1 .. Len(list) : Received(list[j]) \subseteq R
    <3>1. \A j \in i + 1 .. Len(list) : j \in DOMAIN list
      BY <1>1
    <3> QED
      BY <3>1 DEF AdamapInv, AllNoted, AllContexts, Nodes
  <2>2. \A a \in TableAdamaps : Received(a) \subseteq R
    BY DEF AdamapInv, AllNoted, AllContexts
  <2>3. \A a \in Nodes(list') : Received(a) \subseteq R
    BY <1>3, <2>1 DEF InPlaceOf
  <2>4. \A a \in TableAdamaps' : Received(a) \subseteq R
    BY <1>2, <2>2 DEF InPlaceOf
  <2> QED
    BY <1>5, <2>3, <2>4 DEF AdamapInv, AllNoted
<1>8. AllRequested(R)'
  BY <1>6 DEF AdamapInv, AllRequested, Kept
<1>9. Narrowed({})
  <2>1. \A j \in i + 1 .. Len(list) : list[j] \in AllContexts
    <3>1. \A j \in i + 1 .. Len(list) : j \in DOMAIN list
      BY <1>1
    <3> QED
      BY <3>1 DEF AllContexts, Nodes
  <2>2. TableAdamaps \subseteq AllContexts
    BY DEF AllContexts
  <2>3. \A b \in Nodes(list') : \E c \in AllContexts : Covers(b) \subseteq Covers(c)
    BY <1>3, <2>1 DEF InPlaceOf
  <2>4. \A b \in TableAdamaps' : \E c \in AllContexts : Covers(b) \subseteq Covers(c)
    BY <1>2, <2>2 DEF InPlaceOf
  <2> QED
    BY <1>5, <2>3, <2>4 DEF Narrowed
<1> QED
  BY <1>2, <1>4, <1>6, <1>7, <1>8, <1>9 DEF AdamapInv, Traced

\* The nodes before the target: what they miss is split off completely.
LEMMA ChunksBeforeCover ==
  ASSUME NEW R, AdamapInv(R), NEW i \in 1 .. Len(list) + 1
  PROVE  /\ \A j \in 1 .. i - 1 : \A s \in Missing(list[j]) :
              \E p \in ChunksBefore(i) : p[1] = j /\ s \in Missing(Chunk(list[j], p[2]))
         /\ \A p \in ChunksBefore(i) : Received(Chunk(list[p[1]], p[2])) \subseteq R
         /\ \A p \in ChunksBefore(i) : \E c \in AllContexts :
              Covers(Chunk(list[p[1]], p[2])) \subseteq Covers(c)
<1>1. list \in Seq(AdamapType) /\ Len(list) \in Nat
  BY DEF AdamapInv, AdamapTypeOK
<1>2. ASSUME NEW j \in 1 .. i - 1, NEW s \in Missing(list[j])
      PROVE  \E p \in ChunksBefore(i) :
               p[1] = j /\ s \in Missing(Chunk(list[j], p[2]))
  <2>1. list[j] \in AdamapType
    BY <1>1
  <2>2. PICK d \in SplitStarts(list[j]) : s \in Missing(Chunk(list[j], d))
    BY <2>1, SplitCovers
  <2>3. <<j, d>> \in ChunksBefore(i)
    BY DEF ChunksBefore, SplitChunks
  <2> QED
    BY <2>2, <2>3
<1>3. ASSUME NEW p \in ChunksBefore(i)
      PROVE  /\ Received(Chunk(list[p[1]], p[2])) \subseteq R
             /\ \E c \in AllContexts : Covers(Chunk(list[p[1]], p[2])) \subseteq Covers(c)
  <2>1. p[1] \in DOMAIN list /\ p[2] \in 0 .. list[p[1]].reprLength - 1
    BY <1>1, SplitChunkSet DEF IsChunkSet
  <2>2. list[p[1]] \in AdamapType /\ list[p[1]] \in AllContexts
    BY <1>1, <2>1 DEF AllContexts, Nodes
  <2>3. /\ Received(Chunk(list[p[1]], p[2])) \subseteq Received(list[p[1]])
        /\ Covers(Chunk(list[p[1]], p[2])) \subseteq Covers(list[p[1]])
    BY <2>1, <2>2, ChunkMissing
  <2> QED
    BY <2>2, <2>3 DEF AdamapInv, AllNoted
<1> QED
  BY <1>2, <1>3

LEMMA HeadsToTableInv ==
  ASSUME NEW R, AdamapInv(R), NEW n \in 1 .. Len(list), HeadsToTable(n)
  PROVE  AdamapInv(R)' /\ Traced(R, {})
<1>1. /\ list \in Seq(AdamapType) /\ Len(list) \in Nat
      /\ n + 1 \in 1 .. Len(list) + 1 /\ (n + 1) - 1 = n
  BY DEF AdamapInv, AdamapTypeOK
<1> DEFINE P == ChunksBefore(n + 1)
<1>2. IsChunkSet(P, list)
  BY <1>1, SplitChunkSet
<1>3. /\ \A j \in 1 .. n : \A s \in Missing(list[j]) :
           \E p \in P : p[1] = j /\ s \in Missing(Chunk(list[j], p[2]))
      /\ \A p \in P : Received(Chunk(list[p[1]], p[2])) \subseteq R
      /\ \A p \in P : \E c \in AllContexts :
           Covers(Chunk(list[p[1]], p[2])) \subseteq Covers(c)
  BY <1>1, ChunksBeforeCover
<1>4. \A j \in 1 .. n : \A s \in Missing(list[j]) :
        \E p \in P : s \in Missing(Chunk(list[p[1]], p[2]))
  BY <1>3
<1>5. <<>> \in Seq(AdamapType) /\ Nodes(<<>>) = {}
  BY DEF Nodes
<1>6. /\ PushChunks(P, list) /\ startSeq' = startSeq /\ bitmap' = bitmap
      /\ list' = <<>> \o SubSeq(list, n + 1, Len(list))
  BY <1>1 DEF HeadsToTable
<1> HIDE DEF P
<1>7. InPlaceOf(R, n, P, list, <<>>)
  BY <1>3, <1>4, <1>5 DEF InPlaceOf
<1> QED
  BY <1>1, <1>2, <1>5, <1>6, <1>7, ReplaceNodesInv

LEMMA RecordFirstInBitmapInv ==
  ASSUME NEW R, AdamapInv(R), NEW seq \in R, NEW i \in 1 .. Len(list),
         RecordFirstInBitmap(i, seq)
  PROVE  AdamapInv(R)' /\ Traced(R, {})
<1> DEFINE offset == Offset(i, seq)
           node   == WithBit(list[i], offset)
           last   == LastHole(node, offset)
           own    == IF last /\ ~ BitmapFull(node) THEN {<<i, 0>>} ELSE {}
           left   == IF ~ last THEN <<node>>
                     ELSE IF NoRange(node) THEN <<>>
                     ELSE <<Slide(node, BitmapSize)>>
           nodes  == [list EXCEPT ![i] = node]
           P      == ChunksBefore(i) \union own
<1>1. /\ list \in Seq(AdamapType) /\ list[i] \in AdamapType /\ list[i] \in AllContexts
      /\ Len(list) \in Nat /\ i \in DOMAIN list /\ i \in 1 .. Len(list) + 1
  BY DEF AdamapInv, AdamapTypeOK, AllContexts, Nodes
<1>2. BitmapSize \in Nat \ {0}
  BY BitmapSizeAssumption
<1>3. seq \in Covers(list[i]) /\ offset < BitmapSize
  BY DEF RecordFirstInBitmap, IsTarget
<1>4. offset = seq - list[i].startSeq - 1 /\ offset \in Bits
  <2>1. list[i].startSeq \in Nat /\ list[i].reprLength \in Nat
    BY <1>1 DEF AdamapType
  <2>2. seq \in list[i].startSeq + 1 .. list[i].startSeq + list[i].reprLength
    BY <1>3, <2>1 DEF Covers
  <2>3. offset = seq - list[i].startSeq - 1
    BY DEF Offset
  <2> QED
    BY <1>2, <1>3, <2>1, <2>2, <2>3 DEF Bits
<1>5. /\ node \in AdamapType
      /\ Covers(node) = Covers(list[i])
      /\ Missing(node) = Missing(list[i]) \ {seq}
  BY <1>1, <1>3, <1>4, WithBitMissing
<1>6. Received(node) \subseteq R
  <2>1. Received(list[i]) \subseteq R
    BY <1>1 DEF AdamapInv, AllNoted
  <2> QED
    BY <1>5, <2>1 DEF Received
<1>7. /\ PushChunks(P, nodes)
      /\ list' = left \o SubSeq(list, i + 1, Len(list))
      /\ startSeq' = startSeq /\ bitmap' = bitmap
  BY DEF RecordFirstInBitmap
<1>8. node.startSeq = list[i].startSeq /\ node.reprLength = list[i].reprLength
      /\ node.bitmap = list[i].bitmap \union {offset}
  BY <1>1 DEF WithBit, AdamapType
<1>9. /\ nodes \in Seq(AdamapType) /\ DOMAIN nodes = DOMAIN list /\ nodes[i] = node
      /\ \A j \in DOMAIN list : j # i => nodes[j] = list[j]
  BY <1>1, <1>5
<1> HIDE DEF offset, node, nodes
<1>10. left \in Seq(AdamapType)
       /\ Nodes(left) = IF ~ last THEN {node} ELSE IF NoRange(node) THEN {}
                        ELSE {Slide(node, BitmapSize)}
  <2>1. ~ NoRange(node) => Slide(node, BitmapSize) \in AdamapType
    <3>1. ~ NoRange(node) => BitmapSize \in 0 .. node.reprLength - 1
      BY <1>2, <1>5 DEF NoRange, AdamapType
    <3> QED
      BY <1>5, <3>1, SlideMissing
  <2> QED
    BY <1>5, <2>1 DEF Nodes
<1>11. IsChunkSet(P, nodes)
  <2>1. IsChunkSet(ChunksBefore(i), list) /\ \A p \in ChunksBefore(i) : p[1] \in 1 .. i - 1
    BY <1>1, SplitChunkSet
  <2>2. \A p \in ChunksBefore(i) : nodes[p[1]] = list[p[1]]
    BY <1>1, <1>9, <2>1
  <2>3. IsFiniteSet(own)
    BY FS_EmptySet, FS_Singleton
  <2>4. IsFiniteSet(P)
    BY <2>1, <2>3, FS_Union DEF IsChunkSet
  <2>5. 0 \in 0 .. node.reprLength - 1
    BY <1>5 DEF AdamapType
  <2>6. \A p \in own : p = <<p[1], p[2]>> /\ p[1] = i /\ p[2] = 0
    OBVIOUS
  <2> HIDE DEF own
  <2> QED
    BY <1>1, <1>9, <2>1, <2>2, <2>4, <2>5, <2>6 DEF IsChunkSet
<1>12. ASSUME NEW j \in 1 .. i, NEW s \in Missing(list[j])
       PROVE  \/ s \in R
              \/ \E a \in Nodes(left) : s \in Missing(a)
              \/ \E p \in P : s \in Missing(Chunk(nodes[p[1]], p[2]))
  <2>1. CASE j < i
    <3>1. PICK p \in ChunksBefore(i) : p[1] = j /\ s \in Missing(Chunk(list[j], p[2]))
      <4>1. j \in 1 .. i - 1
        BY <1>1, <2>1
      <4> QED
        BY <1>1, <4>1, ChunksBeforeCover
    <3>2. nodes[p[1]] = list[j]
      BY <1>1, <1>9, <2>1, <3>1
    <3> QED
      BY <3>1, <3>2
  <2>2. CASE j = i /\ s # seq
    <3>1. s \in Missing(node)
      BY <1>5, <2>2
    <3>2. CASE ~ last
      BY <1>10, <3>1, <3>2
    <3>3. CASE last /\ s - node.startSeq - 1 < BitmapSize
      <4>1. /\ s - node.startSeq - 1 \in BitsInUse(node)
            /\ s - node.startSeq - 1 \notin node.bitmap
        BY <1>2, <1>5, <3>1, <3>3 DEF Missing, Covers, BitsInUse, Bits, AdamapType
      <4>2. <<i, 0>> \in P /\ <<i, 0>>[1] = i /\ <<i, 0>>[2] = 0
        BY <3>3, <4>1 DEF BitmapFull
      <4>3. s \in Missing(Chunk(node, 0))
        <5>1. 0 \in 0 .. node.reprLength - 1
          BY <1>5 DEF AdamapType
        <5>2. 0 <= s - node.startSeq - 1 /\ s - node.startSeq - 1 < 0 + BitmapSize
          BY <1>2, <3>3, <4>1 DEF BitsInUse, Bits
        <5> QED
          BY <1>5, <3>1, <5>1, <5>2, ChunkMissing
      <4> QED
        BY <1>9, <4>2, <4>3
    <3>4. CASE last /\ ~ (s - node.startSeq - 1 < BitmapSize)
      <4>1. ~ NoRange(node) /\ BitmapSize \in 0 .. node.reprLength - 1
            /\ BitmapSize <= s - node.startSeq - 1
        BY <1>2, <1>5, <3>1, <3>4 DEF Missing, Covers, NoRange, AdamapType
      <4>2. s \in Missing(Slide(node, BitmapSize))
        BY <1>5, <3>1, <4>1, SlideMissing
      <4> QED
        BY <1>10, <3>4, <4>1, <4>2
    <3> QED
      BY <3>2, <3>3, <3>4
  <2> QED
    BY <1>1, <2>1, <2>2
<1>13. ASSUME NEW p \in P
       PROVE  /\ Received(Chunk(nodes[p[1]], p[2])) \subseteq R
              /\ \E c \in AllContexts : Covers(Chunk(nodes[p[1]], p[2])) \subseteq Covers(c)
  <2>1. CASE p \in ChunksBefore(i)
    <3>1. /\ Received(Chunk(list[p[1]], p[2])) \subseteq R /\ p[1] \in 1 .. i - 1
          /\ \E c \in AllContexts : Covers(Chunk(list[p[1]], p[2])) \subseteq Covers(c)
      BY <1>1, <2>1, ChunksBeforeCover, SplitChunkSet
    <3>2. nodes[p[1]] = list[p[1]]
      BY <1>1, <1>9, <3>1
    <3> QED
      BY <3>1, <3>2
  <2>2. CASE p \in own
    <3>1. p[1] = i /\ p[2] = 0
      BY <2>2
    <3>2. 0 \in 0 .. node.reprLength - 1
      BY <1>5 DEF AdamapType
    <3>3. /\ Received(Chunk(node, 0)) \subseteq Received(node)
          /\ Covers(Chunk(node, 0)) \subseteq Covers(node)
      BY <1>5, <3>2, ChunkMissing
    <3> QED
      BY <1>1, <1>5, <1>6, <1>9, <3>1, <3>3
  <2> QED
    BY <2>1, <2>2
<1>14. ASSUME NEW a \in Nodes(left)
       PROVE  /\ Received(a) \subseteq R
              /\ \E c \in AllContexts : Covers(a) \subseteq Covers(c)
  <2>1. CASE a = node
    BY <1>1, <1>5, <1>6, <2>1
  <2>2. CASE ~ NoRange(node) /\ a = Slide(node, BitmapSize)
    <3>1. BitmapSize \in 0 .. node.reprLength - 1
      BY <1>2, <1>5, <2>2 DEF NoRange, AdamapType
    <3> QED
      BY <1>1, <1>5, <1>6, <2>2, <3>1, SlideMissing
  <2> QED
    BY <1>10, <2>1, <2>2
<1> HIDE DEF left, P, own, last
<1>15. InPlaceOf(R, i, P, nodes, left)
  BY <1>12, <1>13, <1>14 DEF InPlaceOf
<1> QED
  BY <1>7, <1>9, <1>10, <1>11, <1>15, ReplaceNodesInv

\* The pieces of the target that lie before the packet are pushed as they
\* are; the target slides to the piece with the packet.
LEMMA RecordFirstInRangeInv ==
  ASSUME NEW R, AdamapInv(R), NEW seq \in R, NEW i \in 1 .. Len(list),
         RecordFirstInRange(i, seq)
  PROVE  AdamapInv(R)' /\ Traced(R, {})
<1> DEFINE offset == Offset(i, seq)
           base   == offset - (offset % BitmapSize)
           starts == {c \in ChunkStarts(list[i]) : c < base}
           own    == {<<i, d>> : d \in starts}
           rest   == Slide(list[i], base)
           node   == WithBit(rest, offset - base)
           left   == <<node>>
           P      == ChunksBefore(i) \union own
<1>1. /\ list \in Seq(AdamapType) /\ list[i] \in AdamapType /\ list[i] \in AllContexts
      /\ Len(list) \in Nat /\ i \in DOMAIN list /\ i \in 1 .. Len(list) + 1
  BY DEF AdamapInv, AdamapTypeOK, AllContexts, Nodes
<1>2. /\ BitmapSize \in Nat \ {0}
      /\ list[i].startSeq \in Nat /\ list[i].reprLength \in Nat \ {0}
      /\ Received(list[i]) \subseteq R
  BY <1>1, BitmapSizeAssumption DEF AdamapType, AdamapInv, AllNoted
<1>3. seq \in Covers(list[i]) /\ seq \in Nat
  BY <1>2 DEF RecordFirstInRange, IsTarget, Covers
<1>4. /\ offset = seq - list[i].startSeq - 1 /\ offset \in Nat
      /\ base \in ChunkStarts(list[i]) /\ base <= offset /\ offset < base + BitmapSize
  BY <1>1, <1>3, ChunkOf DEF Offset
<1>5. /\ PushChunks(P, list)
      /\ list' = left \o SubSeq(list, i + 1, Len(list))
      /\ startSeq' = startSeq /\ bitmap' = bitmap
  BY DEF RecordFirstInRange
<1> HIDE DEF offset, base
<1>6. base \in 0 .. list[i].reprLength - 1 /\ base \in Nat
  BY <1>2, <1>4 DEF ChunkStarts
<1>7. /\ rest \in AdamapType
      /\ \A s \in Missing(list[i]) :
           base <= s - list[i].startSeq - 1 => s \in Missing(rest)
      /\ Received(rest) \subseteq Received(list[i])
      /\ Covers(rest) \subseteq Covers(list[i])
  BY <1>1, <1>6, SlideMissing
<1>8. rest.startSeq = list[i].startSeq + base
      /\ rest.reprLength = list[i].reprLength - base
  BY DEF Slide
<1> HIDE DEF rest
<1>9. /\ seq \in Covers(rest)
      /\ seq - rest.startSeq - 1 = offset - base
      /\ seq - rest.startSeq - 1 \in Bits
  <2>1. list[i].startSeq + 1 <= seq /\ seq <= list[i].startSeq + list[i].reprLength
    BY <1>3 DEF Covers
  <2>2. rest.startSeq \in Nat /\ rest.reprLength \in Nat
    BY <1>7 DEF AdamapType
  <2>3. seq - rest.startSeq - 1 = offset - base
    BY <1>2, <1>3, <1>4, <1>6, <1>8
  <2>4. rest.startSeq + 1 <= seq /\ seq <= rest.startSeq + rest.reprLength
    <3> DEFINE st == list[i].startSeq
               le == list[i].reprLength
    <3>1. /\ st \in Nat /\ le \in Nat /\ base \in Nat /\ seq \in Nat
          /\ st + 1 <= seq /\ seq <= st + le
          /\ base <= seq - st - 1
          /\ rest.startSeq = st + base /\ rest.reprLength = le - base
      BY <1>2, <1>3, <1>4, <1>6, <1>8, <2>1
    <3> HIDE DEF st, le
    <3>2. st + base + 1 <= seq /\ seq <= (st + base) + (le - base)
      BY <3>1
    <3> QED
      BY <3>1, <3>2
  <2>5. offset - base \in Bits
    BY <1>2, <1>4, <1>6 DEF Bits
  <2> QED
    BY <1>3, <2>2, <2>3, <2>4, <2>5 DEF Covers
<1>10. /\ node \in AdamapType
       /\ Covers(node) = Covers(rest)
       /\ Missing(node) = Missing(rest) \ {seq}
  BY <1>7, <1>9, WithBitMissing
<1> HIDE DEF node
<1>11. left \in Seq(AdamapType) /\ Nodes(left) = {node}
  BY <1>10 DEF Nodes
<1>12. \A c \in starts : c \in 0 .. list[i].reprLength - 1 /\ c < base
  BY DEF ChunkStarts
<1>13. \A p \in own : p = <<p[1], p[2]>> /\ p[1] = i /\ p[2] \in starts
  OBVIOUS
<1>14. IsChunkSet(P, list)
  <2>1. IsChunkSet(ChunksBefore(i), list)
    BY <1>1, SplitChunkSet
  <2>2. IsFiniteSet(0 .. list[i].reprLength - 1)
    <3>1. 0 \in Int /\ list[i].reprLength - 1 \in Int
      BY <1>2
    <3> QED
      BY <3>1, FS_Interval
  <2>3. IsFiniteSet(starts)
    BY <1>12, <2>2, FS_Subset
  <2>4. IsFiniteSet({i} \X starts)
    BY <2>3, FS_Singleton, FS_Product
  <2>5. IsFiniteSet(own)
    <3>1. own \subseteq {i} \X starts
      OBVIOUS
    <3> QED
      BY <2>4, <3>1, FS_Subset
  <2>6. IsFiniteSet(P)
    BY <2>1, <2>5, FS_Union DEF IsChunkSet
  <2> HIDE DEF own, starts
  <2> QED
    BY <1>1, <1>12, <1>13, <2>1, <2>6 DEF IsChunkSet
<1>15. ASSUME NEW j \in 1 .. i, NEW s \in Missing(list[j])
       PROVE  \/ s \in R
              \/ \E a \in Nodes(left) : s \in Missing(a)
              \/ \E p \in P : s \in Missing(Chunk(list[p[1]], p[2]))
  <2>1. CASE j < i
    <3>1. j \in 1 .. i - 1
      BY <1>1, <2>1
    <3>2. PICK p \in ChunksBefore(i) : p[1] = j /\ s \in Missing(Chunk(list[j], p[2]))
      BY <1>1, <3>1, ChunksBeforeCover
    <3> QED
      BY <3>2
  <2>2. CASE j = i /\ base <= s - list[i].startSeq - 1
    BY <1>7, <1>10, <1>11, <2>2
  <2>3. CASE j = i /\ ~ (base <= s - list[i].startSeq - 1)
    <3> DEFINE o == s - list[i].startSeq - 1
               d == o - (o % BitmapSize)
    <3>1. s \in Missing(list[i]) /\ s \in Covers(list[i])
      BY <2>3 DEF Missing
    <3>2. o \in Nat /\ d \in ChunkStarts(list[i]) /\ d <= o /\ o < d + BitmapSize
      BY <1>1, <3>1, ChunkOf
    <3> HIDE DEF d
    <3>3. d \in 0 .. list[i].reprLength - 1
      BY <3>2 DEF ChunkStarts
    <3>4. s \in Missing(Chunk(list[i], d))
      BY <1>1, <3>1, <3>2, <3>3, ChunkMissing
    <3>5. d \in starts
      BY <1>2, <1>6, <2>3, <3>2, <3>3
    <3>6. <<i, d>> \in P /\ <<i, d>>[1] = i /\ <<i, d>>[2] = d
      BY <3>5
    <3> QED
      BY <3>4, <3>6
  <2> QED
    BY <1>1, <2>1, <2>2, <2>3
<1>16. ASSUME NEW p \in P
       PROVE  /\ Received(Chunk(list[p[1]], p[2])) \subseteq R
              /\ \E c \in AllContexts : Covers(Chunk(list[p[1]], p[2])) \subseteq Covers(c)
  <2>1. CASE p \in ChunksBefore(i)
    BY <1>1, <2>1, ChunksBeforeCover
  <2>2. CASE p \in own
    <3>1. p[1] = i /\ p[2] \in 0 .. list[i].reprLength - 1
      BY <1>12, <1>13, <2>2
    <3>2. /\ Received(Chunk(list[i], p[2])) \subseteq Received(list[i])
          /\ Covers(Chunk(list[i], p[2])) \subseteq Covers(list[i])
      BY <1>1, <3>1, ChunkMissing
    <3> QED
      BY <1>1, <1>2, <3>1, <3>2
  <2> QED
    BY <2>1, <2>2
<1>17. Received(node) \subseteq R
  BY <1>2, <1>7, <1>10 DEF Received
<1>18. ASSUME NEW a \in Nodes(left)
       PROVE  /\ Received(a) \subseteq R
              /\ \E c \in AllContexts : Covers(a) \subseteq Covers(c)
  BY <1>1, <1>7, <1>10, <1>11, <1>17
<1> HIDE DEF left, P, own, starts
<1>19. InPlaceOf(R, i, P, list, left)
  BY <1>15, <1>16, <1>18 DEF InPlaceOf
<1> QED
  BY <1>1, <1>5, <1>11, <1>14, <1>19, ReplaceNodesInv

LEMMA RecordFirstInv ==
  ASSUME NEW R, AdamapInv(R), NEW seq \in R, RecordFirst(seq)
  PROVE  AdamapInv(R)' /\ Traced(R, {})
<1>1. CASE RecordFirstMiss(seq)
  <2>1. AdamapInv(R)'
    BY <1>1 DEF RecordFirstMiss, AdamapInv, AdamapTypeOK, Indexed, AllRequested,
                AllNoted, AllContexts, TableAdamaps
  <2> QED
    BY <1>1, <2>1, ContextsUnchanged DEF RecordFirstMiss, AdamapInv
<1>2. ASSUME NEW i \in 1 .. Len(list),
             RecordFirstInBitmap(i, seq) \/ RecordFirstInRange(i, seq)
      PROVE  AdamapInv(R)' /\ Traced(R, {})
  BY <1>2, RecordFirstInBitmapInv, RecordFirstInRangeInv
<1> QED
  BY <1>1, <1>2 DEF RecordFirst

-----------------------------------------------------------------------------
(* Later retransmissions.                                                  *)

LEMMA RecordMultiInv ==
  ASSUME NEW R, AdamapInv(R), NEW seq \in R, NEW index, RecordMulti(seq, index)
  PROVE  AdamapInv(R)' /\ Traced(R, {})
<1>1. CASE RecordMultiMiss(index)
  <2>1. AdamapInv(R)'
    BY <1>1 DEF RecordMultiMiss, AdamapInv, AdamapTypeOK, Indexed, AllRequested,
                AllNoted, AllContexts, TableAdamaps
  <2> QED
    BY <1>1, <2>1, ContextsUnchanged DEF RecordMultiMiss, AdamapInv
<1>2. CASE RecordMultiHit(seq, index)
  <2>1. PICK e \in Lookup(index) :
          LET a == WithBit(e.adamap, seq - e.adamap.startSeq - 1)
              kept == IF BitmapFull(a) THEN {} ELSE {[e EXCEPT !.adamap = a]}
          IN /\ table' = (table \ {e}) \union kept
             /\ UNCHANGED <<startSeq, bitmap, list, nextIndex>>
    BY <1>2 DEF RecordMultiHit
  <2> DEFINE a    == WithBit(e.adamap, seq - e.adamap.startSeq - 1)
             f    == [e EXCEPT !.adamap = a]
             kept == IF BitmapFull(a) THEN {} ELSE {f}
  <2>2. /\ table' = (table \ {e}) \union kept
        /\ startSeq' = startSeq /\ bitmap' = bitmap /\ list' = list
        /\ nextIndex' = nextIndex
    BY <2>1
  <2>3. /\ e \in table /\ e \in Entry /\ e.adamap \in AdamapType /\ e.tableIndex \in Nat
        /\ e.adamap \in AllContexts
    BY DEF Lookup, AdamapInv, AdamapTypeOK, Entry, AllContexts, TableAdamaps
  <2>4. seq \in Covers(e.adamap) /\ NoRange(e.adamap)
    BY DEF RecordMulti, MultiAsserts
  <2>5. seq - e.adamap.startSeq - 1 \in Bits
    BY <2>3, <2>4, BitmapSizeAssumption DEF Covers, NoRange, Bits, AdamapType
  <2>6. /\ a \in AdamapType
        /\ Covers(a) = Covers(e.adamap)
        /\ Missing(a) = Missing(e.adamap) \ {seq}
    BY <2>3, <2>4, <2>5, WithBitMissing
  <2>7. /\ a.reprLength = e.adamap.reprLength
        /\ a = [e.adamap EXCEPT !.bitmap = a.bitmap]
        /\ e.adamap.bitmap \subseteq a.bitmap
    BY <2>3 DEF WithBit, AdamapType
  <2>8. NoRange(a)
    BY <2>4, <2>7 DEF NoRange
  <2>9. Received(a) \subseteq R
    <3>1. Received(e.adamap) \subseteq R
      BY <2>3 DEF AdamapInv, AllNoted
    <3> QED
      BY <2>6, <3>1 DEF Received
  <2> HIDE DEF a
  <2>10. f \in Entry /\ f.adamap = a /\ f.tableIndex = e.tableIndex
    BY <2>3, <2>6 DEF Entry
  <2> HIDE DEF f
  <2>11. AdamapTypeOK'
    BY <2>2, <2>10 DEF AdamapInv, AdamapTypeOK
  <2>12. Indexed'
    BY <2>2, <2>3, <2>8, <2>10 DEF AdamapInv, Indexed
  <2>13. ASSUME NEW b \in AllContexts, NEW s \in Missing(b), s \notin R
         PROVE  \E c \in AllContexts' : s \in Missing(c)
    <3>1. CASE b = e.adamap
      <4>1. s \in Missing(a)
        BY <2>6, <2>13, <3>1
      <4>2. ~ BitmapFull(a)
        BY <2>6, <2>8, <4>1, FullMissing
      <4>3. a \in AllContexts'
        BY <2>2, <2>10, <4>2 DEF AllContexts, TableAdamaps
      <4> QED
        BY <4>1, <4>3
    <3>2. CASE b # e.adamap
      <4>1. b \in AllContexts'
        BY <2>2, <3>2 DEF AllContexts, TableAdamaps
      <4> QED
        BY <4>1
    <3> QED
      BY <3>1, <3>2
  <2>14. AllRequested(R)'
    BY <2>2, <2>13 DEF AdamapInv, AllRequested
  <2>15. \A b \in AllContexts' : b \in AllContexts \/ b = a
    BY <2>2, <2>10 DEF AllContexts, TableAdamaps
  <2>16. AllNoted(R)'
    BY <2>2, <2>9, <2>15 DEF AdamapInv, AllNoted
  <2>17. Kept(R)
    BY <2>13 DEF Kept
  <2>18. Narrowed({})
    BY <2>3, <2>6, <2>15 DEF Narrowed
  <2>19. EntriesFilled
    <3>1. AdamapTypeOK /\ nextIndex' >= nextIndex
      BY <2>2 DEF AdamapInv, AdamapTypeOK
    <3> QED
      BY <2>2, <2>3, <2>7, <2>10, <3>1, EntryIsItself DEF EntriesFilled
  <2> QED
    BY <2>2, <2>11, <2>12, <2>14, <2>16, <2>17, <2>18, <2>19 DEF AdamapInv, Traced
<1> QED
  BY <1>1, <1>2 DEF RecordMulti

-----------------------------------------------------------------------------
(* 3. The receiver: its steps.                                             *)

ControlTypeOK ==
  /\ gotLast \in BOOLEAN /\ isFinished \in BOOLEAN /\ aborted \in BOOLEAN
  /\ listTimer \in BOOLEAN /\ tableTimer \in BOOLEAN
  /\ expected \in Nat
  /\ rcvd \subseteq Seqs
  /\ lastAccess \in Nat \union {NoIndex}

\* Contexts speak of packets before the last one, and what is below the
\* expected packet has arrived.
InFlow ==
  /\ \A a \in AllContexts : Covers(a) \subseteq 1 .. LastSeq - 1
  /\ expected <= NumPackets
  /\ 0 .. expected - 1 \subseteq rcvd
  /\ gotLast => LastSeq \in rcvd

ReceiverInv ==
  /\ AdamapInv(rcvd)
  /\ ControlTypeOK
  /\ TimersArmed
  /\ InFlow

\* What becomes of the contexts in a step of the receiver.
ReceiverTraced == Traced(rcvd', 1 .. LastSeq - 1)

\* The invariant implies each of the properties that the runs check.
LEMMA ReceiverInvImplies ==
  ASSUME ReceiverInv
  PROVE  ReceiverTypeOK /\ NoLostContext /\ BitsSound /\ TableSound /\ TimersArmed
<1>1. AdamapTypeOK /\ Indexed /\ AllRequested(rcvd) /\ AllNoted(rcvd) /\ ControlTypeOK
  BY DEF ReceiverInv, AdamapInv
<1>2. AllContexts = Contexts
  BY DEF AllContexts, Contexts, Nodes, TableAdamaps
<1>3. ReceiverTypeOK
  BY <1>1 DEF AdamapTypeOK, ControlTypeOK, ReceiverTypeOK
<1>4. NoLostContext
  BY <1>1, <1>2 DEF AllRequested, NoLostContext, Requested
<1>5. BitsSound
  BY <1>1, <1>2 DEF AllNoted, BitsSound, Noted, Received
<1>6. TableSound
  BY <1>1 DEF Indexed, TableSound
<1> QED
  BY <1>3, <1>4, <1>5, <1>6 DEF ReceiverInv

LEMMA ReceiverInvInit == ReceiverInit => ReceiverInv
<1> SUFFICES ASSUME ReceiverInit PROVE ReceiverInv
  OBVIOUS
<1>1. AdamapTypeOK /\ Indexed /\ AllContexts = {}
  BY DEF ReceiverInit, AdamapInit, AdamapTypeOK, Indexed, AllContexts, Nodes,
         TableAdamaps
<1>2. AllRequested(rcvd) /\ AllNoted(rcvd)
  BY <1>1 DEF ReceiverInit, AdamapInit, AllRequested, AllNoted
<1>3. ControlTypeOK /\ TimersArmed
  BY DEF ReceiverInit, AdamapInit, ControlTypeOK, TimersArmed, NoIndex
<1>4. InFlow
  BY <1>1, NumPacketsAssumption DEF ReceiverInit, AdamapInit, InFlow
<1> QED
  BY <1>1, <1>2, <1>3, <1>4 DEF ReceiverInv, AdamapInv, ReceiverInit, AdamapInit

\* A step that leaves the three places alone keeps AdamapInv.
LEMMA AdamapUnchanged ==
  ASSUME NEW R, AdamapInv(R),
         UNCHANGED <<startSeq, bitmap, list, table, nextIndex>>
  PROVE  AdamapInv(R)' /\ Traced(R, {})
<1>1. AdamapInv(R)'
  BY DEF AdamapInv, AdamapTypeOK, Indexed, AllRequested, AllNoted, AllContexts,
         TableAdamaps
<1> QED
  BY <1>1, ContextsUnchanged DEF AdamapInv

\* A step that keeps AdamapInv for the packets received after it, and makes no
\* context but for packets before the last one.
LEMMA ContextsInFlow ==
  ASSUME InFlow, NEW R, R = rcvd', AdamapInv(R)', NEW S,
         S \subseteq 1 .. LastSeq - 1, Traced(R, S)
  PROVE  /\ AdamapInv(rcvd)'
         /\ ReceiverTraced
         /\ \A a \in AllContexts' : Covers(a) \subseteq 1 .. LastSeq - 1
<1>1. AdamapInv(rcvd)'
  BY DEF AdamapInv, AllRequested, AllNoted
<1>2. Traced(R, 1 .. LastSeq - 1)
  BY TracedWider
<1>3. ReceiverTraced
  BY <1>2 DEF ReceiverTraced
<1>4. \A a \in AllContexts' : Covers(a) \subseteq 1 .. LastSeq - 1
  BY <1>2 DEF InFlow, Traced, Narrowed
<1> QED
  BY <1>1, <1>3, <1>4

\* EnsureOmniTimeoutTimers makes TimersArmed true, whatever it is given.
LEMMA EnsureTimersInv ==
  ASSUME NEW l, NEW t, EnsureTimers(l, t)
  PROVE  TimersArmed' /\ listTimer' \in BOOLEAN /\ tableTimer' \in BOOLEAN
BY DEF EnsureTimers, TimersArmed

LEMMA ReceiveUdpInv ==
  ASSUME ReceiverInv, NEW p \in Packet, ReceiveUdp(p)
  PROVE  ReceiverInv' /\ ReceiverTraced
<1>1. /\ p.seq \in Seqs /\ p.seq \in Nat
      /\ p.tier \in 0 .. 2 /\ p.index \in Nat \union {NoIndex}
  BY NumPacketsAssumption DEF Packet, Seqs
<1>2. AdamapInv(rcvd) /\ ControlTypeOK /\ TimersArmed /\ InFlow
  BY DEF ReceiverInv
<1>3. AssertsHold(p) /\ NotePacket(p) /\ Record(p) /\ aborted' = aborted
  BY DEF ReceiveUdp
<1>4. rcvd' = rcvd \union {p.seq}
  BY <1>3 DEF NotePacket
<1>5. /\ AdamapInv(rcvd)'
      /\ ReceiverTraced
      /\ \A a \in AllContexts' : Covers(a) \subseteq 1 .. LastSeq - 1
  <2>1. PICK R : R = rcvd \union {p.seq}
    OBVIOUS
  <2>2. AdamapInv(R) /\ p.seq \in R
    BY <1>2, <2>1, AdamapInvMonotone
  <2>3. 1 .. p.seq - 1 \subseteq 1 .. LastSeq - 1
    BY <1>1, NumPacketsAssumption DEF Seqs, LastSeq
  <2>4. ASSUME RecordNormal(p.seq)
        PROVE  AdamapInv(R)' /\ Traced(R, 1 .. p.seq - 1)
    BY <1>1, <2>2, <2>4, RecordNormalInv
  <2>5. ASSUME RecordFirst(p.seq) PROVE AdamapInv(R)' /\ Traced(R, {})
    BY <2>2, <2>5, RecordFirstInv
  <2>6. ASSUME RecordMulti(p.seq, p.index) PROVE AdamapInv(R)' /\ Traced(R, {})
    BY <2>2, <2>6, RecordMultiInv
  <2>7. AdamapInv(R)' /\ (Traced(R, 1 .. p.seq - 1) \/ Traced(R, {}))
    BY <1>3, <2>4, <2>5, <2>6 DEF Record
  <2>8. R = rcvd' /\ {} \subseteq 1 .. LastSeq - 1
    BY <1>4, <2>1
  <2> QED
    BY <1>2, <2>3, <2>7, <2>8, ContextsInFlow
<1>6. ControlTypeOK' /\ TimersArmed'
  <2>1. /\ gotLast' \in BOOLEAN /\ aborted' \in BOOLEAN /\ expected' \in Nat
        /\ rcvd' \subseteq Seqs /\ lastAccess' \in Nat \union {NoIndex}
    <3>1. expected' \in Nat
      BY <1>2, <1>3 DEF NotePacket, ControlTypeOK
    <3>2. gotLast' \in BOOLEAN /\ aborted' \in BOOLEAN
      BY <1>2, <1>3, Zenon DEF NotePacket, ControlTypeOK
    <3>3. rcvd' \subseteq Seqs
      BY <1>1, <1>2, <1>4 DEF ControlTypeOK
    <3>4. lastAccess' \in Nat \union {NoIndex}
      BY <1>1, <1>2, <1>3 DEF NotePacket, ControlTypeOK
    <3> QED
      BY <3>1, <3>2, <3>3, <3>4
  <2>2. CASE Dropped(p)
    \* The timers are left alone, and so is what they watch.
    <3>1. p.tier = 2 /\ Lookup(p.index) = {}
      BY <2>2 DEF Dropped
    <3>2. UNCHANGED <<isFinished, listTimer, tableTimer>>
      BY <2>2 DEF ReceiveUdp
    <3>3. UNCHANGED <<list, table>>
      BY <1>3, <3>1 DEF Record, RecordMulti, RecordMultiMiss, RecordMultiHit
    <3> QED
      BY <1>2, <2>1, <3>2, <3>3 DEF ControlTypeOK, TimersArmed
  <2>3. CASE ~ Dropped(p)
    <3>1. EnsureTimers(listTimer, tableTimer)
      BY <2>3 DEF ReceiveUdp
    <3>2. isFinished' \in BOOLEAN
      <4>1. isFinished' = (isFinished \/ FinishCondition')
        BY <2>3 DEF ReceiveUdp
      <4> QED
        BY <4>1
    <3> QED
      BY <2>1, <3>1, <3>2, EnsureTimersInv DEF ControlTypeOK
  <2> QED
    BY <2>2, <2>3
<1>7. expected' <= NumPackets /\ 0 .. expected' - 1 \subseteq rcvd'
  <2>1. CASE p.seq = expected
    <3>1. expected' = expected + 1
      BY <1>3, <2>1 DEF NotePacket
    <3>2. 0 .. (expected + 1) - 1 \subseteq (0 .. expected - 1) \union {expected}
      BY <1>2 DEF ControlTypeOK
    <3> QED
      BY <1>1, <1>2, <1>4, <2>1, <3>1, <3>2, NumPacketsAssumption DEF InFlow, Seqs
  <2>2. CASE p.seq # expected
    <3>1. expected' = expected
      BY <1>3, <2>2 DEF NotePacket
    <3> QED
      BY <1>2, <1>4, <3>1 DEF InFlow
  <2> QED
    BY <2>1, <2>2
<1>8. gotLast' => LastSeq \in rcvd'
  BY <1>2, <1>3, <1>4 DEF InFlow, NotePacket
<1> QED
  BY <1>5, <1>6, <1>7, <1>8 DEF ReceiverInv, InFlow

LEMMA AbortInv ==
  ASSUME ReceiverInv, NEW p \in Packet, Abort(p)
  PROVE  ReceiverInv' /\ ReceiverTraced
<1>1. AdamapInv(rcvd) /\ ControlTypeOK /\ TimersArmed /\ InFlow
  BY DEF ReceiverInv
<1>2. /\ aborted' = TRUE
      /\ UNCHANGED <<startSeq, bitmap, list, table, nextIndex, gotLast, isFinished,
                     expected, rcvd, lastAccess, listTimer, tableTimer>>
  BY DEF Abort, adamapVars
<1>3. PICK R : R = rcvd
  OBVIOUS
<1>4. AdamapInv(R)' /\ Traced(R, {})
  BY <1>1, <1>2, <1>3, AdamapUnchanged
<1>5. AdamapInv(rcvd)' /\ ReceiverTraced /\ InFlow'
  BY <1>1, <1>2, <1>3, <1>4, ContextsInFlow DEF InFlow
<1> QED
  BY <1>1, <1>2, <1>5 DEF ReceiverInv, ControlTypeOK, TimersArmed

LEMMA HandleOmniListTimeoutInv ==
  ASSUME ReceiverInv, HandleOmniListTimeout
  PROVE  ReceiverInv' /\ ReceiverTraced
<1>1. AdamapInv(rcvd) /\ ControlTypeOK /\ TimersArmed /\ InFlow
  BY DEF ReceiverInv
<1>2. /\ UNCHANGED <<gotLast, isFinished, expected, rcvd, lastAccess, aborted>>
      /\ EnsureTimers(FALSE, tableTimer)
  BY DEF HandleOmniListTimeout
<1>3. PICK R : R = rcvd
  OBVIOUS
<1>4. AdamapInv(R)' /\ Traced(R, {})
  <2>1. CASE isFinished \/ list = <<>>
    <3>1. UNCHANGED <<startSeq, bitmap, list, table, nextIndex>>
      BY <2>1 DEF HandleOmniListTimeout
    <3> QED
      BY <1>1, <1>3, <3>1, AdamapUnchanged
  <2>2. CASE ~ (isFinished \/ list = <<>>)
    <3>1. PICK n \in 1 .. Len(list) : HeadsToTable(n)
      BY <2>2 DEF HandleOmniListTimeout
    <3> QED
      BY <1>1, <1>3, <3>1, HeadsToTableInv
  <2> QED
    BY <2>1, <2>2
<1>5. AdamapInv(rcvd)' /\ ReceiverTraced /\ InFlow'
  BY <1>1, <1>2, <1>3, <1>4, ContextsInFlow DEF InFlow
<1>6. TimersArmed' /\ listTimer' \in BOOLEAN /\ tableTimer' \in BOOLEAN
  BY <1>2, EnsureTimersInv
<1> QED
  BY <1>1, <1>2, <1>5, <1>6 DEF ReceiverInv, ControlTypeOK

LEMMA HandleOmniTableTimeoutInv ==
  ASSUME ReceiverInv, HandleOmniTableTimeout
  PROVE  ReceiverInv' /\ ReceiverTraced
<1>1. AdamapInv(rcvd) /\ ControlTypeOK /\ InFlow
  BY DEF ReceiverInv
<1>2. /\ UNCHANGED <<startSeq, bitmap, list, table, nextIndex, gotLast, isFinished,
                     expected, rcvd, lastAccess, aborted>>
      /\ EnsureTimers(listTimer, FALSE)
  BY DEF HandleOmniTableTimeout, adamapVars
<1>3. PICK R : R = rcvd
  OBVIOUS
<1>4. AdamapInv(R)' /\ Traced(R, {})
  BY <1>1, <1>2, <1>3, AdamapUnchanged
<1>5. AdamapInv(rcvd)' /\ ReceiverTraced /\ InFlow'
  BY <1>1, <1>2, <1>3, <1>4, ContextsInFlow DEF InFlow
<1>6. TimersArmed' /\ listTimer' \in BOOLEAN /\ tableTimer' \in BOOLEAN
  BY <1>2, EnsureTimersInv
<1> QED
  BY <1>1, <1>2, <1>5, <1>6 DEF ReceiverInv, ControlTypeOK

LEMMA ReceiverUnchangedInv ==
  ASSUME ReceiverInv, UNCHANGED receiverVars
  PROVE  ReceiverInv' /\ ReceiverTraced
<1>1. AdamapInv(rcvd) /\ ControlTypeOK /\ TimersArmed /\ InFlow
  BY DEF ReceiverInv
<1>2. UNCHANGED <<startSeq, bitmap, list, table, nextIndex, gotLast, isFinished,
                  expected, rcvd, lastAccess, listTimer, tableTimer, aborted>>
  BY DEF receiverVars, adamapVars
<1>3. PICK R : R = rcvd
  OBVIOUS
<1>4. AdamapInv(R)' /\ Traced(R, {})
  BY <1>1, <1>2, <1>3, AdamapUnchanged
<1>5. AdamapInv(rcvd)' /\ ReceiverTraced /\ InFlow'
  BY <1>1, <1>2, <1>3, <1>4, ContextsInFlow DEF InFlow
<1> QED
  BY <1>1, <1>2, <1>5 DEF ReceiverInv, ControlTypeOK, TimersArmed

\* Every step of the receiver keeps the invariant, forgets no request and keeps
\* the entries.
LEMMA ReceiverStep ==
  ASSUME ReceiverInv, [ReceiverNext]_receiverVars
  PROVE  ReceiverInv' /\ ReceiverTraced
<1>1. ASSUME NEW p \in Packet, ReceiveUdp(p) PROVE ReceiverInv' /\ ReceiverTraced
  BY <1>1, ReceiveUdpInv
<1>2. ASSUME NEW p \in Packet, Abort(p) PROVE ReceiverInv' /\ ReceiverTraced
  BY <1>2, AbortInv
<1>3. CASE HandleOmniListTimeout
  BY <1>3, HandleOmniListTimeoutInv
<1>4. CASE HandleOmniTableTimeout
  BY <1>4, HandleOmniTableTimeoutInv
<1>5. CASE UNCHANGED receiverVars
  BY <1>5, ReceiverUnchangedInv
<1> QED
  BY <1>1, <1>2, <1>3, <1>4, <1>5 DEF ReceiverNext

LEMMA ReceiverInvNext ==
  ReceiverInv /\ [ReceiverNext]_receiverVars => ReceiverInv'
BY ReceiverStep

\* ReceiverInv is inductive.
THEOREM ReceiverInvariant == ReceiverSpec => []ReceiverInv
BY ReceiverInvInit, ReceiverInvNext, PTL DEF ReceiverSpec

-----------------------------------------------------------------------------
\* Every variable of the receiver keeps its type.
THEOREM ReceiverTypeCorrect == ReceiverSpec => []ReceiverTypeOK
<1>1. ReceiverInv => ReceiverTypeOK
  BY ReceiverInvImplies
<1> QED
  BY <1>1, ReceiverInvariant, PTL

\* No packet behind the window is forgotten: from the window to the list, from
\* node to node and from the list to the table, the contexts keep asking for it
\* until it has arrived.
THEOREM NothingForgotten == ReceiverSpec => []NoLostContext
<1>1. ReceiverInv => NoLostContext
  BY ReceiverInvImplies
<1> QED
  BY <1>1, ReceiverInvariant, PTL

\* No bitmap, of the window, of a list node or of a table entry, claims a
\* packet that has not arrived.
THEOREM NothingInvented == ReceiverSpec => []BitsSound
<1>1. ReceiverInv => BitsSound
  BY ReceiverInvImplies
<1> QED
  BY <1>1, ReceiverInvariant, PTL

\* Lookup finds at most one table entry, and an index is never used twice.
THEOREM IndicesIdentify == ReceiverSpec => []TableSound
<1>1. ReceiverInv => TableSound
  BY ReceiverInvImplies
<1> QED
  BY <1>1, ReceiverInvariant, PTL

\* A context that waits never waits without its timeout running, the early
\* return of ReceiveUdp included.
THEOREM ContextsTimed == ReceiverSpec => []TimersArmed
<1>1. ReceiverInv => TimersArmed
  BY ReceiverInvImplies
<1> QED
  BY <1>1, ReceiverInvariant, PTL

\* An entry that keeps its place in the table stands for the same packets.
LEMMA StepFills ==
  ASSUME ReceiverInv, [ReceiverNext]_receiverVars
  PROVE  \A e \in table : \A f \in table' : e.tableIndex = f.tableIndex =>
           /\ f.adamap = [e.adamap EXCEPT !.bitmap = f.adamap.bitmap]
           /\ e.adamap.bitmap \subseteq f.adamap.bitmap
<1>1. Indexed /\ EntriesFilled
  BY ReceiverStep DEF ReceiverInv, AdamapInv, ReceiverTraced, Traced
<1> TAKE e \in table
<1> TAKE f \in table'
<1> HAVE e.tableIndex = f.tableIndex
<1>2. f.tableIndex < nextIndex
  BY <1>1 DEF Indexed
<1>3. PICK g \in table : /\ g.tableIndex = f.tableIndex
                         /\ f.adamap = [g.adamap EXCEPT !.bitmap = f.adamap.bitmap]
                         /\ g.adamap.bitmap \subseteq f.adamap.bitmap
  BY <1>1, <1>2 DEF EntriesFilled
<1>4. g = e
  BY <1>1, <1>3 DEF Indexed
<1> QED
  BY <1>3, <1>4

\* A table index never comes to stand for other packets while it is in use, and
\* no bit of its entry is ever taken back.
THEOREM TableOnlyFills == ReceiverSpec => EntriesOnlyFill
<1>1. ReceiverInv /\ [ReceiverNext]_receiverVars
        => [\A e \in table : \A f \in table' : e.tableIndex = f.tableIndex =>
              /\ f.adamap = [e.adamap EXCEPT !.bitmap = f.adamap.bitmap]
              /\ e.adamap.bitmap \subseteq f.adamap.bitmap]_table
  BY StepFills
<1> QED
  BY <1>1, ReceiverInvariant, PTL DEF ReceiverSpec, EntriesOnlyFill

-----------------------------------------------------------------------------
(* 4. The flow.                                                            *)

SenderInv ==
  /\ SenderTypeOK /\ WindowOrder /\ RtoArmed
  /\ maxNormalAck <= sndUna
  /\ complete = (sndUna = NumPackets)

NetworkTypeOK ==
  /\ data \in Seq(Packet)
  /\ IsABag(control) /\ ControlMessages \subseteq ControlType
  /\ losses \in 0 .. MaxLoss
  /\ spurious \in 0 .. MaxSpurious

\* An index that was given out, and the entry it stands for, if it is still
\* there, stands for the packets in S.
Fits(index, S) ==
  /\ index < nextIndex
  /\ \A e \in table : e.tableIndex = index => S \subseteq Covers(e.adamap)

PacketFits(p) ==
  /\ p.tier # 0 => p.seq < LastSeq
  /\ p.tier = 2 => Fits(p.index, {p.seq})

\* What has arrived is enough for the flow to finish.
Enough == Seqs \ rcvd \subseteq {0} \union (NumPackets - BitmapSize .. LastSeq - 1)

NackFits(m) ==
  /\ Covers(m.adamap) \subseteq 1 .. LastSeq - 1
  /\ m.tier = 2 => Fits(m.index, Covers(m.adamap))

MessageSound(m) ==
  /\ m.type = "nack" => NackFits(m)
  /\ m.type = "finish" => Enough
  /\ m.type # "finish" => 0 .. Acknowledged(m) - 1 \subseteq rcvd

\* Once the last packet has arrived, everything but the last bitmap is asked
\* for or there, even if packet 0 has moved the window back since.
AskedFor ==
  gotLast => \A s \in 1 .. LastSeq - BitmapSize :
               s \in rcvd \/ \E a \in AllContexts : s \in Missing(a)

InFlight ==
  /\ \A p \in Retransmissions : PacketFits(p)
  /\ \A m \in ControlMessages : MessageSound(m)

FlowInv ==
  /\ ReceiverInv
  /\ SenderInv
  /\ NetworkTypeOK
  /\ InFlight
  /\ AskedFor
  /\ ~ complete => 0 .. sndUna - 1 \subseteq rcvd

-----------------------------------------------------------------------------
(* The operators.                                                          *)

\* The greatest of up to three numbers.
LEMMA HighestOf ==
  ASSUME NEW x \in Int, NEW y \in Int, NEW z \in Int
  PROVE  /\ Highest({x, y, z}) \in {x, y, z}
         /\ x <= Highest({x, y, z})
         /\ y <= Highest({x, y, z})
         /\ z <= Highest({x, y, z})
<1>1. \E m \in {x, y, z} : \A n \in {x, y, z} : n <= m
  <2>1. x <= y \/ y <= x
    OBVIOUS
  <2>2. y <= z \/ z <= y
    OBVIOUS
  <2>3. x <= z \/ z <= x
    OBVIOUS
  <2> QED
    BY <2>1, <2>2, <2>3
<1> QED
  BY <1>1 DEF Highest

LEMMA HighestOfTwo ==
  ASSUME NEW x \in Int, NEW y \in Int
  PROVE  /\ Highest({x, y}) \in {x, y}
         /\ x <= Highest({x, y})
         /\ y <= Highest({x, y})
<1>1. {x, y} = {x, y, y}
  OBVIOUS
<1> QED
  BY <1>1, HighestOf

\* omni_cumulative_ack_seq exists, and everything below it has arrived.
LEMMA CumAckPrefix ==
  ASSUME NEW R, R \subseteq Seqs
  PROVE  CumAck(R) \in 0 .. NumPackets /\ 0 .. CumAck(R) - 1 \subseteq R
<1> DEFINE S == {n \in Nat : n \notin R}
<1>1. NumPackets \in S /\ S \subseteq Nat
  BY NumPacketsAssumption DEF Seqs
<1>2. PICK m \in S : \A n \in S : m <= n
  BY <1>1, LeastNatural
<1>3. m \in 0 .. NumPackets /\ m \notin R
  BY <1>1, <1>2, NumPacketsAssumption
<1>4. 0 .. m - 1 \subseteq R
  BY <1>2, <1>3
<1> QED
  BY <1>3, <1>4 DEF CumAck

\* What Enqueue queues: the packets the Adamap misses, with the tier and the
\* index of the NACK.
LEMMA LossEntriesElements ==
  ASSUME NEW a \in AdamapType, NEW tier, NEW index,
         NEW e \in Range(LossEntries(a, tier, index))
  PROVE  /\ e = [seq |-> e.seq, tier |-> tier, index |-> index]
         /\ e.seq \in Missing(a)
<1> DEFINE M == Missing(a)
<1>1. M \subseteq Int /\ M \subseteq Covers(a)
  BY DEF Missing, Covers, AdamapType
<1>2. IsFiniteSet(M)
  <2>1. a.startSeq + 1 \in Int /\ a.startSeq + a.reprLength \in Int
    BY DEF AdamapType
  <2>2. IsFiniteSet(Covers(a))
    BY <2>1, FS_Interval DEF Covers
  <2> QED
    BY <1>1, <2>2, FS_Subset
<1>3. PICK k \in 1 .. Cardinality(M) :
        e = [seq |-> Nth(M, k), tier |-> tier, index |-> index]
  BY DEF LossEntries, Range
<1> HIDE DEF M
<1>4. \E s \in M : Cardinality({r \in M : r <= s}) = k
  BY <1>1, <1>2, <1>3, KthExists
<1>5. Nth(M, k) \in M
  BY <1>4 DEF Nth
<1> QED
  BY <1>3, <1>5 DEF M

\* The queue stays a queue of packets.
LEMMA LossEntriesTyped ==
  ASSUME NEW a \in AdamapType, Covers(a) \subseteq Seqs,
         NEW tier \in 0 .. 2, NEW index \in Nat \union {NoIndex}
  PROVE  LossEntries(a, tier, index) \in Seq(Packet)
<1> DEFINE n == Cardinality(Missing(a))
           t == LossEntries(a, tier, index)
<1>1. n \in Nat
  <2>1. a.startSeq + 1 \in Int /\ a.startSeq + a.reprLength \in Int
    BY DEF AdamapType
  <2>2. IsFiniteSet(Covers(a))
    BY <2>1, FS_Interval DEF Covers
  <2>3. Missing(a) \in SUBSET Covers(a)
    BY DEF Missing
  <2>4. IsFiniteSet(Missing(a))
    BY <2>2, <2>3, FS_Subset
  <2> QED
    BY <2>4, FS_CardinalityType
<1>2. ASSUME NEW k \in 1 .. n PROVE t[k] \in Packet
  <2>1. t[k] \in Range(t)
    BY DEF LossEntries, Range
  <2>2. t[k] = [seq |-> t[k].seq, tier |-> tier, index |-> index]
        /\ t[k].seq \in Missing(a)
    BY <2>1, LossEntriesElements
  <2>3. t[k].seq \in Seqs
    BY <2>2 DEF Missing
  <2> QED
    BY <2>2, <2>3 DEF Packet
<1>3. t = [k \in 1 .. n |-> t[k]]
  BY DEF LossEntries
<1> HIDE DEF t, n
<1> QED
  BY <1>1, <1>2, <1>3 DEF t

\* What a message of each type carries.
LEMMA MessageFields ==
  ASSUME NEW m \in ControlType
  PROVE  /\ m.type \in {"nack", "pending", "finish", "ack"}
         /\ m.type = "nack" => /\ m.tier \in 1 .. 2
                               /\ m.index \in Nat \union {NoIndex}
                               /\ m.adamap \in AdamapType
         /\ m.type = "ack" => m.seq \in 0 .. NumPackets
         /\ m.type # "ack" => m.cum \in 0 .. NumPackets
         /\ Acknowledged(m) \in 0 .. NumPackets
<1>1. NumPackets \in 0 .. NumPackets
  BY NumPacketsAssumption
<1> QED
  BY <1>1 DEF ControlType, Acknowledged

-----------------------------------------------------------------------------
(* The sender.                                                             *)

LEMMA SenderInvInit == SenderInit => SenderInv
<1> SUFFICES ASSUME SenderInit PROVE SenderInv
  OBVIOUS
<1>1. /\ sndUna = 0 /\ sndNxt = 0 /\ maxNormalAck = 0 /\ lossQueue = <<>>
      /\ rtoTimer = FALSE /\ complete = FALSE
  BY DEF SenderInit
<1>2. SenderTypeOK
  <2>1. {sndUna, sndNxt, maxNormalAck} \subseteq 0 .. NumPackets
    BY <1>1, NumPacketsAssumption
  <2>2. lossQueue \in Seq(Packet)
    BY <1>1
  <2>3. rtoTimer \in BOOLEAN /\ complete \in BOOLEAN
    BY <1>1
  <2> QED
    BY <2>1, <2>2, <2>3 DEF SenderTypeOK
<1>3. WindowOrder /\ RtoArmed /\ maxNormalAck <= sndUna
  BY <1>1, NumPacketsAssumption DEF WindowOrder, RtoArmed
<1>4. complete = (sndUna = NumPackets)
  BY <1>1, NumPacketsAssumption
<1> QED
  BY <1>2, <1>3, <1>4 DEF SenderInv

LEMMA NextPacketInv ==
  ASSUME SenderInv, GetNxtPacket
  PROVE  /\ SenderInv'
         /\ NextPacket \in Packet
         /\ NextPacket \in Range(lossQueue) \/ NextPacket.tier = 0
         /\ Range(lossQueue') \subseteq Range(lossQueue)
         /\ UNCHANGED <<sndUna, complete>>
<1>1. /\ lossQueue \in Seq(Packet)
      /\ sndUna \in 0 .. NumPackets /\ sndNxt \in 0 .. NumPackets
      /\ maxNormalAck \in 0 .. NumPackets
      /\ sndUna <= sndNxt /\ maxNormalAck <= sndUna
      /\ complete \in BOOLEAN /\ complete = (sndUna = NumPackets)
  BY DEF SenderInv, SenderTypeOK, WindowOrder
<1>2. rtoTimer' = TRUE /\ UNCHANGED <<sndUna, maxNormalAck, complete>>
  BY DEF GetNxtPacket
<1>3. CASE CanRetransmit /\ lossQueue' = Tail(lossQueue) /\ UNCHANGED sndNxt
  <2>1. lossQueue # <<>> /\ NextPacket = Head(lossQueue)
    BY <1>3 DEF CanRetransmit, NextPacket
  <2>2. NextPacket \in Range(lossQueue) /\ NextPacket \in Packet
    <3>1. 1 \in DOMAIN lossQueue /\ Head(lossQueue) = lossQueue[1]
      BY <1>1, <2>1
    <3> QED
      BY <1>1, <2>1, <3>1 DEF Range
  <2>3. lossQueue' \in Seq(Packet) /\ Range(lossQueue') \subseteq Range(lossQueue)
    <3>1. /\ Tail(lossQueue) \in Seq(Packet)
          /\ \A k \in DOMAIN Tail(lossQueue) :
               k + 1 \in DOMAIN lossQueue /\ Tail(lossQueue)[k] = lossQueue[k + 1]
      BY <1>1, <2>1
    <3> QED
      BY <1>3, <3>1 DEF Range
  <2>4. SenderInv'
    BY <1>1, <1>2, <1>3, <2>3 DEF SenderInv, SenderTypeOK, WindowOrder, RtoArmed
  <2> QED
    BY <1>2, <2>2, <2>3, <2>4
<1>4. CASE CanSendNew /\ sndNxt' = sndNxt + 1 /\ UNCHANGED lossQueue
  <2>1. sndNxt < NumPackets /\ ~ CanRetransmit
    BY <1>4 DEF CanSendNew
  <2>2. NextPacket = [seq |-> sndNxt, tier |-> 0, index |-> NoIndex]
    BY <2>1 DEF NextPacket
  <2>3. NextPacket \in Packet /\ NextPacket.tier = 0
    BY <1>1, <2>1, <2>2, NumPacketsAssumption DEF Packet, Seqs
  <2>4. SenderInv'
    BY <1>1, <1>2, <1>4, <2>1, NumPacketsAssumption
       DEF SenderInv, SenderTypeOK, WindowOrder, RtoArmed
  <2> QED
    BY <1>2, <1>4, <2>3, <2>4
<1> QED
  BY <1>3, <1>4 DEF GetNxtPacket

\* snd_una moves, if at all, to what the message acknowledges.
LEMMA ReceiveAckInv ==
  ASSUME SenderInv, NEW m \in ControlType, ReceiveAck(m),
         m.type = "nack" => Covers(m.adamap) \subseteq Seqs
  PROVE  /\ SenderInv'
         /\ ~ complete
         /\ sndUna' = sndUna \/ (sndUna' > sndUna /\ sndUna' = Acknowledged(m))
         /\ Range(lossQueue') \subseteq Range(lossQueue)
              \union (IF m.type = "nack"
                      THEN Range(LossEntries(m.adamap, m.tier, m.index)) ELSE {})
<1>1. /\ lossQueue \in Seq(Packet)
      /\ sndUna \in 0 .. NumPackets /\ sndNxt \in 0 .. NumPackets
      /\ maxNormalAck \in 0 .. NumPackets
      /\ sndUna <= sndNxt /\ sndNxt <= NumPackets /\ maxNormalAck <= sndUna
      /\ complete = (sndUna = NumPackets)
      /\ rtoTimer \in BOOLEAN
  BY DEF SenderInv, SenderTypeOK, WindowOrder
<1>2. Acknowledged(m) \in 0 .. NumPackets /\ (m.type = "ack" => Acknowledged(m) = m.seq)
  BY MessageFields DEF Acknowledged
<1>3. /\ maxNormalAck' \in 0 .. NumPackets
      /\ maxNormalAck' = maxNormalAck \/ maxNormalAck' = Acknowledged(m)
  <2>1. CASE m.type = "ack"
    <3>1. PICK x \in 0 .. NumPackets, y \in 0 .. NumPackets :
            x = maxNormalAck /\ y = m.seq
      BY <1>1, <1>2, <2>1
    <3>2. maxNormalAck' = Highest({x, y})
      BY <2>1, <3>1 DEF ReceiveAck
    <3>3. x \in Int /\ y \in Int
      OBVIOUS
    <3>4. maxNormalAck' \in {x, y}
      BY <3>2, <3>3, HighestOfTwo
    <3> QED
      BY <1>2, <2>1, <3>1, <3>4
  <2>2. CASE m.type # "ack"
    BY <1>1, <2>2 DEF ReceiveAck
  <2> QED
    BY <2>1, <2>2
<1>4. /\ sndUna' \in {sndUna, maxNormalAck', Acknowledged(m)}
      /\ sndUna <= sndUna' /\ maxNormalAck' <= sndUna'
  <2>1. sndUna' = Highest({sndUna, maxNormalAck', Acknowledged(m)})
    BY DEF ReceiveAck
  <2>2. PICK x \in Int, y \in Int, z \in Int :
          x = sndUna /\ y = maxNormalAck' /\ z = Acknowledged(m)
    BY <1>1, <1>2, <1>3
  <2>3. sndUna' = Highest({x, y, z})
    BY <2>1, <2>2
  <2> QED
    BY <2>2, <2>3, HighestOf
<1>5. sndUna' \in 0 .. NumPackets
  BY <1>1, <1>2, <1>3, <1>4
<1>6. sndNxt' \in 0 .. NumPackets /\ sndUna' <= sndNxt'
  <2>1. sndNxt' = Highest({sndNxt, sndUna'})
    BY DEF ReceiveAck
  <2>2. PICK x \in Int, y \in Int : x = sndNxt /\ y = sndUna'
    BY <1>1, <1>5
  <2>3. sndNxt' = Highest({x, y})
    BY <2>1, <2>2
  <2> QED
    BY <1>1, <1>5, <2>2, <2>3, HighestOfTwo
<1>7. sndUna' = sndUna \/ (sndUna' > sndUna /\ sndUna' = Acknowledged(m))
  BY <1>1, <1>2, <1>3, <1>4, <1>5
<1>8. /\ lossQueue' \in Seq(Packet)
      /\ Range(lossQueue') \subseteq Range(lossQueue)
           \union (IF m.type = "nack"
                   THEN Range(LossEntries(m.adamap, m.tier, m.index)) ELSE {})
  <2>1. CASE m.type = "nack"
    <3> DEFINE t == LossEntries(m.adamap, m.tier, m.index)
    <3>1. t \in Seq(Packet)
      <4>1. m.tier \in 0 .. 2
        BY <2>1, MessageFields
      <4>2. m.adamap \in AdamapType /\ m.index \in Nat \union {NoIndex}
        BY <2>1, MessageFields
      <4>3. Covers(m.adamap) \subseteq Seqs
        BY <2>1
      <4> QED
        BY <4>1, <4>2, <4>3, LossEntriesTyped
    <3>2. lossQueue' = lossQueue \o t
      BY <2>1 DEF ReceiveAck
    <3> HIDE DEF t
    <3>3. lossQueue' \in Seq(Packet) /\ Range(lossQueue') \subseteq Range(lossQueue) \union Range(t)
      BY <1>1, <3>1, <3>2, ElementsJoined
    <3> QED
      BY <2>1, <3>3 DEF t
  <2>2. CASE m.type # "nack"
    BY <1>1, <2>2 DEF ReceiveAck
  <2> QED
    BY <2>1, <2>2
<1>9. /\ complete' = (sndUna' >= NumPackets)
      /\ rtoTimer' = (~ complete' /\ (rtoTimer \/ sndNxt' > sndUna'))
      /\ ~ complete
  BY DEF ReceiveAck
<1>10. complete' = (sndUna' = NumPackets)
  <2>1. (sndUna' >= NumPackets) = (sndUna' = NumPackets)
    BY <1>5, NumPacketsAssumption
  <2> QED
    BY <1>9, <2>1
<1>11. SenderTypeOK'
  BY <1>3, <1>5, <1>6, <1>8, <1>9 DEF SenderTypeOK
<1>12. WindowOrder' /\ maxNormalAck' <= sndUna'
  BY <1>4, <1>6 DEF WindowOrder
<1>13. RtoArmed'
  BY <1>5, <1>6, <1>9 DEF RtoArmed
<1> QED
  BY <1>7, <1>8, <1>9, <1>10, <1>11, <1>12, <1>13 DEF SenderInv

LEMMA HandleTimeoutInv ==
  ASSUME SenderInv, HandleTimeout
  PROVE  SenderInv' /\ UNCHANGED <<sndUna, complete, lossQueue>>
<1>1. /\ lossQueue \in Seq(Packet)
      /\ sndUna \in 0 .. NumPackets /\ maxNormalAck \in 0 .. NumPackets
      /\ maxNormalAck <= sndUna
      /\ complete \in BOOLEAN /\ complete = (sndUna = NumPackets)
  BY DEF SenderInv, SenderTypeOK
<1>2. sndUna' = sndUna
  <2>1. PICK x \in Int, y \in Int : x = sndUna /\ y = maxNormalAck
    BY <1>1
  <2>2. sndUna' = Highest({x, y})
    BY <2>1 DEF HandleTimeout
  <2>3. sndUna' \in {x, y} /\ x <= sndUna'
    BY <2>2, HighestOfTwo
  <2> QED
    BY <1>1, <2>1, <2>3
<1>3. /\ sndNxt' = sndUna' /\ rtoTimer' = FALSE
      /\ UNCHANGED <<maxNormalAck, lossQueue, complete>>
  BY DEF HandleTimeout
<1>4. SenderTypeOK'
  BY <1>1, <1>2, <1>3 DEF SenderTypeOK
<1>5. WindowOrder' /\ RtoArmed'
  BY <1>1, <1>2, <1>3 DEF WindowOrder, RtoArmed
<1> QED
  BY <1>1, <1>2, <1>3, <1>4, <1>5 DEF SenderInv

-----------------------------------------------------------------------------
(* What the receiver does, seen from the packets under way.                *)

\* A step of the receiver makes none of the packets under way false.
LEMMA StaysTrue ==
  ASSUME ReceiverInv, ReceiverInv', ReceiverTraced, rcvd \subseteq rcvd'
  PROVE  /\ \A index \in Int : \A S : Fits(index, S) => Fits(index, S)'
         /\ \A p \in Packet : PacketFits(p) => PacketFits(p)'
         /\ \A m \in ControlType : MessageSound(m) => MessageSound(m)'
<1>1. /\ nextIndex \in Nat /\ table \subseteq Entry /\ nextIndex' \in Nat
      /\ EntriesFilled
  BY DEF ReceiverInv, AdamapInv, AdamapTypeOK, ReceiverTraced, Traced
<1>2. ASSUME NEW index \in Int, NEW S, Fits(index, S) PROVE Fits(index, S)'
  <2>1. index < nextIndex
    BY <1>2 DEF Fits
  <2>2. nextIndex' >= nextIndex
    BY <1>1 DEF EntriesFilled
  <2>3. ASSUME NEW f \in table', f.tableIndex = index
        PROVE  S \subseteq Covers(f.adamap)
    <3>1. PICK e \in table : /\ e.tableIndex = index
                             /\ f.adamap = [e.adamap EXCEPT !.bitmap = f.adamap.bitmap]
      BY <1>1, <2>1, <2>3 DEF EntriesFilled
    <3>2. e.adamap \in AdamapType
      BY <1>1 DEF Entry
    <3>3. f.adamap.startSeq = e.adamap.startSeq
          /\ f.adamap.reprLength = e.adamap.reprLength
      BY <3>1, <3>2 DEF AdamapType
    <3> QED
      BY <1>2, <3>1, <3>3 DEF Fits, Covers
  <2> QED
    BY <1>1, <2>1, <2>2, <2>3 DEF Fits
<1>3. ASSUME NEW p \in Packet, PacketFits(p) PROVE PacketFits(p)'
  <2>1. p.index \in Int
    BY DEF Packet, NoIndex
  <2> QED
    BY <1>2, <1>3, <2>1 DEF PacketFits
<1>4. ASSUME NEW m \in ControlType, MessageSound(m) PROVE MessageSound(m)'
  <2>1. CASE m.type = "nack"
    <3>1. NackFits(m)
      BY <1>4, <2>1 DEF MessageSound
    <3>2. m.index \in Int
      BY <2>1, MessageFields DEF NoIndex
    <3>3. NackFits(m)'
      BY <1>2, <3>1, <3>2 DEF NackFits
    <3> QED
      BY <1>4, <2>1, <3>3 DEF MessageSound
  <2>2. CASE m.type = "finish"
    BY <1>4, <2>2 DEF MessageSound, Enough
  <2>3. CASE m.type # "nack" /\ m.type # "finish"
    BY <1>4, <2>3 DEF MessageSound
  <2> QED
    BY <2>1, <2>2, <2>3
<1> QED
  BY <1>2, <1>3, <1>4

\* The same for the packets that stay under way in that step.
LEMMA InFlightStays ==
  ASSUME ReceiverInv, ReceiverInv', ReceiverTraced, rcvd \subseteq rcvd',
         NetworkTypeOK, InFlight, lossQueue \in Seq(Packet),
         NEW D, D \subseteq Retransmissions, NEW C, C \subseteq ControlMessages
  PROVE  /\ \A p \in D : PacketFits(p)'
         /\ \A m \in C : MessageSound(m)'
<1>1. Retransmissions \subseteq Packet
  BY ElementsTyped DEF NetworkTypeOK, Retransmissions, Range
<1>2. ControlMessages \subseteq ControlType
  BY DEF NetworkTypeOK
<1> QED
  BY <1>1, <1>2, StaysTrue DEF InFlight

\* An OmniNACK for a table entry.
LEMMA EntryNackSound ==
  ASSUME ReceiverInv', NEW r, \E e \in table' : r = EntryNack(e)
  PROVE  r \in ControlType /\ MessageSound(r)'
<1>1. PICK e \in table' : r = EntryNack(e)
  OBVIOUS
<1>2. table' \subseteq Entry /\ Indexed' /\ rcvd' \subseteq Seqs
      /\ \A a \in AllContexts' : Covers(a) \subseteq 1 .. LastSeq - 1
  BY DEF ReceiverInv, AdamapInv, AdamapTypeOK, ControlTypeOK, InFlow
<1>3. e.tableIndex \in Nat /\ e.adamap \in AdamapType
  BY <1>2 DEF Entry
<1>4. PICK c : c = CumAck(rcvd')
  OBVIOUS
<1>5. c \in 0 .. NumPackets /\ 0 .. c - 1 \subseteq rcvd'
  BY <1>2, <1>4, CumAckPrefix
<1>6. r = [type |-> "nack", tier |-> 2, index |-> e.tableIndex, adamap |-> e.adamap,
           cum |-> c]
  BY <1>1, <1>4 DEF EntryNack, Nack
<1>7. r \in ControlType
  BY <1>3, <1>5, <1>6 DEF ControlType
<1>8. Covers(e.adamap) \subseteq 1 .. LastSeq - 1
  BY <1>2 DEF AllContexts, TableAdamaps
<1>9. Fits(r.index, Covers(r.adamap))'
  BY <1>2, <1>6 DEF Fits, Indexed
<1>10. NackFits(r)'
  BY <1>6, <1>8, <1>9 DEF NackFits
<1> QED
  BY <1>5, <1>6, <1>7, <1>10 DEF MessageSound, Acknowledged

\* When the finish condition holds, the receiver has what AskedFor speaks of,
\* and the last packet.
LEMMA FinishEnough ==
  ReceiverInv /\ AskedFor /\ FinishCondition => Enough
<1> SUFFICES ASSUME ReceiverInv, AskedFor, FinishCondition PROVE Enough
  OBVIOUS
<1>1. gotLast /\ AllContexts = {}
  BY DEF FinishCondition, AllContexts, Nodes, TableAdamaps
<1>2. \A s \in 1 .. LastSeq - BitmapSize : s \in rcvd
  BY <1>1 DEF AskedFor
<1>3. LastSeq \in rcvd
  BY <1>1 DEF ReceiverInv, InFlow
<1>4. \A s \in Seqs : \/ s = 0 \/ s = LastSeq \/ s \in 1 .. LastSeq - BitmapSize
                      \/ s \in NumPackets - BitmapSize .. LastSeq - 1
  BY NumPacketsAssumption, BitmapSizeAssumption DEF Seqs, LastSeq
<1> QED
  BY <1>2, <1>3, <1>4 DEF Enough

\* The last packet takes the window so far that only the last bitmap is left.
LEMMA LastInWindow ==
  ASSUME ReceiverInv', startSeq \in Nat, RecordNormal(LastSeq)
  PROVE  \A s \in 1 .. LastSeq - BitmapSize :
           s \in rcvd' \/ \E a \in AllContexts' : s \in Missing(a)
<1>1. LastSeq \in Nat /\ BitmapSize \in Nat \ {0}
  BY NumPacketsAssumption, BitmapSizeAssumption DEF LastSeq
<1>2. startSeq' \in Nat /\ AllRequested(rcvd)'
  BY DEF ReceiverInv, AdamapInv, AdamapTypeOK
<1>3. LastSeq - BitmapSize <= startSeq'
  BY <1>1 DEF RecordNormal, RecordInOrder, RecordStale, RecordInBitmap, RecordNewNode
<1>4. 1 .. LastSeq - BitmapSize \subseteq 1 .. startSeq'
  BY <1>1, <1>2, <1>3
<1> QED
  BY <1>2, <1>4 DEF AllRequested

\* A step of the receiver keeps AskedFor, as long as what it receives is not
\* the last packet as a retransmission.
LEMMA AskedForKept ==
  ASSUME ReceiverInv, ReceiverInv', ReceiverTraced, AskedFor, rcvd \subseteq rcvd',
         gotLast' /\ ~ gotLast => RecordNormal(LastSeq)
  PROVE  AskedFor'
<1>1. Kept(rcvd') /\ startSeq \in Nat
  BY DEF ReceiverInv, AdamapInv, AdamapTypeOK, ReceiverTraced, Traced
<1>2. CASE gotLast
  BY <1>1, <1>2 DEF AskedFor, Kept
<1>3. CASE gotLast' /\ ~ gotLast
  BY <1>1, <1>3, LastInWindow DEF AskedFor
<1>4. CASE ~ gotLast'
  BY <1>4 DEF AskedFor
<1> QED
  BY <1>2, <1>3, <1>4

\* The reply to a data packet other than the NACKs for table entries.
LEMMA MainReplySound ==
  ASSUME ReceiverInv, ReceiverInv', AskedFor, AskedFor', rcvd \subseteq rcvd',
         NEW p, NEW r \in MainReply(p)
  PROVE  r \in ControlType /\ MessageSound(r)'
<1>1. /\ list \in Seq(AdamapType) /\ list' \in Seq(AdamapType)
      /\ rcvd' \subseteq Seqs
      /\ expected' \in 0 .. NumPackets /\ 0 .. expected' - 1 \subseteq rcvd'
      /\ \A a \in AllContexts' : Covers(a) \subseteq 1 .. LastSeq - 1
  <2>1. expected' \in Nat /\ expected' <= NumPackets
    BY DEF ReceiverInv, ControlTypeOK, InFlow
  <2>2. expected' \in 0 .. NumPackets
    BY <2>1, NumPacketsAssumption
  <2> QED
    BY <2>2 DEF ReceiverInv, AdamapInv, AdamapTypeOK, ControlTypeOK, InFlow
<1>2. PICK c : c = CumAck(rcvd')
  OBVIOUS
<1>3. c \in 0 .. NumPackets /\ 0 .. c - 1 \subseteq rcvd'
  BY <1>1, <1>2, CumAckPrefix
<1>4. CASE r = Finish /\ ForceFinish
  <2>1. Enough'
    <3>1. CASE FinishCondition'
      <4>1. (ReceiverInv /\ AskedFor /\ FinishCondition => Enough)'
        BY FinishEnough, PTL
      <4> QED
        BY <3>1, <4>1
    <3>2. CASE FinishCondition
      <4>1. Enough
        BY <3>2, FinishEnough
      <4> QED
        BY <4>1 DEF Enough
    <3> QED
      BY <1>4, <3>1, <3>2 DEF ForceFinish
  <2>2. r = [type |-> "finish", cum |-> c]
    BY <1>2, <1>4 DEF Finish
  <2>3. r \in ControlType
    BY <1>3, <2>2 DEF ControlType
  <2> QED
    BY <2>1, <2>2, <2>3 DEF MessageSound
<1>5. CASE NodeClosed /\ r = Nack(1, NoIndex, Last(list'))
  <2>1. Len(list') \in DOMAIN list' /\ Last(list') = list'[Len(list')]
    BY <1>1, <1>5 DEF NodeClosed, Last
  <2>2. PICK a : a = Last(list')
    OBVIOUS
  <2>3. a \in AdamapType /\ a \in AllContexts'
    BY <1>1, <2>1, <2>2 DEF AllContexts, Nodes
  <2>4. r = [type |-> "nack", tier |-> 1, index |-> NoIndex, adamap |-> a, cum |-> c]
    BY <1>2, <1>5, <2>2 DEF Nack
  <2>5. r \in ControlType
    BY <1>3, <2>3, <2>4 DEF ControlType
  <2>6. NackFits(r)'
    BY <1>1, <2>3, <2>4 DEF NackFits
  <2> QED
    BY <1>3, <2>4, <2>5, <2>6 DEF MessageSound, Acknowledged
<1>6. CASE r = Pending
  <2>1. r = [type |-> "pending", cum |-> c]
    BY <1>2, <1>6 DEF Pending
  <2>2. r \in ControlType
    BY <1>3, <2>1 DEF ControlType
  <2> QED
    BY <1>3, <2>1, <2>2 DEF MessageSound, Acknowledged
<1>7. CASE r = Ack
  <2>1. r = [type |-> "ack", seq |-> expected']
    BY <1>7 DEF Ack
  <2>2. r \in ControlType
    BY <1>1, <2>1 DEF ControlType
  <2> QED
    BY <1>1, <2>1, <2>2 DEF MessageSound, Acknowledged
<1> QED
  BY <1>4, <1>5, <1>6, <1>7 DEF MainReply

LEMMA UdpRepliesSound ==
  ASSUME ReceiverInv, ReceiverInv', AskedFor, AskedFor', rcvd \subseteq rcvd',
         NEW p, NEW active, NEW r \in UdpReplies(p, active)
  PROVE  r \in ControlType /\ MessageSound(r)'
<1>1. ASSUME \E e \in table' : r = EntryNack(e)
      PROVE  r \in ControlType /\ MessageSound(r)'
  BY <1>1, EntryNackSound
<1>2. ASSUME r \in MainReply(p)
      PROVE  r \in ControlType /\ MessageSound(r)'
  BY <1>2, MainReplySound
<1>3. \/ r \in {EntryNack(e) : e \in ActiveNackEntries(p)}
      \/ r \in NewEntryReplies
      \/ r \in MainReply(p)
  BY DEF UdpReplies
<1>4. r \in {EntryNack(e) : e \in ActiveNackEntries(p)} => \E e \in table' : r = EntryNack(e)
  BY DEF ActiveNackEntries
<1>5. r \in NewEntryReplies => \E e \in table' : r = EntryNack(e)
  BY DEF NewEntryReplies
<1> QED
  BY <1>1, <1>2, <1>3, <1>4, <1>5

-----------------------------------------------------------------------------
(* The steps.                                                              *)

\* A step of the receiver that puts Replies under way, lets the data packets
\* in D stay under way and leaves the sender alone.
LEMMA ReceiverSide ==
  ASSUME FlowInv, [ReceiverNext]_receiverVars, rcvd \subseteq rcvd',
         gotLast' /\ ~ gotLast => RecordNormal(LastSeq),
         UNCHANGED senderVars,
         data' \in Seq(Packet), Range(data') \subseteq Range(data),
         NEW Replies, Emit(Replies),
         AskedFor' => \A r \in Replies : r \in ControlType /\ MessageSound(r)',
         losses' \in 0 .. MaxLoss, spurious' \in 0 .. MaxSpurious
  PROVE  FlowInv'
<1>1. ReceiverInv /\ SenderInv /\ NetworkTypeOK /\ InFlight /\ AskedFor
  BY DEF FlowInv
<1>2. ReceiverInv' /\ ReceiverTraced
  BY <1>1, ReceiverStep
<1>3. AskedFor'
  BY <1>1, <1>2, AskedForKept
<1>4. UNCHANGED <<sndUna, sndNxt, maxNormalAck, lossQueue, rtoTimer, complete>>
  BY DEF senderVars
<1>5. SenderInv' /\ lossQueue \in Seq(Packet)
  BY <1>1, <1>4 DEF SenderInv, SenderTypeOK, WindowOrder, RtoArmed
<1>6. IsABag(control') /\ ControlMessages' = ControlMessages \union Replies
  BY <1>1, BagAdded DEF NetworkTypeOK, Emit, ControlMessages
<1>7. NetworkTypeOK'
  BY <1>1, <1>3, <1>6 DEF NetworkTypeOK
<1>8. Retransmissions' \subseteq Retransmissions
  BY <1>4 DEF Retransmissions, Range
<1>9. /\ \A p \in Retransmissions' : PacketFits(p)'
      /\ \A m \in ControlMessages : MessageSound(m)'
  BY <1>1, <1>2, <1>5, <1>8, InFlightStays
<1>10. InFlight'
  BY <1>3, <1>6, <1>9 DEF InFlight
<1>11. (~ complete => 0 .. sndUna - 1 \subseteq rcvd)'
  BY <1>4 DEF FlowInv
<1> QED
  BY <1>2, <1>3, <1>5, <1>7, <1>10, <1>11 DEF FlowInv

\* A step that leaves the receiver alone.
LEMMA ReceiverAside ==
  ASSUME FlowInv, UNCHANGED receiverVars, SenderInv', NetworkTypeOK',
         \A p \in Retransmissions' : p \in Retransmissions \/ PacketFits(p),
         ControlMessages' \subseteq ControlMessages,
         ~ complete' => 0 .. sndUna' - 1 \subseteq rcvd
  PROVE  FlowInv'
<1>1. ReceiverInv /\ SenderInv /\ NetworkTypeOK /\ InFlight /\ AskedFor
  BY DEF FlowInv
<1>2. UNCHANGED <<startSeq, bitmap, list, table, nextIndex, gotLast, rcvd>>
  BY DEF receiverVars, adamapVars
<1>3. ReceiverInv'
  BY <1>1, ReceiverStep
<1>4. \A p : PacketFits(p)' <=> PacketFits(p)
  BY <1>2 DEF PacketFits, Fits
<1>5. \A m : MessageSound(m)' <=> MessageSound(m)
  BY <1>2 DEF MessageSound, NackFits, Fits, Enough
<1>6. InFlight'
  BY <1>1, <1>4, <1>5 DEF InFlight
<1>7. AskedFor'
  BY <1>1, <1>2 DEF AskedFor, AllContexts, TableAdamaps
<1> QED
  BY <1>2, <1>3, <1>6, <1>7 DEF FlowInv

LEMMA FlowInvInit == Init => FlowInv
<1> SUFFICES ASSUME Init PROVE FlowInv
  OBVIOUS
<1>1. ReceiverInv /\ SenderInv
  BY ReceiverInvInit, SenderInvInit DEF Init
<1>2. ~ gotLast /\ lossQueue = <<>> /\ sndUna = 0 /\ data = <<>>
      /\ control = EmptyBag /\ losses = 0 /\ spurious = 0
  BY DEF Init, ReceiverInit, AdamapInit, SenderInit
<1>3. IsABag(control) /\ ControlMessages = {}
  BY <1>2 DEF EmptyBag, SetToBag, IsABag, ControlMessages, BagToSet
<1>4. losses \in 0 .. MaxLoss /\ spurious \in 0 .. MaxSpurious
  BY <1>2, OmniDmaAssumption
<1>5. NetworkTypeOK
  BY <1>2, <1>3, <1>4 DEF NetworkTypeOK
<1>6. Retransmissions = {}
  BY <1>2 DEF Retransmissions
<1> QED
  BY <1>1, <1>2, <1>3, <1>5, <1>6 DEF FlowInv, InFlight, AskedFor

LEMMA SendFlow ==
  ASSUME FlowInv, Send
  PROVE  FlowInv'
<1>1. SenderInv /\ NetworkTypeOK
  BY DEF FlowInv
<1>2. /\ GetNxtPacket /\ data' = Append(data, NextPacket)
      /\ UNCHANGED <<receiverVars, control, losses, spurious>>
  BY DEF Send
<1>3. /\ SenderInv'
      /\ NextPacket \in Packet
      /\ NextPacket \in Range(lossQueue) \/ NextPacket.tier = 0
      /\ Range(lossQueue') \subseteq Range(lossQueue)
      /\ UNCHANGED <<sndUna, complete>>
  BY <1>1, <1>2, NextPacketInv
<1>4. data' \in Seq(Packet) /\ Range(data') = Range(data) \union {NextPacket}
  BY <1>1, <1>2, <1>3, ElementsAppended DEF NetworkTypeOK
<1>5. NetworkTypeOK'
  BY <1>1, <1>2, <1>4 DEF NetworkTypeOK, ControlMessages
<1>6. \A p \in Retransmissions' : p \in Retransmissions \/ PacketFits(p)
  <2>1. Retransmissions = Range(data) \union Range(lossQueue)
    BY DEF Retransmissions, Range
  <2>2. Retransmissions' = Range(data') \union Range(lossQueue')
    BY DEF Retransmissions, Range
  <2>3. NextPacket.tier = 0 => PacketFits(NextPacket)
    BY DEF PacketFits
  <2> QED
    BY <1>3, <1>4, <2>1, <2>2, <2>3
<1>7. ControlMessages' = ControlMessages
  BY <1>2 DEF ControlMessages
<1> QED
  BY <1>2, <1>3, <1>5, <1>6, <1>7, ReceiverAside DEF FlowInv

LEMMA GetAckFlow ==
  ASSUME FlowInv, NEW m \in ControlMessages, GetAck(m)
  PROVE  /\ FlowInv'
         /\ ~ complete' => 0 .. sndUna' - 1 \subseteq rcvd
         /\ complete' => Enough
         /\ sndUna' >= sndUna
<1>1. SenderInv /\ NetworkTypeOK /\ InFlight /\ (~ complete => 0 .. sndUna - 1 \subseteq rcvd)
  BY DEF FlowInv
<1>2. m \in ControlType /\ MessageSound(m)
  BY <1>1 DEF NetworkTypeOK, InFlight
<1>3. /\ ReceiveAck(m) /\ control' = control (-) SetToBag({m})
      /\ UNCHANGED <<receiverVars, data, losses, spurious>>
  BY DEF GetAck
<1>4. m.type = "nack" => /\ m.adamap \in AdamapType
                         /\ Covers(m.adamap) \subseteq 1 .. LastSeq - 1
                         /\ m.tier = 2 => Fits(m.index, Covers(m.adamap))
  BY <1>2, MessageFields DEF MessageSound, NackFits
<1>5. 1 .. LastSeq - 1 \subseteq Seqs
  BY NumPacketsAssumption DEF Seqs, LastSeq
<1>6. /\ SenderInv' /\ ~ complete
      /\ sndUna' = sndUna \/ (sndUna' > sndUna /\ sndUna' = Acknowledged(m))
      /\ Range(lossQueue') \subseteq Range(lossQueue)
           \union (IF m.type = "nack"
                   THEN Range(LossEntries(m.adamap, m.tier, m.index)) ELSE {})
  BY <1>1, <1>2, <1>3, <1>4, <1>5, ReceiveAckInv
<1>7. /\ sndUna \in 0 .. NumPackets /\ sndUna' \in 0 .. NumPackets
      /\ complete = (sndUna = NumPackets) /\ complete' = (sndUna' = NumPackets)
  BY <1>1, <1>6 DEF SenderInv, SenderTypeOK
<1>8. IsABag(control') /\ ControlMessages' \subseteq ControlMessages
  BY <1>1, <1>3, BagRemoved DEF NetworkTypeOK, ControlMessages
<1>9. NetworkTypeOK'
  BY <1>1, <1>3, <1>8 DEF NetworkTypeOK
<1>10. \A p \in Retransmissions' : p \in Retransmissions \/ PacketFits(p)
  <2>1. Retransmissions = Range(data) \union Range(lossQueue)
    BY DEF Retransmissions, Range
  <2>2. Retransmissions' = Range(data) \union Range(lossQueue')
    BY <1>3 DEF Retransmissions, Range
  <2>3. ASSUME m.type = "nack",
               NEW p \in Range(LossEntries(m.adamap, m.tier, m.index))
        PROVE  PacketFits(p)
    <3>1. p = [seq |-> p.seq, tier |-> m.tier, index |-> m.index]
          /\ p.seq \in Missing(m.adamap)
      BY <1>4, <2>3, LossEntriesElements
    <3>2. p.seq \in Covers(m.adamap)
      BY <3>1 DEF Missing
    <3>3. p.seq < LastSeq
      BY <1>4, <2>3, <3>2, NumPacketsAssumption DEF LastSeq
    <3>4. p.tier = 2 => Fits(p.index, {p.seq})
      BY <1>4, <2>3, <3>1, <3>2 DEF Fits
    <3> QED
      BY <3>3, <3>4 DEF PacketFits
  <2> QED
    BY <1>6, <2>1, <2>2, <2>3
<1>11. m.type # "finish" => 0 .. Acknowledged(m) - 1 \subseteq rcvd
  BY <1>2 DEF MessageSound
<1>12. m.type = "finish" => Enough /\ Acknowledged(m) = NumPackets
  BY <1>2 DEF MessageSound, Acknowledged
<1>13. ~ complete' => 0 .. sndUna' - 1 \subseteq rcvd
  BY <1>1, <1>6, <1>7, <1>11, <1>12
<1>14. complete' => Enough
  BY <1>6, <1>7, <1>11, <1>12 DEF Enough, Seqs
<1>15. FlowInv'
  BY <1>3, <1>6, <1>8, <1>9, <1>10, <1>13, ReceiverAside
<1>16. sndUna' >= sndUna
  BY <1>6, <1>7
<1> QED
  BY <1>13, <1>14, <1>15, <1>16

\* A data packet that leaves the network.
LEMMA DataRemoved ==
  ASSUME NetworkTypeOK, NEW k \in Deliverable
  PROVE  /\ data[k] \in Packet /\ data[k] \in Retransmissions
         /\ RemoveAt(data, k) \in Seq(Packet)
         /\ Range(RemoveAt(data, k)) \subseteq Range(data)
<1>1. k \in DOMAIN data /\ data \in Seq(Packet)
  BY DEF Deliverable, NetworkTypeOK
<1> QED
  BY <1>1, ElementsRemoved DEF Retransmissions

LEMMA DeliverFlow ==
  ASSUME FlowInv, NEW k \in Deliverable, Deliver(k)
  PROVE  FlowInv'
<1>1. PICK p : p = data[k]
  OBVIOUS
<1>2. PICK active \in BOOLEAN : Emit(UdpReplies(data[k], active))
  BY DEF Deliver
<1>3. /\ ReceiveUdp(p) /\ Emit(UdpReplies(p, active))
      /\ data' = RemoveAt(data, k)
      /\ UNCHANGED <<senderVars, losses, spurious>>
  BY <1>1, <1>2 DEF Deliver
<1>4. ReceiverInv /\ NetworkTypeOK /\ InFlight /\ AskedFor
  BY DEF FlowInv
<1>5. p \in Packet /\ PacketFits(p)
      /\ data' \in Seq(Packet) /\ Range(data') \subseteq Range(data)
  BY <1>1, <1>3, <1>4, DataRemoved DEF InFlight
<1>6. [ReceiverNext]_receiverVars
  BY <1>3, <1>5 DEF ReceiverNext
<1>7. rcvd \subseteq rcvd'
  BY <1>3 DEF ReceiveUdp, NotePacket
<1>8. gotLast' /\ ~ gotLast => RecordNormal(LastSeq)
  <2>1. SUFFICES ASSUME gotLast', ~ gotLast PROVE RecordNormal(LastSeq)
    OBVIOUS
  <2>2. p.seq = LastSeq
    BY <1>3, <2>1 DEF ReceiveUdp, NotePacket
  <2>3. p.tier = 0
    BY <1>5, <2>2, NumPacketsAssumption DEF PacketFits, LastSeq
  <2> QED
    BY <1>3, <2>2, <2>3 DEF ReceiveUdp, Record
<1>9. ReceiverInv'
  BY <1>4, <1>6, ReceiverStep
<1>10. AskedFor' => \A r \in UdpReplies(p, active) : r \in ControlType /\ MessageSound(r)'
  BY <1>4, <1>7, <1>9, UdpRepliesSound
<1>11. losses' \in 0 .. MaxLoss /\ spurious' \in 0 .. MaxSpurious
  BY <1>3, <1>4 DEF NetworkTypeOK
<1> QED
  BY <1>3, <1>5, <1>6, <1>7, <1>8, <1>10, <1>11, ReceiverSide

\* A failed assert: no reply, and the receiver's state but for aborted.
LEMMA FailFlow ==
  ASSUME FlowInv, NEW k \in Deliverable, Fail(k)
  PROVE  FlowInv'
<1>1. PICK p : p = data[k]
  OBVIOUS
<1>2. /\ Abort(p) /\ data' = RemoveAt(data, k)
      /\ UNCHANGED <<senderVars, control, losses, spurious>>
  BY <1>1 DEF Fail
<1>3. NetworkTypeOK
  BY DEF FlowInv
<1>4. p \in Packet /\ data' \in Seq(Packet) /\ Range(data') \subseteq Range(data)
  BY <1>1, <1>2, <1>3, DataRemoved
<1>5. [ReceiverNext]_receiverVars
  BY <1>2, <1>4 DEF ReceiverNext
<1>6. UNCHANGED <<rcvd, gotLast>>
  BY <1>2 DEF Abort, adamapVars
<1>7. losses' \in 0 .. MaxLoss /\ spurious' \in 0 .. MaxSpurious
  BY <1>2, <1>3 DEF NetworkTypeOK
<1>8. Emit({})
  BY <1>2, <1>3, BagOfNothing DEF Emit, NetworkTypeOK
<1> QED
  BY <1>2, <1>4, <1>5, <1>6, <1>7, <1>8, ReceiverSide

LEMMA LoseDataFlow ==
  ASSUME FlowInv, NEW k \in Deliverable, LoseData(k)
  PROVE  FlowInv'
<1>1. SenderInv /\ NetworkTypeOK
  BY DEF FlowInv
<1>2. /\ data' = RemoveAt(data, k) /\ losses < MaxLoss /\ losses' = losses + 1
      /\ UNCHANGED <<receiverVars, senderVars, control, spurious>>
  BY DEF LoseData
<1>3. data' \in Seq(Packet) /\ Range(data') \subseteq Range(data)
  BY <1>1, <1>2, DataRemoved
<1>4. UNCHANGED <<sndUna, sndNxt, maxNormalAck, lossQueue, rtoTimer, complete, rcvd>>
  BY <1>2 DEF senderVars, receiverVars
<1>5. losses' \in 0 .. MaxLoss
  BY <1>1, <1>2, OmniDmaAssumption DEF NetworkTypeOK
<1>6. NetworkTypeOK' /\ ControlMessages' = ControlMessages
  BY <1>1, <1>2, <1>3, <1>5 DEF NetworkTypeOK, ControlMessages
<1>7. SenderInv'
  BY <1>1, <1>4 DEF SenderInv, SenderTypeOK, WindowOrder, RtoArmed
<1>8. Retransmissions' \subseteq Retransmissions
  BY <1>3, <1>4 DEF Retransmissions, Range
<1> QED
  BY <1>2, <1>4, <1>6, <1>7, <1>8, ReceiverAside DEF FlowInv

LEMMA LoseControlFlow ==
  ASSUME FlowInv, NEW m \in ControlMessages, LoseControl(m)
  PROVE  FlowInv'
<1>1. SenderInv /\ NetworkTypeOK
  BY DEF FlowInv
<1>2. /\ control' = control (-) SetToBag({m})
      /\ losses < MaxLoss /\ losses' = losses + 1
      /\ UNCHANGED <<receiverVars, senderVars, data, spurious>>
  BY DEF LoseControl
<1>3. IsABag(control') /\ ControlMessages' \subseteq ControlMessages
  BY <1>1, <1>2, BagRemoved DEF NetworkTypeOK, ControlMessages
<1>4. UNCHANGED <<sndUna, sndNxt, maxNormalAck, lossQueue, rtoTimer, complete>>
  BY <1>2 DEF senderVars
<1>5. losses' \in 0 .. MaxLoss
  BY <1>1, <1>2, OmniDmaAssumption DEF NetworkTypeOK
<1>6. NetworkTypeOK'
  BY <1>1, <1>2, <1>3, <1>5 DEF NetworkTypeOK
<1>7. SenderInv'
  BY <1>1, <1>4 DEF SenderInv, SenderTypeOK, WindowOrder, RtoArmed
<1>8. Retransmissions' = Retransmissions
  BY <1>2, <1>4 DEF Retransmissions
<1> QED
  BY <1>2, <1>3, <1>4, <1>6, <1>7, <1>8, ReceiverAside DEF FlowInv

\* A due timeout costs nothing, an early one takes from its budget.
LEMMA PayBound ==
  ASSUME NetworkTypeOK, Pay
  PROVE  spurious' \in 0 .. MaxSpurious
BY OmniDmaAssumption DEF NetworkTypeOK, Pay

LEMMA ListTimeoutFlow ==
  ASSUME FlowInv, ListTimeout
  PROVE  FlowInv'
<1>1. /\ HandleOmniListTimeout /\ Emit(ListTimeoutReplies) /\ Pay
      /\ UNCHANGED <<senderVars, data, losses>>
  BY DEF ListTimeout
<1>2. ReceiverInv /\ NetworkTypeOK
  BY DEF FlowInv
<1>3. [ReceiverNext]_receiverVars /\ UNCHANGED <<rcvd, gotLast>>
  BY <1>1 DEF ReceiverNext, HandleOmniListTimeout
<1>4. ReceiverInv'
  BY <1>2, <1>3, ReceiverStep
<1>5. ASSUME NEW r \in ListTimeoutReplies PROVE r \in ControlType /\ MessageSound(r)'
  <2>1. \E e \in table' : r = EntryNack(e)
    BY <1>5 DEF ListTimeoutReplies, NewEntryReplies
  <2> QED
    BY <1>4, <2>1, EntryNackSound
<1>6. data' \in Seq(Packet) /\ Range(data') \subseteq Range(data)
      /\ losses' \in 0 .. MaxLoss
  BY <1>1, <1>2 DEF NetworkTypeOK
<1>7. spurious' \in 0 .. MaxSpurious
  BY <1>1, <1>2, PayBound
<1> QED
  BY <1>1, <1>3, <1>5, <1>6, <1>7, ReceiverSide

LEMMA TableTimeoutFlow ==
  ASSUME FlowInv, TableTimeout
  PROVE  FlowInv'
<1>1. PICK Expired \in SUBSET table : Emit(TableTimeoutReplies(Expired))
  BY DEF TableTimeout
<1>2. HandleOmniTableTimeout /\ Pay /\ UNCHANGED <<senderVars, data, losses>>
  BY DEF TableTimeout
<1>3. ReceiverInv /\ NetworkTypeOK
  BY DEF FlowInv
<1>4. [ReceiverNext]_receiverVars /\ UNCHANGED <<rcvd, gotLast, table>>
  BY <1>2 DEF ReceiverNext, HandleOmniTableTimeout, adamapVars
<1>5. ReceiverInv'
  BY <1>3, <1>4, ReceiverStep
<1>6. ASSUME NEW r \in TableTimeoutReplies(Expired)
      PROVE  r \in ControlType /\ MessageSound(r)'
  <2>1. \E e \in table' : r = EntryNack(e)
    BY <1>4, <1>6 DEF TableTimeoutReplies
  <2> QED
    BY <1>5, <2>1, EntryNackSound
<1>7. data' \in Seq(Packet) /\ Range(data') \subseteq Range(data)
      /\ losses' \in 0 .. MaxLoss
  BY <1>2, <1>3 DEF NetworkTypeOK
<1>8. spurious' \in 0 .. MaxSpurious
  BY <1>2, <1>3, PayBound
<1> QED
  BY <1>1, <1>2, <1>4, <1>6, <1>7, <1>8, ReceiverSide

LEMMA RtoFlow ==
  ASSUME FlowInv, Rto
  PROVE  FlowInv' /\ UNCHANGED <<sndUna, complete>>
<1>1. HandleTimeout /\ Pay /\ UNCHANGED <<receiverVars, data, control, losses>>
  BY DEF Rto
<1>2. SenderInv /\ NetworkTypeOK
  BY DEF FlowInv
<1>3. SenderInv' /\ UNCHANGED <<sndUna, complete, lossQueue>>
  BY <1>1, <1>2, HandleTimeoutInv
<1>4. spurious' \in 0 .. MaxSpurious
  BY <1>1, <1>2, PayBound
<1>5. NetworkTypeOK' /\ ControlMessages' = ControlMessages
  BY <1>1, <1>2, <1>4 DEF NetworkTypeOK, ControlMessages
<1>6. Retransmissions' = Retransmissions
  BY <1>1, <1>3 DEF Retransmissions
<1> QED
  BY <1>1, <1>3, <1>5, <1>6, ReceiverAside DEF FlowInv

LEMMA FlowUnchanged ==
  ASSUME FlowInv, UNCHANGED vars
  PROVE  FlowInv'
<1>1. UNCHANGED <<receiverVars, sndUna, sndNxt, maxNormalAck, lossQueue, rtoTimer,
                  complete, data, control, losses, spurious>>
  BY DEF vars, senderVars, networkVars
<1>2. SenderInv' /\ NetworkTypeOK'
  BY <1>1 DEF FlowInv, SenderInv, SenderTypeOK, WindowOrder, RtoArmed, NetworkTypeOK,
              ControlMessages
<1>3. Retransmissions' = Retransmissions /\ ControlMessages' = ControlMessages
  BY <1>1 DEF Retransmissions, ControlMessages
<1> QED
  BY <1>1, <1>2, <1>3, ReceiverAside DEF FlowInv

LEMMA FlowInvNext == FlowInv /\ [Next]_vars => FlowInv'
<1> SUFFICES ASSUME FlowInv, [Next]_vars PROVE FlowInv'
  OBVIOUS
<1>1. CASE Send
  BY <1>1, SendFlow
<1>2. ASSUME NEW m \in ControlMessages, GetAck(m) PROVE FlowInv'
  BY <1>2, GetAckFlow
<1>3. ASSUME NEW m \in ControlMessages, LoseControl(m) PROVE FlowInv'
  BY <1>3, LoseControlFlow
<1>4. ASSUME NEW k \in Deliverable, Deliver(k) PROVE FlowInv'
  BY <1>4, DeliverFlow
<1>5. ASSUME NEW k \in Deliverable, Fail(k) PROVE FlowInv'
  BY <1>5, FailFlow
<1>6. ASSUME NEW k \in Deliverable, LoseData(k) PROVE FlowInv'
  BY <1>6, LoseDataFlow
<1>7. CASE ListTimeout
  BY <1>7, ListTimeoutFlow
<1>8. CASE TableTimeout
  BY <1>8, TableTimeoutFlow
<1>9. CASE Rto
  BY <1>9, RtoFlow
<1>10. CASE Over \/ UNCHANGED vars
  BY <1>10, FlowUnchanged DEF Over
<1> QED
  BY <1>1, <1>2, <1>3, <1>4, <1>5, <1>6, <1>7, <1>8, <1>9, <1>10 DEF Next

\* FlowInv is inductive.
THEOREM FlowInvariant == Spec => []FlowInv
BY FlowInvInit, FlowInvNext, PTL DEF Spec

-----------------------------------------------------------------------------
(* The properties that the runs check.                                     *)

\* Every variable of the flow keeps its type: what is under way are packets of
\* the flow, and no control packet acknowledges more than there is.
THEOREM FlowTypeCorrect == Spec => []TypeOK
<1>1. FlowInv => TypeOK
  BY ReceiverInvImplies DEF FlowInv, SenderInv, NetworkTypeOK, TypeOK
<1> QED
  BY <1>1, FlowInvariant, PTL

\* The sender never acknowledges itself past what it has sent, whatever
\* acknowledgements arrive late or a timeout takes back.
THEOREM FlowWindowOrder == Spec => []WindowOrder
<1>1. FlowInv => WindowOrder
  BY DEF FlowInv, SenderInv
<1> QED
  BY <1>1, FlowInvariant, PTL

\* Unacknowledged packets are always under a retransmission timer.
THEOREM FlowRtoArmed == Spec => []RtoArmed
<1>1. FlowInv => RtoArmed
  BY DEF FlowInv, SenderInv
<1> QED
  BY <1>1, FlowInvariant, PTL

\* However late a later retransmission is, the table entry it names, if there
\* still is one, stands for its packet: the asserts on its path never fail.
THEOREM RetransmissionsFit == Spec => []MultiInRange
<1>1. FlowInv => MultiInRange
  <2> SUFFICES ASSUME FlowInv, NEW p \in Retransmissions, p.tier = 2
               PROVE  MultiAsserts(p.seq, p.index)
    BY DEF MultiInRange
  <2>1. Fits(p.index, {p.seq})
    BY DEF FlowInv, InFlight, PacketFits
  <2>2. Indexed
    BY DEF FlowInv, ReceiverInv, AdamapInv
  <2> QED
    BY <2>1, <2>2 DEF MultiAsserts, Lookup, Fits, Indexed
<1> QED
  BY <1>1, FlowInvariant, PTL

\* What the flow does to the receiver, the receiver may do by itself.
THEOREM ReceiverSimulated == Spec => ReceiverSpec
<1>1. Init => ReceiverInit
  BY DEF Init
<1>2. FlowInv /\ [Next]_vars => [ReceiverNext]_receiverVars
  <2> SUFFICES ASSUME FlowInv, [Next]_vars PROVE [ReceiverNext]_receiverVars
    OBVIOUS
  <2>1. ASSUME NEW k \in Deliverable, Deliver(k) \/ Fail(k)
        PROVE  ReceiverNext
    <3>1. data[k] \in Packet
      BY DataRemoved DEF FlowInv
    <3> QED
      BY <2>1, <3>1 DEF Deliver, Fail, ReceiverNext
  <2>2. ASSUME NEW k \in Deliverable, LoseData(k)
        PROVE  UNCHANGED receiverVars
    BY <2>2 DEF LoseData
  <2>3. ASSUME NEW m \in ControlMessages, GetAck(m) \/ LoseControl(m)
        PROVE  UNCHANGED receiverVars
    BY <2>3 DEF GetAck, LoseControl
  <2>4. CASE ListTimeout \/ TableTimeout
    BY <2>4 DEF ListTimeout, TableTimeout, ReceiverNext
  <2>5. CASE Send \/ Rto \/ Over \/ UNCHANGED vars
    BY <2>5 DEF Send, Rto, Over, vars
  <2> QED
    BY <2>1, <2>2, <2>3, <2>4, <2>5 DEF Next
<1> QED
  BY <1>1, <1>2, FlowInvariant, PTL DEF Spec, ReceiverSpec

\* In a whole flow, too, no packet behind the window is forgotten, no bitmap
\* claims a packet that has not arrived, table indices identify entries, and
\* no context waits without its timeout.
THEOREM FlowReceiverSafe ==
  Spec => [](NoLostContext /\ BitsSound /\ TableSound /\ TimersArmed)
<1>1. FlowInv => NoLostContext /\ BitsSound /\ TableSound /\ TimersArmed
  BY ReceiverInvImplies DEF FlowInv
<1> QED
  BY <1>1, FlowInvariant, PTL

\* In a whole flow, too, an entry only fills while its index is in use.
THEOREM FlowTableOnlyFills == Spec => EntriesOnlyFill
BY ReceiverSimulated, TableOnlyFills

-----------------------------------------------------------------------------
(* The flow implements Transfer.                                           *)

LEMMA FlowStepRefines ==
  FlowInv /\ [Next]_vars => [T!TransferNext]_T!transferVars
<1> SUFFICES ASSUME FlowInv, [Next]_vars PROVE [T!TransferNext]_T!transferVars
  OBVIOUS
<1>1. ASSUME NEW k \in Deliverable, Deliver(k) PROVE T!Arrive
  <2>1. data[k] \in Packet /\ ~ complete
    BY <1>1, DataRemoved DEF FlowInv, Deliver, Running
  <2>2. data[k].seq \in T!Packets
    BY <2>1 DEF Packet, Seqs, T!Packets
  <2>3. rcvd' = rcvd \union {data[k].seq} /\ UNCHANGED <<sndUna, complete>>
    BY <1>1 DEF Deliver, ReceiveUdp, NotePacket, senderVars
  <2> QED
    BY <2>1, <2>2, <2>3 DEF T!Arrive
<1>2. ASSUME NEW m \in ControlMessages, GetAck(m)
      PROVE  T!Acknowledge \/ T!Complete \/ UNCHANGED T!transferVars
  <2>1. /\ FlowInv'
        /\ ~ complete' => 0 .. sndUna' - 1 \subseteq rcvd
        /\ complete' => Enough
        /\ sndUna' >= sndUna
    BY <1>2, GetAckFlow
  <2>2. ~ complete /\ UNCHANGED rcvd
    BY <1>2 DEF GetAck, Running, receiverVars
  <2>3. /\ sndUna \in 0 .. NumPackets /\ sndUna' \in 0 .. NumPackets
        /\ complete = (sndUna = NumPackets) /\ complete' = (sndUna' = NumPackets)
        /\ complete \in BOOLEAN /\ complete' \in BOOLEAN
    BY <2>1 DEF FlowInv, SenderInv, SenderTypeOK
  <2>4. CASE complete'
    <3>1. sndUna' = NumPackets /\ complete' = TRUE
      BY <2>3, <2>4
    <3>2. Enough
      BY <2>1, <2>4
    <3>3. T!Complete
      BY <2>2, <3>1, <3>2 DEF T!Complete, T!Packets, Enough, Seqs
    <3> QED
      BY <3>3
  <2>5. CASE ~ complete' /\ sndUna' # sndUna
    <3>1. sndUna' \in sndUna + 1 .. NumPackets - 1
      <4>1. sndUna' # NumPackets /\ sndUna' >= sndUna /\ sndUna' # sndUna
        BY <2>1, <2>3, <2>5
      <4> QED
        BY <2>3, <4>1, NumPacketsAssumption
    <3>2. complete' = complete
      BY <2>2, <2>3, <2>5
    <3> QED
      BY <2>1, <2>2, <2>5, <3>1, <3>2 DEF T!Acknowledge
  <2>6. CASE ~ complete' /\ sndUna' = sndUna
    <3>1. complete' = complete
      BY <2>2, <2>3, <2>6
    <3> QED
      BY <2>2, <2>6, <3>1 DEF T!transferVars
  <2> QED
    BY <2>4, <2>5, <2>6
<1>3. ASSUME NEW k \in Deliverable, Fail(k) \/ LoseData(k)
      PROVE  UNCHANGED T!transferVars
  BY <1>3 DEF Fail, LoseData, Abort, senderVars, receiverVars, T!transferVars
<1>4. ASSUME NEW m \in ControlMessages, LoseControl(m)
      PROVE  UNCHANGED T!transferVars
  BY <1>4 DEF LoseControl, senderVars, receiverVars, T!transferVars
<1>5. CASE Rto
  <2>1. UNCHANGED <<sndUna, complete>>
    BY <1>5, RtoFlow
  <2> QED
    BY <1>5, <2>1 DEF Rto, receiverVars, T!transferVars
<1>6. CASE Send
  BY <1>6 DEF Send, GetNxtPacket, receiverVars, T!transferVars
<1>7. CASE ListTimeout
  BY <1>7 DEF ListTimeout, HandleOmniListTimeout, senderVars, T!transferVars
<1>8. CASE TableTimeout
  BY <1>8 DEF TableTimeout, HandleOmniTableTimeout, senderVars, T!transferVars
<1>9. CASE Over \/ UNCHANGED vars
  BY <1>9 DEF Over, vars, receiverVars, senderVars, T!transferVars
<1> QED
  BY <1>1, <1>2, <1>3, <1>4, <1>5, <1>6, <1>7, <1>8, <1>9 DEF Next, T!TransferNext

\* A flow keeps the promise of Transfer: the acknowledged prefix only grows
\* over packets that have arrived, and a flow that completes lacks at most
\* packet 0 and packets of the last bitmap before the last packet.
THEOREM FlowImplementsTransfer == Spec => ImplementsTransfer
<1>1. Init => T!TransferInit
  BY DEF Init, ReceiverInit, SenderInit, T!TransferInit
<1> QED
  BY <1>1, FlowInvariant, FlowStepRefines, PTL
     DEF Spec, ImplementsTransfer, T!TransferSpec

=============================================================================
