------------------------------- MODULE Adamap -------------------------------
(***************************************************************************)
(* The Adamap: the loss context that the OmniDMA receiver keeps for a      *)
(* stretch of packets and that an OmniNACK carries to the sender           *)
(* (adamap.h, and the predicates and the splitting code of                 *)
(* adamap-receiver.cc).                                                    *)
(*                                                                         *)
(* Sequence numbers count packets (the code divides by the MTU before it   *)
(* calls Record).  An Adamap describes the packets startSeq + 1 ..         *)
(* startSeq + reprLength.  The first BitmapSize of them have one bit each; *)
(* those behind the bitmap are the "range" and are all missing.  A bitmap  *)
(* is the set of the offsets whose bit is 1.                               *)
(***************************************************************************)
EXTENDS Integers, FiniteSets, Sequences

CONSTANT BitmapSize  \* the BitmapSize attribute of ReceiverAdamap

ASSUME BitmapSizeAssumption == BitmapSize \in Nat \ {0}

Bits == 0 .. BitmapSize - 1

AdamapType ==
  [startSeq : Nat, reprLength : Nat \ {0}, bitmap : SUBSET Bits]

\* The packets an Adamap stands for, and those of them it says are missing.
Covers(a) == a.startSeq + 1 .. a.startSeq + a.reprLength

Missing(a) == {s \in Covers(a) : s - a.startSeq - 1 \notin a.bitmap}

\* assertBitmapFull: every bit in use is 1 (the range is not looked at).
BitsInUse(a) == {o \in Bits : o < a.reprLength}

BitmapFull(a) == BitsInUse(a) \subseteq a.bitmap

\* assertLastHole: no bit in use behind this offset is still 0.
LastHole(a, offset) == \A o \in BitsInUse(a) : o > offset => o \in a.bitmap

\* An Adamap without range (reprLength <= bitmap.size()).
NoRange(a) == a.reprLength <= BitmapSize

WithBit(a, offset) == [a EXCEPT !.bitmap = @ \union {offset}]

(***************************************************************************)
(* Splitting.  Chunk(a, d) is the piece of a that starts d packets behind  *)
(* its start, d a multiple of BitmapSize; only the first piece inherits    *)
(* the bitmap.  Slide(a, d) is what is left of a when the pieces below d   *)
(* have been taken off.                                                    *)
(***************************************************************************)
ChunkStarts(a) ==
  {d \in 0 .. a.reprLength - 1 : \E k \in 0 .. a.reprLength : d = k * BitmapSize}

Slide(a, d) ==
  [startSeq   |-> a.startSeq + d,
   reprLength |-> a.reprLength - d,
   bitmap     |-> IF d = 0 THEN a.bitmap ELSE {}]

BitmapPart(a) ==
  [a EXCEPT !.reprLength = IF @ <= BitmapSize THEN @ ELSE BitmapSize]

Chunk(a, d) == BitmapPart(Slide(a, d))

\* Faulty variant: the loop over the range is missing.
SplitStartsOnce(a) == {d \in {0} : ~ BitmapFull(Chunk(a, d))}

\* PutLinkedListHeadToTable with splitAdamap(.., true): every chunk with a
\* packet still missing; chunks that are all ones are left out, and a
\* finished node yields none.
SplitStarts(a) == {d \in ChunkStarts(a) : ~ BitmapFull(Chunk(a, d))}

=============================================================================
