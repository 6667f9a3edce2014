------------------------------- MODULE IrnSack -------------------------------
(***************************************************************************)
(* The list of blocks of an IrnSackManager (m_data): pairs of a first      *)
(* sequence number and a size, in ascending order.  Module Irn speaks of   *)
(* the set of the sequence numbers the blocks cover; the definitions at    *)
(* the end say when list and set agree.                                    *)
(***************************************************************************)
EXTENDS Integers, SequencesExt

Block(first, end) == [first |-> first, size |-> end - first]

End(b) == b.first + b.size

\* One turn of the loop of sack: acc.out are the blocks passed and inserted,
\* acc.first and acc.end what remains to be put, and acc.inside records that a
\* block contains all of that, upon which sack returns.
Put(acc, b) ==
  LET rest   == acc.first < acc.end /\ ~ acc.inside
      before == rest /\ acc.first < b.first
      piece  == Block(acc.first, IF acc.end < b.first THEN acc.end ELSE b.first)
  IN [out    |-> acc.out \o (IF before THEN <<piece, b>> ELSE <<b>>),
      first  |-> IF rest /\ acc.first <= End(b)
                    /\ (b.first <= acc.first \/ End(b) < acc.end)
                 THEN End(b) ELSE IF before THEN acc.end ELSE acc.first,
      end    |-> acc.end,
      inside |-> acc.inside \/ (rest /\ b.first <= acc.first /\ acc.end <= End(b))]

\* Faulty variant: neighbours stay apart.
MergeNever(out, b) == Append(out, b)

\* The second pass: a block that adjoins the one before is merged with it.
Merge(out, b) ==
  IF out # <<>> /\ End(Last(out)) = b.first
  THEN Append(Front(out), Block(Last(out).first, End(b)))
  ELSE Append(out, b)

Sack(blocks, first, size) ==
  LET acc == FoldLeft(Put, [out |-> <<>>, first |-> first,
                            end |-> first + size, inside |-> FALSE], blocks)
      all == IF acc.first < acc.end
             THEN Append(acc.out, Block(acc.first, acc.end)) ELSE acc.out
  IN IF size = 0 THEN blocks
     ELSE IF acc.inside THEN acc.out
     ELSE FoldLeft(Merge, <<>>, all)

\* discardUpTo: from the front, what ends by cumAck; then a block may be cut.
DiscardUpTo(blocks, cumAck) ==
  LET kept == {i \in DOMAIN blocks : End(blocks[i]) > cumAck}
      rest == SubSeq(blocks, Min(kept), Len(blocks))
  IN IF kept = {} THEN <<>>
     ELSE IF rest[1].first < cumAck
          THEN [rest EXCEPT ![1] = Block(cumAck, End(@))] ELSE rest

BlockExists(blocks, first, size) ==
  \E i \in DOMAIN blocks :
    blocks[i].first <= first /\ first + size <= End(blocks[i])

-----------------------------------------------------------------------------
\* The numbers below end that the blocks cover.
Covered(blocks) ==
  UNION {blocks[i].first .. End(blocks[i]) - 1 : i \in DOMAIN blocks}

\* The list for a set: its maximal runs in ascending order.
Blocks(S) ==
  LET starts == {s \in S : s - 1 \notin S}
      nth(k) == CHOOSE s \in starts : Cardinality({r \in starts : r <= s}) = k
      run(s) == CHOOSE e \in {x + 1 : x \in S} : e > s /\ s .. e - 1 \subseteq S /\ e \notin S
  IN [k \in 1 .. Cardinality(starts) |-> Block(nth(k), run(nth(k)))]

\* The operations on the list for S are those of module Irn on S, whatever
\* block within bounds is put.
Agrees(S, bounds) ==
  LET list == Blocks(S)
  IN /\ Covered(list) = S
     /\ \A first \in bounds : \A end \in bounds :
          first <= end =>
            LET new == first .. end - 1
            IN /\ Sack(list, first, end - first) = Blocks(S \union new)
               /\ new # {} => (BlockExists(list, first, end - first) <=> new \subseteq S)
     /\ \A n \in bounds :
          DiscardUpTo(list, n) = Blocks({s \in S : s >= n})

=============================================================================
