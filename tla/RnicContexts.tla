---------------------------- MODULE RnicContexts ----------------------------
(***************************************************************************)
(* Where the loss contexts of a receiver are kept, and what reaching them  *)
(* costs: the first nodes of the linked list are cached in the RNIC, the   *)
(* lookup table has an LRU cache, everything else is in host memory and is *)
(* read and written through the RNIC's DMA scheduler, one queue for reads  *)
(* and one for writes.  A reply leaves when the DMA of its handler is done.*)
(*                                                                         *)
(* ReceiverAdamap models what the contexts say; here a list node is the    *)
(* flag inRnicLlCache and a table entry its index.  Which node a packet    *)
(* hits, and how many entries a node turns into, is left open.  All        *)
(* contexts of a receiver are of one size, which is the unit of bytes and, *)
(* divided by the bandwidth, of time.                                      *)
(***************************************************************************)
EXTENDS SequencesExt

CONSTANTS
  FirstN,        \* first_n, the nodes the RNIC caches
  LruSize,       \* m_lookupTableLruSize
  FixedLatency,  \* m_rnicDmaFixedLatency
  MaxNodes,      \* bound: nodes of the list
  MaxChunks,     \* bound: table entries a node turns into
  MaxIndex,      \* bound: table entries ever made
  MaxBacklog     \* bound: time until a queue can serialise its next operation

ASSUME RnicAssumption ==
  /\ {LruSize, MaxNodes} \subseteq Nat \ {0}
  /\ {FirstN, FixedLatency, MaxChunks, MaxIndex, MaxBacklog} \subseteq Nat

VARIABLES
  cached,        \* inRnicLlCache of the nodes of m_finishedBitmaps
  headCount,     \* m_llHeadCacheNodeCount
  hostCount,     \* m_llHostNodeCount
  nextIndex,     \* m_currTableIndex
  table,         \* the indices in m_lookupTable
  lru,           \* m_lookupTableLru, the last index accessed first
  recent,        \* history: every index accessed, the last one first
  backlog,       \* m_rnicDmaNextSerializeAvailable[dir] - Now()
  completions,   \* m_rnicDmaCompletions[dir]: done - Now(), 0 when done
  replies        \* the replies the last handler has scheduled

listVars == <<cached, headCount, hostCount>>
dmaVars == <<backlog, completions, replies>>
vars == <<listVars, nextIndex, table, lru, recent, dmaVars>>

Dirs == {"read", "write"}
NoIndex == -1

Init ==
  /\ cached = <<>> /\ headCount = 0 /\ hostCount = 0
  /\ nextIndex = 0 /\ table = {} /\ lru = <<>> /\ recent = <<>>
  /\ backlog = [d \in Dirs |-> 0]
  /\ completions = [d \in Dirs |-> <<>>]
  /\ replies = <<>>

-----------------------------------------------------------------------------
(* The DMA scheduler.  A handler gives it chains of operations; a chain    *)
(* delays one reply.                                                       *)

Transfer(dir, nodes) == [dir |-> dir, bytes |-> nodes]

\* RefreshRnicDmaSchedulerState, for one direction: from the front, the
\* operations that are done.
Refreshed(q) ==
  LET pending == {k \in DOMAIN q : q[k] > 0}
  IN  IF pending = {} THEN <<>> ELSE SubSeq(q, Min(pending), Len(q))

\* Faulty variant: the operation does not wait for the ones before it.
DoneAtUnqueued(avail, op) == FixedLatency + op.bytes

\* Serialising waits for its turn; the fixed latency overlaps.
DoneAt(avail, op) == avail + FixedLatency + op.bytes

\* Faulty variant: the queueing time of every operation is added up.
ChainDelaySum(delay, done) == delay + done

\* AddRnicDmaDelay: the chain is done when its last operation is.
ChainDelay(delay, done) == IF delay >= done THEN delay ELSE done

\* SubmitRnicDmaOp, for the last reply of s.
Submit(s, op) ==
  LET q == Refreshed(s.queue[op.dir])
      done == DoneAt(s.avail[op.dir], op)
      r == Last(s.replies)
      waiting == [delay |-> ChainDelay(r.delay, done),
                  ops   |-> [r.ops EXCEPT ![op.dir] = @ \union {Len(q) + 1}]]
  IN  [avail   |-> [s.avail EXCEPT ![op.dir] = @ + op.bytes],
       queue   |-> [d \in Dirs |-> IF d = op.dir THEN Append(q, done)
                                   ELSE Refreshed(s.queue[d])],
       replies |-> Append(Front(s.replies), waiting)]

SubmitChain(s, chain) ==
  LET reply == [delay |-> 0, ops |-> [d \in Dirs |-> {}]]
  IN  FoldLeft(Submit, [s EXCEPT !.replies = Append(@, reply)], chain)

\* The bound on the DMA queues.
Room == \A d \in Dirs : backlog[d] <= MaxBacklog

\* What a handler leaves of the DMA state.
Dma(chains) ==
  LET s == FoldLeft(SubmitChain,
                    [avail |-> backlog, queue |-> completions, replies |-> <<>>],
                    chains)
  IN  /\ backlog' = s.avail
      /\ completions' = s.queue
      /\ replies' = s.replies

-----------------------------------------------------------------------------
(* The list and its head cache.  A record c stands for the state inside a  *)
(* handler; its operations join the last of c.chains.                      *)

Entered(chains) ==
  [cached |-> cached, head |-> headCount, host |-> hostCount,
   index |-> nextIndex, chains |-> chains]

AddOps(c, ops) == [c EXCEPT !.chains[Len(c.chains)] = @ \o ops]

\* RefillLinkedListHeadCacheFromHost
Refill(c) ==
  LET host == {i \in DOMAIN c.cached : ~ c.cached[i]}
      pulls == Min({FirstN - c.head, c.host})
      pulled == {i \in host : Cardinality({j \in host : j <= i}) <= pulls}
      n == Cardinality(pulled)
  IN  IF FirstN = 0 \/ c.head >= FirstN \/ c.host = 0 THEN c
      ELSE [AddOps(c, IF n > 0 THEN <<Transfer("read", n)>> ELSE <<>>) EXCEPT
              !.cached = [i \in DOMAIN c.cached |-> c.cached[i] \/ i \in pulled],
              !.head = @ + n,
              !.host = @ - n]

\* Without the asserts: a counter they guard would become negative here.
WithoutHead(c) ==
  [c EXCEPT !.cached = Tail(@),
            !.head = IF c.cached[1] THEN @ - 1 ELSE @,
            !.host = IF c.cached[1] THEN @ ELSE @ - 1]

\* Faulty variant: the slot of the head stays empty.
EraseHeadNoRefill(c) == WithoutHead(c)

\* EraseLinkedListHeadAndRefill
EraseHead(c) == Refill(WithoutHead(c))

\* The head of the list writes n entries to the table.
PutToTable(c, n) ==
  AddOps([c EXCEPT !.index = @ + n], [k \in 1 .. n |-> Transfer("write", 1)])

\* PutLinkedListHeadToTable, with the erase.
MoveHead(c, n) == EraseHead(PutToTable(c, n))

Leave(c) ==
  /\ Room
  /\ c.index <= MaxIndex
  /\ cached' = c.cached
  /\ headCount' = c.head
  /\ hostCount' = c.host
  /\ nextIndex' = c.index
  /\ table' = table \union nextIndex .. c.index - 1
  /\ Dma(c.chains)
  /\ UNCHANGED <<lru, recent>>

-----------------------------------------------------------------------------
(* The handlers that change the list.                                      *)

\* AppendFinishedBitmapToLinkedList, from Record(tier 0).
AppendNode ==
  LET c == Entered(<< <<>> >>)
      inCache == FirstN > 0 /\ hostCount = 0 /\ headCount < FirstN
      more == [c EXCEPT !.cached = Append(@, inCache)]
  IN  /\ Len(cached) < MaxNodes
      /\ Leave(IF inCache THEN [more EXCEPT !.head = @ + 1]
               ELSE AddOps([more EXCEPT !.host = @ + 1], <<Transfer("write", 1)>>))

\* AddLinkedListMissReadDelay: node i is read, and what is not cached before.
MissRead(i) ==
  IF cached[i] THEN <<>>
  ELSE <<Transfer("read", i + 1 - Min({k \in DOMAIN cached : ~ cached[k]}))>>

\* Record(tier 1) finds its packet in node i: the nodes before it are moved,
\* moved[k] entries each; node i, then the head, writes n entries and stays
\* (also when it is slid or split), or is erased.
FirstRetrans(i, moved, n, erased) ==
  LET c == PutToTable(FoldLeft(MoveHead, Entered(<<MissRead(i)>>), moved), n)
  IN  /\ erased => n <= 1
      /\ Leave(IF erased THEN EraseHead(c) ELSE c)

\* HandleOmniListTimeout: the heads that have timed out, a chain for each.
TimedOutHead(c, n) == MoveHead([c EXCEPT !.chains = Append(@, <<>>)], n)

ListTimeout(moved) == Leave(FoldLeft(TimedOutHead, Entered(<<>>), moved))

-----------------------------------------------------------------------------
(* The lookup table.  Entries that are erased stay in the LRU.             *)

\* Faulty variant: a hit does not make the entry the most recent one.
AccessLruFifo(l, i) ==
  IF Contains(l, i) THEN l
  ELSE <<i>> \o (IF Len(l) >= LruSize THEN Front(l) ELSE l)

\* Faulty variant: nothing makes room.
AccessLruNoEviction(l, i) == <<i>> \o RemoveFirst(l, i)

\* AccessLookupTableLru
AccessLru(l, i) ==
  <<i>> \o (IF Contains(l, i) THEN RemoveFirst(l, i)
            ELSE IF Len(l) >= LruSize THEN Front(l) ELSE l)

\* An access and its chain; a miss reads the entry.
Access(a, i) ==
  [lru    |-> AccessLru(a.lru, i),
   recent |-> <<i>> \o RemoveFirst(a.recent, i),
   chains |-> Append(a.chains, IF Contains(a.lru, i) THEN <<>>
                               ELSE <<Transfer("read", 1)>>)]

Accesses(entries) ==
  LET a == FoldLeft(Access, [lru |-> lru, recent |-> recent, chains |-> <<>>], entries)
  IN  /\ Room
      /\ lru' = a.lru
      /\ recent' = a.recent
      /\ Dma(a.chains)
      /\ UNCHANGED <<listVars, nextIndex>>

\* Record(tier > 1) for entry i, which it may complete and erase; then the
\* entry j accessed before, if any, is announced again (active NACK).
MultiRetrans(i, erased, j) ==
  /\ i \in table
  /\ j \in (table \union {NoIndex}) \ {i}
  /\ Accesses(IF j = NoIndex THEN <<i>> ELSE <<i, j>>)
  /\ table' = IF erased THEN table \ {i} ELSE table

\* HandleOmniTableTimeout: the entries that have timed out, in their order.
TableTimeout(entries) ==
  /\ entries # <<>>
  /\ \A k, m \in DOMAIN entries : k < m => entries[k] < entries[m]
  /\ Accesses(entries)
  /\ UNCHANGED table

-----------------------------------------------------------------------------
(* GetRnicDmaInflightOps, called by the monitor at any time.               *)
Monitor ==
  /\ completions' = [d \in Dirs |-> Refreshed(completions[d])]
  /\ replies' = <<>>
  /\ UNCHANGED <<listVars, nextIndex, table, lru, recent, backlog>>

Before(t) == IF t > 0 THEN t - 1 ELSE 0

Tick ==
  /\ backlog' = [d \in Dirs |-> Before(backlog[d])]
  /\ completions' = [d \in Dirs |-> [k \in DOMAIN completions[d] |->
                                       Before(completions[d][k])]]
  /\ replies' = <<>>
  /\ UNCHANGED <<listVars, nextIndex, table, lru, recent>>

Next ==
  \/ AppendNode
  \/ \E i \in DOMAIN cached, n \in 0 .. MaxChunks, erased \in BOOLEAN :
       \E moved \in [1 .. i - 1 -> 0 .. MaxChunks] : FirstRetrans(i, moved, n, erased)
  \/ \E k \in DOMAIN cached : \E moved \in [1 .. k -> 0 .. MaxChunks] : ListTimeout(moved)
  \/ \E i \in table, erased \in BOOLEAN, j \in table \union {NoIndex} :
       MultiRetrans(i, erased, j)
  \/ \E entries \in SeqOf(table, Cardinality(table)) : TableTimeout(entries)
  \/ Monitor
  \/ Tick

Spec == Init /\ [][Next]_vars

-----------------------------------------------------------------------------
(* Properties.                                                             *)

\* The types; the LRU never outgrows m_lookupTableLruSize.
TypeOK ==
  /\ cached \in Seq(BOOLEAN) /\ Len(cached) <= MaxNodes
  /\ {headCount, hostCount} \subseteq 0 .. MaxNodes
  /\ nextIndex \in 0 .. MaxIndex
  /\ table \subseteq 0 .. nextIndex - 1
  /\ ToSet(lru) \subseteq 0 .. nextIndex - 1 /\ Len(lru) <= LruSize
  /\ ToSet(recent) \subseteq 0 .. nextIndex - 1
  /\ backlog \in [Dirs -> Nat]
  /\ completions \in [Dirs -> Seq(Nat)]

\* The flags mark exactly the first first_n nodes, however nodes are appended,
\* moved and erased, and the two counters count them and the others: a miss is
\* charged for nodes of the host only, and the asserts of
\* EraseLinkedListHeadAndRefill (adamap-receiver.cc:212, 215) hold.
CacheIsHeadWindow ==
  /\ \A i \in DOMAIN cached : cached[i] <=> i <= FirstN
  /\ headCount = Cardinality({i \in DOMAIN cached : cached[i]})
  /\ hostCount = Len(cached) - headCount

\* An access is a hit just when fewer than m_lookupTableLruSize other entries
\* were accessed since the last access to the same one (AccessLookupTableLru),
\* erased entries included.
LruHoldsMostRecent == lru = SubSeq(recent, 1, Min({LruSize, Len(recent)}))

\* Popping completions from the front leaves none that is done: the operations
\* RefreshRnicDmaSchedulerState keeps are those still in flight
\* (GetRnicDmaInflightOps).
InflightExact ==
  \A d \in Dirs : \A k \in DOMAIN Refreshed(completions[d]) :
    Refreshed(completions[d])[k] > 0

\* A reply leaves when the last operation of its chain is done, in either
\* queue, neither before nor after (AddRnicDmaDelay: "avoid double-counting
\* backlog", adamap-receiver.cc:158).
ReplyWhenDmaDone ==
  \A r \in ToSet(replies) :
    r.delay = Max({0} \union UNION {{completions[d][k] : k \in r.ops[d]} : d \in Dirs})

=============================================================================
