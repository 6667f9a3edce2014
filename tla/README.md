# OmniDMA: specification, model checking and proofs

This directory specifies the loss recovery of **OmniDMA**, the RDMA transport
that this ns-3 tree adds to the ns-3 simulation of RoCE (`src/point-to-point`).
The receiver of an OmniDMA flow remembers lost packets in small bitmaps
("Adamaps"), hands them from a window to a list to a table as recovery goes on,
and asks for them with OmniNACKs. The specification says what that machinery
must keep true, TLC checks it on small flows together with the sender and a
lossy network, and TLAPS proves it for flows, windows and bitmaps of every size.
The go-back-N and IRN transports of the same files are specified beside it, and
all three are proved to implement one abstract transport. Around the transports
stand modules for the RNIC's cache of loss contexts and its DMA scheduler, for
the life of queue pairs, for PFC between hosts and a switch, and for ConWeave,
the load balancer that restores the order of packets in the network.

All of this is C++ under `src/point-to-point/model`. The Python of the tree is
ns-3's generated bindings, build files and plotting scripts, none of which has
behaviour to specify.

Paths below are relative to `src/point-to-point/model/` unless they say more.

## 1. The system

| Component | Code | State | Operations | What makes it correct |
|---|---|---|---|---|
| Loss contexts | `adamap.h`, `adamap-receiver.cc` | current bitmap (`m_startSeq`, `m_bitmap`), list `m_finishedBitmaps`, table `m_lookupTable`, `m_currTableIndex`, `get_last_packet`, `isFinished` | `Record`, `splitAdamap`, `PutLinkedListHeadToTable`, `assertFinish` | no lost packet drops out of the three places; no bit is set for a packet that did not come; indices identify entries; the finish condition means that all arrived |
| Receive path | `rdma-hw.cc` | `ReceiverNextExpectedSeq`, `m_omni_sack_` and `omni_cumulative_ack_seq`, the two context timers, `m_last_access_table_index` | `ReceiveUdp`, `HandleOmniListTimeout`, `HandleOmniTableTimeout`, `EnsureOmniTimeoutTimers`, `TransmitOmniNACK` | whatever waits has a timer; replies speak of the state they were made from |
| Send path | `rdma-hw.cc`, `rdma-queue-pair.cc`, `adamap-sender.cc` | `snd_una`, `snd_nxt`, `m_maxNormalAckSeq`, `lossSeqQueue`, `m_retransmit` | `GetNxtPacket` + `PktSent`, `ReceiveAck`, `HandleTimeout` | `snd_una <= snd_nxt`; unacknowledged data is under a timer; retransmissions fit the context that asked |
| Flow end to end | the above | packets in flight | send, deliver, lose, time out, complete | the flow completes, and only when everything was delivered |
| RNIC context cache | `adamap-receiver.cc` | `inRnicLlCache` of list nodes, two counters, LRU of table indices | append, erase and refill, miss read, LRU access | the cached nodes are the first of the list; counters agree with the flags; hits are the recent entries |
| RNIC DMA scheduler | `rdma-hw.cc` | per direction: when the next operation is serialised, completions | `SubmitRnicDmaOp`, `RefreshRnicDmaSchedulerState`, `AddRnicDmaDelay` | a reply leaves when its last operation is done; what is counted in flight is |
| Go-back-N | `rdma-hw.cc` | expected sequence, NACK timer | `ReceiverCheckSeq`, `ReceiveAck`, `HandleTimeout` | reliable transfer |
| IRN, `IrnSackManager` | `rdma-hw.cc`, `rdma-queue-pair.cc` | SACK blocks at both ends, recovery state | `sack`, `discardUpTo`, `blockExists`, `GetBytesLeft`, `ReceiveAck`, `HandleTimeout` | the blocks are the set received; nothing missing is skipped; reliable transfer |
| Queue pair life cycle | `rdma-hw.cc`, `scratch/network-load-balance.cc` | QP maps, akashic sets | `AddQueuePair`, `GetRxQp`, `DeleteQueuePair`, `DeleteRxQp`, `qp_finish` | each flow is deleted once; a late packet revives nothing |
| NIC egress, PFC | `qbb-net-device.cc` | pause flags and their timers | `GetNextQindex`, `Receive` of PFC, `SendPfc`, `Resume` | a pause ends; a resume meets a pause |
| Switch MMU | `switch-mmu.cc`, `switch-node.cc` | packet counters per port, class and pool | admit, remove, pause and resume checks | counters never underflow; headroom covers the excess; the switch knows who is paused |
| Load balancing | `conweave-routing.cc`, `conweave-voq.cc`, `letflow-`, `conga-routing.cc` | flow tables at both ToR switches, reordering queues | route, reply, queue and flush, age | order is restored; a flow is on two paths at most; nothing stays queued |
| Congestion control | `rdma-hw.cc`, `omni-rdma-cubic.cc` | rates, windows | per-ACK updates | rates stay in range |
| Loss injection | `switch-packet-dropper.cc` | random streams | drop decision | - |
| Scripts, stock ns-3 | `scratch/`, `analysis/`, `src/core`, ... | - | - | - |

How the parts interact: the NIC asks `RdmaHw` for the next packet of a queue
pair (retransmissions first); the packet crosses switches that may drop it,
pause it, or send it on another path; the receiver's NIC calls
`RdmaHw::Receive`, which runs `ReceiveUdp` to the end as one event, calls
`Record` on the flow's contexts and *schedules* its replies behind the DMA delay
of the contexts it touched. Timers are events of their own. Events never
preempt one another; the concurrency is that of events and messages in flight.

What is hard here:

* three places record loss, and packets, retransmissions and timeouts move it
  between them in any order;
* requests are answered a round trip later, when the context that asked may have
  slid, split, moved to the table, filled up or gone;
* NACKs, retransmissions and the completion marker 65002 may be lost, and every
  such loss needs a timer that is still running;
* replies overtake one another because of the DMA delays;
* the retransmission timeout of the sender may fire early and bring packets on
  the normal path that the contexts already wait for;
* the decisions of one handler are read by another that runs later: a pause
  believed in at the switch, an epoch at the far ToR, a cached node, a DMA queue;
* timers guess (when the TAIL of a flow will arrive, when a gap in it is long
  enough) and the code has to stay sound when the guess is wrong;
* `assert` is active in every build profile except `release`, so a failed assert
  ends the simulation: it is part of the behaviour.

`PROJECT.json` lists these as hazards, each at its line, with the properties
that guard it.

## 2. Modules

```
Adamap            the data structure: what it covers, misses, how it splits
  OmniFlow        packets of a flow, data packets
  ReceiverAdamap  Record and the moves between window, list and table
    OmniReceiver  ReceiveUdp, the two timeouts, the replies      (open system)
  OmniSender      GetNxtPacket, ReceiveAck, HandleTimeout        (open system)
    OmniDma       both ends and a network; Spec, FairSpec
      MCOmniDma   what TLC runs
Transfer          what any transport promises (abstract)
GoBackN           a flow without OmniDMA and IRN, both ends and a network
IrnSack           the block list of IrnSackManager
  Irn             a flow with IRN, both ends and a network
RnicContexts      where the loss contexts are kept, and the DMA they cost
QpLife            queue pairs from creation to what arrives after deletion
Pfc               hosts, a switch and its buffer, pause and resume
ConWeave          a flow between two ToR switches over several paths

DataTheorems -> OmniDmaProofs (receiver and flow), GoBackNProofs, IrnProofs,
                RnicContextsProofs, PfcProofs, ConWeaveProofs
QpLifeProofs
```

`OmniDma`, `GoBackN` and `Irn` each instantiate `Transfer`.

**Adamap.** An Adamap is `[startSeq, reprLength, bitmap]`, the bitmap the set of
offsets whose bit is 1. `Covers` and `Missing` give it its meaning;
`BitmapFull`, `LastHole`, `NoRange` are the code's predicates (`assertBitmapFull`,
`assertLastHole`, `reprLength <= bitmap.size()`), `Slide` and `Chunk` its splitting
code. `SplitStarts` is the loop of `PutLinkedListHeadToTable` around
`splitAdamap(.., true)`, as a set.

**ReceiverAdamap.** One action per return value of `Record`:

| returns | action | returns | action |
|---|---|---|---|
| -1 | `RecordInOrder` | -11, -12 | `RecordFirstMiss` |
| -7 | `RecordStale` | -14 .. -17 | `RecordFirstInBitmap` |
| -5 | `RecordInBitmap` | -18 | `RecordFirstInRange` |
| -6 | `RecordNewNode` | -20 / -100 | `RecordMultiHit` / `RecordMultiMiss` |

The order in which the code pushes chunks to the table (node by node, front to
back) only shows in the indices they get; `PushChunks` numbers a set of chunks by
rank. `HeadsToTable(n)` is the loop body of the list timeout repeated n times.

**OmniReceiver.** `ReceiveUdp(p)` is the whole handler: note the packet, `Record`,
`assertFinish`, `EnsureOmniTimeoutTimers`; an early return (`Dropped`) skips the
last two, as in the code. `UdpReplies`, `ListTimeoutReplies` and
`TableTimeoutReplies` are what the handlers transmit. `Abort` is a packet whose
processing fails an assert. The module accepts any packet at any time, which is
what makes its theorems strong.

**OmniSender.** `GetNxtPacket` with the choice made by `GetNextQindex`, `ReceiveAck`
with `SenderAdamap::Enqueue` (`LossEntries`), and `HandleTimeout` with
`RecoverQueue`.

**OmniDma.** Joins them. Data packets are a sequence (with `Reordering` any of
them may arrive next), control packets a bag. `LoseData` and `LoseControl` drop
packets; `Over` is the stutter of a flow that ended.

**Transfer.** Packets arrive; the acknowledged prefix grows over delivered
packets only; completion needs every packet except those in `Tolerated`.
`OmniDma` implements it with `delivered <- rcvd`, `acked <- sndUna`,
`done <- complete`, and a `Tolerated` that names the two holes the code has
(below).

**GoBackN.** The other half of the branches on `m_omnidma` and `m_irn`. The values of
`ReceiverCheckSeq` are actions: `InOrder` (1, with the duplicates, which the code
answers the same way), `Gap` (2) and `HeldGap` (4). `heldNack` is `m_lastNACK` as
long as `m_nackTimer` lies ahead. `GetReply` is `ReceiveAck`: the timer is
looked at before a NACK moves `snd_nxt` back. `GoBackN` implements `Transfer` with
`delivered <- rcvd`, the packets accepted (a history variable), and
`Tolerated <- {}`.

**IrnSack and Irn.** `IrnSack` has the list of blocks: `Sack` is the loop of
`IrnSackManager::sack` with its second pass (`Merge`), `DiscardUpTo` and
`BlockExists` the other two. `Irn` uses sets of packets instead (`ahead` at the
receiver, `sacked` at the sender); that the operations on the list for a set are the
set operations is the invariant `SackListExact`, evaluated for every list that
occurs. `Send` contains the move of `snd_nxt` over a SACKed block that
`GetBytesLeft` makes, `Poll` is that move when nothing is sent after it.

**RnicContexts.** A list node is its flag `inRnicLlCache`, a table entry its index.
Each handler of `ReceiverAdamap` that reaches contexts is an action, with the
chains of DMA operations it submits and the replies that wait for them; which
node a packet hits and how many entries a node becomes is left open.

**QpLife.** A flow stands for its key, which the four look-ups compute from the
five-tuple or its reverse; source ports are unique per host, so they agree.

**Pfc.** Hosts send to one output port that drains at any pace. `Arrive` is
`DoSwitchSend` with admission and `CheckAndSendPfc`, `Dequeue` is
`SwitchNotifyDequeue` with `CheckAndSendResume`. Time is a clock of packet times;
of several events of one instant timers come first, having been scheduled first.

**ConWeave.** `Send` is the source half of `RouteInput`: a new epoch after a gap
(`SendExpired`) or a timely reply (`SendStabilized`), the TAIL after a reply timeout,
or plain data. `Receive` is the destination half: an old epoch passes (`Pass`), else
`PhaseAfter`, `OutOfOrder`, `Place` and `Reschedule` follow the handler's sections.
`Flush` is the reordering queue's timer, and `flushNow` the nanosecond after a TAIL.
The numbers of packets are also the time stamps of the source switch. `excuse`
records wrong guesses: a queue flushed while an earlier packet was still coming, an
epoch expired with packets still under way, a flow forgotten by one end only.

## 3. Abstractions

* Sequence numbers count packets; the code itself divides by the MTU before it
  calls `Record`, and asserts that sequence numbers are aligned. The numbers are
  far from 2^32.
* Retransmission tiers above 1 are one tier, 2: the code treats them alike. A
  NACK marked 65001 that carries an Adamap is a tier 1 NACK, as the sender
  reads it.
* Time is left out. `lastCallTime` and the RTT average decide only *when* a
  timeout finds a context expired; here any non-empty prefix of the list, or
  any non-empty subset of the table, may have expired when the timer fires. A
  firing that finds nothing expired rearms the timer and changes nothing.
* `m_omni_sack_` and `omni_cumulative_ack_seq` are the set `rcvd` and `CumAck`.
  That the list of an `IrnSackManager` behaves as a set is proved in `IrnProofs`.
* Both ends use the same bitmap size, within the 256 bits of the wire format.
* The head cache and the LRU decide only the delay of a reply. `OmniDma` allows
  any delay; `RnicContexts` says what it is, in units of one context, for one
  receiver.
* `NS_ASSERT` exists in debug builds only and is stated as a property
  (`WindowOrder`) instead of an abort.
* Rates and congestion windows delay packets and are left out; the flow window
  `m_win` is kept.
* `Irn` has no PFC, which `run.py:304` and `run.py:313` exclude together with IRN,
  and no send window beside the BDP limit.
* `Pfc` has one class and one output port; buffers are counted in packets of one
  MTU, and in half packets where a minimum splits one. A host whose class is
  resumed although it is not paused goes on in the model, as it does where
  `NS_ASSERT` is compiled out.
* `QpLife` leaves open what is sent and when a flow completes.
* `ConWeave` leaves open which path is chosen, so that congestion marks and
  notifications do not appear, and how long the queue's timer is. It assumes of
  the lengths of times that a reply timeout comes before a gap counts as
  expired (round trip + 4 us against 300 us), that nothing of a flow is in the
  network after 2 ms of silence (aging), and that no reply crosses the network in
  the nanosecond in which a flush is due.
* In `GoBackN`, `L2AckInterval` is 1 and `L2BackToZero` is off, the values that
  `run.py:75-77` writes.

## 4. What the runs check

| Run | Instance | Properties | Result |
|---|---|---|---|
| `recovery` | 6 packets, 2-bit bitmaps, one path, 3 losses, 1 early timeout | all invariants of `OmniDma`, `EntriesOnlyFill`, `ImplementsTransfer`, no deadlock | holds, 526 059 states |
| `reordered` | 4 packets, window of 3, 1-bit bitmaps, packets overtake, 3 losses, 1 early timeout | `NoLostContext`, `MultiInRange`, `ImplementsTransfer`, `Termination` | holds, 227 902 states |
| `go_back_n` | 4 packets, window of 3, everything overtakes, 3 losses, 1 early timeout | `TypeOK`, `RtoArmed`, `ImplementsTransfer`, `Termination` of `GoBackN` | holds, 413 985 states |
| `irn` | 5 packets, BDP of 3, everything overtakes, 3 losses, 1 early timeout | `TypeOK`, `SackSound`, `AheadOfGap`, `SackListExact`, `RtoArmed`, `ImplementsTransfer`, `Termination` of `Irn` | holds, 436 276 states |
| `rnic_cache` | 4 nodes of which 2 cached, 3 entries, LRU of 2 | `TypeOK`, `CacheIsHeadWindow`, `LruHoldsMostRecent`, `InflightExact`, `ReplyWhenDmaDone` | holds, 138 875 states |
| `pfc` | 2 hosts, pause of 3, shared buffer of 3, headroom of 4 | `TypeOK`, `HeadroomCharged`, `EgressSplit`, `PauseCovers`, `PauseEnds` | holds, 663 824 states |
| `conweave` | 5 packets, 3 paths, 1 loss | `TypeOK`, `AssertsHold`, `InOrder`, `TwoPaths`, `NothingStuck` | holds, 961 866 states |
| `tail_loss` | 4 packets, 1 loss | `FinishMeansAll` | violated |
| `window_reset` | 4 packets, 2 losses, 1 early timeout | `FirstBehindWindow` | violated |
| `irn_bdp` | 5 packets, BDP of 3, 1 loss | `WithinBdp` | violated |
| `pfc_resume` | 1 host, PFC frames wait up to 2 packet times | `ResumeFindsPaused` | violated |
| `qp_life` | 2 flows | `NeverRevived` | violated |

Of OmniDMA:

* `TypeOK` - types of all variables.
* `NoLostContext` - every packet behind the window was received or is missing in
  some list node or table entry: moving loss about loses none of it.
* `BitsSound` - no bitmap, wherever it is, claims a packet that never came.
* `TimersArmed` - until the receiver is finished, a non-empty list has its
  timeout running, and so has a non-empty table.
* `TableSound` - table indices are unique and below the counter; entries have no
  range.
* `WindowOrder` - `snd_una <= snd_nxt`, the assert of `GetOnTheFly`, and nothing
  is sent beyond the last packet.
* `RtoArmed` - unacknowledged packets are under the retransmission timer,
  although `HandleTimeout` itself does not restart it.
* `MultiInRange` - no later retransmission under way, in the network or in the
  sender's queue, would fail the asserts on the table entry it names.
* `EntriesOnlyFill` - an index in the table always stands for the same packets and
  its bits are only set.
* `ImplementsTransfer` - every step of the flow is a step of `Transfer` or changes
  none of its variables.
* `Termination` - under `FairSpec`, the flow completes or has failed an assert.

`RtoArmed` of `GoBackN` and `Irn` includes `snd_una <= snd_nxt`; their `Termination`
has no exception.

Of IRN:

* `SackSound` - the sender skips only packets that have arrived, and never one at
  `snd_una`: the jump of `snd_una` over a front block is dead code.
* `AheadOfGap` - the receiver's bound and list are exactly what arrived.
* `SackListExact` - on every list that occurs, and for any block put into it,
  inserting, splitting, merging, discarding and looking up are the operations
  on the set the list stands for, and lists stay in their one normal form.

Of the RNIC:

* `CacheIsHeadWindow` - the cached nodes are the first `first_n` of the list,
  whatever is appended, moved and erased, and both counters count them.
* `LruHoldsMostRecent` - the LRU has the last indices accessed, each once.
* `InflightExact` - popping done operations from the front leaves none behind.
* `ReplyWhenDmaDone` - a reply leaves when the last of its operations is done.

Of PFC:

* `HeadroomCharged` - headroom covers what exceeds the shared buffer, and no
  more than is there; the buffer as a whole is never full.
* `EgressSplit` - what a queue has of its minimum and of the pool adds up.
* `PauseCovers` - whom the switch takes for paused is, or is about to be.
* `PauseEnds` - no host stays paused for ever, renewals included.

Of ConWeave:

* `AssertsHold` - no `assert` and not the `exit(1)` of the two handlers and of the
  flush callback fails. The one exception is the assert at line 901: after an
  epoch that expired too early a packet may meet the queue of the epoch before
  in the nanosecond before it is flushed. It takes six packets to get there.
* `InOrder` - without a wrong guess the host gets what was not lost in order.
* `TwoPaths` - without a wrong guess a flow has packets on two paths at most.
* `NothingStuck` - the queue and the paths are empty again and again, also when
  the TAIL is lost.

Deadlock is checked in every run but `qp_life`, whose flows may all be over: a
state in which a flow has not ended and nothing is in flight, no timer runs and
nothing may be sent does not exist.

### Where the code and its own statements differ

* **A loss in the last window** (`tail_loss`). `IsFinishConditionSatisfied`
  (`adamap-receiver.cc:277`) asks for an empty list and an empty table. A packet
  lost behind the last closed window is a 0 in the current bitmap, which the
  condition does not read, and the message "Flow %u get all packets. Finishes."
  (line 283) is printed without it. The marker 65002 then retires the sender.
  `Transfer` is therefore implemented only with the last `BitmapSize` packets but
  one tolerated. Packet 0, for which no Adamap has a bit, is the other packet
  that a completed flow may lack.
* **Packet 0 resets the window** (`window_reset`). Line 346 accepts packet 0 as
  the start of a window whenever the current bitmap is empty. If packet 0 was
  lost and a retransmission timeout sends it again while a first retransmission
  is on its way, `m_startSeq` falls back to 0 and
  `assert (seq < m_startSeq + 1)` (line 393) fails for the latter.

* **More than a BDP in flight** (`irn_bdp`). `GetNextQindex` asks `CanIrnTransmit`
  before `GetBytesLeft` moves `snd_nxt` over a SACKed block
  (`rdma-queue-pair.cc:111`), so that the packet sent may lie `m_bdp` beyond the
  highest acknowledgement, against the "BDP Limit for IRN in Bytes".
* **A resume after the pause** (`pfc_resume`). The host's pause may run out while the
  resume frame waits for its port; `Resume` asserts "Must be PAUSEd".
* **A receiver comes back** (`qp_life`). `ReceiveUdp` means to drop packets of a deleted
  receiver ("just drop", `rdma-hw.cc:527`), but looks it up with `create = true`:
  a late packet makes a new receiver, with empty contexts.

Three observations without a run. `README.md:179-182` of the tree speaks of one
first-come-first-served DMA queue per host; the code has one per direction, and
overlaps the fixed latency. A class under PFC does lose packets when a pause runs
out while the output is stalled, since the headroom check and the dynamic egress
threshold refuse them. And in ConWeave a source that has forgotten a flow which the
destination still knows starts again at epoch 1: until its epochs catch up
everything passes as belonging to a previous epoch, in whatever order it arrives.

### Bounds

* `BitmapSize` 1 and 2. With 1 every gap of two packets has a range, every chunk is
  one packet and every chunk is the last hole; with 2 a bitmap can be partly
  filled, have a hole before and behind a bit, and still be overrun by 6 packets.
* `NumPackets` 6 leaves room for a closed node with a range that splits in three
  chunks and a window behind it; 4 with one-bit bitmaps leaves room for two
  nodes in the list.
* `MaxLoss` 2 or 3: a packet, its retransmission and the NACK or the marker for
  it. After the bound the network is reliable.
* `MaxSpurious` 1: one timeout, of any timer, while something is still on its way.
  Timeouts with nothing under way are not bounded.
* `MaxData` 3 bounds packets in flight; `MaxControl` bounds how far the sender runs
  ahead of unread replies, and never holds up a retransmission or a reply.

* In `go_back_n` four packets are more than the window of three, so that the
  window closes and a NACK can find packets on both sides of it; `MaxInFlight` 4
  is more than the window, so that replies are under way while it is full.
* In `irn` five packets are two more than the BDP, so that a recovery can skip a
  block and still have something new to send.
* In `reordered` two packets are in flight at once; one that is held back can
  still be overtaken by all that follow it.
* In `pfc` the headroom is `2 * Delay + 2` packets, as the script computes it
  (`network-load-balance.cc:1922-1926`), and the buffer small enough for drops.
* In `rnic_cache` four nodes are two more than the cache holds, three entries one
  more than the LRU.
* In `conweave` three paths are what `TwoPaths` could be violated with; five packets
  allow two epochs with a rerouting in each. The invariants were also checked
  with six packets (9 940 214 states) and two losses (1 555 816).

### Fairness

* `WF` on `Send`, on reading some control packet and on delivering some data
  packet: events of the simulator are executed, and the NIC sends what it may.
* `SF` on each timer. The three timers run on different clocks: the context
  timeouts wait for base RTT + 500 us, the retransmission timeout for
  3 x base RTT + 200 us. A timer that is due may be put off, since its firing
  competes with others and `ReceiveAck` restarts the retransmission timer. With
  base RTTs below 150 us, those of the data centre topologies of this tree, the
  retransmission timeout is the shorter one and fires between two firings of
  the others. With a longer RTT, a table entry whose NACKs are answered in vain
  could keep restarting it; in the model losses are bounded, so a repeated
  NACK is answered in the end.
* Nothing is assumed about the order of delivery, or about which control packet
  is read next.

`GoBackN` needs only `WF`: the retransmission timer is its one timer, and once
nothing is under way nothing can put it off. Nothing is assumed about the NACK
interval, which may never end.

`Irn` likewise. In `Pfc` the clock ticks and events that are due happen; nothing is
assumed of hosts or of the output port, which may stall for ever. In `ConWeave`
every path delivers and the scheduled flush comes; replies, and further packets
of the flow, may fail to.

`Termination` of `OmniDma` counts a failed assert as an end: that the asserts hold is the
subject of `MultiInRange`, and of the run `window_reset` where one does not.

## 5. What is proved

### The OmniDMA receiver

Parts 1 to 3 of `OmniDmaProofs` prove, for every `BitmapSize >= 1` and `NumPackets >= 1`
(the only assumptions), and for *arbitrary* packets of the flow arriving at any
time, in any order and any number of times, with timeouts whenever their timers
run:

| Theorem | Statement |
|---|---|
| `ReceiverInvariant` | `ReceiverSpec => []ReceiverInv` |
| `ReceiverTypeCorrect` | `ReceiverSpec => []ReceiverTypeOK` |
| `NothingForgotten` | `ReceiverSpec => []NoLostContext` |
| `NothingInvented` | `ReceiverSpec => []BitsSound` |
| `IndicesIdentify` | `ReceiverSpec => []TableSound` |
| `ContextsTimed` | `ReceiverSpec => []TimersArmed` |
| `TableOnlyFills` | `ReceiverSpec => EntriesOnlyFill` |

`NoLostContext` is not inductive: that a step keeps it needs the types of nodes
and entries, that entries have no range (otherwise a filled entry could be
erased with its range missing), that their indices are below the counter
(otherwise a new entry could share the index of an old one), and that the first
packet of the window itself was received or is packet 0. The invariant
`ReceiverInv` is the conjunction of these with the control variables' types,
`TimersArmed`, and that every context describes packets of the flow (`InFlow`).

The argument is split in three. Part 1 of `OmniDmaProofs` shows what the pieces of
an Adamap miss: the chunks at `SplitStarts` together miss exactly
what the node missed, and a chunk and the slid remainder partition it. Part 2: for
a *fixed* set R of received packets, that each `Record` action for a packet of R,
and `HeadsToTable`, keep `AdamapInv(R)`, and what they do to the table.
Part 3 takes for R what `rcvd` is after the step (`AdamapInvMonotone`)
and adds the timers.

### A whole OmniDMA flow

Part 4 of `OmniDmaProofs` proves for every flow length, window, bitmap size and bound on
losses and early timeouts, with or without reordering:

| Theorem | Statement |
|---|---|
| `FlowInvariant` | `Spec => []FlowInv` |
| `FlowTypeCorrect` | `Spec => []TypeOK` |
| `FlowWindowOrder` | `Spec => []WindowOrder` |
| `FlowRtoArmed` | `Spec => []RtoArmed` |
| `RetransmissionsFit` | `Spec => []MultiInRange` |
| `ReceiverSimulated` | `Spec => ReceiverSpec` |
| `FlowReceiverSafe` | `Spec => [](NoLostContext /\ BitsSound /\ TableSound /\ TimersArmed)` |
| `FlowTableOnlyFills` | `Spec => EntriesOnlyFill` |
| `FlowImplementsTransfer` | `Spec => ImplementsTransfer` |

Every step of the flow is, seen from the receiver, a step of the open receiver or
none (`ReceiverSimulated`), which carries `ReceiverInv` over. `FlowInv` adds what
ties the two ends together, and each part of it is about something that is under
way while the receiver goes on changing:

* a retransmission or a NACK of tier 2 carries an index that was given out, and if
  the entry is still there, it stands for the packets meant (`Fits`). Kept because
  indices are never used twice and an entry only fills (`EntriesFilled`);
* a cumulative acknowledgement under way names only packets received, and so does
  `snd_una` until the flow completes. Kept because `rcvd` only grows;
* a completion marker is sent only when what is missing is packet 0 or in the last
  bitmap (`Enough`). This does not follow from the finish condition alone: packet 0
  may move the window back after the last packet has come (the run
  `window_reset`), so that "list and table are empty" would say little. `AskedFor` is
  what remains true: once the last packet has arrived, every packet up to the last
  bitmap has arrived or is missing in a context, whatever becomes of the window.

The refinement then needs for each action that `snd_una` passes delivered packets
only, and for the marker that the missing packets are in `Tolerated`.

### Go-back-N

`GoBackNProofs` proves, for every flow length, window and bound on losses, and with
packets and replies that arrive in any order:

| Theorem | Statement |
|---|---|
| `GbnTypeCorrect` | `Spec => []TypeOK` |
| `GbnRtoArmed` | `Spec => []RtoArmed` |
| `GbnImplementsTransfer` | `Spec => ImplementsTransfer` |

The invariant `GbnInv` adds to `TypeOK` and `RtoArmed` that everything below
`expected` was accepted, that a reply under way, and the sender, acknowledge
only packets below `expected`, and that the flow is complete exactly when
`snd_una` has reached its end. The first two are what makes a completed flow a
delivered one: the refinement needs them at the step in which `snd_una` reaches
`NumPackets`, and they are kept because `expected` never decreases. The three
theorems rest on the named assumption `GoBackNAssumption` (positive sizes,
natural bounds) and on nothing else.

### IRN

`IrnProofs` proves the same and more for IRN, for every flow length and BDP:

| Theorem | Statement |
|---|---|
| `IrnTypeCorrect` | `Spec => []TypeOK` |
| `IrnSackSound` | `Spec => []SackSound` |
| `IrnAheadOfGap` | `Spec => []AheadOfGap` |
| `IrnSackListExact` | `Spec => []SackListExact` |
| `IrnRtoArmed` | `Spec => []RtoArmed` |
| `IrnImplementsTransfer` | `Spec => ImplementsTransfer` |

`IrnInv` adds to these that packets in flight were sent (`DataSent`), that replies
speak of packets received (`RepliesSound`), and `AcksMissing`: a cumulative
acknowledgement under way never names a packet that is SACKed, neither at the
sender nor by another reply under way. The packet it names was missing when the
receiver's bound stood there, and what a reply SACKs had arrived; were the two
the same, an overtaken acknowledgement would let the sender skip the packet at its
own `snd_una`. The end of a block is the least packet behind it that is not in the
set, which exists by well-foundedness of `<` on the naturals (`LeastNatural`), not by
induction. The only assumption is `IrnAssumption`.

`IrnSackListExact` closes the gap between the sets of `Irn` and the lists of blocks in
the code, for every list and every block put into it. A list is `Normal` when its
blocks are in ascending order and apart. `SackIsUnion` and `DiscardIsRest` show that
`sack` and `discardUpTo` keep a list normal and what they do to the numbers it
covers; a set has one normal list only (`NormalExists`, `NormalIsBlocks`), so the
result is *the* list of the resulting set. The invariant of the loop of `sack`
(`PutInv`) says what is left to put after each block, and why a block that contains
all of what is left can only be met before a piece was inserted, so that the
early `return` never leaves the list unmerged. The second pass needs no more than
that blocks do not overlap (`Loose`).

### The RNIC

`RnicContextsProofs` proves for any sizes of the two caches, any latency and any bounds
(`RnicAssumption`):

| Theorem | Statement |
|---|---|
| `RnicInvariant` | `Spec => []RnicInv` |
| `RnicTypeCorrect` | `Spec => []TypeOK` |
| `RnicCacheIsHeadWindow` | `Spec => []CacheIsHeadWindow` |
| `RnicLruHoldsMostRecent` | `Spec => []LruHoldsMostRecent` |
| `RnicInflightExact` | `Spec => []InflightExact` |
| `RnicReplyWhenDmaDone` | `Spec => []ReplyWhenDmaDone` |

A handler is a fold: over the nodes it moves, the entries it accesses, the chains
of operations it submits and the operations of each chain. The library's induction
theorems cannot be used for folds (they take an operator as a parameter), so
`FoldedPath` shows once for all five operators that are folded, by their names
(`Step`), that the recursion of the fold exists, by adding the elements of the
sequence one by one. What every step keeps then holds of the fold (`Upwards`). `IrnProofs` does the same for
the two loops of `sack`; the lemma cannot be shared, as it would need the folded
operator as a parameter.

`RnicInv` has three parts, and each is about states *inside* a handler too:

* `DmaInv`. That refreshing a queue leaves nothing done in it needs completions in
  ascending order, which needs each to be at most the time at which the next
  operation can be serialised, plus the fixed latency (`Queued`). A delay is exact
  for the operations a reply waits for by their place in the queue; a refresh that
  pops operations would shift the places. It cannot: the first operation of a
  handler refreshes both queues, and what has not been done then is not done
  later in the same handler (`DmaOK`: either all in the queues is in flight, or no
  reply waits for anything yet).
* `CacheInv`. Within a handler the list gets shorter node by node. After each
  erase and refill the first `FirstN` of the nodes left are cached and the counters
  agree; the refill pulls one node at most, and this is where the asserts of
  `EraseLinkedListHeadAndRefill` are shown to hold.
* `TableInv`. The history of accesses has no index twice, the LRU is its front, and
  an index moved to the front of either is moved in both.

### PFC

`PfcProofs` proves for any finite, non-empty set of hosts, and any limits, thresholds,
delays and pause time (`PfcAssumption`):

| Theorem | Statement |
|---|---|
| `PfcInvariant` | `Spec => []PfcInv` |
| `PfcTypeCorrect` | `Spec => []TypeOK` |
| `PfcHeadroomCharged` | `Spec => []HeadroomCharged` |
| `PfcEgressSplit` | `Spec => []EgressSplit` |
| `PfcPauseCovers` | `Spec => []PauseCovers` |

`PfcInv` has three parts that steps keep one by one.

* `BufferInv`. That the buffer is never full does not follow from the headroom being
  below its limit, for it need not be: a packet that crosses the shared limit is
  charged to headroom even at its limit, since the check looks at the buffer
  *before* the packet. What is inductive is that the queue exceeds the shared
  limit by no more than the headroom in use, and by at most one more than the
  headroom counted up to its limit (`Capped`); the sum of the latter is at most
  `Cardinality(Hosts) * Hdrm`, and the reserve of eight packets per host covers
  the one.
* `EgressInv` is `EgressSplit` with the types.
* `TimerInv` strengthens `PauseCovers` to a difference of times: while a pause is on its
  way, the switch's timer ends at least a link delay before the pause it brings
  will (`PauseAhead`). The tick and the arrival of a frame keep this because frames
  to a host are in the order of their arrival (`FramesOrdered`).

The proof shows where `PauseCovers` comes from: the delay of a link is positive,
nothing else is needed of the lengths of times. It holds for any wait of a frame,
also those for which `pfc_resume` shows that the assert in `Resume` fails.

### ConWeave

`ConWeaveProofs` proves for a flow of any length, any set of paths, and any number
of losses, early timers and agings, from `ConWeaveAssumption` alone:

| Theorem | Statement |
|---|---|
| `ConWeaveInvariant` | `Spec => []ConWeaveInv` |
| `ConWeaveTypeCorrect` | `Spec => []TypeOK` |
| `ConWeaveAssertsHold` | `Spec => []AssertsHold` |
| `ConWeaveInOrder` | `Spec => []InOrder` |
| `ConWeaveTwoPaths` | `Spec => []TwoPaths` |

One part of `ConWeaveInv` holds always:

* `PlacesInv`: every packet is on one path, in the queue, with the host or lost, and a
  path carries ascending packets;
* `SourceInv` and `EpochsInv`: how the epoch, the phase and the time stamp of a packet
  under way relate to those of the other packets, of the source and of the
  destination's entry. In an epoch, phase 0 is sent over one path and ends with
  the TAIL, and phase 1 carries the TAIL's time stamp;
* `QueueInv`: `reordering` says whether there is a queue, and a queue that the
  destination keeps in phase 1 is about to be flushed.

`AssertsHold` follows from these, apart from the queue found by a packet in order,
which needs the other part: while no timer has guessed wrong (`excuse = {}`), `Calm`
holds. All that is on its way is on one path, or on an old one up to the TAIL and
on the current one behind it (`PathsCalm`); what the destination has advanced to, the
source has left behind (`EndsAgree`); the queue holds what is behind the TAIL, in
order, and nothing on its way belongs between two of its packets (`QueueCalm`); what
is out precedes all that is not (`OutCalm`). None of these can be dropped: that a
delivered packet is the next one follows from the place of the TAIL, the place of
the TAIL from the source's not having been rerouted, and that it was not from
the destination's phase, which the reply reports.

### Lemmas about data

`DataTheorems` has what the proofs share: least elements and k-th smallest elements of
sets of numbers, bags, what becomes of a channel's elements when any one leaves,
and sums over functions. `SumFunction` of the community modules is a fold, and the
induction that it calls for is out of reach in the form of the library's
theorems; `SumsExist`, `SumUpdate` and `SumBounds` obtain it from the least
counterexample instead, and `Upwards` shows what is passed on from each number to the
next.

### Queue pairs

`QpLifeProofs` proves for any number of flows that no reply is for a flow the
sender never had (`RepliesAlwaysKnown`: "NIC cannot find the flow" does not end the
program, revived receivers or not), and that a flow is deleted once at each end
(`AlwaysDeletedOnce`).

### What is only model-checked

* Every liveness property (`Termination` of the three transports, `PauseEnds`,
  `NothingStuck`): liveness under fairness and `ENABLED` are out of reach of the prover
  in use.

Everything else that a passing run checks is a theorem.

No module here has a RECURSIVE operator.

## 6. Plan

Done: the OmniDMA receiver, sender and flow, go-back-N and IRN, each proved to
implement `Transfer`; the RNIC's cache and DMA scheduler, queue pairs, PFC with
the switch's buffer, and ConWeave, each with its proofs. Next: *NIC egress*, the round robin over flows of
`GetNextQindex` with `m_nextAvail`, and what it promises a flow that may send.

### Not modelled

* Congestion control (DCQCN, HPCC, TIMELY, DCTCP, OmniRdmaCubic): floating point
  arithmetic that only delays packets, which every flow module allows.
* ECMP, LetFlow and CONGA: they choose a path by a hash, at random or by measured
  load; any choice is possible in the modules that have paths or reordering.
* Several PFC classes, ECN marking, the round robin and rate limiting of the NIC.
* Loss distributions, scripts, analysis, bindings, and the stock modules of ns-3.

## 7. Running

```
tlc -config recovery.cfg MCOmniDma.tla       # also reordered, tail_loss, window_reset
tlc -config go_back_n.cfg GoBackN.tla
tlc -config irn.cfg Irn.tla                  # also irn_bdp
tlc -config rnic_cache.cfg RnicContexts.tla
tlc -config qp_life.cfg QpLife.tla
tlc -config pfc.cfg Pfc.tla                  # also pfc_resume
tlc -config conweave.cfg ConWeave.tla
tlapm DataTheorems.tla
tlapm OmniDmaProofs.tla
tlapm GoBackNProofs.tla                      # likewise IrnProofs, RnicContextsProofs,
                                             # QpLifeProofs, PfcProofs, ConWeaveProofs
```

Operators whose comment begins "Faulty variant" are not used by any
specification. Each is a plausible mistake in the code, paired in `PROJECT.json`
with the property that catches it.
