------------------------------ MODULE ConWeave ------------------------------
(***************************************************************************)
(* ConWeave for one flow: the table entries of the ToR switches at its two *)
(* ends (ConWeaveRouting::RouteInput), the reordering queue at the second  *)
(* one (ConWeaveVOQ), and the paths between them.                          *)
(*                                                                         *)
(* A path delivers in order, paths overtake one another.  Packets are      *)
(* numbered in the order the first switch forwards them, and the number    *)
(* stands for the time stamp of that switch.  Timers fire at any moment    *)
(* but in the order their lengths imply: a reply timeout is shorter than   *)
(* m_txExpiryTime, and within m_agingTime the network and the queue are    *)
(* emptied.                                                                *)
(***************************************************************************)
EXTENDS Integers, SequencesExt

CONSTANTS
  Paths,         \* between the two switches
  NumPackets,    \* bound: packets the flow sends
  MaxLoss        \* bound: packets and replies the network loses

ASSUME ConWeaveAssumption ==
  /\ Paths # {}
  /\ NumPackets \in Nat \ {0}
  /\ MaxLoss \in Nat

VARIABLES
  tx,            \* conweaveTxState, at the source ToR
  rx,            \* conweaveRxState, at the destination ToR
  voq,           \* the reordering queue; none exists while it is empty
  flushNow,      \* the queue's flush is due within the next nanosecond
  sent,          \* packets forwarded so far by the source ToR
  wire,          \* path: the packets on it
  replies,       \* on their way to the source ToR
  out,           \* what the destination host was sent, in that order
  lost,          \* the packets lost
  lostReplies,   \* replies lost so far
  excuse         \* the wrong guesses about time made so far

rxVars == <<rx, voq, flushNow, out>>
vars == <<tx, rxVars, sent, wire, replies, lost, lostReplies, excuse>>

Flags == {"INIT", "TAIL", "DATA"}
Packet == [seq : 1 .. NumPackets, epoch : 1 .. NumPackets, phase : 0 .. 1,
           flag : Flags, tail : 0 .. NumPackets]
Reply == [flag : {"INIT", "TAIL"}, epoch : 1 .. NumPackets]

None == "none"

\* quiet: _activeTime is further back than m_txExpiryTime.
\* timer: "armed" until _replyTimer, then "due"; "off" for CW_MAX_TIME.
NewTx == [known |-> FALSE, quiet |-> TRUE, stabilized |-> TRUE, epoch |-> 0,
          phase |-> 0, path |-> None, timer |-> "off", tail |-> 0]

\* phase0: _phase0TxTime.
NewRx == [known |-> FALSE, epoch |-> 1, phase |-> 0, phase0 |-> 0,
          cache |-> FALSE, reordering |-> FALSE]

Init ==
  /\ tx = NewTx
  /\ rx = NewRx
  /\ voq = <<>>
  /\ flushNow = FALSE
  /\ sent = 0
  /\ wire = [p \in Paths |-> <<>>]
  /\ replies = <<>>
  /\ out = <<>>
  /\ lost = {}
  /\ lostReplies = 0
  /\ excuse = {}

OnPath(p) == {k.seq : k \in Range(wire[p])}
InFlight == UNION {OnPath(p) : p \in Paths}
Undelivered == InFlight \union Range(voq)

-----------------------------------------------------------------------------
(* The source ToR forwards a packet of the flow.                           *)

Forward(path, k) ==
  /\ sent' = sent + 1
  /\ wire' = [wire EXCEPT ![path] = Append(@, k)]
  /\ UNCHANGED <<rxVars, replies, lost, lostReplies>>

StartEpoch(path) ==
  /\ tx' = [tx EXCEPT !.known = TRUE, !.quiet = FALSE, !.stabilized = FALSE,
                      !.epoch = @ + 1, !.phase = 0, !.path = path,
                      !.timer = "armed", !.tail = 0]
  /\ Forward(path, [seq |-> sent + 1, epoch |-> tx.epoch + 1, phase |-> 0,
                    flag |-> "INIT", tail |-> 0])

\* After a gap, or for a new connection, any path may be chosen.
SendExpired ==
  /\ tx.quiet
  /\ \E path \in Paths : StartEpoch(path)
  /\ excuse' = excuse
       \union {e \in {"expiry"} : Undelivered # {}}
       \union {e \in {"aging"} : ~ tx.known /\ rx.known}

SendStabilized ==
  /\ ~ tx.quiet /\ tx.stabilized
  /\ StartEpoch(tx.path)
  /\ UNCHANGED excuse

\* Faulty variant: the TAIL takes the new path.
TailPathNew(path) == path

\* The TAIL still takes the old path, what follows it the new one.
TailPath(path) == tx.path

\* Faulty variant: the timer stays due.
ReroutedTimerOn(path) ==
  [tx EXCEPT !.phase = 1, !.path = path, !.tail = sent + 1]

Rerouted(path) ==
  [tx EXCEPT !.phase = 1, !.path = path, !.timer = "off", !.tail = sent + 1]

SendTail ==
  /\ ~ tx.quiet /\ ~ tx.stabilized /\ tx.timer = "due"
  /\ \E path \in Paths :
       /\ tx' = Rerouted(path)
       /\ Forward(TailPath(path),
                  [seq |-> sent + 1, epoch |-> tx.epoch, phase |-> 0,
                   flag |-> "TAIL", tail |-> sent + 1])
  /\ UNCHANGED excuse

SendData ==
  /\ ~ tx.quiet /\ ~ tx.stabilized /\ tx.timer # "due"
  /\ tx' = tx
  /\ Forward(tx.path, [seq |-> sent + 1, epoch |-> tx.epoch, phase |-> tx.phase,
                       flag |-> "DATA", tail |-> tx.tail])
  /\ UNCHANGED excuse

Send ==
  /\ sent < NumPackets
  /\ SendExpired \/ SendStabilized \/ SendTail \/ SendData

-----------------------------------------------------------------------------
(* A reply reaches the source ToR.                                         *)

ReplyPhase(r) == IF r.flag = "INIT" THEN 0 ELSE 1

Accepts(r) ==
  /\ r.epoch = tx.epoch
  /\ ReplyPhase(r) = tx.phase
  /\ r.flag = "INIT" => tx.timer = "armed"

\* No reply is as fast as a flush that is due.
GetReply ==
  /\ replies # <<>> /\ ~ flushNow
  /\ replies' = Tail(replies)
  /\ tx' = IF Accepts(Head(replies))
             THEN [tx EXCEPT !.stabilized = TRUE, !.timer = "off"]
             ELSE tx
  /\ UNCHANGED <<rxVars, sent, wire, lost, lostReplies, excuse>>

-----------------------------------------------------------------------------
(* A data packet reaches the destination ToR.                              *)

NewEpoch(k) == rx.epoch < k.epoch
Stale(k) == rx.epoch > k.epoch

PhaseAfter(k) ==
  CASE k.flag = "TAIL" /\ (NewEpoch(k) \/ ~ rx.reordering) -> 1
    [] k.flag # "TAIL" /\ NewEpoch(k) -> 0
    [] OTHER -> rx.phase

OutOfOrder(k) == k.phase > PhaseAfter(k)

CacheAfter(k) == k.phase = 0 \/ (rx.cache /\ ~ NewEpoch(k))
Phase0After(k) == IF k.phase = 0 THEN k.seq ELSE rx.phase0

RxAfter(k) ==
  [rx EXCEPT !.known = TRUE, !.epoch = k.epoch, !.phase = PhaseAfter(k),
             !.phase0 = Phase0After(k), !.cache = CacheAfter(k),
             !.reordering = @ \/ OutOfOrder(k)]

\* Faulty variant: what is queued is also sent on.
PlaceBoth(k) ==
  /\ voq' = IF OutOfOrder(k) THEN Append(voq, k.seq) ELSE voq
  /\ out' = Append(out, k.seq)

\* A packet out of order is queued, every other one goes to the host.
Place(k) ==
  IF OutOfOrder(k)
    THEN voq' = Append(voq, k.seq) /\ UNCHANGED out
    ELSE out' = Append(out, k.seq) /\ UNCHANGED voq

\* A packet of phase 0 sets the queue's flush anew: the TAIL to the next
\* nanosecond, any other one to the predicted arrival of the TAIL.
Reschedule(k) ==
  flushNow' = IF k.phase = 0 /\ rx.reordering THEN k.flag = "TAIL" ELSE flushNow

Pass(k) ==
  /\ Stale(k)
  /\ rx' = [rx EXCEPT !.known = TRUE]
  /\ out' = Append(out, k.seq)
  /\ UNCHANGED <<voq, flushNow, replies>>

Accept(k) ==
  /\ ~ Stale(k)
  /\ rx' = RxAfter(k)
  /\ Reschedule(k)
  /\ Place(k)
  /\ replies' = IF k.flag = "DATA" THEN replies
                  ELSE Append(replies, [flag |-> k.flag, epoch |-> k.epoch])

Receive(path) ==
  /\ wire[path] # <<>>
  /\ wire' = [wire EXCEPT ![path] = Tail(@)]
  /\ Pass(Head(wire[path])) \/ Accept(Head(wire[path]))
  /\ UNCHANGED <<tx, sent, lost, lostReplies, excuse>>

\* Faulty variant: the queue has no timer of its own.
FlushDueByTail == voq # <<>> /\ flushNow

\* The timer of the queue may run out whenever there is a queue.
FlushDue == voq # <<>>

\* Faulty variant: _reordering stays set.
RxFlushedReordering == [rx EXCEPT !.phase = 1]

\* CallbackByVOQFlush.
RxFlushed == [rx EXCEPT !.reordering = FALSE, !.phase = 1]

\* FlushAllImmediately.  The timer's guess is wrong if an earlier packet is
\* still under way.
Flush ==
  /\ FlushDue
  /\ rx' = RxFlushed
  /\ out' = out \o voq
  /\ voq' = <<>>
  /\ flushNow' = FALSE
  /\ excuse' = excuse \union
       {e \in {"flush"} : ~ flushNow /\ \E i \in InFlight : \E j \in Range(voq) : i < j}
  /\ UNCHANGED <<tx, sent, wire, replies, lost, lostReplies>>

-----------------------------------------------------------------------------
(* Time passes.                                                            *)

ReplyTimeout ==
  /\ tx.timer = "armed"
  /\ tx' = [tx EXCEPT !.timer = "due"]
  /\ UNCHANGED <<rxVars, sent, wire, replies, lost, lostReplies, excuse>>

Expire ==
  /\ ~ tx.quiet /\ tx.timer # "armed"
  /\ tx' = [tx EXCEPT !.quiet = TRUE]
  /\ UNCHANGED <<rxVars, sent, wire, replies, lost, lostReplies, excuse>>

\* Each ToR drops the entries it has not used for m_agingTime.
Idle == tx.quiet /\ Undelivered = {} /\ replies = <<>>

AgeTx ==
  /\ Idle /\ tx.known
  /\ tx' = NewTx
  /\ UNCHANGED <<rxVars, sent, wire, replies, lost, lostReplies, excuse>>

AgeRx ==
  /\ Idle /\ rx.known
  /\ rx' = NewRx
  /\ UNCHANGED <<tx, voq, flushNow, out, sent, wire, replies, lost, lostReplies, excuse>>

-----------------------------------------------------------------------------
(* The network, and the whole.                                             *)

MayLose == Cardinality(lost) + lostReplies < MaxLoss

LoseData(path) ==
  /\ wire[path] # <<>> /\ MayLose
  /\ lost' = lost \union {Head(wire[path]).seq}
  /\ wire' = [wire EXCEPT ![path] = Tail(@)]
  /\ UNCHANGED <<tx, rxVars, sent, replies, lostReplies, excuse>>

LoseReply ==
  /\ replies # <<>> /\ MayLose
  /\ lostReplies' = lostReplies + 1
  /\ replies' = Tail(replies)
  /\ UNCHANGED <<tx, rxVars, sent, wire, lost, excuse>>

Over == sent = NumPackets /\ Undelivered = {} /\ UNCHANGED vars

Next ==
  \/ Send
  \/ GetReply
  \/ \E path \in Paths : Receive(path) \/ LoseData(path)
  \/ Flush
  \/ LoseReply
  \/ ReplyTimeout \/ Expire
  \/ AgeTx \/ AgeRx
  \/ Over

\* A path delivers what it carries, and the flush of a queue is scheduled.
Fairness ==
  /\ \A path \in Paths : WF_vars(Receive(path))
  /\ WF_vars(Flush)

Spec == Init /\ [][Next]_vars /\ Fairness

-----------------------------------------------------------------------------
(* Properties.                                                             *)

\* State of the right type; and every packet is in one place: on a path, in
\* the queue, with the host (once) or lost.
TypeOK ==
  /\ tx \in [known : BOOLEAN, quiet : BOOLEAN, stabilized : BOOLEAN,
             epoch : 0 .. NumPackets, phase : 0 .. 1, path : Paths \union {None},
             timer : {"off", "armed", "due"}, tail : 0 .. NumPackets]
  /\ rx \in [known : BOOLEAN, epoch : 1 .. NumPackets, phase : 0 .. 1,
             phase0 : 0 .. NumPackets, cache : BOOLEAN, reordering : BOOLEAN]
  /\ \A p \in Paths : wire[p] \in Seq(Packet)
  /\ replies \in Seq(Reply)
  /\ flushNow \in BOOLEAN
  /\ IsInjective(out) /\ IsInjective(voq)
  /\ Range(out) \intersect Range(voq) = {}
  /\ 1 .. sent = Range(out) \union Undelivered \union lost

\* The asserts and the exit(1) of RouteInput and of CallbackByVOQFlush hold.
\* "reordering" and the queue agree (739, 849, 871, 1103); a TAIL is sent in
\* phase 0 (516); a phase 1 packet is never older than the last phase 0
\* packet (exit at 794); and a packet in order finds no queue (901), except
\* after a wrong guess one that is flushed within the nanosecond.
TailsInPhase0 ==
  (~ tx.quiet /\ ~ tx.stabilized /\ tx.timer = "due") => tx.phase = 0

ArrivalsFit(k) ==
  Stale(k) \/
    /\ (CacheAfter(k) /\ (k.phase = 1 \/ k.flag = "TAIL")) => k.tail >= Phase0After(k)
    /\ (k.phase = 1 /\ ~ OutOfOrder(k)) =>
         (rx.reordering => flushNow /\ excuse # {})

AssertsHold ==
  /\ rx.reordering <=> voq # <<>>
  /\ TailsInPhase0
  /\ \A p \in Paths : wire[p] # <<>> => ArrivalsFit(Head(wire[p]))

\* The host gets the packets in the order in which the source ToR got them,
\* whatever was lost, unless a flush or an expiry came too early or the two
\* entries aged apart.
InOrder ==
  excuse = {} => \A i, j \in DOMAIN out : i < j => out[i] < out[j]

\* A flow is rerouted again only when what it had on the path before the last
\* one has arrived: it is never on more than two paths.
TwoPaths ==
  excuse = {} => Cardinality({p \in Paths : wire[p] # <<>>}) <= 2

\* No packet stays in the reordering queue for ever, even if the TAIL it
\* waits for is lost.
NothingStuck == []<>(Undelivered = {})
=============================================================================
