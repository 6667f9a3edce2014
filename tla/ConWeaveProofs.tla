---------------------------- MODULE ConWeaveProofs ----------------------------
(***************************************************************************)
(* The safety of ConWeave for a flow of any length over any set of paths,  *)
(* with any number of losses.                                              *)
(*                                                                         *)
(* ConWeaveInv has two parts.  What the asserts of the two switches rest   *)
(* on holds always: where the packets are (PlacesInv) and how epochs,      *)
(* phases and time stamps of the two ends and of the packets between them  *)
(* are related (EpochsInv, QueueInv).  That order is kept holds as long as *)
(* no timer has guessed wrong: Calm.                                       *)
(***************************************************************************)
EXTENDS ConWeave, DataTheorems

On(p) == Range(wire[p])
Flight == UNION {On(p) : p \in Paths}

Rising(s) == \A i, j \in DOMAIN s : i < j => s[i] < s[j]
Ordered(s) == \A i, j \in DOMAIN s : i < j => s[i].seq < s[j].seq

TxType ==
  [known : BOOLEAN, quiet : BOOLEAN, stabilized : BOOLEAN,
   epoch : 0 .. NumPackets, phase : 0 .. 1, path : Paths \union {None},
   timer : {"off", "armed", "due"}, tail : 0 .. NumPackets]

RxType ==
  [known : BOOLEAN, epoch : 1 .. NumPackets, phase : 0 .. 1,
   phase0 : 0 .. NumPackets, cache : BOOLEAN, reordering : BOOLEAN]

TypesInv ==
  /\ tx \in TxType /\ rx \in RxType
  /\ wire \in [Paths -> Seq(Packet)]
  /\ replies \in Seq(Reply)
  /\ flushNow \in BOOLEAN
  /\ voq \in Seq(1 .. NumPackets) /\ out \in Seq(1 .. NumPackets)
  /\ sent \in 0 .. NumPackets

\* Every packet is in one place, and a path delivers in order.
PlacesInv ==
  /\ \A p \in Paths : Ordered(wire[p])
  /\ \A p, q \in Paths : \A j \in On(p), k \in On(q) : j.seq = k.seq => p = q
  /\ IsInjective(out) /\ IsInjective(voq)
  /\ Range(out) \intersect Range(voq) = {}
  /\ InFlight \intersect (Range(out) \union Range(voq)) = {}
  /\ 1 .. sent = Range(out) \union Undelivered \union lost

\* The source's entry and what it has sent.
SourceInv ==
  /\ tx.epoch <= sent /\ tx.tail <= sent /\ rx.phase0 <= sent
  /\ ~ tx.known => tx = NewTx /\ Undelivered = {} /\ replies = <<>>
  /\ tx.known => tx.path \in Paths /\ tx.epoch >= 1
  /\ tx.timer # "off" => tx.phase = 0
  /\ \A k \in Flight : /\ k.epoch <= tx.epoch
                       /\ k.phase = 1 => k.flag = "DATA"
                       /\ k.flag = "TAIL" => k.tail = k.seq
  /\ \A r \in Range(replies) : r.epoch <= tx.epoch

\* In an epoch, phase 1 follows phase 0, which ends with the TAIL and is sent
\* over one path.
EpochsInv ==
  /\ \A j, k \in Flight : j.phase = 0 /\ k.phase = 1 /\ j.epoch = k.epoch
                            => j.seq <= k.tail
  /\ \A j, k \in Flight : j.phase = 0 /\ k.flag = "TAIL" /\ j.epoch = k.epoch
                            => j.seq <= k.seq
  /\ \A p, q \in Paths : \A j \in On(p), k \in On(q) :
       j.phase = 0 /\ k.phase = 0 /\ j.epoch = k.epoch => p = q
  /\ \A p \in Paths : \A k \in On(p) : k.epoch = tx.epoch =>
       /\ k.phase = 1 => tx.phase = 1 /\ k.tail = tx.tail
       /\ k.flag = "TAIL" => tx.phase = 1
       /\ k.phase = 0 /\ tx.phase = 1 => k.seq <= tx.tail
       /\ k.phase = 0 /\ tx.phase = 0 => p = tx.path
  /\ rx.cache =>
       /\ \A k \in Flight : k.phase = 1 /\ k.epoch = rx.epoch => rx.phase0 <= k.tail
       /\ tx.epoch = rx.epoch /\ tx.phase = 1 => rx.phase0 <= tx.tail

\* A queue that outlives its epoch is about to be flushed.
QueueInv ==
  /\ rx.reordering <=> voq # <<>>
  /\ ~ rx.known => rx = NewRx
  /\ flushNow => voq # <<>>
  /\ rx.phase = 1 /\ rx.reordering =>
       /\ flushNow /\ rx.epoch <= tx.epoch
       /\ \A k \in Flight : k.epoch = rx.epoch => k.phase = 1
       /\ tx.epoch = rx.epoch => tx.phase = 1

-----------------------------------------------------------------------------
(* As long as no timer has guessed wrong.                                  *)

\* What is under way is on one path, or on the old one up to the TAIL and on
\* the new one behind it.
OneOldPath ==
  \E old \in Paths : \A p \in Paths : \A k \in On(p) :
    /\ k.seq <= tx.tail => p = old
    /\ k.seq > tx.tail => p = tx.path /\ k.phase = 1 /\ k.epoch = tx.epoch

PathsCalm ==
  /\ tx.phase = 0 => \A p \in Paths : \A k \in On(p) : p = tx.path
  /\ tx.phase = 1 => OneOldPath
  /\ \A k \in Flight : k.flag = "TAIL" =>
       tx.phase = 1 /\ k.epoch = tx.epoch /\ k.seq = tx.tail

PastTail == \A k \in Flight : k.seq > tx.tail

\* What the destination is in phase 1 for, the source has left behind.
EndsAgree ==
  /\ tx.known => rx.epoch <= tx.epoch
  /\ tx.known /\ rx.phase = 1 /\ rx.epoch = tx.epoch =>
       tx.phase = 1 /\ PastTail /\ voq = <<>>
  /\ \A k \in Flight : k.phase = 1 /\ (tx.phase = 0 \/ k.seq <= tx.tail) =>
       rx.epoch >= k.epoch /\ (rx.epoch = k.epoch => rx.phase = 1)
  /\ ~ tx.quiet /\ tx.stabilized /\ tx.phase = 1 =>
       rx.epoch = tx.epoch /\ rx.phase = 1
  /\ \A r \in Range(replies) : r.flag = "TAIL" /\ r.epoch = tx.epoch =>
       rx.epoch = tx.epoch /\ (rx.phase = 1 \/ flushNow)

\* The queue holds what overtook the rest of its epoch.
QueueCalm ==
  /\ flushNow => PastTail
  /\ Rising(voq)
  /\ voq # <<>> =>
       /\ tx.known /\ tx.phase = 1 /\ rx.epoch = tx.epoch /\ rx.phase = 0
       /\ \A j \in Range(voq) :
            /\ j > tx.tail
            /\ \A k \in Flight : k.seq > tx.tail => j < k.seq

OutCalm ==
  /\ Rising(out)
  /\ \A i \in Range(out), j \in Undelivered : i < j

Calm == PathsCalm /\ EndsAgree /\ QueueCalm /\ OutCalm

ConWeaveInv ==
  /\ TypesInv /\ PlacesInv /\ SourceInv /\ EpochsInv /\ QueueInv
  /\ excuse = {} => Calm

-----------------------------------------------------------------------------
(* Sequences in order.                                                     *)

LEMMA OrderedTail ==
  ASSUME NEW s \in Seq(Packet), s # <<>>, Ordered(s)
  PROVE  /\ Head(s) \in Packet /\ Tail(s) \in Seq(Packet) /\ Ordered(Tail(s))
         /\ Head(s) \notin Range(Tail(s))
         /\ Range(s) = Range(Tail(s)) \union {Head(s)}
         /\ \A k \in Range(Tail(s)) : k \in Packet /\ Head(s).seq < k.seq
<1>1. /\ Len(s) \in Nat \ {0} /\ DOMAIN s = 1 .. Len(s)
      /\ Tail(s) \in Seq(Packet) /\ DOMAIN Tail(s) = 1 .. Len(s) - 1
      /\ \A i \in 1 .. Len(s) - 1 : Tail(s)[i] = s[i + 1]
      /\ Head(s) = s[1] /\ Head(s) \in Packet
      /\ \A i \in 1 .. Len(s) : s[i] \in Packet
  OBVIOUS
<1>2. PICK t : t = Tail(s)
  OBVIOUS
<1>3. PICK n \in Nat : n = Len(s)
  BY <1>1
<1>4. /\ n # 0 /\ DOMAIN s = 1 .. n /\ DOMAIN t = 1 .. n - 1
      /\ \A i \in 1 .. n - 1 : t[i] = s[i + 1]
      /\ \A i \in 1 .. n : s[i] \in Packet /\ s[i].seq \in Int
  BY <1>1, <1>2, <1>3 DEF Packet
<1>5. \A i, j \in 1 .. n : i < j => s[i].seq < s[j].seq
  BY <1>4 DEF Ordered
<1>6. Ordered(t)
  <2>1. ASSUME NEW i \in 1 .. n - 1, NEW j \in 1 .. n - 1, i < j
        PROVE  t[i].seq < t[j].seq
    <3>1. i + 1 \in 1 .. n /\ j + 1 \in 1 .. n /\ i + 1 < j + 1
      BY <2>1
    <3> QED
      BY <1>4, <1>5, <3>1
  <2> QED
    BY <1>4, <2>1 DEF Ordered
<1>7. ASSUME NEW i \in 1 .. n - 1 PROVE t[i] \in Packet /\ s[1].seq < t[i].seq
  <2>1. i + 1 \in 1 .. n /\ 1 \in 1 .. n /\ 1 < i + 1
    OBVIOUS
  <2> QED
    BY <1>4, <1>5, <2>1
<1>8. \A k \in Range(t) : k \in Packet /\ s[1].seq < k.seq
  BY <1>4, <1>7 DEF Range
<1>9. s[1] \notin Range(t)
  <2>1. 1 \in 1 .. n
    BY <1>4
  <2>2. s[1].seq \in Int
    BY <1>4, <2>1
  <2> QED
    BY <1>8, <2>2
<1>10. Range(s) = Range(t) \union {s[1]}
  <2>1. ASSUME NEW i \in 1 .. n PROVE s[i] \in Range(t) \union {s[1]}
    <3>1. CASE i # 1
      <4>1. i - 1 \in 1 .. n - 1 /\ (i - 1) + 1 = i
        BY <3>1
      <4> QED
        BY <1>4, <4>1 DEF Range
    <3> QED
      BY <3>1
  <2>2. ASSUME NEW i \in 1 .. n - 1 PROVE t[i] \in Range(s)
    <3>1. i + 1 \in 1 .. n
      OBVIOUS
    <3> QED
      BY <1>4, <3>1 DEF Range
  <2>3. s[1] \in Range(s)
    BY <1>4 DEF Range
  <2> QED
    BY <1>4, <2>1, <2>2, <2>3 DEF Range
<1> QED
  BY <1>1, <1>2, <1>6, <1>8, <1>9, <1>10

LEMMA OrderedAppend ==
  ASSUME NEW s \in Seq(Packet), Ordered(s), NEW k \in Packet,
         \A j \in Range(s) : j.seq < k.seq
  PROVE  Ordered(Append(s, k))
<1>1. PICK t : t = Append(s, k)
  OBVIOUS
<1>2. PICK n \in Nat : n = Len(s)
  OBVIOUS
<1>3. /\ DOMAIN s = 1 .. n /\ DOMAIN t = 1 .. n + 1 /\ t[n + 1] = k
      /\ \A i \in 1 .. n : t[i] = s[i]
  BY <1>1, <1>2
<1>4. ASSUME NEW i \in 1 .. n + 1, NEW j \in 1 .. n + 1, i < j
      PROVE  t[i].seq < t[j].seq
  <2>1. i \in 1 .. n
    BY <1>4
  <2>2. CASE j = n + 1
    <3>1. s[i] \in Range(s)
      BY <1>3, <2>1 DEF Range
    <3> QED
      BY <1>3, <2>1, <2>2, <3>1
  <2>3. CASE j # n + 1
    <3>1. j \in 1 .. n
      BY <2>3
    <3>2. s[i].seq < s[j].seq
      BY <1>3, <1>4, <2>1, <3>1 DEF Ordered
    <3> QED
      BY <1>3, <2>1, <3>1, <3>2
  <2> QED
    BY <2>2, <2>3
<1> QED
  BY <1>1, <1>3, <1>4 DEF Ordered

LEMMA RisingJoined ==
  ASSUME NEW s \in Seq(1 .. NumPackets), NEW t \in Seq(1 .. NumPackets),
         Rising(s), Rising(t), \A i \in Range(s), j \in Range(t) : i < j
  PROVE  Rising(s \o t)
<1>1. PICK u : u = s \o t
  OBVIOUS
<1>2. PICK m \in Nat, n \in Nat : m = Len(s) /\ n = Len(t)
  OBVIOUS
<1>3. /\ DOMAIN s = 1 .. m /\ DOMAIN t = 1 .. n /\ DOMAIN u = 1 .. m + n
      /\ \A i \in 1 .. m : u[i] = s[i]
  BY <1>1, <1>2
<1>4. \A i \in m + 1 .. m + n : u[i] = t[i - m] /\ i - m \in 1 .. n
  <2>1. ASSUME NEW i \in m + 1 .. m + n PROVE u[i] = t[i - m]
    BY <1>1, <1>2, SecondPart
  <2> QED
    BY <2>1
<1>5. ASSUME NEW i \in 1 .. m + n, NEW j \in 1 .. m + n, i < j
      PROVE  u[i] < u[j]
  <2>1. CASE j <= m
    <3>1. i \in 1 .. m /\ j \in 1 .. m
      BY <1>5, <2>1
    <3> QED
      BY <1>3, <1>5, <3>1 DEF Rising
  <2>2. CASE i <= m /\ j > m
    <3>1. i \in 1 .. m /\ j \in m + 1 .. m + n
      BY <2>2
    <3>2. s[i] \in Range(s) /\ t[j - m] \in Range(t)
      BY <1>3, <1>4, <3>1 DEF Range
    <3> QED
      BY <1>3, <1>4, <3>1, <3>2
  <2>3. CASE i > m
    <3>1. i \in m + 1 .. m + n /\ j \in m + 1 .. m + n /\ i - m < j - m
      BY <1>5, <2>3
    <3>2. t[i - m] < t[j - m]
      BY <1>3, <1>4, <3>1 DEF Rising
    <3> QED
      BY <1>4, <3>1, <3>2
  <2> QED
    BY <2>1, <2>2, <2>3
<1> QED
  BY <1>1, <1>3, <1>5 DEF Rising

LEMMA InjectiveJoined ==
  ASSUME NEW s \in Seq(1 .. NumPackets), NEW t \in Seq(1 .. NumPackets),
         IsInjective(s), IsInjective(t), Range(s) \intersect Range(t) = {}
  PROVE  IsInjective(s \o t)
<1>1. PICK u : u = s \o t
  OBVIOUS
<1>2. PICK m \in Nat, n \in Nat : m = Len(s) /\ n = Len(t)
  OBVIOUS
<1>3. /\ DOMAIN s = 1 .. m /\ DOMAIN t = 1 .. n /\ DOMAIN u = 1 .. m + n
      /\ \A i \in 1 .. m : u[i] = s[i]
  BY <1>1, <1>2
<1>4. \A i \in m + 1 .. m + n : u[i] = t[i - m] /\ i - m \in 1 .. n
  <2>1. ASSUME NEW i \in m + 1 .. m + n PROVE u[i] = t[i - m]
    BY <1>1, <1>2, SecondPart
  <2> QED
    BY <2>1
<1>5. ASSUME NEW i \in 1 .. m + n, NEW j \in 1 .. m + n, u[i] = u[j]
      PROVE  i = j
  <2>1. CASE i <= m /\ j <= m
    <3>1. i \in 1 .. m /\ j \in 1 .. m
      BY <2>1
    <3> QED
      BY <1>3, <1>5, <3>1 DEF IsInjective
  <2>2. CASE i > m /\ j > m
    <3>1. i \in m + 1 .. m + n /\ j \in m + 1 .. m + n
      BY <2>2
    <3>2. PICK a, b : a = i - m /\ b = j - m
      OBVIOUS
    <3>3. t[a] = t[b] /\ a \in DOMAIN t /\ b \in DOMAIN t
      BY <1>3, <1>4, <1>5, <3>1, <3>2
    <3>4. a = b
      BY <3>3 DEF IsInjective
    <3> QED
      BY <3>1, <3>2, <3>4
  <2>3. ASSUME NEW a \in 1 .. m, NEW b \in m + 1 .. m + n PROVE u[a] # u[b]
    <3>1. s[a] \in Range(s) /\ t[b - m] \in Range(t)
      BY <1>3, <1>4 DEF Range
    <3> QED
      BY <1>3, <1>4, <3>1
  <2>4. CASE i <= m /\ j > m
    <3>1. i \in 1 .. m /\ j \in m + 1 .. m + n
      BY <2>4
    <3> QED
      BY <1>5, <2>3, <3>1
  <2>5. CASE i > m /\ j <= m
    <3>1. j \in 1 .. m /\ i \in m + 1 .. m + n
      BY <2>5
    <3> QED
      BY <1>5, <2>3, <3>1
  <2> QED
    BY <2>1, <2>2, <2>4, <2>5
<1> QED
  BY <1>1, <1>3, <1>5 DEF IsInjective

LEMMA NonEmptyRange ==
  ASSUME NEW s \in Seq(1 .. NumPackets), s # <<>>
  PROVE  Range(s) # {}
<1>1. DOMAIN s = 1 .. Len(s) /\ Len(s) \in Nat /\ Len(s) # 0
  OBVIOUS
<1>2. 1 \in DOMAIN s
  BY <1>1
<1> QED
  BY <1>2 DEF Range

\* A number that is added is a sequence of one that is joined.
LEMMA JoinedOne ==
  ASSUME NEW s \in Seq(1 .. NumPackets), NEW i \in 1 .. NumPackets
  PROVE  /\ Append(s, i) = s \o <<i>> /\ Append(s, i) \in Seq(1 .. NumPackets)
         /\ <<i>> \in Seq(1 .. NumPackets) /\ Range(<<i>>) = {i}
         /\ Rising(<<i>>) /\ IsInjective(<<i>>)
         /\ Range(Append(s, i)) = Range(s) \union {i}
<1>1. Append(s, i) = s \o <<i>> /\ <<i>> \in Seq(1 .. NumPackets)
  OBVIOUS
<1>2. Range(<<i>>) = {i} /\ Rising(<<i>>) /\ IsInjective(<<i>>)
  BY DEF Range, Rising, IsInjective
<1>3. PICK S : S = 1 .. NumPackets
  OBVIOUS
<1>4. s \in Seq(S) /\ i \in S
  BY <1>3
<1>5. /\ Append(s, i) \in Seq(S)
      /\ Range(Append(s, i)) = Range(s) \union {i}
  BY ElementsAppended, <1>4
<1> QED
  BY <1>1, <1>2, <1>3, <1>5

-----------------------------------------------------------------------------
(* The paths.                                                              *)

\* Where the packets under way are, and how they are numbered.
LEMMA PacketsPlaced ==
  ASSUME TypesInv, PlacesInv
  PROVE  /\ \A p \in Paths : \A k \in On(p) : k \in Flight
         /\ \A k \in Flight : /\ k \in Packet /\ k.seq \in 1 .. sent
                             /\ k.seq \in InFlight /\ k.seq \in Undelivered
                             /\ \E p \in Paths : k \in On(p)
         /\ \A i \in InFlight : \E k \in Flight : i = k.seq
         /\ InFlight \subseteq 1 .. sent
         /\ Range(voq) \subseteq 1 .. sent /\ Range(out) \subseteq 1 .. sent
         /\ voq = <<>> => Range(voq) = {}
<1>1. \A p \in Paths : \A k \in On(p) : k \in Flight
  BY DEF Flight
<1>2. ASSUME NEW p \in Paths PROVE On(p) \subseteq Packet
  <2>1. wire[p] \in Seq(Packet)
    BY DEF TypesInv
  <2> QED
    BY <2>1, ElementsTyped DEF On
<1>3. \A k \in Flight : k \in Packet /\ \E p \in Paths : k \in On(p)
  BY <1>2 DEF Flight
<1>4. \A k \in Flight : k.seq \in InFlight
  BY DEF Flight, InFlight, OnPath, On
<1>5. \A i \in InFlight : \E k \in Flight : i = k.seq
  BY DEF Flight, InFlight, OnPath, On
<1>6. Undelivered \subseteq 1 .. sent /\ Range(out) \subseteq 1 .. sent
  BY DEF PlacesInv
<1>7. voq = <<>> => Range(voq) = {}
  BY DEF Range
<1> QED
  BY <1>1, <1>3, <1>4, <1>5, <1>6, <1>7 DEF Undelivered

LEMMA NothingLeft ==
  ASSUME TypesInv, PlacesInv, Undelivered = {}
  PROVE  Flight = {} /\ voq = <<>>
<1>1. Range(voq) = {} /\ InFlight = {}
  BY DEF Undelivered
<1>2. Flight = {}
  BY <1>1, PacketsPlaced
<1>3. voq = <<>>
  BY <1>1, NonEmptyRange DEF TypesInv
<1> QED
  BY <1>2, <1>3

\* A packet the source forwards goes behind all that is under way.
LEMMA Forwarded ==
  ASSUME TypesInv, PlacesInv, NEW path \in Paths, NEW k \in Packet,
         sent < NumPackets, k.seq = sent + 1, Forward(path, k)
  PROVE  /\ wire' \in [Paths -> Seq(Packet)]
         /\ sent' = sent + 1 /\ sent' \in 0 .. NumPackets
         /\ PlacesInv'
         /\ k \in On(path)'
         /\ \A p \in Paths : \A j \in On(p)' : j \in On(p) \/ (p = path /\ j = k)
         /\ Flight' = Flight \union {k}
         /\ Undelivered' = Undelivered \union {k.seq}
<1>1. wire \in [Paths -> Seq(Packet)] /\ sent \in 0 .. NumPackets
  BY DEF TypesInv
<1>2. wire' = [wire EXCEPT ![path] = Append(@, k)] /\ sent' = sent + 1
  BY DEF Forward
<1>3. /\ wire'[path] = Append(wire[path], k)
      /\ \A p \in Paths : p # path => wire'[p] = wire[p]
      /\ DOMAIN wire' = Paths /\ wire' = [p \in Paths |-> wire'[p]]
  BY <1>1, <1>2
<1>4. /\ Append(wire[path], k) \in Seq(Packet)
      /\ Range(Append(wire[path], k)) = On(path) \union {k}
  <2>1. PICK s : s = wire[path]
    OBVIOUS
  <2>2. s \in Seq(Packet)
    BY <1>1, <2>1
  <2>3. /\ Append(s, k) \in Seq(Packet)
        /\ Range(Append(s, k)) = Range(s) \union {k}
    BY ElementsAppended, <2>2
  <2> QED
    BY <2>1, <2>3 DEF On
<1>5. /\ On(path)' = On(path) \union {k}
      /\ \A p \in Paths : p # path => On(p)' = On(p)
  BY <1>3, <1>4 DEF On
<1>6. wire' \in [Paths -> Seq(Packet)]
  BY <1>1, <1>3, <1>4
<1>7. Flight' = Flight \union {k}
  BY <1>5 DEF Flight
<1>8. InFlight' = InFlight \union {k.seq}
  <2>1. InFlight' = {j.seq : j \in Flight'} /\ InFlight = {j.seq : j \in Flight}
    BY DEF InFlight, Flight, OnPath, On
  <2> QED
    BY <2>1, <1>7
<1>9. voq' = voq /\ out' = out /\ lost' = lost
  BY DEF Forward, rxVars
<1>10. Undelivered' = Undelivered \union {k.seq}
  BY <1>8, <1>9 DEF Undelivered
<1>11. sent' \in 0 .. NumPackets
  BY <1>1, <1>2, ConWeaveAssumption
<1>12. PlacesInv'
  <2>1. \A p \in Paths : Ordered(wire'[p])
    <3>1. \A j \in On(path) : j.seq < k.seq
      BY <1>1, PacketsPlaced
    <3>2. PICK s : s = wire[path]
      OBVIOUS
    <3>3. s \in Seq(Packet) /\ Ordered(s) /\ \A j \in Range(s) : j.seq < k.seq
      BY <1>1, <3>1, <3>2 DEF PlacesInv, On
    <3>4. Ordered(Append(s, k))
      BY OrderedAppend, <3>3
    <3> QED
      BY <1>3, <3>2, <3>4 DEF PlacesInv
  <2>2. ASSUME NEW p \in Paths, NEW q \in Paths,
               NEW i \in On(p)', NEW j \in On(q)', i.seq = j.seq
        PROVE  p = q
    <3>1. \A r \in Paths : \A l \in On(r) : l.seq \in 1 .. sent
      BY PacketsPlaced
    <3>2. k.seq \notin 1 .. sent
      BY <1>1
    <3>3. CASE i \in On(p) /\ j \in On(q)
      BY <2>2, <3>3 DEF PlacesInv
    <3>4. CASE ~ (i \in On(p) /\ j \in On(q))
      BY <1>5, <2>2, <3>1, <3>2, <3>4
    <3> QED
      BY <3>3, <3>4
  <2>3. InFlight' \intersect (Range(out') \union Range(voq')) = {}
    <3>1. k.seq \notin Range(out) \union Range(voq)
      BY <1>1, PacketsPlaced
    <3> QED
      BY <1>8, <1>9, <3>1 DEF PlacesInv
  <2>4. 1 .. sent' = (1 .. sent) \union {k.seq}
    BY <1>1, <1>2
  <2>5. 1 .. sent' = Range(out') \union Undelivered' \union lost'
    BY <1>9, <1>10, <2>4 DEF PlacesInv
  <2> QED
    BY <1>9, <2>1, <2>2, <2>3, <2>5 DEF PlacesInv
<1> QED
  BY <1>2, <1>5, <1>6, <1>7, <1>10, <1>11, <1>12

\* A packet that leaves its path was the first one on it.
LEMMA Taken ==
  ASSUME TypesInv, PlacesInv, NEW path \in Paths, wire[path] # <<>>,
         wire' = [wire EXCEPT ![path] = Tail(@)], NEW k, k = Head(wire[path])
  PROVE  /\ wire' \in [Paths -> Seq(Packet)]
         /\ k \in Packet /\ k \in On(path) /\ k \in Flight
         /\ \A p \in Paths : On(p)' \subseteq On(p)
         /\ \A j \in On(path)' : k.seq < j.seq
         /\ Flight' = Flight \ {k}
         /\ InFlight' = InFlight \ {k.seq}
         /\ \A p \in Paths : Ordered(wire'[p])
         /\ \A p, q \in Paths : \A i \in On(p)', j \in On(q)' :
              i.seq = j.seq => p = q
<1>1. wire \in [Paths -> Seq(Packet)]
  BY DEF TypesInv
<1>2. /\ wire'[path] = Tail(wire[path])
      /\ \A p \in Paths : p # path => wire'[p] = wire[p]
      /\ DOMAIN wire' = Paths /\ wire' = [p \in Paths |-> wire'[p]]
  BY <1>1
<1>3. PICK s : s = wire[path]
  OBVIOUS
<1>4. s \in Seq(Packet) /\ s # <<>> /\ Ordered(s) /\ k = Head(s)
  BY <1>1, <1>3 DEF PlacesInv
<1>5. /\ k \in Packet /\ Tail(s) \in Seq(Packet) /\ Ordered(Tail(s))
      /\ k \notin Range(Tail(s))
      /\ Range(s) = Range(Tail(s)) \union {k}
      /\ \A j \in Range(Tail(s)) : k.seq < j.seq
  BY OrderedTail, <1>4
<1>6. /\ On(path)' = On(path) \ {k} /\ k \in On(path)
      /\ \A p \in Paths : p # path => On(p)' = On(p)
      /\ \A j \in On(path)' : k.seq < j.seq
  BY <1>2, <1>3, <1>5 DEF On
<1>7. wire' \in [Paths -> Seq(Packet)]
  BY <1>1, <1>2, <1>3, <1>5
<1>8. \A p \in Paths : On(p)' \subseteq On(p)
  BY <1>6
<1>9. \A p \in Paths : p # path => \A j \in On(p) : j.seq # k.seq
  BY <1>6 DEF PlacesInv
<1>10. Flight' = Flight \ {k}
  BY <1>6, <1>9 DEF Flight
<1>11. InFlight' = InFlight \ {k.seq}
  <2>1. InFlight' = {j.seq : j \in Flight'} /\ InFlight = {j.seq : j \in Flight}
    BY DEF InFlight, Flight, OnPath, On
  <2>2. ASSUME NEW j \in Flight' PROVE j.seq # k.seq
    <3>1. PICK p \in Paths : j \in On(p)'
      BY DEF Flight
    <3>2. CASE p = path
      <4>1. k.seq < j.seq /\ k.seq \in Int
        BY <1>5, <1>6, <3>1, <3>2 DEF Packet
      <4> QED
        BY <4>1
    <3> QED
      BY <1>6, <1>9, <3>1, <3>2
  <2> QED
    BY <1>10, <2>1, <2>2
<1>12. \A p \in Paths : Ordered(wire'[p])
  BY <1>2, <1>3, <1>5 DEF PlacesInv
<1>13. ASSUME NEW p \in Paths, NEW q \in Paths, NEW i \in On(p)', NEW j \in On(q)',
              i.seq = j.seq
       PROVE  p = q
  BY <1>8, <1>13 DEF PlacesInv
<1> QED
  BY <1>5, <1>6, <1>7, <1>8, <1>10, <1>11, <1>12, <1>13 DEF Flight

LEMMA Numbers ==
  ASSUME TypesInv
  PROVE  /\ tx.epoch \in Nat /\ tx.phase \in {0, 1} /\ tx.tail \in Nat
         /\ rx.epoch \in Nat \ {0} /\ rx.phase \in {0, 1} /\ rx.phase0 \in Nat
         /\ sent \in Nat /\ Range(voq) \subseteq Nat /\ Range(out) \subseteq Nat
         /\ \A k \in Packet : /\ k.seq \in Nat /\ k.epoch \in Nat
                             /\ k.phase \in {0, 1} /\ k.tail \in Nat
                             /\ k.flag \in {"INIT", "TAIL", "DATA"}
         /\ \A r \in Range(replies) : r \in Reply /\ r.epoch \in Nat
<1>1. /\ tx.epoch \in Nat /\ tx.phase \in {0, 1} /\ tx.tail \in Nat
      /\ rx.epoch \in Nat \ {0} /\ rx.phase \in {0, 1} /\ rx.phase0 \in Nat
      /\ sent \in Nat
  BY ConWeaveAssumption DEF TypesInv, TxType, RxType
<1>2. \A k \in Packet : /\ k.seq \in Nat /\ k.epoch \in Nat
                      /\ k.phase \in {0, 1} /\ k.tail \in Nat
                      /\ k.flag \in {"INIT", "TAIL", "DATA"}
  BY ConWeaveAssumption DEF Packet, Flags
<1>3. Range(voq) \subseteq 1 .. NumPackets /\ Range(out) \subseteq 1 .. NumPackets
  <2>1. PICK S : S = 1 .. NumPackets
    OBVIOUS
  <2>2. voq \in Seq(S) /\ out \in Seq(S)
    BY <2>1 DEF TypesInv
  <2> QED
    BY <2>1, <2>2, ElementsTyped
<1>4. \A r \in Range(replies) : r \in Reply
  BY DEF TypesInv, Range
<1> QED
  BY <1>1, <1>2, <1>3, <1>4 DEF Reply

\* The first packet on a path precedes all that is not delivered yet, unless
\* it has overtaken the rest of its epoch.
LEMMA HeadIsNext ==
  ASSUME TypesInv, PlacesInv, Calm, NEW path \in Paths, wire[path] # <<>>,
         wire' = [wire EXCEPT ![path] = Tail(@)], NEW k, k = Head(wire[path]),
         tx.phase = 0 \/ k.seq <= tx.tail \/ (PastTail /\ voq = <<>>)
  PROVE  /\ \A j \in Flight' : k.seq < j.seq
         /\ \A j \in Range(voq) : k.seq < j
<1>1. /\ k \in Packet /\ k \in On(path) /\ k \in Flight
      /\ \A p \in Paths : On(p)' \subseteq On(p)
      /\ \A j \in On(path)' : k.seq < j.seq
  BY Taken
<1>2. /\ tx.phase \in {0, 1} /\ tx.tail \in Nat /\ k.seq \in Nat
      /\ \A j \in Flight : j.seq \in Nat
      /\ \A p \in Paths : \A j \in On(p) : j \in Flight
      /\ Range(voq) \subseteq Nat
      /\ voq = <<>> => Range(voq) = {}
  BY <1>1, Numbers, PacketsPlaced
<1>3. ASSUME NEW j \in Flight' PROVE k.seq < j.seq
  <2>1. PICK p \in Paths : j \in On(p)'
    BY DEF Flight
  <2>2. CASE p = path
    BY <1>1, <2>1, <2>2
  <2>3. CASE p # path
    <3>1. j \in On(p) /\ j \in Flight
      BY <1>1, <1>2, <2>1
    <3>2. tx.phase = 1
      BY <1>1, <1>2, <2>3, <3>1 DEF Calm, PathsCalm
    <3>3. PICK old \in Paths : \A q \in Paths : \A i \in On(q) :
            /\ i.seq <= tx.tail => q = old
            /\ i.seq > tx.tail => q = tx.path
      BY <3>2 DEF Calm, PathsCalm, OneOldPath
    <3>4. CASE k.seq <= tx.tail
      BY <1>1, <1>2, <2>3, <3>1, <3>3, <3>4
    <3>5. CASE PastTail
      BY <1>1, <1>2, <2>3, <3>1, <3>3, <3>5 DEF PastTail
    <3> QED
      BY <3>2, <3>4, <3>5
  <2> QED
    BY <2>2, <2>3
<1>4. ASSUME NEW j \in Range(voq) PROVE k.seq < j
  <2>1. voq # <<>>
    BY <1>2
  <2>2. tx.phase = 1 /\ j > tx.tail
    BY <2>1 DEF Calm, QueueCalm
  <2> QED
    BY <1>2, <2>1, <2>2
<1> QED
  BY <1>3, <1>4

-----------------------------------------------------------------------------
(* The source forwards a packet.                                           *)

\* What a step that starts an epoch does.
LEMMA EpochStarted ==
  ASSUME ConWeaveInv, sent < NumPackets, NEW path \in Paths, StartEpoch(path)
  PROVE  \E k \in Packet :
           /\ k.seq = sent + 1 /\ k.epoch = tx.epoch + 1
           /\ k.phase = 0 /\ k.flag = "INIT"
           /\ tx' \in TxType /\ tx'.known /\ ~ tx'.quiet /\ ~ tx'.stabilized
           /\ tx'.epoch = tx.epoch + 1 /\ tx'.phase = 0 /\ tx'.path = path
           /\ tx'.tail = 0
           /\ wire' \in [Paths -> Seq(Packet)] /\ sent' = sent + 1
           /\ sent' \in 0 .. NumPackets /\ PlacesInv'
           /\ k \in On(path)'
           /\ \A p \in Paths : \A j \in On(p)' : j \in On(p) \/ (p = path /\ j = k)
           /\ Flight' = Flight \union {k}
           /\ Undelivered' = Undelivered \union {k.seq}
           /\ rx' = rx /\ voq' = voq /\ flushNow' = flushNow /\ out' = out
           /\ replies' = replies
<1> PICK k : k = [seq |-> sent + 1, epoch |-> tx.epoch + 1, phase |-> 0,
                  flag |-> "INIT", tail |-> 0]
  OBVIOUS
<1>1. /\ tx.epoch \in Nat /\ tx.epoch <= sent /\ sent \in Nat
      /\ NumPackets \in Nat /\ sent < NumPackets
  BY Numbers, ConWeaveAssumption DEF ConWeaveInv, SourceInv
<1>2. /\ k \in Packet /\ k.seq = sent + 1 /\ k.epoch = tx.epoch + 1
      /\ k.phase = 0 /\ k.flag = "INIT" /\ Forward(path, k)
  BY <1>1 DEF StartEpoch, Packet, Flags
<1>3. /\ tx' \in TxType /\ tx'.known /\ ~ tx'.quiet /\ ~ tx'.stabilized
      /\ tx'.epoch = tx.epoch + 1 /\ tx'.phase = 0 /\ tx'.path = path
      /\ tx'.tail = 0
  <2>1. tx.epoch + 1 \in 0 .. NumPackets /\ 0 \in 0 .. NumPackets
    BY <1>1
  <2>2. tx \in TxType
    BY DEF ConWeaveInv, TypesInv
  <2>3. tx' = [known |-> TRUE, quiet |-> FALSE, stabilized |-> FALSE,
               epoch |-> tx.epoch + 1, phase |-> 0, path |-> path,
               timer |-> "armed", tail |-> 0]
    BY <2>2 DEF StartEpoch, TxType
  <2>4. tx' \in TxType
    BY <2>1, <2>3 DEF TxType
  <2> QED
    BY <2>3, <2>4
<1>4. /\ wire' \in [Paths -> Seq(Packet)] /\ sent' = sent + 1
      /\ sent' \in 0 .. NumPackets /\ PlacesInv'
      /\ k \in On(path)'
      /\ \A p \in Paths : \A j \in On(p)' : j \in On(p) \/ (p = path /\ j = k)
      /\ Flight' = Flight \union {k}
      /\ Undelivered' = Undelivered \union {k.seq}
  BY <1>2, Forwarded DEF ConWeaveInv
<1>5. /\ rx' = rx /\ voq' = voq /\ flushNow' = flushNow /\ out' = out
      /\ replies' = replies
  BY <1>2 DEF Forward, rxVars
<1> QED
  BY <1>2, <1>3, <1>4, <1>5

\* A new epoch: no packet and no reply is of it yet.
LEMMA StartEpochAlways ==
  ASSUME ConWeaveInv, sent < NumPackets, NEW path \in Paths, StartEpoch(path)
  PROVE  (TypesInv /\ PlacesInv /\ SourceInv /\ EpochsInv /\ QueueInv)'
<1>1. /\ tx.epoch \in Nat /\ tx.epoch <= sent /\ sent \in Nat
      /\ NumPackets \in Nat /\ sent < NumPackets
  BY Numbers, ConWeaveAssumption DEF ConWeaveInv, SourceInv
<1>2. PICK k \in Packet :
        /\ k.seq = sent + 1 /\ k.epoch = tx.epoch + 1
        /\ k.phase = 0 /\ k.flag = "INIT"
        /\ tx' \in TxType /\ tx'.known
        /\ tx'.epoch = tx.epoch + 1 /\ tx'.phase = 0 /\ tx'.path = path
        /\ tx'.tail = 0
        /\ wire' \in [Paths -> Seq(Packet)] /\ sent' = sent + 1
        /\ sent' \in 0 .. NumPackets /\ PlacesInv'
        /\ k \in On(path)'
        /\ \A p \in Paths : \A j \in On(p)' : j \in On(p) \/ (p = path /\ j = k)
        /\ Flight' = Flight \union {k}
        /\ rx' = rx /\ voq' = voq /\ flushNow' = flushNow /\ out' = out
        /\ replies' = replies
  BY EpochStarted
<1>3. TypesInv'
  BY <1>2 DEF ConWeaveInv, TypesInv
<1>4. /\ \A j \in Flight :
           /\ j.epoch \in Nat /\ j.epoch <= tx.epoch
           /\ j.phase = 1 => j.flag = "DATA"
           /\ j.flag = "TAIL" => j.tail = j.seq
      /\ \A r \in Range(replies) : r.epoch \in Nat /\ r.epoch <= tx.epoch
      /\ \A p \in Paths : \A j \in On(p) : j \in Flight
  BY Numbers, PacketsPlaced DEF ConWeaveInv, SourceInv
<1>5. SourceInv'
  <2>1. rx.phase0 \in Nat /\ rx.phase0 <= sent
    BY Numbers DEF ConWeaveInv, SourceInv
  <2>2. \A j \in Flight' :
          /\ j.epoch <= tx'.epoch
          /\ j.phase = 1 => j.flag = "DATA"
          /\ j.flag = "TAIL" => j.tail = j.seq
    BY <1>1, <1>2, <1>4
  <2>3. \A r \in Range(replies) : r.epoch <= tx'.epoch
    BY <1>1, <1>2, <1>4
  <2> QED
    BY <1>1, <1>2, <2>1, <2>2, <2>3 DEF SourceInv
<1>6. EpochsInv'
  <2>1. \A j \in Flight' : j.epoch = k.epoch => j = k
    BY <1>1, <1>2, <1>4
  <2>2. /\ \A i, j \in Flight' : i.phase = 0 /\ j.phase = 1 /\ i.epoch = j.epoch
                               => i.seq <= j.tail
        /\ \A i, j \in Flight' : i.phase = 0 /\ j.flag = "TAIL" /\ i.epoch = j.epoch
                               => i.seq <= j.seq
    BY <1>2, <2>1 DEF ConWeaveInv, EpochsInv
  <2>3. ASSUME NEW p \in Paths, NEW q \in Paths, NEW i \in On(p)', NEW j \in On(q)',
               i.phase = 0, j.phase = 0, i.epoch = j.epoch
        PROVE  p = q
    BY <1>1, <1>2, <1>4, <2>3 DEF ConWeaveInv, EpochsInv
  <2>4. ASSUME NEW p \in Paths, NEW j \in On(p)', j.epoch = tx'.epoch
        PROVE  p = path /\ j = k
    BY <1>1, <1>2, <1>4, <2>4
  <2>5. rx.cache => \A j \in Flight' :
          j.phase = 1 /\ j.epoch = rx.epoch => rx.phase0 <= j.tail
    BY <1>2 DEF ConWeaveInv, EpochsInv
  <2> QED
    BY <1>2, <2>2, <2>3, <2>4, <2>5 DEF EpochsInv
<1>7. QueueInv'
  <2>1. rx.phase = 1 /\ rx.reordering =>
          /\ flushNow /\ rx.epoch \in Nat /\ rx.epoch <= tx.epoch
          /\ \A j \in Flight : j.epoch = rx.epoch => j.phase = 1
    BY Numbers DEF ConWeaveInv, QueueInv
  <2> QED
    BY <1>1, <1>2, <2>1 DEF ConWeaveInv, QueueInv
<1> QED
  BY <1>2, <1>3, <1>5, <1>6, <1>7

LEMMA StartEpochCalm ==
  ASSUME ConWeaveInv, sent < NumPackets, NEW path \in Paths, StartEpoch(path),
         Calm, \A p \in Paths : \A j \in On(p) : p = path,
         \A j \in Flight : j.flag # "TAIL",
         \A j \in Flight : j.phase = 1 =>
           rx.epoch >= j.epoch /\ (rx.epoch = j.epoch => rx.phase = 1),
         voq = <<>>, tx.known \/ ~ rx.known
  PROVE  Calm'
<1>1. PICK k \in Packet :
        /\ k.seq = sent + 1 /\ k.phase = 0 /\ k.flag = "INIT"
        /\ ~ tx'.quiet /\ ~ tx'.stabilized
        /\ tx'.epoch = tx.epoch + 1 /\ tx'.phase = 0 /\ tx'.path = path
        /\ \A p \in Paths : \A j \in On(p)' : j \in On(p) \/ (p = path /\ j = k)
        /\ Flight' = Flight \union {k}
        /\ Undelivered' = Undelivered \union {k.seq}
        /\ rx' = rx /\ voq' = voq /\ flushNow' = flushNow /\ out' = out
        /\ replies' = replies
  BY EpochStarted
<1>2. /\ tx.epoch \in Nat /\ rx.epoch \in Nat \ {0}
      /\ sent \in Nat /\ Range(out) \subseteq 1 .. sent
      /\ \A r \in Range(replies) : r.epoch \in Nat /\ r.epoch <= tx.epoch
  BY Numbers, PacketsPlaced DEF ConWeaveInv, SourceInv
<1>3. PathsCalm'
  BY <1>1 DEF PathsCalm
<1>4. rx.epoch <= tx.epoch \/ (rx.epoch = 1 /\ rx.phase = 0)
  BY DEF Calm, EndsAgree, ConWeaveInv, QueueInv, NewRx
<1>5. EndsAgree'
  BY <1>1, <1>2, <1>4 DEF EndsAgree
<1>6. QueueCalm'
  BY <1>1 DEF ConWeaveInv, QueueInv, QueueCalm, Rising
<1>7. OutCalm'
  BY <1>1, <1>2 DEF Calm, OutCalm
<1> QED
  BY <1>3, <1>5, <1>6, <1>7 DEF Calm

LEMMA SendExpiredKeeps ==
  ASSUME ConWeaveInv, sent < NumPackets, SendExpired
  PROVE  ConWeaveInv'
<1>1. PICK path \in Paths : StartEpoch(path)
  BY DEF SendExpired
<1>2. ASSUME excuse' = {} PROVE Calm'
  <2>1. excuse = {} /\ Undelivered = {} /\ (tx.known \/ ~ rx.known)
    BY <1>2 DEF SendExpired
  <2>2. Flight = {} /\ voq = <<>>
    BY <2>1, NothingLeft DEF ConWeaveInv
  <2>3. \A p \in Paths : \A j \in On(p) : p = path
    BY <2>2 DEF Flight
  <2> QED
    BY <1>1, <2>1, <2>2, <2>3, StartEpochCalm DEF ConWeaveInv
<1> QED
  BY <1>1, <1>2, StartEpochAlways DEF ConWeaveInv

LEMMA SendStabilizedKeeps ==
  ASSUME ConWeaveInv, sent < NumPackets, SendStabilized
  PROVE  ConWeaveInv'
<1>1. ~ tx.quiet /\ tx.stabilized /\ StartEpoch(tx.path) /\ excuse' = excuse
  BY DEF SendStabilized
<1>2. tx.known /\ tx.path \in Paths
  BY <1>1 DEF ConWeaveInv, SourceInv, NewTx
<1>3. ASSUME excuse' = {} PROVE Calm'
  <2>1. Calm
    BY <1>1, <1>3 DEF ConWeaveInv
  <2>2. tx.phase \in {0, 1} /\ tx.tail \in Nat /\ \A k \in Flight : k.seq \in Nat
    BY Numbers, PacketsPlaced DEF ConWeaveInv
  <2>3. CASE tx.phase = 0
    <3>1. voq = <<>>
      BY <2>1, <2>3 DEF Calm, QueueCalm
    <3>2. \A p \in Paths : \A j \in On(p) : p = tx.path
      BY <2>1, <2>3 DEF Calm, PathsCalm
    <3>3. \A j \in Flight : j.flag # "TAIL"
      BY <2>1, <2>3 DEF Calm, PathsCalm
    <3>4. \A j \in Flight : j.phase = 1 =>
            rx.epoch >= j.epoch /\ (rx.epoch = j.epoch => rx.phase = 1)
      BY <2>1, <2>3 DEF Calm, EndsAgree
    <3> QED
      BY <1>1, <1>2, <2>1, <3>1, <3>2, <3>3, <3>4, StartEpochCalm
  <2>4. CASE tx.phase = 1
    <3>1. rx.epoch = tx.epoch /\ rx.phase = 1 /\ PastTail /\ voq = <<>>
      BY <1>1, <1>2, <2>1, <2>4 DEF Calm, EndsAgree
    <3>2. \A p \in Paths : \A j \in On(p) :
            p = tx.path /\ j.phase = 1 /\ j.epoch = tx.epoch
      BY <2>1, <2>4, <3>1 DEF Calm, PathsCalm, OneOldPath, PastTail, Flight
    <3>3. \A j \in Flight : j.flag # "TAIL"
      BY <2>1, <2>2, <3>1 DEF Calm, PathsCalm, PastTail
    <3>4. \A j \in Flight : j.epoch = tx.epoch
      BY <3>2 DEF Flight
    <3>5. \A j \in Flight : rx.epoch >= j.epoch /\ (rx.epoch = j.epoch => rx.phase = 1)
      <4>1. rx.epoch \in Nat
        BY Numbers DEF ConWeaveInv
      <4> QED
        BY <3>1, <3>4, <4>1
    <3> QED
      BY <1>1, <1>2, <2>1, <3>1, <3>2, <3>3, <3>5, StartEpochCalm
  <2> QED
    BY <2>2, <2>3, <2>4
<1> QED
  BY <1>1, <1>2, <1>3, StartEpochAlways DEF ConWeaveInv

\* The TAIL is the first packet of the new phase to be sent, and the last one
\* on the old path.
LEMMA SendTailKeeps ==
  ASSUME ConWeaveInv, sent < NumPackets, SendTail
  PROVE  ConWeaveInv'
<1>1. PICK path \in Paths :
        /\ tx' = Rerouted(path)
        /\ Forward(tx.path, [seq |-> sent + 1, epoch |-> tx.epoch, phase |-> 0,
                             flag |-> "TAIL", tail |-> sent + 1])
  BY DEF SendTail, TailPath
<1>2. /\ tx.known /\ tx.path \in Paths /\ tx.epoch >= 1 /\ tx.phase = 0
      /\ tx.epoch \in Nat /\ tx.epoch <= sent /\ sent \in Nat
      /\ NumPackets \in Nat /\ sent < NumPackets
      /\ ~ tx.stabilized /\ excuse' = excuse
  BY Numbers, ConWeaveAssumption DEF ConWeaveInv, SourceInv, SendTail, NewTx
<1>3. PICK k : k = [seq |-> sent + 1, epoch |-> tx.epoch, phase |-> 0,
                    flag |-> "TAIL", tail |-> sent + 1]
  OBVIOUS
<1>4. /\ k \in Packet /\ k.seq = sent + 1 /\ k.epoch = tx.epoch
      /\ k.phase = 0 /\ k.flag = "TAIL" /\ k.tail = sent + 1
      /\ Forward(tx.path, k)
  BY <1>1, <1>2, <1>3 DEF Packet, Flags
<1>5. /\ wire' \in [Paths -> Seq(Packet)] /\ sent' = sent + 1
      /\ sent' \in 0 .. NumPackets /\ PlacesInv'
      /\ \A p \in Paths : \A j \in On(p)' : j \in On(p) \/ (p = tx.path /\ j = k)
      /\ Flight' = Flight \union {k}
      /\ Undelivered' = Undelivered \union {k.seq}
  BY <1>2, <1>4, Forwarded DEF ConWeaveInv
<1>6. /\ rx' = rx /\ voq' = voq /\ flushNow' = flushNow /\ out' = out
      /\ replies' = replies
  BY <1>4 DEF Forward, rxVars
<1>7. /\ tx' \in TxType /\ tx'.known = tx.known /\ tx'.epoch = tx.epoch
      /\ ~ tx'.stabilized /\ tx'.phase = 1 /\ tx'.path = path
      /\ tx'.timer = "off" /\ tx'.tail = sent + 1
  <2>1. sent + 1 \in 0 .. NumPackets
    BY <1>2
  <2>2. tx \in TxType
    BY DEF ConWeaveInv, TypesInv
  <2>3. tx' = [known |-> tx.known, quiet |-> tx.quiet, stabilized |-> tx.stabilized,
               epoch |-> tx.epoch, phase |-> 1, path |-> path,
               timer |-> "off", tail |-> sent + 1]
    BY <1>1, <2>2 DEF Rerouted, TxType
  <2>4. tx' \in TxType
    BY <2>1, <2>2, <2>3 DEF TxType
  <2> QED
    BY <1>2, <2>3, <2>4
<1>8. TypesInv'
  BY <1>5, <1>6, <1>7 DEF ConWeaveInv, TypesInv
<1>9. /\ \A j \in Flight :
           /\ j \in Packet /\ j.seq \in 1 .. sent
           /\ j.epoch \in Nat /\ j.epoch <= tx.epoch
           /\ j.phase = 1 => j.flag = "DATA"
           /\ j.flag = "TAIL" => j.tail = j.seq
      /\ \A p \in Paths : \A j \in On(p) : j \in Flight
  BY Numbers, PacketsPlaced DEF ConWeaveInv, SourceInv
<1>10. /\ \A j \in Flight : j.epoch = tx.epoch => j.phase = 0 /\ j.flag # "TAIL"
       /\ \A p \in Paths : \A j \in On(p) : j.epoch = tx.epoch => p = tx.path
  <2>1. \A p \in Paths : \A j \in On(p) : j.epoch = tx.epoch =>
          j.phase = 0 /\ j.flag # "TAIL" /\ p = tx.path
    BY <1>2, <1>9, Numbers DEF ConWeaveInv, EpochsInv
  <2> QED
    BY <2>1 DEF Flight
<1>11. rx.phase0 \in Nat /\ rx.phase0 <= sent
  BY Numbers DEF ConWeaveInv, SourceInv
<1>12. SourceInv'
  <2>1. \A j \in Flight' :
          /\ j.epoch <= tx'.epoch
          /\ j.phase = 1 => j.flag = "DATA"
          /\ j.flag = "TAIL" => j.tail = j.seq
    BY <1>2, <1>4, <1>5, <1>7, <1>9
  <2> QED
    BY <1>2, <1>5, <1>6, <1>7, <1>11, <2>1 DEF ConWeaveInv, SourceInv
<1>13. EpochsInv'
  <2>1. \A i, j \in Flight' : i.phase = 0 /\ j.phase = 1 /\ i.epoch = j.epoch
                              => i.seq <= j.tail
    BY <1>4, <1>5, <1>10 DEF ConWeaveInv, EpochsInv
  <2>2. \A i, j \in Flight' : i.phase = 0 /\ j.flag = "TAIL" /\ i.epoch = j.epoch
                              => i.seq <= j.seq
    BY <1>2, <1>4, <1>5, <1>9, <1>10 DEF ConWeaveInv, EpochsInv
  <2>3. ASSUME NEW p \in Paths, NEW q \in Paths, NEW i \in On(p)', NEW j \in On(q)',
               i.phase = 0, j.phase = 0, i.epoch = j.epoch
        PROVE  p = q
    BY <1>4, <1>5, <1>10, <2>3 DEF ConWeaveInv, EpochsInv
  <2>4. ASSUME NEW p \in Paths, NEW j \in On(p)', j.epoch = tx'.epoch
        PROVE  j.phase = 0 /\ j.seq <= tx'.tail
    BY <1>2, <1>4, <1>5, <1>7, <1>9, <1>10, <2>4
  <2>5. rx.cache => \A j \in Flight' :
          j.phase = 1 /\ j.epoch = rx.epoch => rx.phase0 <= j.tail
    BY <1>4, <1>5 DEF ConWeaveInv, EpochsInv
  <2>6. rx.phase0 <= tx'.tail
    BY <1>2, <1>7, <1>11
  <2> QED
    BY <1>6, <1>7, <2>1, <2>2, <2>3, <2>4, <2>5, <2>6 DEF EpochsInv
<1>14. QueueInv'
  <2>1. rx.phase = 1 /\ rx.reordering =>
          /\ flushNow /\ rx.epoch <= tx.epoch /\ tx.epoch # rx.epoch
          /\ \A j \in Flight : j.epoch = rx.epoch => j.phase = 1
    BY <1>2 DEF ConWeaveInv, QueueInv
  <2> QED
    BY <1>4, <1>5, <1>6, <1>7, <2>1 DEF ConWeaveInv, QueueInv
<1>15. ASSUME excuse' = {} PROVE Calm'
  <2>1. Calm
    BY <1>2, <1>15 DEF ConWeaveInv
  <2>2. voq = <<>> /\ ~ flushNow
    BY <1>2, <2>1 DEF Calm, QueueCalm, ConWeaveInv, QueueInv
  <2>3. \A p \in Paths : \A j \in On(p)' :
          p = tx.path /\ j.seq \in Nat /\ j.seq <= tx'.tail
    BY <1>2, <1>4, <1>5, <1>7, <1>9, <2>1 DEF Calm, PathsCalm
  <2>4. PathsCalm'
    <3>1. OneOldPath'
      BY <1>2, <1>7, <2>3 DEF OneOldPath
    <3>2. \A j \in Flight' : j.flag = "TAIL" => j = k
      BY <1>2, <1>5, <2>1 DEF Calm, PathsCalm
    <3> QED
      BY <1>4, <1>7, <3>1, <3>2 DEF PathsCalm
  <2>5. EndsAgree'
    <3>1. ~ (rx.phase = 1 /\ rx.epoch = tx.epoch)
      BY <1>2, <2>1 DEF Calm, EndsAgree
    <3>2. \A j \in Flight' : j.phase = 1 =>
            rx.epoch >= j.epoch /\ (rx.epoch = j.epoch => rx.phase = 1)
      BY <1>2, <1>4, <1>5, <2>1 DEF Calm, EndsAgree
    <3>3. rx.epoch <= tx.epoch
      BY <1>2, <2>1 DEF Calm, EndsAgree
    <3>4. \A r \in Range(replies) : r.flag = "TAIL" /\ r.epoch = tx.epoch =>
            rx.epoch = tx.epoch /\ (rx.phase = 1 \/ flushNow)
      BY <2>1 DEF Calm, EndsAgree
    <3> QED
      BY <1>2, <1>6, <1>7, <3>1, <3>2, <3>3, <3>4 DEF EndsAgree
  <2>6. QueueCalm'
    BY <1>6, <2>2 DEF QueueCalm, Rising
  <2>7. OutCalm'
    <3>1. Range(out) \subseteq 1 .. sent
      BY PacketsPlaced DEF ConWeaveInv
    <3> QED
      BY <1>2, <1>4, <1>5, <1>6, <2>1, <3>1 DEF Calm, OutCalm
  <2> QED
    BY <2>4, <2>5, <2>6, <2>7 DEF Calm
<1> QED
  BY <1>5, <1>8, <1>12, <1>13, <1>14, <1>15 DEF ConWeaveInv

LEMMA SendDataKeeps ==
  ASSUME ConWeaveInv, sent < NumPackets, SendData
  PROVE  ConWeaveInv'
<1>1. /\ tx.known /\ tx.path \in Paths /\ tx.epoch >= 1 /\ tx.phase \in {0, 1}
      /\ tx.epoch \in Nat /\ tx.epoch <= sent /\ sent \in Nat
      /\ tx.tail \in Nat /\ tx.tail <= sent
      /\ NumPackets \in Nat /\ sent < NumPackets
      /\ ~ tx.stabilized /\ excuse' = excuse /\ tx' = tx
  BY Numbers, ConWeaveAssumption DEF ConWeaveInv, SourceInv, SendData, NewTx
<1>2. PICK k : k = [seq |-> sent + 1, epoch |-> tx.epoch, phase |-> tx.phase,
                    flag |-> "DATA", tail |-> tx.tail]
  OBVIOUS
<1>3. /\ k \in Packet /\ k.seq = sent + 1 /\ k.epoch = tx.epoch
      /\ k.phase = tx.phase /\ k.flag = "DATA" /\ k.tail = tx.tail
      /\ Forward(tx.path, k)
  BY <1>1, <1>2 DEF SendData, Packet, Flags
<1>4. /\ wire' \in [Paths -> Seq(Packet)] /\ sent' = sent + 1
      /\ sent' \in 0 .. NumPackets /\ PlacesInv'
      /\ \A p \in Paths : \A j \in On(p)' : j \in On(p) \/ (p = tx.path /\ j = k)
      /\ Flight' = Flight \union {k}
      /\ Undelivered' = Undelivered \union {k.seq}
  BY <1>1, <1>3, Forwarded DEF ConWeaveInv
<1>5. /\ rx' = rx /\ voq' = voq /\ flushNow' = flushNow /\ out' = out
      /\ replies' = replies
  BY <1>3 DEF Forward, rxVars
<1>6. TypesInv'
  BY <1>1, <1>4, <1>5 DEF ConWeaveInv, TypesInv
<1>7. /\ \A j \in Flight :
           /\ j \in Packet /\ j.seq \in 1 .. sent
           /\ j.epoch \in Nat /\ j.epoch <= tx.epoch
           /\ j.phase = 1 => j.flag = "DATA"
           /\ j.flag = "TAIL" => j.tail = j.seq
      /\ \A p \in Paths : \A j \in On(p) : j \in Flight
  BY Numbers, PacketsPlaced DEF ConWeaveInv, SourceInv
<1>8. \A p \in Paths : \A j \in On(p) : j.epoch = tx.epoch =>
        /\ j.phase = 1 => tx.phase = 1 /\ j.tail = tx.tail
        /\ j.flag = "TAIL" => tx.phase = 1
        /\ j.phase = 0 /\ tx.phase = 1 => j.seq <= tx.tail
        /\ j.phase = 0 /\ tx.phase = 0 => p = tx.path
  BY DEF ConWeaveInv, EpochsInv
<1>9. \A j \in Flight : j.epoch = tx.epoch =>
        /\ j.phase = 1 => tx.phase = 1
        /\ j.flag = "TAIL" => tx.phase = 1
        /\ j.phase = 0 /\ tx.phase = 1 => j.seq <= tx.tail
  BY <1>8 DEF Flight
<1>10. rx.phase0 \in Nat /\ rx.phase0 <= sent
  BY Numbers DEF ConWeaveInv, SourceInv
<1>11. SourceInv'
  <2>1. \A j \in Flight' :
          /\ j.epoch <= tx.epoch
          /\ j.phase = 1 => j.flag = "DATA"
          /\ j.flag = "TAIL" => j.tail = j.seq
    BY <1>1, <1>3, <1>4, <1>7
  <2> QED
    BY <1>1, <1>4, <1>5, <1>10, <2>1 DEF ConWeaveInv, SourceInv
<1>12. EpochsInv'
  <2>1. \A i, j \in Flight' : i.phase = 0 /\ j.phase = 1 /\ i.epoch = j.epoch
                              => i.seq <= j.tail
    BY <1>3, <1>4, <1>9 DEF ConWeaveInv, EpochsInv
  <2>2. \A i, j \in Flight' : i.phase = 0 /\ j.flag = "TAIL" /\ i.epoch = j.epoch
                              => i.seq <= j.seq
    BY <1>3, <1>4, <1>9 DEF ConWeaveInv, EpochsInv
  <2>3. ASSUME NEW p \in Paths, NEW q \in Paths, NEW i \in On(p)', NEW j \in On(q)',
               i.phase = 0, j.phase = 0, i.epoch = j.epoch
        PROVE  p = q
    BY <1>3, <1>4, <1>8, <2>3 DEF ConWeaveInv, EpochsInv
  <2>4. ASSUME NEW p \in Paths, NEW j \in On(p)', j.epoch = tx.epoch
        PROVE  /\ j.phase = 1 => tx.phase = 1 /\ j.tail = tx.tail
               /\ j.flag = "TAIL" => tx.phase = 1
               /\ j.phase = 0 /\ tx.phase = 1 => j.seq <= tx.tail
               /\ j.phase = 0 /\ tx.phase = 0 => p = tx.path
    BY <1>3, <1>4, <1>8, <2>4
  <2>5. rx.cache => \A j \in Flight' :
          j.phase = 1 /\ j.epoch = rx.epoch => rx.phase0 <= j.tail
    BY <1>3, <1>4 DEF ConWeaveInv, EpochsInv
  <2> QED
    BY <1>1, <1>5, <2>1, <2>2, <2>3, <2>4, <2>5 DEF ConWeaveInv, EpochsInv
<1>13. QueueInv'
  BY <1>1, <1>3, <1>4, <1>5 DEF ConWeaveInv, QueueInv
<1>14. ASSUME excuse' = {} PROVE Calm'
  <2>1. Calm
    BY <1>1, <1>14 DEF ConWeaveInv
  <2>2. PathsCalm'
    <3>1. tx.phase = 0 => \A p \in Paths : \A j \in On(p)' : p = tx.path
      BY <1>4, <2>1 DEF Calm, PathsCalm
    <3>2. ASSUME tx.phase = 1 PROVE OneOldPath'
      <4>1. PICK old \in Paths : \A p \in Paths : \A j \in On(p) :
              /\ j.seq <= tx.tail => p = old
              /\ j.seq > tx.tail => p = tx.path /\ j.phase = 1 /\ j.epoch = tx.epoch
        BY <2>1, <3>2 DEF Calm, PathsCalm, OneOldPath
      <4>2. \A p \in Paths : \A j \in On(p)' :
              /\ j.seq <= tx.tail => p = old
              /\ j.seq > tx.tail => p = tx.path /\ j.phase = 1 /\ j.epoch = tx.epoch
        BY <1>1, <1>3, <1>4, <3>2, <4>1
      <4> QED
        BY <1>1, <4>2 DEF OneOldPath
    <3>3. \A j \in Flight' : j.flag = "TAIL" =>
            tx.phase = 1 /\ j.epoch = tx.epoch /\ j.seq = tx.tail
      BY <1>3, <1>4, <2>1 DEF Calm, PathsCalm
    <3> QED
      BY <1>1, <3>1, <3>2, <3>3 DEF PathsCalm
  <2>3. PastTail => PastTail'
    BY <1>1, <1>3, <1>4 DEF PastTail
  <2>4. EndsAgree'
    <3>1. \A j \in Flight' : j.phase = 1 /\ (tx.phase = 0 \/ j.seq <= tx.tail) =>
            rx.epoch >= j.epoch /\ (rx.epoch = j.epoch => rx.phase = 1)
      BY <1>1, <1>3, <1>4, <2>1 DEF Calm, EndsAgree
    <3> QED
      BY <1>1, <1>5, <2>1, <2>3, <3>1 DEF Calm, EndsAgree
  <2>5. QueueCalm'
    <3>1. \A j \in Range(voq) : j < k.seq
      BY <1>1, <1>3, PacketsPlaced DEF ConWeaveInv
    <3> QED
      BY <1>1, <1>4, <1>5, <2>1, <2>3, <3>1 DEF Calm, QueueCalm
  <2>6. OutCalm'
    <3>1. Range(out) \subseteq 1 .. sent
      BY PacketsPlaced DEF ConWeaveInv
    <3> QED
      BY <1>1, <1>3, <1>4, <1>5, <2>1, <3>1 DEF Calm, OutCalm
  <2> QED
    BY <2>2, <2>4, <2>5, <2>6 DEF Calm
<1> QED
  BY <1>4, <1>6, <1>11, <1>12, <1>13, <1>14 DEF ConWeaveInv

-----------------------------------------------------------------------------
(* A packet leaves its path.                                               *)

\* With one packet less, what is true of all on the paths stays true.
LEMMA FewerOnPaths ==
  ASSUME ConWeaveInv, \A p \in Paths : On(p)' \subseteq On(p), tx' = tx
  PROVE  /\ Flight' \subseteq Flight
         /\ \A j \in Flight' :
              /\ j.epoch <= tx'.epoch
              /\ j.phase = 1 => j.flag = "DATA"
              /\ j.flag = "TAIL" => j.tail = j.seq
         /\ rx'.epoch = rx.epoch /\ rx'.cache = rx.cache /\ rx'.phase0 = rx.phase0
              => EpochsInv'
         /\ PathsCalm => PathsCalm'
         /\ PastTail => PastTail'
<1>1. Flight' \subseteq Flight
  BY DEF Flight
<1>2. \A j \in Flight :
        /\ j.epoch <= tx.epoch
        /\ j.phase = 1 => j.flag = "DATA"
        /\ j.flag = "TAIL" => j.tail = j.seq
  BY DEF ConWeaveInv, SourceInv
<1>3. ASSUME rx'.epoch = rx.epoch, rx'.cache = rx.cache, rx'.phase0 = rx.phase0
      PROVE  EpochsInv'
  BY <1>1, <1>3 DEF ConWeaveInv, EpochsInv
<1>4. ASSUME PathsCalm PROVE PathsCalm'
  <2>1. tx.phase = 1 => OneOldPath'
    BY <1>4 DEF PathsCalm, OneOldPath
  <2> QED
    BY <1>1, <1>4, <2>1 DEF PathsCalm
<1>5. PastTail => PastTail'
  BY <1>1 DEF PastTail
<1> QED
  BY <1>1, <1>2, <1>3, <1>4, <1>5

\* The packet goes to the host.
LEMMA Delivered ==
  ASSUME TypesInv, PlacesInv, NEW path \in Paths, wire[path] # <<>>,
         wire' = [wire EXCEPT ![path] = Tail(@)], NEW k, k = Head(wire[path]),
         out' = Append(out, k.seq), voq' = voq, sent' = sent, lost' = lost
  PROVE  /\ PlacesInv' /\ out' \in Seq(1 .. NumPackets)
         /\ (/\ OutCalm
             /\ \A j \in Flight' : k.seq < j.seq
             /\ \A j \in Range(voq) : k.seq < j) => OutCalm'
<1>1. /\ k \in Packet /\ k \in Flight
      /\ InFlight' = InFlight \ {k.seq}
      /\ \A p \in Paths : Ordered(wire'[p])
      /\ \A p, q \in Paths : \A i \in On(p)', j \in On(q)' : i.seq = j.seq => p = q
      /\ \A i \in InFlight' : \E j \in Flight' : i = j.seq
  <2>1. \A i \in InFlight' : \E j \in Flight' : i = j.seq
    BY DEF Flight, InFlight, OnPath, On
  <2> QED
    BY Taken, <2>1
<1>2. PICK i : i = k.seq
  OBVIOUS
<1>3. i \in 1 .. sent /\ i \in InFlight /\ i \in Undelivered
  BY <1>1, <1>2, PacketsPlaced
<1>4. i \in 1 .. NumPackets
  BY <1>1, <1>2 DEF Packet
<1>5. out \in Seq(1 .. NumPackets) /\ out' = Append(out, i)
  BY <1>2 DEF TypesInv
<1>6. /\ out' = out \o <<i>> /\ out' \in Seq(1 .. NumPackets)
      /\ <<i>> \in Seq(1 .. NumPackets) /\ Range(<<i>>) = {i}
      /\ Rising(<<i>>) /\ IsInjective(<<i>>)
      /\ Range(out') = Range(out) \union {i}
  <2>1. PICK o : o = out
    OBVIOUS
  <2>2. o \in Seq(1 .. NumPackets)
    BY <1>5, <2>1
  <2>3. /\ Append(o, i) = o \o <<i>> /\ Append(o, i) \in Seq(1 .. NumPackets)
        /\ <<i>> \in Seq(1 .. NumPackets) /\ Range(<<i>>) = {i}
        /\ Rising(<<i>>) /\ IsInjective(<<i>>)
        /\ Range(Append(o, i)) = Range(o) \union {i}
    BY <1>4, <2>2, JoinedOne
  <2> QED
    BY <1>5, <2>1, <2>3
<1>7. IsInjective(out')
  <2>1. i \notin Range(out) /\ IsInjective(out)
    BY <1>3 DEF PlacesInv
  <2>2. IsInjective(out \o <<i>>)
    BY <1>5, <1>6, <2>1, InjectiveJoined
  <2> QED
    BY <1>6, <2>2
<1>8. PlacesInv'
  <2>1. Range(out') \intersect Range(voq') = {}
    BY <1>3, <1>6 DEF PlacesInv
  <2>2. InFlight' \intersect (Range(out') \union Range(voq')) = {}
    BY <1>1, <1>2, <1>6 DEF PlacesInv
  <2>3. 1 .. sent' = Range(out') \union Undelivered' \union lost'
    BY <1>1, <1>2, <1>3, <1>6 DEF PlacesInv, Undelivered
  <2> QED
    BY <1>1, <1>7, <2>1, <2>2, <2>3 DEF PlacesInv
<1>9. ASSUME OutCalm, \A j \in Flight' : k.seq < j.seq, \A j \in Range(voq) : k.seq < j
      PROVE  OutCalm'
  <2>1. \A a \in Range(out) : a < i
    BY <1>3, <1>9 DEF OutCalm
  <2>2. Rising(out \o <<i>>)
    BY <1>5, <1>6, <1>9, <2>1, RisingJoined DEF OutCalm
  <2>3. \A b \in Undelivered' : b \in Undelivered /\ i < b
    BY <1>1, <1>2, <1>9 DEF Undelivered
  <2> QED
    BY <1>6, <1>9, <2>2, <2>3 DEF OutCalm
<1> QED
  BY <1>6, <1>8, <1>9

\* The packet is queued.
LEMMA Queued ==
  ASSUME TypesInv, PlacesInv, NEW path \in Paths, wire[path] # <<>>,
         wire' = [wire EXCEPT ![path] = Tail(@)], NEW k, k = Head(wire[path]),
         voq' = Append(voq, k.seq), out' = out, sent' = sent, lost' = lost
  PROVE  /\ PlacesInv' /\ voq' \in Seq(1 .. NumPackets)
         /\ voq' # <<>> /\ Range(voq') = Range(voq) \union {k.seq}
         /\ OutCalm => OutCalm'
         /\ Rising(voq) /\ (\A j \in Range(voq) : j < k.seq) => Rising(voq')
<1>1. /\ k \in Packet /\ k \in Flight
      /\ InFlight' = InFlight \ {k.seq}
      /\ \A p \in Paths : Ordered(wire'[p])
      /\ \A p, q \in Paths : \A i \in On(p)', j \in On(q)' : i.seq = j.seq => p = q
  BY Taken
<1>2. PICK i : i = k.seq
  OBVIOUS
<1>3. i \in 1 .. sent /\ i \in InFlight /\ i \in Undelivered
  BY <1>1, <1>2, PacketsPlaced
<1>4. i \in 1 .. NumPackets
  BY <1>1, <1>2 DEF Packet
<1>5. voq \in Seq(1 .. NumPackets) /\ voq' = Append(voq, i)
  BY <1>2 DEF TypesInv
<1>6. /\ voq' = voq \o <<i>> /\ voq' \in Seq(1 .. NumPackets)
      /\ <<i>> \in Seq(1 .. NumPackets) /\ Range(<<i>>) = {i}
      /\ Rising(<<i>>) /\ IsInjective(<<i>>)
      /\ Range(voq') = Range(voq) \union {i}
  <2>1. PICK v : v = voq
    OBVIOUS
  <2>2. v \in Seq(1 .. NumPackets)
    BY <1>5, <2>1
  <2>3. /\ Append(v, i) = v \o <<i>> /\ Append(v, i) \in Seq(1 .. NumPackets)
        /\ <<i>> \in Seq(1 .. NumPackets) /\ Range(<<i>>) = {i}
        /\ Rising(<<i>>) /\ IsInjective(<<i>>)
        /\ Range(Append(v, i)) = Range(v) \union {i}
    BY <1>4, <2>2, JoinedOne
  <2> QED
    BY <1>5, <2>1, <2>3
<1>7. IsInjective(voq')
  <2>1. i \notin Range(voq) /\ IsInjective(voq)
    BY <1>3 DEF PlacesInv
  <2>2. IsInjective(voq \o <<i>>)
    BY <1>5, <1>6, <2>1, InjectiveJoined
  <2> QED
    BY <1>6, <2>2
<1>8. PlacesInv'
  <2>1. Range(out') \intersect Range(voq') = {}
    BY <1>3, <1>6 DEF PlacesInv
  <2>2. InFlight' \intersect (Range(out') \union Range(voq')) = {}
    BY <1>1, <1>2, <1>6 DEF PlacesInv
  <2>3. 1 .. sent' = Range(out') \union Undelivered' \union lost'
    BY <1>1, <1>2, <1>3, <1>6 DEF PlacesInv, Undelivered
  <2> QED
    BY <1>1, <1>7, <2>1, <2>2, <2>3 DEF PlacesInv
<1>9. voq' # <<>>
  BY <1>6 DEF Range
<1>10. OutCalm => OutCalm'
  BY <1>1, <1>2, <1>3, <1>6 DEF OutCalm, Undelivered
<1>11. ASSUME Rising(voq), \A j \in Range(voq) : j < i PROVE Rising(voq')
  <2>1. Rising(voq \o <<i>>)
    BY <1>5, <1>6, <1>11, RisingJoined
  <2> QED
    BY <1>6, <2>1
<1> QED
  BY <1>2, <1>6, <1>8, <1>9, <1>10, <1>11

LEMMA LoseDataKeeps ==
  ASSUME ConWeaveInv, NEW path \in Paths, LoseData(path)
  PROVE  ConWeaveInv'
<1>1. PICK k : k = Head(wire[path])
  OBVIOUS
<1>2. /\ wire[path] # <<>> /\ wire' = [wire EXCEPT ![path] = Tail(@)]
      /\ tx' = tx /\ rx' = rx /\ voq' = voq /\ flushNow' = flushNow /\ out' = out
      /\ sent' = sent /\ replies' = replies /\ excuse' = excuse
      /\ lost' = lost \union {k.seq}
  BY <1>1 DEF LoseData, rxVars
<1>3. /\ wire' \in [Paths -> Seq(Packet)]
      /\ k \in Flight /\ Flight' = Flight \ {k} /\ InFlight' = InFlight \ {k.seq}
      /\ \A p \in Paths : On(p)' \subseteq On(p)
      /\ \A p \in Paths : Ordered(wire'[p])
      /\ \A p, q \in Paths : \A i \in On(p)', j \in On(q)' : i.seq = j.seq => p = q
  BY <1>1, <1>2, Taken DEF ConWeaveInv
<1>4. k.seq \in 1 .. sent /\ k.seq \in Undelivered
  BY <1>3, PacketsPlaced DEF ConWeaveInv
<1>5. TypesInv'
  BY <1>2, <1>3 DEF ConWeaveInv, TypesInv
<1>6. PlacesInv'
  <2>1. 1 .. sent' = Range(out') \union Undelivered' \union lost'
    BY <1>2, <1>3, <1>4 DEF ConWeaveInv, PlacesInv, Undelivered
  <2> QED
    BY <1>2, <1>3, <2>1 DEF ConWeaveInv, PlacesInv
<1>7. tx.known
  BY <1>4 DEF ConWeaveInv, SourceInv
<1>8. SourceInv'
  BY <1>2, <1>3, <1>7, FewerOnPaths DEF ConWeaveInv, SourceInv
<1>9. EpochsInv'
  BY <1>2, <1>3, FewerOnPaths
<1>10. QueueInv'
  BY <1>2, <1>3 DEF ConWeaveInv, QueueInv
<1>11. ASSUME excuse' = {} PROVE Calm'
  <2>1. Calm
    BY <1>2, <1>11 DEF ConWeaveInv
  <2>2. PathsCalm' /\ (PastTail => PastTail')
    BY <1>2, <1>3, <2>1, FewerOnPaths DEF Calm
  <2>3. EndsAgree'
    BY <1>2, <1>3, <2>1, <2>2 DEF Calm, EndsAgree
  <2>4. QueueCalm'
    BY <1>2, <1>3, <2>1, <2>2 DEF Calm, QueueCalm
  <2>5. OutCalm'
    BY <1>2, <1>3, <2>1 DEF Calm, OutCalm, Undelivered
  <2> QED
    BY <2>2, <2>3, <2>4, <2>5 DEF Calm
<1> QED
  BY <1>5, <1>6, <1>8, <1>9, <1>10, <1>11 DEF ConWeaveInv

-----------------------------------------------------------------------------
(* A packet reaches the destination.                                       *)

LEMMA PassKeeps ==
  ASSUME ConWeaveInv, NEW path \in Paths, wire[path] # <<>>,
         wire' = [wire EXCEPT ![path] = Tail(@)], NEW k, k = Head(wire[path]),
         Pass(k), UNCHANGED <<tx, sent, lost, lostReplies, excuse>>
  PROVE  ConWeaveInv'
<1>1. /\ tx' = tx /\ voq' = voq /\ flushNow' = flushNow /\ out' = Append(out, k.seq)
      /\ sent' = sent /\ replies' = replies /\ excuse' = excuse /\ lost' = lost
      /\ rx.epoch > k.epoch
  BY DEF Pass, Stale
<1>2. /\ rx' \in RxType /\ rx'.known /\ rx'.epoch = rx.epoch /\ rx'.phase = rx.phase
      /\ rx'.phase0 = rx.phase0 /\ rx'.cache = rx.cache
      /\ rx'.reordering = rx.reordering
  <2>1. rx \in RxType
    BY DEF ConWeaveInv, TypesInv
  <2>2. rx' = [known |-> TRUE, epoch |-> rx.epoch, phase |-> rx.phase,
               phase0 |-> rx.phase0, cache |-> rx.cache,
               reordering |-> rx.reordering]
    BY <2>1 DEF Pass, RxType
  <2>3. rx' \in RxType
    BY <2>1, <2>2 DEF RxType
  <2> QED
    BY <2>2, <2>3
<1>3. /\ wire' \in [Paths -> Seq(Packet)]
      /\ k \in Packet /\ k \in On(path) /\ k \in Flight
      /\ Flight' = Flight \ {k} /\ InFlight' = InFlight \ {k.seq}
      /\ \A p \in Paths : On(p)' \subseteq On(p)
  BY Taken DEF ConWeaveInv
<1>4. PlacesInv' /\ out' \in Seq(1 .. NumPackets)
  BY <1>1, Delivered DEF ConWeaveInv
<1>5. TypesInv'
  BY <1>1, <1>2, <1>3, <1>4 DEF ConWeaveInv, TypesInv
<1>6. tx.known
  <2>1. k.seq \in Undelivered
    BY <1>3, PacketsPlaced DEF ConWeaveInv
  <2> QED
    BY <2>1 DEF ConWeaveInv, SourceInv
<1>7. SourceInv'
  BY <1>1, <1>2, <1>3, <1>6, FewerOnPaths DEF ConWeaveInv, SourceInv
<1>8. EpochsInv'
  BY <1>1, <1>2, <1>3, FewerOnPaths
<1>9. QueueInv'
  BY <1>1, <1>2, <1>3 DEF ConWeaveInv, QueueInv
<1>10. ASSUME excuse' = {} PROVE Calm'
  <2>1. Calm
    BY <1>1, <1>10 DEF ConWeaveInv
  <2>2. PathsCalm' /\ (PastTail => PastTail')
    BY <1>1, <1>3, <2>1, FewerOnPaths DEF Calm
  <2>3. EndsAgree'
    BY <1>1, <1>2, <1>3, <2>1, <2>2 DEF Calm, EndsAgree
  <2>4. QueueCalm'
    BY <1>1, <1>2, <1>3, <2>1, <2>2 DEF Calm, QueueCalm
  <2>5. tx.phase = 0 \/ k.seq <= tx.tail
    <3>1. /\ tx.phase \in {0, 1} /\ tx.tail \in Nat /\ k.seq \in Nat
          /\ tx.epoch \in Nat /\ rx.epoch \in Nat /\ k.epoch \in Nat
      BY <1>3, Numbers DEF ConWeaveInv
    <3>2. rx.epoch <= tx.epoch
      BY <1>6, <2>1 DEF Calm, EndsAgree
    <3>3. tx.phase = 1 /\ k.seq > tx.tail => k.epoch = tx.epoch
      BY <1>3, <2>1 DEF Calm, PathsCalm, OneOldPath
    <3> QED
      BY <1>1, <3>1, <3>2, <3>3
  <2>6. /\ \A j \in Flight' : k.seq < j.seq
        /\ \A j \in Range(voq) : k.seq < j
    BY <2>1, <2>5, HeadIsNext DEF ConWeaveInv
  <2>7. OutCalm'
    BY <1>1, <2>1, <2>6, Delivered DEF ConWeaveInv, Calm
  <2> QED
    BY <2>2, <2>3, <2>4, <2>7 DEF Calm
<1> QED
  BY <1>4, <1>5, <1>7, <1>8, <1>9, <1>10 DEF ConWeaveInv

\* What a packet that is not stale makes of the destination's entry.
LEMMA Accepted ==
  ASSUME TypesInv, NEW k \in Packet, ~ Stale(k), k.phase = 1 => k.flag = "DATA",
         rx' = RxAfter(k)
  PROVE  /\ rx' \in RxType /\ rx'.known /\ rx'.epoch = k.epoch
         /\ rx.epoch <= k.epoch
         /\ rx'.phase = PhaseAfter(k) /\ PhaseAfter(k) \in {0, 1}
         /\ rx'.phase0 = Phase0After(k)
         /\ rx'.cache = CacheAfter(k)
         /\ rx'.reordering <=> rx.reordering \/ OutOfOrder(k)
         /\ k.flag = "TAIL" =>
              PhaseAfter(k) = IF rx.epoch < k.epoch \/ ~ rx.reordering THEN 1 ELSE rx.phase
         /\ k.flag # "TAIL" =>
              PhaseAfter(k) = IF rx.epoch < k.epoch THEN 0 ELSE rx.phase
         /\ OutOfOrder(k) <=> k.phase = 1 /\ PhaseAfter(k) = 0
<1>1. /\ rx.epoch \in Nat /\ rx.phase \in {0, 1} /\ k.epoch \in 1 .. NumPackets
      /\ k.epoch \in Nat /\ k.phase \in {0, 1} /\ rx \in RxType
      /\ k.seq \in 0 .. NumPackets
  <2>1. k.epoch \in 1 .. NumPackets /\ k.seq \in 0 .. NumPackets
    BY ConWeaveAssumption DEF Packet
  <2> QED
    BY <2>1, Numbers DEF TypesInv
<1>2. /\ k.flag = "TAIL" =>
           PhaseAfter(k) = IF rx.epoch < k.epoch \/ ~ rx.reordering THEN 1 ELSE rx.phase
      /\ k.flag # "TAIL" =>
           PhaseAfter(k) = IF rx.epoch < k.epoch THEN 0 ELSE rx.phase
  BY DEF PhaseAfter, NewEpoch
<1>3. PhaseAfter(k) \in {0, 1}
  BY <1>1, <1>2
<1>4. OutOfOrder(k) <=> k.phase = 1 /\ PhaseAfter(k) = 0
  BY <1>1, <1>3 DEF OutOfOrder
<1>5. CacheAfter(k) \in BOOLEAN /\ (rx.reordering \/ OutOfOrder(k)) \in BOOLEAN
  BY DEF CacheAfter
<1>6. Phase0After(k) \in 0 .. NumPackets
  BY <1>1 DEF Phase0After, RxType
<1>7. rx' = [known |-> TRUE, epoch |-> k.epoch, phase |-> PhaseAfter(k),
             phase0 |-> Phase0After(k), cache |-> CacheAfter(k),
             reordering |-> rx.reordering \/ OutOfOrder(k)]
  BY <1>1 DEF RxAfter, RxType
<1>8. rx' \in RxType
  BY <1>1, <1>3, <1>5, <1>6, <1>7 DEF RxType
<1>9. rx.epoch <= k.epoch
  BY <1>1 DEF Stale
<1>10. /\ rx'.known = TRUE /\ rx'.epoch = k.epoch /\ rx'.phase = PhaseAfter(k)
       /\ rx'.phase0 = Phase0After(k) /\ rx'.cache = CacheAfter(k)
  BY <1>7
<1>11. rx'.reordering = (rx.reordering \/ OutOfOrder(k))
  BY <1>7
<1>12. rx'.reordering <=> rx.reordering \/ OutOfOrder(k)
  BY <1>11
<1> QED
  BY <1>2, <1>3, <1>4, <1>8, <1>9, <1>10, <1>12

LEMMA Replied ==
  ASSUME TypesInv, NEW k \in Packet,
         replies' = IF k.flag = "DATA" THEN replies
                      ELSE Append(replies, [flag |-> k.flag, epoch |-> k.epoch])
  PROVE  /\ replies' \in Seq(Reply)
         /\ \A r \in Range(replies') :
              r \in Range(replies) \/ (r.flag = k.flag /\ r.epoch = k.epoch)
<1>1. replies \in Seq(Reply)
  BY DEF TypesInv
<1>2. CASE k.flag = "DATA"
  BY <1>1, <1>2
<1>3. CASE k.flag # "DATA"
  <2>1. PICK m : m = [flag |-> k.flag, epoch |-> k.epoch]
    OBVIOUS
  <2>2. m \in Reply /\ m.flag = k.flag /\ m.epoch = k.epoch
    BY <1>3, <2>1 DEF Packet, Flags, Reply
  <2>3. PICK s : s = replies
    OBVIOUS
  <2>4. s \in Seq(Reply)
    BY <1>1, <2>3
  <2>5. Append(s, m) \in Seq(Reply) /\ Range(Append(s, m)) = Range(s) \union {m}
    BY <2>2, <2>4, ElementsAppended
  <2>6. replies' = Append(s, m)
    BY <1>3, <2>1, <2>3
  <2> QED
    BY <2>2, <2>3, <2>5, <2>6
<1> QED
  BY <1>2, <1>3

LEMMA AcceptAlways ==
  ASSUME ConWeaveInv, NEW path \in Paths, wire[path] # <<>>,
         wire' = [wire EXCEPT ![path] = Tail(@)], NEW k, k = Head(wire[path]),
         Accept(k), UNCHANGED <<tx, sent, lost, lostReplies, excuse>>
  PROVE  (TypesInv /\ PlacesInv /\ SourceInv /\ EpochsInv /\ QueueInv)'
<1>1. tx' = tx /\ sent' = sent /\ lost' = lost
  OBVIOUS
<1>2. /\ wire' \in [Paths -> Seq(Packet)]
      /\ k \in Packet /\ k \in On(path) /\ k \in Flight
      /\ Flight' = Flight \ {k}
      /\ \A p \in Paths : On(p)' \subseteq On(p)
      /\ \A j \in On(path)' : k.seq < j.seq
  BY Taken DEF ConWeaveInv
<1>3. /\ k.seq \in 1 .. sent /\ k.seq \in Undelivered
      /\ k.seq \in Nat /\ k.epoch \in Nat /\ k.phase \in {0, 1} /\ k.tail \in Nat
      /\ k.epoch <= tx.epoch /\ (k.phase = 1 => k.flag = "DATA")
      /\ tx.epoch \in Nat /\ rx.epoch \in Nat /\ rx.phase \in {0, 1}
      /\ rx.phase0 \in Nat /\ rx.phase0 <= sent /\ sent \in Nat
  BY <1>2, PacketsPlaced, Numbers DEF ConWeaveInv, SourceInv
<1>4. /\ rx' \in RxType /\ rx'.known /\ rx'.epoch = k.epoch
      /\ rx.epoch <= k.epoch
      /\ rx'.phase = PhaseAfter(k) /\ PhaseAfter(k) \in {0, 1}
      /\ rx'.phase0 = Phase0After(k)
      /\ rx'.cache = CacheAfter(k)
      /\ rx'.reordering <=> rx.reordering \/ OutOfOrder(k)
      /\ k.flag = "TAIL" =>
           PhaseAfter(k) = IF rx.epoch < k.epoch \/ ~ rx.reordering THEN 1 ELSE rx.phase
      /\ k.flag # "TAIL" =>
           PhaseAfter(k) = IF rx.epoch < k.epoch THEN 0 ELSE rx.phase
      /\ OutOfOrder(k) <=> k.phase = 1 /\ PhaseAfter(k) = 0
  BY <1>2, <1>3, Accepted DEF Accept, ConWeaveInv
<1>5. /\ replies' \in Seq(Reply)
      /\ \A r \in Range(replies') :
           r \in Range(replies) \/ (r.flag = k.flag /\ r.epoch = k.epoch)
  BY <1>2, Replied DEF Accept, ConWeaveInv
<1>6. /\ k.phase = 0 /\ rx.reordering => (flushNow' <=> k.flag = "TAIL")
      /\ ~ (k.phase = 0 /\ rx.reordering) => (flushNow' <=> flushNow)
      /\ flushNow' \in BOOLEAN
  BY DEF Accept, Reschedule, ConWeaveInv, TypesInv
<1>7. /\ PlacesInv' /\ out' \in Seq(1 .. NumPackets) /\ voq' \in Seq(1 .. NumPackets)
      /\ OutOfOrder(k) => voq' # <<>>
      /\ ~ OutOfOrder(k) => voq' = voq
  <2>1. CASE OutOfOrder(k)
    <3>1. voq' = Append(voq, k.seq) /\ out' = out
      BY <2>1 DEF Accept, Place
    <3> QED
      BY <1>1, <2>1, <3>1, Queued DEF ConWeaveInv, TypesInv
  <2>2. CASE ~ OutOfOrder(k)
    <3>1. out' = Append(out, k.seq) /\ voq' = voq
      BY <2>2 DEF Accept, Place
    <3> QED
      BY <1>1, <2>2, <3>1, Delivered DEF ConWeaveInv, TypesInv
  <2> QED
    BY <2>1, <2>2
<1>8. TypesInv'
  BY <1>1, <1>2, <1>4, <1>5, <1>6, <1>7 DEF ConWeaveInv, TypesInv
<1>9. tx.known
  BY <1>3 DEF ConWeaveInv, SourceInv
<1>10. SourceInv'
  <2>1. rx'.phase0 <= sent
    BY <1>3, <1>4 DEF Phase0After
  <2>2. \A r \in Range(replies') : r.epoch <= tx.epoch
    BY <1>3, <1>5 DEF ConWeaveInv, SourceInv
  <2> QED
    BY <1>1, <1>2, <1>9, <2>1, <2>2, FewerOnPaths DEF ConWeaveInv, SourceInv
<1>11. EpochsInv'
  <2>1. ASSUME rx'.cache
        PROVE  /\ \A j \in Flight' : j.phase = 1 /\ j.epoch = rx'.epoch
                                    => rx'.phase0 <= j.tail
               /\ tx.epoch = rx'.epoch /\ tx.phase = 1 => rx'.phase0 <= tx.tail
    <3>1. CASE k.phase = 0
      <4>1. rx'.phase0 = k.seq
        BY <1>4, <3>1 DEF Phase0After
      <4> QED
        BY <1>2, <1>4, <3>1, <4>1 DEF ConWeaveInv, EpochsInv
    <3>2. CASE k.phase = 1
      <4>1. rx.cache /\ rx.epoch = k.epoch
        <5>1. CacheAfter(k)
          BY <1>4, <2>1
        <5>2. rx.cache /\ ~ (rx.epoch < k.epoch)
          BY <3>2, <5>1 DEF CacheAfter, NewEpoch
        <5> QED
          BY <1>3, <1>4, <5>2
      <4>2. rx'.phase0 = rx.phase0
        BY <1>4, <3>2 DEF Phase0After
      <4> QED
        BY <1>2, <1>4, <4>1, <4>2 DEF ConWeaveInv, EpochsInv
    <3> QED
      BY <1>3, <3>1, <3>2
  <2> QED
    BY <1>1, <1>2, <2>1 DEF ConWeaveInv, EpochsInv
<1>12. QueueInv'
  <2>1. rx'.reordering <=> voq' # <<>>
    BY <1>4, <1>7 DEF ConWeaveInv, QueueInv
  <2>2. flushNow' => voq' # <<>>
    BY <1>4, <1>6, <1>7 DEF ConWeaveInv, QueueInv
  <2>3. ASSUME rx'.phase = 1, rx'.reordering
        PROVE  /\ flushNow' /\ rx'.epoch <= tx.epoch
               /\ \A j \in Flight' : j.epoch = rx'.epoch => j.phase = 1
               /\ tx.epoch = rx'.epoch => tx.phase = 1
    <3>1. PhaseAfter(k) = 1 /\ rx.reordering
      BY <1>4, <2>3
    <3>2. CASE rx.epoch < k.epoch
      <4>1. k.flag = "TAIL" /\ k.phase = 0
        BY <1>3, <1>4, <3>1, <3>2
      <4>2. ASSUME NEW j \in Flight', j.epoch = k.epoch PROVE j.phase = 1
        <5>1. PICK p \in Paths : j \in On(p)'
          BY DEF Flight
        <5>2. j \in On(p) /\ j \in Flight /\ j.phase \in {0, 1} /\ j.seq \in Nat
          BY <1>2, <5>1, Numbers, PacketsPlaced DEF ConWeaveInv
        <5>3. ASSUME j.phase = 0 PROVE FALSE
          <6>1. p = path
            BY <1>2, <4>1, <4>2, <5>2, <5>3 DEF ConWeaveInv, EpochsInv
          <6>2. k.seq < j.seq
            BY <1>2, <5>1, <6>1
          <6>3. j.seq <= k.seq
            BY <1>2, <4>1, <4>2, <5>2, <5>3 DEF ConWeaveInv, EpochsInv
          <6> QED
            BY <1>3, <5>2, <6>2, <6>3
        <5> QED
          BY <5>2, <5>3
      <4>3. tx.epoch = k.epoch => tx.phase = 1
        BY <1>2, <4>1 DEF ConWeaveInv, EpochsInv
      <4> QED
        BY <1>3, <1>4, <1>6, <3>1, <4>1, <4>2, <4>3
    <3>3. CASE ~ (rx.epoch < k.epoch)
      <4>1. rx.epoch = k.epoch /\ rx.phase = 1
        BY <1>3, <1>4, <3>1, <3>3, <1>2 DEF Packet
      <4>2. /\ flushNow
            /\ \A j \in Flight : j.epoch = rx.epoch => j.phase = 1
            /\ tx.epoch = rx.epoch => tx.phase = 1
        BY <3>1, <4>1 DEF ConWeaveInv, QueueInv
      <4> QED
        BY <1>2, <1>3, <1>4, <1>6, <4>1, <4>2
    <3> QED
      BY <3>2, <3>3
  <2> QED
    BY <1>1, <1>4, <2>1, <2>2, <2>3 DEF QueueInv
<1> QED
  BY <1>7, <1>8, <1>10, <1>11, <1>12

LEMMA AcceptCalm ==
  ASSUME ConWeaveInv, NEW path \in Paths, wire[path] # <<>>,
         wire' = [wire EXCEPT ![path] = Tail(@)], NEW k, k = Head(wire[path]),
         Accept(k), UNCHANGED <<tx, sent, lost, lostReplies, excuse>>, Calm
  PROVE  Calm'
<1>1. tx' = tx /\ sent' = sent /\ lost' = lost
  OBVIOUS
<1>2. /\ k \in Packet /\ k \in On(path) /\ k \in Flight
      /\ Flight' = Flight \ {k}
      /\ \A p \in Paths : On(p)' \subseteq On(p)
      /\ \A j \in On(path)' : k.seq < j.seq
  BY Taken DEF ConWeaveInv
<1>3. /\ k.seq \in 1 .. sent /\ k.seq \in Undelivered
      /\ k.seq \in Nat /\ k.epoch \in Nat /\ k.phase \in {0, 1}
      /\ k.epoch <= tx.epoch /\ (k.phase = 1 => k.flag = "DATA")
      /\ tx.epoch \in Nat /\ tx.phase \in {0, 1} /\ tx.tail \in Nat
      /\ rx.epoch \in Nat /\ rx.phase \in {0, 1}
      /\ Range(voq) \subseteq Nat
  BY <1>2, PacketsPlaced, Numbers DEF ConWeaveInv, SourceInv
<1>4. /\ rx'.epoch = k.epoch /\ rx.epoch <= k.epoch
      /\ rx'.phase = PhaseAfter(k) /\ PhaseAfter(k) \in {0, 1}
      /\ k.flag = "TAIL" =>
           PhaseAfter(k) = IF rx.epoch < k.epoch \/ ~ rx.reordering THEN 1 ELSE rx.phase
      /\ k.flag # "TAIL" =>
           PhaseAfter(k) = IF rx.epoch < k.epoch THEN 0 ELSE rx.phase
      /\ OutOfOrder(k) <=> k.phase = 1 /\ PhaseAfter(k) = 0
  BY <1>2, <1>3, Accepted DEF Accept, ConWeaveInv
<1>5. \A r \in Range(replies') :
        r \in Range(replies) \/ (r.flag = k.flag /\ r.epoch = k.epoch)
  BY <1>2, Replied DEF Accept, ConWeaveInv
<1>6. /\ k.phase = 0 /\ rx.reordering => (flushNow' <=> k.flag = "TAIL")
      /\ ~ (k.phase = 0 /\ rx.reordering) => (flushNow' <=> flushNow)
  BY DEF Accept, Reschedule
<1>7. tx.known /\ (rx.reordering <=> voq # <<>>) /\ (voq = <<>> => Range(voq) = {})
  BY <1>3, PacketsPlaced DEF ConWeaveInv, SourceInv, QueueInv
<1>8. /\ PathsCalm' /\ (PastTail => PastTail')
      /\ \A p \in Paths : \A j \in On(p) : j \in Flight
  BY <1>1, <1>2, FewerOnPaths, PacketsPlaced DEF Calm, ConWeaveInv
\* What has overtaken the rest of its epoch.
<1>9. tx.phase = 1 /\ k.seq > tx.tail =>
        k.phase = 1 /\ k.epoch = tx.epoch /\ path = tx.path
  BY <1>2 DEF Calm, PathsCalm, OneOldPath
<1>10. OutOfOrder(k) => tx.phase = 1 /\ k.seq > tx.tail
  <2>1. ASSUME OutOfOrder(k), tx.phase = 0 \/ k.seq <= tx.tail PROVE FALSE
    <3>1. k.phase = 1 /\ PhaseAfter(k) = 0 /\ k.flag # "TAIL"
      BY <1>3, <1>4, <2>1
    <3>2. rx.epoch >= k.epoch /\ (rx.epoch = k.epoch => rx.phase = 1)
      BY <1>2, <2>1, <3>1 DEF Calm, EndsAgree
    <3> QED
      BY <1>3, <1>4, <3>1, <3>2
  <2> QED
    BY <1>3, <2>1
\* Behind a TAIL nothing of what went before is left.
<1>11. ASSUME k.flag = "TAIL"
       PROVE  tx.phase = 1 /\ k.epoch = tx.epoch /\ k.seq = tx.tail /\ PastTail'
  <2>1. tx.phase = 1 /\ k.epoch = tx.epoch /\ k.seq = tx.tail
    BY <1>2, <1>11 DEF Calm, PathsCalm
  <2>2. \A j \in Flight' : k.seq < j.seq
    <3>1. k.seq <= tx.tail
      BY <1>3, <2>1
    <3> QED
      BY <3>1, HeadIsNext DEF ConWeaveInv
  <2> QED
    BY <1>1, <1>3, <2>1, <2>2 DEF PastTail
<1>12. ASSUME PhaseAfter(k) = 1, k.epoch = tx.epoch
       PROVE  tx.phase = 1 /\ PastTail' /\ voq = <<>>
  <2>1. CASE rx.epoch < k.epoch
    <3>1. k.flag = "TAIL"
      BY <1>4, <1>12, <2>1
    <3>2. voq = <<>>
      BY <1>3, <1>12, <2>1 DEF Calm, QueueCalm
    <3> QED
      BY <1>11, <3>1, <3>2
  <2>2. CASE ~ (rx.epoch < k.epoch)
    <3>1. rx.epoch = tx.epoch
      BY <1>3, <1>4, <1>12, <2>2
    <3>2. CASE rx.phase = 1
      BY <1>7, <1>8, <3>1, <3>2 DEF Calm, EndsAgree
    <3>3. CASE rx.phase # 1
      <4>1. k.flag = "TAIL" /\ ~ rx.reordering
        BY <1>4, <1>12, <2>2, <3>3
      <4> QED
        BY <1>7, <1>11, <4>1
    <3> QED
      BY <3>2, <3>3
  <2> QED
    BY <2>1, <2>2
<1>13. EndsAgree'
  <2>1. \A j \in Flight' : j.phase = 1 /\ (tx.phase = 0 \/ j.seq <= tx.tail) =>
          k.epoch >= j.epoch /\ (k.epoch = j.epoch => PhaseAfter(k) = 1)
    <3>1. ASSUME NEW j \in Flight', j.phase = 1, tx.phase = 0 \/ j.seq <= tx.tail
          PROVE  k.epoch >= j.epoch /\ (k.epoch = j.epoch => PhaseAfter(k) = 1)
      <4>1. rx.epoch >= j.epoch /\ (rx.epoch = j.epoch => rx.phase = 1)
        BY <1>2, <3>1 DEF Calm, EndsAgree
      <4>2. j.epoch \in Nat
        BY <1>2, PacketsPlaced, Numbers DEF ConWeaveInv
      <4>3. ASSUME k.epoch = j.epoch PROVE PhaseAfter(k) = 1
        <5>1. rx.phase = 1 /\ ~ (rx.epoch < k.epoch)
          BY <1>3, <1>4, <4>1, <4>2, <4>3
        <5>2. CASE k.flag = "TAIL"
          BY <1>4, <5>1, <5>2
        <5>3. CASE k.flag # "TAIL"
          BY <1>4, <5>1, <5>3
        <5> QED
          BY <5>2, <5>3
      <4> QED
        BY <1>3, <1>4, <4>1, <4>2, <4>3
    <3> QED
      BY <3>1
  <2>2. ~ tx.quiet /\ tx.stabilized /\ tx.phase = 1 =>
          k.epoch = tx.epoch /\ PhaseAfter(k) = 1
    <3>1. ASSUME ~ tx.quiet, tx.stabilized, tx.phase = 1
          PROVE  k.epoch = tx.epoch /\ PhaseAfter(k) = 1
      <4>1. rx.epoch = tx.epoch /\ rx.phase = 1
        BY <3>1 DEF Calm, EndsAgree
      <4>2. k.epoch = tx.epoch /\ ~ (rx.epoch < k.epoch)
        BY <1>3, <1>4, <4>1
      <4> QED
        BY <1>4, <4>1, <4>2
    <3> QED
      BY <3>1
  <2>3. ASSUME NEW r \in Range(replies'), r.flag = "TAIL", r.epoch = tx.epoch
        PROVE  k.epoch = tx.epoch /\ (PhaseAfter(k) = 1 \/ flushNow')
    <3>1. CASE r \in Range(replies)
      <4>1. rx.epoch = tx.epoch /\ (rx.phase = 1 \/ flushNow)
        BY <2>3, <3>1 DEF Calm, EndsAgree
      <4>2. k.epoch = tx.epoch /\ ~ (rx.epoch < k.epoch)
        BY <1>3, <1>4, <4>1
      <4>3. CASE rx.phase = 1
        BY <1>4, <4>2, <4>3
      <4>4. CASE flushNow
        <5>1. PastTail /\ tx.phase = 1
          BY <4>4 DEF Calm, QueueCalm, ConWeaveInv, QueueInv
        <5>2. k.phase = 1
          BY <1>2, <1>9, <5>1 DEF PastTail
        <5> QED
          BY <1>6, <4>2, <4>4, <5>2
      <4> QED
        BY <4>1, <4>2, <4>3, <4>4
    <3>2. CASE r.flag = k.flag /\ r.epoch = k.epoch
      <4>1. k.flag = "TAIL" /\ k.phase = 0 /\ k.epoch = tx.epoch
        BY <1>3, <2>3, <3>2
      <4>2. CASE rx.reordering
        BY <1>6, <4>1, <4>2
      <4>3. CASE ~ rx.reordering
        BY <1>4, <4>1, <4>3
      <4> QED
        BY <4>1, <4>2, <4>3
    <3> QED
      BY <1>5, <3>1, <3>2
  <2>4. PhaseAfter(k) = 1 /\ k.epoch = tx.epoch => voq' = <<>>
    <3>1. ASSUME PhaseAfter(k) = 1, k.epoch = tx.epoch PROVE voq' = <<>>
      <4>1. ~ OutOfOrder(k)
        BY <1>4, <3>1
      <4> QED
        BY <1>12, <3>1, <4>1 DEF Accept, Place
    <3> QED
      BY <3>1
  <2> QED
    BY <1>1, <1>3, <1>4, <1>12, <2>1, <2>2, <2>3, <2>4 DEF EndsAgree
<1>14. flushNow' => PastTail'
  <2>1. CASE k.phase = 0 /\ rx.reordering
    BY <1>6, <1>11, <2>1
  <2>2. CASE ~ (k.phase = 0 /\ rx.reordering)
    BY <1>6, <1>8, <2>2 DEF Calm, QueueCalm
  <2> QED
    BY <2>1, <2>2
<1>15. CASE OutOfOrder(k)
  <2>1. voq' = Append(voq, k.seq) /\ out' = out
    BY <1>15 DEF Accept, Place
  <2>2. /\ tx.phase = 1 /\ k.seq > tx.tail
        /\ k.phase = 1 /\ k.epoch = tx.epoch /\ path = tx.path /\ PhaseAfter(k) = 0
    BY <1>4, <1>9, <1>10, <1>15
  <2>3. /\ Rising(voq)
        /\ \A j \in Range(voq) :
             j > tx.tail /\ \A l \in Flight : l.seq > tx.tail => j < l.seq
    BY <1>7 DEF Calm, QueueCalm
  <2>4. \A j \in Range(voq) : j < k.seq
    BY <1>2, <2>2, <2>3
  <2>5. /\ Range(voq') = Range(voq) \union {k.seq} /\ OutCalm' /\ Rising(voq')
    BY <1>1, <2>1, <2>3, <2>4, Queued DEF ConWeaveInv, Calm
  <2>6. ASSUME NEW l \in Flight', l.seq > tx.tail PROVE k.seq < l.seq
    <3>1. PICK p \in Paths : l \in On(p)'
      BY DEF Flight
    <3>2. p = path
      BY <1>2, <2>2, <2>6, <3>1 DEF Calm, PathsCalm, OneOldPath
    <3> QED
      BY <1>2, <3>1, <3>2
  <2>7. QueueCalm'
    BY <1>1, <1>2, <1>4, <1>7, <1>14, <2>2, <2>3, <2>5, <2>6 DEF QueueCalm
  <2> QED
    BY <1>8, <1>13, <2>5, <2>7 DEF Calm
<1>16. CASE ~ OutOfOrder(k)
  <2>1. out' = Append(out, k.seq) /\ voq' = voq
    BY <1>16 DEF Accept, Place
  <2>2. tx.phase = 0 \/ k.seq <= tx.tail \/ (PastTail /\ voq = <<>>)
    <3>1. ASSUME tx.phase = 1, k.seq > tx.tail PROVE PastTail /\ voq = <<>>
      <4>1. k.phase = 1 /\ k.epoch = tx.epoch /\ k.flag # "TAIL"
        BY <1>3, <1>9, <3>1
      <4>2. PhaseAfter(k) = 1
        BY <1>4, <1>16, <4>1
      <4>3. ~ (rx.epoch < k.epoch) /\ rx.phase = 1
        BY <1>4, <4>1, <4>2
      <4>4. rx.epoch = tx.epoch
        BY <1>3, <1>4, <4>1, <4>3
      <4> QED
        BY <1>7, <4>3, <4>4 DEF Calm, EndsAgree
    <3> QED
      BY <1>3, <3>1
  <2>3. /\ \A j \in Flight' : k.seq < j.seq
        /\ \A j \in Range(voq) : k.seq < j
    BY <2>2, HeadIsNext DEF ConWeaveInv
  <2>4. OutCalm'
    BY <1>1, <2>1, <2>3, Delivered DEF ConWeaveInv, Calm
  <2>5. ASSUME voq # <<>>
        PROVE  tx.phase = 1 /\ k.epoch = tx.epoch /\ PhaseAfter(k) = 0
    <3>1. tx.phase = 1 /\ rx.epoch = tx.epoch /\ rx.phase = 0
      BY <2>5 DEF Calm, QueueCalm
    <3>2. k.epoch = tx.epoch /\ ~ (rx.epoch < k.epoch)
      BY <1>3, <1>4, <3>1
    <3> QED
      BY <1>4, <1>7, <2>5, <3>1, <3>2
  <2>6. QueueCalm'
    <3>1. Rising(voq)
      BY DEF Calm, QueueCalm
    <3>2. voq # <<>> => \A j \in Range(voq) :
            j > tx.tail /\ \A l \in Flight' : l.seq > tx.tail => j < l.seq
      BY <1>2 DEF Calm, QueueCalm
    <3> QED
      BY <1>1, <1>4, <1>7, <1>14, <2>1, <2>5, <3>1, <3>2 DEF QueueCalm
  <2> QED
    BY <1>8, <1>13, <2>4, <2>6 DEF Calm
<1> QED
  BY <1>15, <1>16

LEMMA ReceiveKeeps ==
  ASSUME ConWeaveInv, NEW path \in Paths, Receive(path)
  PROVE  ConWeaveInv'
<1>1. PICK k : k = Head(wire[path])
  OBVIOUS
<1>2. /\ wire[path] # <<>> /\ wire' = [wire EXCEPT ![path] = Tail(@)]
      /\ UNCHANGED <<tx, sent, lost, lostReplies, excuse>>
      /\ Pass(k) \/ Accept(k)
  BY <1>1 DEF Receive
<1>3. CASE Pass(k)
  BY <1>1, <1>2, <1>3, PassKeeps
<1>4. CASE Accept(k)
  <2>1. (TypesInv /\ PlacesInv /\ SourceInv /\ EpochsInv /\ QueueInv)'
    BY <1>1, <1>2, <1>4, AcceptAlways
  <2>2. ASSUME excuse' = {} PROVE Calm'
    <3>1. Calm
      BY <1>2, <2>2 DEF ConWeaveInv
    <3> QED
      BY <1>1, <1>2, <1>4, <3>1, AcceptCalm
  <2> QED
    BY <2>1, <2>2 DEF ConWeaveInv
<1> QED
  BY <1>2, <1>3, <1>4

-----------------------------------------------------------------------------
(* The queue is flushed.                                                   *)

LEMMA FlushKeeps ==
  ASSUME ConWeaveInv, Flush
  PROVE  ConWeaveInv'
<1>1. /\ voq # <<>> /\ voq' = <<>> /\ ~ flushNow' /\ flushNow' \in BOOLEAN
      /\ out' = out \o voq
      /\ tx' = tx /\ sent' = sent /\ wire' = wire /\ replies' = replies
      /\ lost' = lost
  BY DEF Flush, FlushDue
<1>2. /\ rx' \in RxType /\ rx'.known = rx.known /\ rx'.epoch = rx.epoch
      /\ rx'.phase = 1 /\ rx'.phase0 = rx.phase0 /\ rx'.cache = rx.cache
      /\ ~ rx'.reordering
  <2>1. rx \in RxType
    BY DEF ConWeaveInv, TypesInv
  <2>2. rx' = [known |-> rx.known, epoch |-> rx.epoch, phase |-> 1,
               phase0 |-> rx.phase0, cache |-> rx.cache, reordering |-> FALSE]
    BY <2>1 DEF Flush, RxFlushed, RxType
  <2>3. rx' \in RxType
    BY <2>1, <2>2 DEF RxType
  <2> QED
    BY <2>2, <2>3
<1>3. /\ out \in Seq(1 .. NumPackets) /\ voq \in Seq(1 .. NumPackets)
      /\ out' \in Seq(1 .. NumPackets)
      /\ Range(out') = Range(out) \union Range(voq)
  <2>1. PICK S : S = 1 .. NumPackets
    OBVIOUS
  <2>2. out \in Seq(S) /\ voq \in Seq(S)
    BY <2>1 DEF ConWeaveInv, TypesInv
  <2>3. out \o voq \in Seq(S) /\ Range(out \o voq) = Range(out) \union Range(voq)
    BY <2>2, ElementsJoined
  <2> QED
    BY <1>1, <2>1, <2>2, <2>3
<1>4. TypesInv'
  <2>1. <<>> \in Seq(1 .. NumPackets)
    OBVIOUS
  <2> QED
    BY <1>1, <1>2, <1>3, <2>1 DEF ConWeaveInv, TypesInv
<1>5. InFlight' = InFlight /\ Flight' = Flight /\ \A p \in Paths : On(p)' = On(p)
  BY <1>1 DEF InFlight, OnPath, Flight, On
<1>6. Range(voq') = {} /\ Undelivered' = InFlight
  <2>1. Range(voq') = {}
    BY <1>1 DEF Range
  <2> QED
    BY <1>5, <2>1 DEF Undelivered
<1>7. PlacesInv'
  <2>1. IsInjective(out')
    BY <1>1, <1>3, InjectiveJoined DEF ConWeaveInv, PlacesInv
  <2>2. IsInjective(voq')
    BY <1>1 DEF IsInjective
  <2>3. 1 .. sent' = Range(out') \union Undelivered' \union lost'
    BY <1>1, <1>3, <1>6 DEF ConWeaveInv, PlacesInv, Undelivered
  <2>4. InFlight' \intersect (Range(out') \union Range(voq')) = {}
    BY <1>3, <1>5, <1>6 DEF ConWeaveInv, PlacesInv
  <2>5. /\ \A p \in Paths : Ordered(wire'[p])
        /\ \A p, q \in Paths : \A i \in On(p)', j \in On(q)' : i.seq = j.seq => p = q
    BY <1>1, <1>5 DEF ConWeaveInv, PlacesInv
  <2> QED
    BY <1>6, <2>1, <2>2, <2>3, <2>4, <2>5 DEF PlacesInv
<1>8. tx.known /\ rx.known
  <2>1. Range(voq) # {}
    BY <1>1, <1>3, NonEmptyRange
  <2>2. Undelivered # {}
    BY <2>1 DEF Undelivered
  <2> QED
    BY <1>1, <2>2 DEF ConWeaveInv, SourceInv, QueueInv, NewRx
<1>9. SourceInv'
  BY <1>1, <1>2, <1>5, <1>8 DEF ConWeaveInv, SourceInv
<1>10. EpochsInv'
  BY <1>1, <1>2, <1>5 DEF ConWeaveInv, EpochsInv
<1>11. QueueInv'
  BY <1>1, <1>2, <1>8 DEF QueueInv
<1>12. ASSUME excuse' = {} PROVE Calm'
  <2>1. excuse = {} /\ (flushNow \/ ~ \E i \in InFlight : \E j \in Range(voq) : i < j)
    BY <1>12 DEF Flush
  <2>2. Calm
    BY <2>1 DEF ConWeaveInv
  <2>3. /\ tx.phase = 1 /\ rx.epoch = tx.epoch /\ tx.tail \in Nat
        /\ Range(voq) \subseteq Nat /\ InFlight \subseteq Nat
        /\ \A j \in Range(voq) : j > tx.tail
        /\ \A j \in Range(voq) : \A l \in Flight : l.seq > tx.tail => j < l.seq
        /\ \A l \in Flight : l.seq \in InFlight
        /\ \A i \in InFlight : \E l \in Flight : i = l.seq
        /\ Rising(voq)
    <3>1. InFlight \subseteq Nat /\ Range(voq) \subseteq Nat /\ tx.tail \in Nat
      BY PacketsPlaced, Numbers DEF ConWeaveInv
    <3> QED
      BY <1>1, <2>2, <3>1, PacketsPlaced DEF ConWeaveInv, Calm, QueueCalm
\* All that is in the queue was sent before all that is under way.
  <2>4. \A i \in InFlight : \A j \in Range(voq) : j < i
    <3>1. CASE flushNow
      BY <2>2, <2>3, <3>1 DEF Calm, QueueCalm, PastTail
    <3>2. CASE ~ flushNow
      BY <2>1, <2>3, <3>2 DEF ConWeaveInv, PlacesInv
    <3> QED
      BY <3>1, <3>2
  <2>5. PastTail
    <3>1. PICK j \in Range(voq) : TRUE
      BY <1>1, <1>3, NonEmptyRange
    <3>2. ASSUME NEW l \in Flight PROVE l.seq > tx.tail
      <4>1. l.seq \in InFlight /\ l.seq \in Nat /\ j \in Nat
        BY <2>3
      <4>2. j < l.seq /\ j > tx.tail
        BY <2>3, <2>4, <4>1
      <4> QED
        BY <2>3, <4>1, <4>2
    <3> QED
      BY <3>2 DEF PastTail
  <2>6. PathsCalm'
    BY <1>1, <1>5, <2>2 DEF Calm, PathsCalm, OneOldPath
  <2>7. EndsAgree'
    BY <1>1, <1>2, <1>5, <2>2, <2>3, <2>5 DEF Calm, EndsAgree, PastTail
  <2>8. QueueCalm'
    BY <1>1, <1>6 DEF QueueCalm, Rising
  <2>9. OutCalm'
    <3>1. Rising(out) /\ \A i \in Range(out), j \in Undelivered : i < j
      BY <2>2 DEF Calm, OutCalm
    <3>2. Rising(out \o voq)
      BY <1>3, <2>3, <3>1, RisingJoined DEF Undelivered
    <3> QED
      BY <1>1, <1>3, <1>6, <2>4, <3>1, <3>2 DEF OutCalm, Undelivered
  <2> QED
    BY <2>6, <2>7, <2>8, <2>9 DEF Calm
<1> QED
  BY <1>4, <1>7, <1>9, <1>10, <1>11, <1>12 DEF ConWeaveInv

-----------------------------------------------------------------------------
(* Replies and time.                                                       *)

\* What the steps below leave alone.
Settled ==
  /\ wire' = wire /\ voq' = voq /\ flushNow' = flushNow /\ out' = out
  /\ sent' = sent /\ lost' = lost /\ excuse' = excuse

LEMMA SettledPlaces ==
  ASSUME Settled
  PROVE  /\ \A p \in Paths : On(p)' = On(p)
         /\ Flight' = Flight /\ InFlight' = InFlight /\ Undelivered' = Undelivered
         /\ PlacesInv => PlacesInv'
         /\ OutCalm => OutCalm'
<1>1. wire' = wire /\ voq' = voq /\ out' = out /\ sent' = sent /\ lost' = lost
  BY DEF Settled
<1>2. \A p \in Paths : On(p)' = On(p)
  BY <1>1 DEF On
<1>3. Flight' = Flight /\ InFlight' = InFlight
  BY <1>1 DEF Flight, On, InFlight, OnPath
<1>4. Undelivered' = Undelivered
  BY <1>1, <1>3 DEF Undelivered
<1>5. PlacesInv => PlacesInv'
  BY <1>1, <1>2, <1>3, <1>4 DEF PlacesInv
<1>6. OutCalm => OutCalm'
  BY <1>1, <1>4 DEF OutCalm
<1> QED
  BY <1>2, <1>3, <1>4, <1>5, <1>6

\* A step that leaves the paths and the epochs of both ends alone.
LEMMA EpochsKept ==
  ASSUME ConWeaveInv, Settled, rx' = rx, tx' \in TxType, tx'.known = tx.known,
         tx'.epoch = tx.epoch, tx'.phase = tx.phase, tx'.path = tx.path,
         tx'.tail = tx.tail, tx'.timer # "off" => tx.phase = 0, tx.known,
         replies' \in Seq(Reply), Range(replies') \subseteq Range(replies),
         excuse = {} /\ ~ tx'.quiet /\ tx'.stabilized /\ tx.phase = 1 =>
           rx.epoch = tx.epoch /\ rx.phase = 1
  PROVE  ConWeaveInv'
<1>1. /\ wire' = wire /\ voq' = voq /\ flushNow' = flushNow /\ out' = out
      /\ sent' = sent /\ lost' = lost /\ excuse' = excuse
      /\ \A p \in Paths : On(p)' = On(p)
      /\ Flight' = Flight /\ InFlight' = InFlight /\ Undelivered' = Undelivered
      /\ PlacesInv'
  BY SettledPlaces DEF Settled, ConWeaveInv
<1>2. TypesInv'
  BY <1>1 DEF ConWeaveInv, TypesInv
<1>3. SourceInv'
  BY <1>1 DEF ConWeaveInv, SourceInv
<1>4. EpochsInv'
  BY <1>1 DEF ConWeaveInv, EpochsInv
<1>5. QueueInv'
  BY <1>1 DEF ConWeaveInv, QueueInv
<1>6. ASSUME excuse' = {} PROVE Calm'
  <2>1. excuse = {} /\ Calm
    BY <1>1, <1>6 DEF ConWeaveInv
  <2>2. PathsCalm' /\ (PastTail => PastTail')
    BY <1>1, <2>1 DEF Calm, PathsCalm, OneOldPath, PastTail
  <2>3. EndsAgree'
    BY <1>1, <2>1, <2>2 DEF Calm, EndsAgree
  <2>4. QueueCalm'
    BY <1>1, <2>1, <2>2 DEF Calm, QueueCalm
  <2>5. OutCalm'
    BY <2>1, SettledPlaces DEF Calm
  <2> QED
    BY <2>2, <2>3, <2>4, <2>5 DEF Calm
<1> QED
  BY <1>1, <1>2, <1>3, <1>4, <1>5, <1>6 DEF ConWeaveInv

LEMMA RepliesTail ==
  ASSUME TypesInv, replies # <<>>
  PROVE  /\ Head(replies) \in Range(replies) /\ Head(replies) \in Reply
         /\ Tail(replies) \in Seq(Reply)
         /\ Range(Tail(replies)) \subseteq Range(replies)
<1>1. PICK s : s = replies
  OBVIOUS
<1>2. /\ s \in Seq(Reply) /\ s # <<>> /\ Len(s) \in Nat \ {0}
      /\ DOMAIN s = 1 .. Len(s) /\ Head(s) = s[1] /\ Tail(s) \in Seq(Reply)
      /\ DOMAIN Tail(s) = 1 .. Len(s) - 1
      /\ \A i \in 1 .. Len(s) - 1 : Tail(s)[i] = s[i + 1]
      /\ Head(s) \in Reply
  BY <1>1 DEF TypesInv
<1>3. s[1] \in Range(s)
  BY <1>2 DEF Range
<1>4. ASSUME NEW i \in DOMAIN Tail(s) PROVE Tail(s)[i] \in Range(s)
  <2>1. i + 1 \in 1 .. Len(s) /\ Tail(s)[i] = s[i + 1]
    BY <1>2
  <2> QED
    BY <1>2, <2>1 DEF Range
<1> QED
  BY <1>1, <1>2, <1>3, <1>4 DEF Range

LEMMA GetReplyKeeps ==
  ASSUME ConWeaveInv, GetReply
  PROVE  ConWeaveInv'
<1>1. /\ replies # <<>> /\ ~ flushNow /\ replies' = Tail(replies)
      /\ Settled /\ rx' = rx
  BY DEF GetReply, Settled, rxVars
<1>2. PICK r : r = Head(replies)
  OBVIOUS
<1>3. /\ r \in Range(replies) /\ r \in Reply /\ replies' \in Seq(Reply)
      /\ Range(replies') \subseteq Range(replies)
  BY <1>1, <1>2, RepliesTail DEF ConWeaveInv
<1>4. tx.known /\ tx \in TxType /\ (tx.timer # "off" => tx.phase = 0)
  BY <1>1 DEF ConWeaveInv, SourceInv, TypesInv
<1>5. excuse = {} => Calm
  BY DEF ConWeaveInv
<1>6. CASE Accepts(r)
  <2>1. tx' = [known |-> tx.known, quiet |-> tx.quiet, stabilized |-> TRUE,
               epoch |-> tx.epoch, phase |-> tx.phase, path |-> tx.path,
               timer |-> "off", tail |-> tx.tail]
    BY <1>2, <1>4, <1>6 DEF GetReply, TxType
  <2>2. tx' \in TxType
    BY <1>4, <2>1 DEF TxType
  <2>3. excuse = {} /\ tx.phase = 1 => rx.epoch = tx.epoch /\ rx.phase = 1
    <3>1. tx.phase = 1 => r.flag = "TAIL" /\ r.epoch = tx.epoch
      BY <1>3, <1>6 DEF Accepts, ReplyPhase, Reply
    <3> QED
      BY <1>1, <1>3, <1>5, <3>1 DEF Calm, EndsAgree
  <2> QED
    BY <1>1, <1>3, <1>4, <2>1, <2>2, <2>3, EpochsKept
<1>7. CASE ~ Accepts(r)
  <2>1. tx' = tx
    BY <1>2, <1>7 DEF GetReply
  <2>2. excuse = {} /\ ~ tx.quiet /\ tx.stabilized /\ tx.phase = 1 =>
          rx.epoch = tx.epoch /\ rx.phase = 1
    BY <1>5 DEF Calm, EndsAgree
  <2> QED
    BY <1>1, <1>3, <1>4, <2>1, <2>2, EpochsKept
<1> QED
  BY <1>6, <1>7

LEMMA LoseReplyKeeps ==
  ASSUME ConWeaveInv, LoseReply
  PROVE  ConWeaveInv'
<1>1. /\ replies # <<>> /\ replies' = Tail(replies) /\ Settled /\ rx' = rx /\ tx' = tx
  BY DEF LoseReply, Settled, rxVars
<1>2. replies' \in Seq(Reply) /\ Range(replies') \subseteq Range(replies)
  BY <1>1, RepliesTail DEF ConWeaveInv
<1>3. tx.known /\ tx \in TxType /\ (tx.timer # "off" => tx.phase = 0)
  BY <1>1 DEF ConWeaveInv, SourceInv, TypesInv
<1>4. excuse = {} /\ ~ tx.quiet /\ tx.stabilized /\ tx.phase = 1 =>
        rx.epoch = tx.epoch /\ rx.phase = 1
  BY DEF ConWeaveInv, Calm, EndsAgree
<1> QED
  BY <1>1, <1>2, <1>3, <1>4, EpochsKept

LEMMA ReplyTimeoutKeeps ==
  ASSUME ConWeaveInv, ReplyTimeout
  PROVE  ConWeaveInv'
<1>1. Settled /\ rx' = rx /\ replies' = replies /\ tx.timer = "armed"
  BY DEF ReplyTimeout, Settled, rxVars
<1>2. tx \in TxType /\ tx.known /\ tx.phase = 0 /\ replies \in Seq(Reply)
  BY <1>1 DEF ConWeaveInv, SourceInv, TypesInv, NewTx
<1>3. tx' = [known |-> tx.known, quiet |-> tx.quiet, stabilized |-> tx.stabilized,
             epoch |-> tx.epoch, phase |-> tx.phase, path |-> tx.path,
             timer |-> "due", tail |-> tx.tail]
  BY <1>2 DEF ReplyTimeout, TxType
<1>4. tx' \in TxType
  BY <1>2, <1>3 DEF TxType
<1>5. excuse = {} /\ ~ tx'.quiet /\ tx'.stabilized /\ tx.phase = 1 =>
        rx.epoch = tx.epoch /\ rx.phase = 1
  BY <1>2
<1> QED
  BY <1>1, <1>2, <1>3, <1>4, <1>5, EpochsKept

LEMMA ExpireKeeps ==
  ASSUME ConWeaveInv, Expire
  PROVE  ConWeaveInv'
<1>1. Settled /\ rx' = rx /\ replies' = replies /\ ~ tx.quiet
  BY DEF Expire, Settled, rxVars
<1>2. /\ tx \in TxType /\ tx.known /\ replies \in Seq(Reply)
      /\ tx.timer # "off" => tx.phase = 0
  BY <1>1 DEF ConWeaveInv, SourceInv, TypesInv, NewTx
<1>3. tx' = [known |-> tx.known, quiet |-> TRUE, stabilized |-> tx.stabilized,
             epoch |-> tx.epoch, phase |-> tx.phase, path |-> tx.path,
             timer |-> tx.timer, tail |-> tx.tail]
  BY <1>2 DEF Expire, TxType
<1>4. tx' \in TxType
  BY <1>2, <1>3 DEF TxType
<1> QED
  BY <1>1, <1>2, <1>3, <1>4, EpochsKept

\* Both entries age only when nothing of the flow is under way.
LEMMA AgeTxKeeps ==
  ASSUME ConWeaveInv, AgeTx
  PROVE  ConWeaveInv'
<1>1. /\ Settled /\ rx' = rx /\ replies' = replies /\ tx' = NewTx
      /\ replies = <<>> /\ Undelivered = {}
  BY DEF AgeTx, Idle, Settled, rxVars
<1>2. /\ wire' = wire /\ voq' = voq /\ flushNow' = flushNow /\ out' = out
      /\ sent' = sent /\ lost' = lost /\ excuse' = excuse
      /\ \A p \in Paths : On(p)' = On(p)
      /\ Flight' = Flight /\ Undelivered' = Undelivered
      /\ PlacesInv'
  BY <1>1, SettledPlaces DEF Settled, ConWeaveInv
<1>3. /\ ~ tx'.known /\ tx'.quiet /\ tx'.epoch = 0 /\ tx'.phase = 0
      /\ tx'.timer = "off" /\ tx'.tail = 0
  BY <1>1 DEF NewTx
<1>4. /\ Flight = {} /\ voq = <<>> /\ Range(replies) = {}
      /\ \A p \in Paths : On(p) = {}
  <2>1. Flight = {} /\ voq = <<>>
    BY <1>1, NothingLeft DEF ConWeaveInv
  <2>2. Range(replies) = {}
    BY <1>1 DEF Range
  <2> QED
    BY <2>1, <2>2 DEF Flight
<1>5. rx.epoch \in Nat \ {0} /\ sent \in Nat
  BY Numbers DEF ConWeaveInv
<1>6. TypesInv'
  <2>1. NewTx \in TxType
    BY ConWeaveAssumption DEF NewTx, TxType
  <2> QED
    BY <1>1, <1>2, <2>1 DEF ConWeaveInv, TypesInv
<1>7. SourceInv'
  BY <1>1, <1>2, <1>3, <1>4, <1>5 DEF ConWeaveInv, SourceInv
<1>8. EpochsInv'
  BY <1>1, <1>2, <1>3, <1>4 DEF EpochsInv
<1>9. QueueInv'
  BY <1>1, <1>2, <1>4 DEF ConWeaveInv, QueueInv
<1>10. ASSUME excuse' = {} PROVE Calm'
  <2>1. Calm
    BY <1>2, <1>10 DEF ConWeaveInv
  <2>2. PathsCalm'
    BY <1>2, <1>3, <1>4 DEF PathsCalm
  <2>3. EndsAgree'
    BY <1>1, <1>2, <1>3, <1>4 DEF EndsAgree
  <2>4. QueueCalm'
    BY <1>2, <1>4 DEF QueueCalm, ConWeaveInv, QueueInv, Rising
  <2>5. OutCalm'
    BY <1>1, <2>1, SettledPlaces DEF Calm
  <2> QED
    BY <2>2, <2>3, <2>4, <2>5 DEF Calm
<1> QED
  BY <1>2, <1>6, <1>7, <1>8, <1>9, <1>10 DEF ConWeaveInv

LEMMA AgeRxKeeps ==
  ASSUME ConWeaveInv, AgeRx
  PROVE  ConWeaveInv'
<1>1. /\ Settled /\ tx' = tx /\ replies' = replies /\ rx' = NewRx
      /\ replies = <<>> /\ Undelivered = {} /\ tx.quiet
  BY DEF AgeRx, Idle, Settled
<1>2. /\ wire' = wire /\ voq' = voq /\ flushNow' = flushNow /\ out' = out
      /\ sent' = sent /\ lost' = lost /\ excuse' = excuse
      /\ \A p \in Paths : On(p)' = On(p)
      /\ Flight' = Flight /\ Undelivered' = Undelivered
      /\ PlacesInv'
  BY <1>1, SettledPlaces DEF Settled, ConWeaveInv
<1>3. /\ ~ rx'.known /\ rx'.epoch = 1 /\ rx'.phase = 0 /\ rx'.phase0 = 0
      /\ ~ rx'.cache /\ ~ rx'.reordering
  BY <1>1 DEF NewRx
<1>4. /\ Flight = {} /\ voq = <<>> /\ Range(replies) = {}
      /\ \A p \in Paths : On(p) = {}
  <2>1. Flight = {} /\ voq = <<>>
    BY <1>1, NothingLeft DEF ConWeaveInv
  <2>2. Range(replies) = {}
    BY <1>1 DEF Range
  <2> QED
    BY <2>1, <2>2 DEF Flight
<1>5. tx.epoch \in Nat /\ sent \in Nat
  BY Numbers DEF ConWeaveInv
<1>6. TypesInv'
  <2>1. NewRx \in RxType
    BY ConWeaveAssumption DEF NewRx, RxType
  <2> QED
    BY <1>1, <1>2, <2>1 DEF ConWeaveInv, TypesInv
<1>7. SourceInv'
  BY <1>1, <1>2, <1>3, <1>4, <1>5 DEF ConWeaveInv, SourceInv
<1>8. EpochsInv'
  BY <1>1, <1>2, <1>3, <1>4 DEF EpochsInv
<1>9. QueueInv'
  BY <1>1, <1>2, <1>3, <1>4 DEF ConWeaveInv, QueueInv
<1>10. ASSUME excuse' = {} PROVE Calm'
  <2>1. Calm
    BY <1>2, <1>10 DEF ConWeaveInv
  <2>2. PathsCalm'
    BY <1>1, <1>2, <2>1 DEF Calm, PathsCalm, OneOldPath
  <2>3. EndsAgree'
    <3>1. tx.known => 1 <= tx.epoch
      BY <1>5 DEF ConWeaveInv, SourceInv
    <3> QED
      BY <1>1, <1>2, <1>3, <1>4, <3>1 DEF EndsAgree
  <2>4. QueueCalm'
    BY <1>2, <1>4 DEF QueueCalm, ConWeaveInv, QueueInv, Rising
  <2>5. OutCalm'
    BY <1>1, <2>1, SettledPlaces DEF Calm
  <2> QED
    BY <2>2, <2>3, <2>4, <2>5 DEF Calm
<1> QED
  BY <1>2, <1>6, <1>7, <1>8, <1>9, <1>10 DEF ConWeaveInv

LEMMA StutterKeeps ==
  ASSUME ConWeaveInv, UNCHANGED vars
  PROVE  ConWeaveInv'
<1>1. Settled /\ tx' = tx /\ rx' = rx /\ replies' = replies
  BY DEF vars, rxVars, Settled
<1>2. /\ wire' = wire /\ voq' = voq /\ flushNow' = flushNow /\ out' = out
      /\ sent' = sent /\ excuse' = excuse
      /\ \A p \in Paths : On(p)' = On(p)
      /\ Flight' = Flight /\ Undelivered' = Undelivered
      /\ PlacesInv'
  BY <1>1, SettledPlaces DEF Settled, ConWeaveInv
<1>3. TypesInv' /\ SourceInv' /\ EpochsInv' /\ QueueInv'
  BY <1>1, <1>2 DEF ConWeaveInv, TypesInv, SourceInv, EpochsInv, QueueInv
<1>4. ASSUME excuse' = {} PROVE Calm'
  <2>1. Calm
    BY <1>2, <1>4 DEF ConWeaveInv
  <2>2. PathsCalm' /\ (PastTail => PastTail')
    BY <1>1, <1>2, <2>1 DEF Calm, PathsCalm, OneOldPath, PastTail
  <2>3. EndsAgree'
    BY <1>1, <1>2, <2>1, <2>2 DEF Calm, EndsAgree
  <2>4. QueueCalm'
    BY <1>1, <1>2, <2>1, <2>2 DEF Calm, QueueCalm
  <2>5. OutCalm'
    BY <1>1, <2>1, SettledPlaces DEF Calm
  <2> QED
    BY <2>2, <2>3, <2>4, <2>5 DEF Calm
<1> QED
  BY <1>2, <1>3, <1>4 DEF ConWeaveInv

-----------------------------------------------------------------------------
(* The theorems.                                                           *)

LEMMA ConWeaveInit ==
  ASSUME Init
  PROVE  ConWeaveInv
<1>1. /\ tx = NewTx /\ rx = NewRx /\ voq = <<>> /\ flushNow = FALSE /\ sent = 0
      /\ wire = [p \in Paths |-> <<>>] /\ replies = <<>> /\ out = <<>>
      /\ lost = {} /\ excuse = {}
  BY DEF Init
<1>2. /\ Range(voq) = {} /\ Range(out) = {} /\ Range(replies) = {}
      /\ \A p \in Paths : On(p) = {}
  BY <1>1 DEF Range, On
<1>3. Flight = {} /\ InFlight = {}
  BY <1>2 DEF Flight, InFlight, OnPath, On
<1>4. Undelivered = {}
  BY <1>2, <1>3 DEF Undelivered
<1>5. TypesInv
  <2>1. NewTx \in TxType /\ NewRx \in RxType
    BY ConWeaveAssumption DEF NewTx, NewRx, TxType, RxType
  <2>2. 0 \in 0 .. NumPackets
    BY ConWeaveAssumption
  <2>3. /\ <<>> \in Seq(Packet) /\ <<>> \in Seq(Reply)
        /\ <<>> \in Seq(1 .. NumPackets)
    OBVIOUS
  <2>4. wire \in [Paths -> Seq(Packet)]
    BY <1>1, <2>3
  <2> QED
    BY <1>1, <2>1, <2>2, <2>3, <2>4 DEF TypesInv
<1>6. PlacesInv
  <2>1. \A p \in Paths : Ordered(wire[p])
    BY <1>1 DEF Ordered
  <2>2. IsInjective(out) /\ IsInjective(voq)
    BY <1>1 DEF IsInjective
  <2>3. 1 .. sent = {}
    BY <1>1
  <2> QED
    BY <1>1, <1>2, <1>3, <1>4, <2>1, <2>2, <2>3 DEF PlacesInv
<1>7. /\ ~ tx.known /\ tx.quiet /\ tx.epoch = 0 /\ tx.phase = 0 /\ tx.timer = "off"
      /\ tx.tail = 0 /\ ~ rx.known /\ rx.epoch = 1 /\ rx.phase = 0 /\ rx.phase0 = 0
      /\ ~ rx.cache /\ ~ rx.reordering
  BY <1>1 DEF NewTx, NewRx
<1>8. SourceInv /\ EpochsInv /\ QueueInv
  BY <1>1, <1>2, <1>3, <1>4, <1>7 DEF SourceInv, EpochsInv, QueueInv
<1>9. PathsCalm /\ EndsAgree /\ QueueCalm /\ OutCalm
  BY <1>1, <1>2, <1>3, <1>4, <1>7
  DEF PathsCalm, EndsAgree, QueueCalm, OutCalm, Rising
<1> QED
  BY <1>5, <1>6, <1>8, <1>9 DEF ConWeaveInv, Calm

LEMMA ConWeaveNext ==
  ASSUME ConWeaveInv, [Next]_vars
  PROVE  ConWeaveInv'
<1>1. CASE Send
  BY <1>1, SendExpiredKeeps, SendStabilizedKeeps, SendTailKeeps, SendDataKeeps DEF Send
<1>2. CASE GetReply
  BY <1>2, GetReplyKeeps
<1>3. ASSUME NEW path \in Paths, Receive(path) \/ LoseData(path)
      PROVE  ConWeaveInv'
  BY <1>3, ReceiveKeeps, LoseDataKeeps
<1>4. CASE Flush
  BY <1>4, FlushKeeps
<1>5. CASE LoseReply
  BY <1>5, LoseReplyKeeps
<1>6. CASE ReplyTimeout \/ Expire
  BY <1>6, ReplyTimeoutKeeps, ExpireKeeps
<1>7. CASE AgeTx \/ AgeRx
  BY <1>7, AgeTxKeeps, AgeRxKeeps
<1>8. CASE Over \/ UNCHANGED vars
  BY <1>8, StutterKeeps DEF Over
<1> QED
  BY <1>1, <1>2, <1>3, <1>4, <1>5, <1>6, <1>7, <1>8 DEF Next

\* The invariant: where the packets of the flow are, how the epochs and phases
\* of its two ends agree with what is between them, and, as long as no timer
\* has guessed wrong, what may overtake what.
THEOREM ConWeaveInvariant == Spec => []ConWeaveInv
<1>1. Init => ConWeaveInv
  BY ConWeaveInit
<1>2. ConWeaveInv /\ [Next]_vars => ConWeaveInv'
  BY ConWeaveNext
<1> QED
  BY <1>1, <1>2, PTL DEF Spec

\* Types; and no packet is ever in two places, or in none.
THEOREM ConWeaveTypeCorrect == Spec => []TypeOK
<1>1. ConWeaveInv => TypeOK
  BY DEF ConWeaveInv, TypesInv, PlacesInv, TypeOK, TxType, RxType
<1> QED
  BY <1>1, ConWeaveInvariant, PTL

\* None of the asserts of RouteInput and of CallbackByVOQFlush fails, and no
\* exit is taken, whatever was lost and however early the timers fired.
THEOREM ConWeaveAssertsHold == Spec => []AssertsHold
<1>1. ASSUME ConWeaveInv PROVE AssertsHold
  <2>1. rx.reordering <=> voq # <<>>
    BY <1>1 DEF ConWeaveInv, QueueInv
  <2>2. TailsInPhase0
    BY <1>1 DEF TailsInPhase0, ConWeaveInv, SourceInv
  <2>3. ASSUME NEW p \in Paths, wire[p] # <<>>, NEW k, k = Head(wire[p]), ~ Stale(k)
        PROVE  /\ CacheAfter(k) /\ (k.phase = 1 \/ k.flag = "TAIL")
                    => k.tail >= Phase0After(k)
               /\ k.phase = 1 /\ ~ OutOfOrder(k) /\ rx.reordering
                    => flushNow /\ excuse # {}
    <3>1. k \in Flight /\ k \in Packet
      <4>1. wire[p] \in Seq(Packet) /\ Ordered(wire[p])
        BY <1>1 DEF ConWeaveInv, TypesInv, PlacesInv
      <4>2. PICK s : s = wire[p]
        OBVIOUS
      <4>3. Head(s) \in Range(s) /\ Head(s) \in Packet
        BY <2>3, <4>1, <4>2, OrderedTail
      <4> QED
        BY <2>3, <4>2, <4>3 DEF Flight, On
    <3>2. /\ k.seq \in Nat /\ k.tail \in Nat /\ k.phase \in {0, 1} /\ k.epoch \in Nat
          /\ rx.epoch \in Nat /\ rx.phase \in {0, 1} /\ rx.phase0 \in Nat
          /\ k.phase = 1 => k.flag = "DATA"
          /\ k.flag = "TAIL" => k.tail = k.seq
          /\ rx.epoch <= k.epoch
      BY <1>1, <2>3, <3>1, Numbers DEF ConWeaveInv, SourceInv, Stale
    <3>3. ASSUME CacheAfter(k), k.phase = 1 \/ k.flag = "TAIL"
          PROVE  k.tail >= Phase0After(k)
      <4>1. CASE k.phase = 0
        BY <3>2, <3>3, <4>1 DEF Phase0After
      <4>2. CASE k.phase = 1
        <5>1. rx.cache /\ rx.epoch = k.epoch
          <6>1. rx.cache /\ ~ (rx.epoch < k.epoch)
            BY <3>3, <4>2 DEF CacheAfter, NewEpoch
          <6> QED
            BY <3>2, <6>1
        <5>2. rx.phase0 <= k.tail
          BY <1>1, <3>1, <4>2, <5>1 DEF ConWeaveInv, EpochsInv
        <5> QED
          BY <3>2, <4>2, <5>2 DEF Phase0After
      <4> QED
        BY <3>2, <4>1, <4>2
    <3>4. ASSUME k.phase = 1, ~ OutOfOrder(k), rx.reordering
          PROVE  flushNow /\ excuse # {}
      <4>1. PhaseAfter(k) = IF rx.epoch < k.epoch THEN 0 ELSE rx.phase
        BY <3>2, <3>4 DEF PhaseAfter, NewEpoch
      <4>2. PhaseAfter(k) # 0
        BY <3>4 DEF OutOfOrder
      <4>3. rx.epoch = k.epoch /\ rx.phase = 1
        BY <3>2, <4>1, <4>2
      <4>4. flushNow /\ voq # <<>>
        BY <1>1, <3>4, <4>3 DEF ConWeaveInv, QueueInv
      <4>5. ~ Calm
        BY <4>3, <4>4 DEF Calm, QueueCalm
      <4> QED
        BY <1>1, <4>4, <4>5 DEF ConWeaveInv
    <3> QED
      BY <3>3, <3>4
  <2> QED
    BY <2>1, <2>2, <2>3 DEF AssertsHold, ArrivalsFit
<1> QED
  BY <1>1, ConWeaveInvariant, PTL

\* The host gets the packets in the order in which they were sent, whatever was
\* lost, as long as no timer has guessed wrong.
THEOREM ConWeaveInOrder == Spec => []InOrder
<1>1. ConWeaveInv => InOrder
  BY DEF ConWeaveInv, Calm, OutCalm, Rising, InOrder
<1> QED
  BY <1>1, ConWeaveInvariant, PTL

\* As long as no timer has guessed wrong, a flow is on two paths at most.
THEOREM ConWeaveTwoPaths == Spec => []TwoPaths
<1>1. ASSUME ConWeaveInv PROVE TwoPaths
  <2>1. ASSUME excuse = {} PROVE Cardinality({p \in Paths : wire[p] # <<>>}) <= 2
    <3>1. ASSUME NEW p \in Paths, wire[p] # <<>> PROVE \E k \in On(p) : k.seq \in Nat
      <4>1. wire[p] \in Seq(Packet) /\ Ordered(wire[p])
        BY <1>1 DEF ConWeaveInv, TypesInv, PlacesInv
      <4>2. PICK s : s = wire[p]
        OBVIOUS
      <4>3. Head(s) \in Range(s) /\ Head(s) \in Packet
        BY <3>1, <4>1, <4>2, OrderedTail
      <4> QED
        BY <1>1, <4>2, <4>3, Numbers DEF ConWeaveInv, On
    <3>2. PICK old : {p \in Paths : wire[p] # <<>>} \subseteq {tx.path, old}
      <4>1. tx.phase \in {0, 1} /\ tx.tail \in Nat
        BY <1>1, Numbers DEF ConWeaveInv
      <4>2. PathsCalm
        BY <1>1, <2>1 DEF ConWeaveInv, Calm
      <4>3. CASE tx.phase = 0
        BY <3>1, <4>2, <4>3 DEF PathsCalm
      <4>4. CASE tx.phase = 1
        <5>1. PICK old \in Paths : \A p \in Paths : \A k \in On(p) :
                /\ k.seq <= tx.tail => p = old
                /\ k.seq > tx.tail => p = tx.path
          BY <4>2, <4>4 DEF PathsCalm, OneOldPath
        <5>2. ASSUME NEW p \in Paths, wire[p] # <<>> PROVE p = tx.path \/ p = old
          BY <3>1, <4>1, <5>1, <5>2
        <5> QED
          BY <5>2
      <4> QED
        BY <4>1, <4>3, <4>4
    <3>3. IsFiniteSet({tx.path, old}) /\ Cardinality({tx.path, old}) <= 2
      <4>1. IsFiniteSet({old}) /\ Cardinality({old}) = 1
        BY FS_Singleton
      <4>2. /\ IsFiniteSet({old} \union {tx.path})
            /\ Cardinality({old} \union {tx.path}) = 1
                 \/ Cardinality({old} \union {tx.path}) = 2
        BY <4>1, FS_AddElement
      <4>3. {old} \union {tx.path} = {tx.path, old}
        OBVIOUS
      <4> QED
        BY <4>2, <4>3
    <3>4. PICK S : S = {p \in Paths : wire[p] # <<>>}
      OBVIOUS
    <3>5. PICK T : T = {tx.path, old}
      OBVIOUS
    <3>6. Cardinality(S) \in Nat /\ Cardinality(T) \in Nat /\ Cardinality(S) <= Cardinality(T)
      BY <3>2, <3>3, <3>4, <3>5, FS_Subset, FS_CardinalityType
    <3> QED
      BY <3>3, <3>4, <3>5, <3>6
  <2> QED
    BY <2>1 DEF TwoPaths
<1> QED
  BY <1>1, ConWeaveInvariant, PTL

=============================================================================
