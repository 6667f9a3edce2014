------------------------------ MODULE PfcProofs ------------------------------
(***************************************************************************)
(* The safety of priority flow control, for any number of hosts and any    *)
(* delays, limits and pause time.                                          *)
(*                                                                         *)
(* The invariant PfcInv has three parts that the steps keep one by one:    *)
(* BufferInv about the buffers the switch charges, EgressInv about the     *)
(* split of the egress counters, and TimerInv about the two timers of a    *)
(* pause and the PFC frames between them.                                  *)
(***************************************************************************)
EXTENDS Pfc, DataTheorems

-----------------------------------------------------------------------------
(* The invariant.                                                          *)

\* Headroom as far as it is within its limit.
Cap(n) == IF n < Hdrm THEN n ELSE Hdrm
Capped(f) == [h \in Hosts |-> Cap(f[h])]

\* Headroom beyond the limit is charged only to the packet that crosses
\* SpLimit, so that the limits bound the buffer although hdrm may exceed them.
BufferInv ==
  /\ queue \in Seq(Hosts)
  /\ hdrm \in [Hosts -> Nat]
  /\ \A h \in Hosts : hdrm[h] <= PG(queue, h)
  /\ SP(queue) <= SpLimit + SumFunction(hdrm)
  /\ SP(queue) <= SpLimit + 1 + SumFunction(Capped(hdrm))

EgressInv ==
  /\ qMin \in 0 .. QMinLimit
  /\ qShared \in 0 .. EgressLimit
  /\ EgressSplit

FramesOrdered ==
  \A h \in Hosts : \A i, j \in DOMAIN frames[h] :
    i <= j => frames[h][i].left <= frames[h][j].left

\* The pause that is on its way will last longer than the switch believes.
PauseAhead ==
  \A h \in Hosts : swTimer[h] # Off =>
    IF frames[h] # <<>>
    THEN /\ Last(frames[h]).pause
         /\ swTimer[h] + Delay <= PauseTime + Last(frames[h]).left
    ELSE nicTimer[h] > swTimer[h]

TimerInv ==
  /\ nicTimer \in [Hosts -> Ticks(PauseTime)]
  /\ up \in [Hosts -> SUBSET (0 .. Delay)]
  /\ frames \in [Hosts -> Seq(Frame)]
  /\ swTimer \in [Hosts -> Ticks(PauseTime)]
  /\ pauseRemote \in [Hosts -> BOOLEAN]
  /\ FramesOrdered
  /\ PauseAhead

PfcInv == BufferInv /\ EgressInv /\ TimerInv

-----------------------------------------------------------------------------
(* The limits, and the packets of a host in a queue.                       *)

LEMMA Limits ==
  /\ Cardinality(Hosts) \in Nat \ {0}
  /\ Cardinality(Hosts) * Hdrm \in Nat
  /\ MaxBuffer \in Nat /\ EgressLimit \in Nat
  /\ SpLimit + 2 + Cardinality(Hosts) * Hdrm <= MaxBuffer
<1>1. IsFiniteSet(Hosts) /\ Hosts # {} /\ Hdrm \in Nat /\ SpLimit \in Nat
  BY PfcAssumption
<1>2. Cardinality(Hosts) \in Nat /\ Cardinality(Hosts) # 0
  BY <1>1, FS_CardinalityType, FS_EmptySet
<1>3. Cardinality(Hosts) * Hdrm \in Nat
  BY <1>1, <1>2
<1> QED
  BY <1>1, <1>2, <1>3 DEF MaxBuffer, EgressLimit, Reserved

LEMMA PGBounds ==
  ASSUME NEW q \in Seq(Hosts), NEW h
  PROVE  PG(q, h) \in Nat /\ PG(q, h) <= Len(q)
<1>1. IsFiniteSet(1 .. Len(q)) /\ Cardinality(1 .. Len(q)) = Len(q)
  <2>1. Len(q) \in Nat
    OBVIOUS
  <2> QED
    BY <2>1, FS_Interval
<1>2. {i \in DOMAIN q : q[i] = h} \in SUBSET (1 .. Len(q))
  OBVIOUS
<1> QED
  BY <1>1, <1>2, FS_Subset, FS_CardinalityType DEF PG

\* A packet that arrives is one more of its host.
LEMMA PGAppend ==
  ASSUME NEW q \in Seq(Hosts), NEW h \in Hosts, NEW g
  PROVE  PG(Append(q, h), g) = PG(q, g) + (IF g = h THEN 1 ELSE 0)
<1> DEFINE S == {i \in DOMAIN q : q[i] = g}
           n == Len(q) + 1
<1>1. /\ DOMAIN Append(q, h) = 1 .. n /\ DOMAIN q = 1 .. Len(q) /\ Len(q) \in Nat
      /\ \A i \in 1 .. Len(q) : Append(q, h)[i] = q[i]
      /\ Append(q, h)[n] = h
  OBVIOUS
<1>2. IsFiniteSet(S) /\ n \notin S
  <2>1. S \in SUBSET (1 .. Len(q)) /\ IsFiniteSet(1 .. Len(q))
    BY <1>1, FS_Interval
  <2> QED
    BY <1>1, <2>1, FS_Subset
<1>3. {i \in DOMAIN Append(q, h) : Append(q, h)[i] = g}
        = IF g = h THEN S \union {n} ELSE S
  <2>1. 1 .. n = (1 .. Len(q)) \union {n}
    BY <1>1
  <2> QED
    BY <1>1, <2>1
<1>4. Cardinality(S \union {n}) = Cardinality(S) + 1
  BY <1>2, FS_AddElement
<1>5. PG(q, g) = Cardinality(S) /\ Cardinality(S) \in Nat
  BY <1>2, FS_CardinalityType DEF PG
<1>6. PG(Append(q, h), g) = Cardinality(IF g = h THEN S \union {n} ELSE S)
  BY <1>3 DEF PG
<1> HIDE DEF S, n
<1> QED
  BY <1>4, <1>5, <1>6

\* A packet that leaves is one less of its host.
LEMMA PGTail ==
  ASSUME NEW q \in Seq(Hosts), q # <<>>, NEW g
  PROVE  PG(Tail(q), g) = PG(q, g) - (IF g = Head(q) THEN 1 ELSE 0)
<1> DEFINE S == {i \in DOMAIN q : q[i] = g}
           T == {i \in DOMAIN Tail(q) : Tail(q)[i] = g}
           f == [i \in T |-> i + 1]
<1>1. /\ DOMAIN q = 1 .. Len(q) /\ Len(q) \in Nat \ {0}
      /\ DOMAIN Tail(q) = 1 .. Len(q) - 1
      /\ \A i \in 1 .. Len(q) - 1 : Tail(q)[i] = q[i + 1]
      /\ Head(q) = q[1]
  OBVIOUS
<1>2. IsFiniteSet(S) /\ IsFiniteSet(T)
  <2>1. S \in SUBSET (1 .. Len(q)) /\ T \in SUBSET (1 .. Len(q))
    BY <1>1
  <2>2. IsFiniteSet(1 .. Len(q))
    BY <1>1, FS_Interval
  <2> QED
    BY <2>1, <2>2, FS_Subset
<1>3. \A i \in T : i \in Nat /\ i + 1 \in S \ {1}
  BY <1>1
<1>4. \A j \in S \ {1} : j - 1 \in T /\ (j - 1) + 1 = j
  BY <1>1
<1>5. f \in Bijection(T, S \ {1})
  <2> HIDE DEF S, T
  <2>1. f \in [T -> S \ {1}]
    BY <1>3
  <2>2. \A i, j \in T : i # j => f[i] # f[j]
    BY <1>3
  <2>3. \A j \in S \ {1} : \E i \in T : f[i] = j
    BY <1>4
  <2> HIDE DEF f
  <2> QED
    BY <2>1, <2>2, <2>3 DEF Bijection, Injection, Surjection, IsInjective
<1>6. Cardinality(S \ {1}) = Cardinality(T)
  <2>1. ExistsBijection(T, S \ {1})
    BY <1>5 DEF ExistsBijection
  <2> HIDE DEF S, T
  <2> QED
    BY <1>2, <2>1, FS_Bijection
<1>7. Cardinality(S \ {1}) = IF 1 \in S THEN Cardinality(S) - 1 ELSE Cardinality(S)
  BY <1>2, FS_RemoveElement
<1>8. 1 \in S <=> g = Head(q)
  BY <1>1
<1>9. Cardinality(S) \in Nat
  BY <1>2, FS_CardinalityType
<1> HIDE DEF S, T
<1>10. Cardinality(T) = Cardinality(S) - (IF g = Head(q) THEN 1 ELSE 0)
  BY <1>6, <1>7, <1>8, <1>9
<1> QED
  BY <1>10 DEF PG, S, T

-----------------------------------------------------------------------------
(* The buffers.                                                            *)

\* Changing the headroom of one host changes the sums accordingly.
LEMMA HeadroomChanged ==
  ASSUME NEW f, f \in [Hosts -> Nat], NEW h \in Hosts,
         NEW g, g \in [Hosts -> Nat], \A k \in Hosts : k # h => f[k] = g[k]
  PROVE  /\ SumFunction(f) \in Int
         /\ SumFunction(g) = SumFunction(f) + (g[h] - f[h])
         /\ SumFunction(Capped(f)) \in Int
         /\ SumFunction(Capped(g)) =
              SumFunction(Capped(f)) + (Cap(g[h]) - Cap(f[h]))
<1>1. IsFiniteSet(Hosts) /\ Hdrm \in Nat
  BY PfcAssumption
<1>2. f \in [Hosts -> Int] /\ g \in [Hosts -> Int]
  OBVIOUS
<1>4. /\ SumFunction(f) \in Int
      /\ SumFunction(g) = SumFunction(f) + (g[h] - f[h])
  BY <1>1, <1>2, SumUpdate
<1>5. \A k \in Nat : Cap(k) \in Int
  BY <1>1 DEF Cap
<1>6. /\ Capped(f) \in [Hosts -> Int] /\ Capped(g) \in [Hosts -> Int]
      /\ Capped(f)[h] = Cap(f[h]) /\ Capped(g)[h] = Cap(g[h])
      /\ \A k \in Hosts : k # h => Capped(f)[k] = Capped(g)[k]
  BY <1>5 DEF Capped
<1>7. /\ SumFunction(Capped(f)) \in Int
      /\ SumFunction(Capped(g)) =
           SumFunction(Capped(f)) + (Capped(g)[h] - Capped(f)[h])
  BY <1>1, <1>6, SumUpdate
<1> QED
  BY <1>4, <1>6, <1>7

LEMMA BufferInvInit == Init => BufferInv
<1> SUFFICES ASSUME Init PROVE BufferInv
  OBVIOUS
<1>1. queue = <<>> /\ hdrm = [h \in Hosts |-> 0]
  BY DEF Init
<1>2. IsFiniteSet(Hosts) /\ Hdrm \in Nat \ {0} /\ SpLimit \in Nat
  BY PfcAssumption
<1>3. hdrm \in [Hosts -> 0 .. 0] /\ Capped(hdrm) \in [Hosts -> 0 .. 0]
  BY <1>1, <1>2 DEF Capped, Cap
<1>4. SumFunction(hdrm) \in Nat /\ SumFunction(Capped(hdrm)) \in Nat
  BY <1>2, <1>3, SumBounds
<1>5. queue \in Seq(Hosts) /\ SP(queue) = 0
  BY <1>1 DEF SP
<1>6. \A h \in Hosts : hdrm[h] <= PG(queue, h)
  <2>1. \A h \in Hosts : PG(queue, h) \in Nat
    BY <1>5, PGBounds
  <2> QED
    BY <1>1, <2>1
<1> QED
  BY <1>1, <1>2, <1>4, <1>5, <1>6 DEF BufferInv

\* The sums are of natural numbers.
LEMMA HeadroomSum ==
  BufferInv => SumFunction(hdrm) \in Nat
<1> SUFFICES ASSUME BufferInv PROVE SumFunction(hdrm) \in Nat
  OBVIOUS
<1>1. queue \in Seq(Hosts) /\ hdrm \in [Hosts -> Nat] /\ IsFiniteSet(Hosts)
  BY PfcAssumption DEF BufferInv
<1>2. PICK K \in Nat : K = Len(queue)
  BY <1>1
<1>3. \A h \in Hosts : PG(queue, h) \in Nat /\ PG(queue, h) <= K /\ hdrm[h] <= PG(queue, h)
  BY <1>1, <1>2, PGBounds DEF BufferInv
<1>4. hdrm \in [Hosts -> 0 .. K]
  BY <1>1, <1>3
<1> QED
  BY <1>1, <1>4, SumBounds

LEMMA CappedSum ==
  hdrm \in [Hosts -> Nat]
    => /\ SumFunction(Capped(hdrm)) \in Nat
       /\ SumFunction(Capped(hdrm)) <= Cardinality(Hosts) * Hdrm
<1> SUFFICES ASSUME hdrm \in [Hosts -> Nat]
             PROVE  /\ SumFunction(Capped(hdrm)) \in Nat
                    /\ SumFunction(Capped(hdrm)) <= Cardinality(Hosts) * Hdrm
  OBVIOUS
<1>1. IsFiniteSet(Hosts) /\ Hdrm \in Nat
  BY PfcAssumption
<1>2. Capped(hdrm) \in [Hosts -> 0 .. Hdrm]
  BY <1>1 DEF Capped, Cap
<1> QED
  BY <1>1, <1>2, SumBounds

LEMMA UpdateIngressInv ==
  ASSUME BufferInv, NEW h \in Hosts, ~ HeadroomFull(h), UpdateIngressAdmission(h)
  PROVE  BufferInv'
<1>1. /\ queue \in Seq(Hosts) /\ hdrm \in [Hosts -> Nat] /\ hdrm[h] \in Nat
      /\ SpLimit \in Nat /\ Hdrm \in Nat \ {0}
  BY PfcAssumption DEF BufferInv
<1>2. /\ queue' = Append(queue, h) /\ queue' \in Seq(Hosts)
      /\ Len(queue') = Len(queue) + 1 /\ Len(queue) \in Nat
  BY <1>1 DEF UpdateIngressAdmission
<1>3. \A g \in Hosts : /\ PG(queue', g) = PG(queue, g) + (IF g = h THEN 1 ELSE 0)
                       /\ PG(queue, g) \in Nat
                       /\ hdrm[g] <= PG(queue, g)
  BY <1>1, <1>2, PGAppend, PGBounds DEF BufferInv
<1>4. PICK s, c : s = SumFunction(hdrm) /\ c = SumFunction(Capped(hdrm))
  OBVIOUS
<1>5. Len(queue) <= SpLimit + s /\ Len(queue) <= SpLimit + 1 + c
  BY <1>4 DEF BufferInv, SP
<1>6. CASE SP(queue') > SpLimit
  <2>1. hdrm' = [hdrm EXCEPT ![h] = hdrm[h] + 1]
    BY <1>6 DEF UpdateIngressAdmission
  <2>2. PICK n \in Nat : n = hdrm[h] + 1
    BY <1>1
  <2>3. /\ hdrm' \in [Hosts -> Nat]
        /\ s \in Int /\ SumFunction(hdrm') = s + 1
        /\ c \in Int
        /\ SumFunction(Capped(hdrm')) = c + (IF hdrm[h] < Hdrm THEN 1 ELSE 0)
    <3>1. /\ hdrm' \in [Hosts -> Nat] /\ hdrm'[h] = n
          /\ \A g \in Hosts : g # h => hdrm[g] = hdrm'[g]
      BY <1>1, <2>1, <2>2
    <3>2. /\ SumFunction(hdrm) \in Int
          /\ SumFunction(hdrm') = SumFunction(hdrm) + (hdrm'[h] - hdrm[h])
          /\ SumFunction(Capped(hdrm)) \in Int
          /\ SumFunction(Capped(hdrm')) =
               SumFunction(Capped(hdrm)) + (Cap(hdrm'[h]) - Cap(hdrm[h]))
      BY <1>1, <3>1, HeadroomChanged
    <3>3. n - hdrm[h] = 1
      BY <1>1, <2>2
    <3>4. Cap(n) - Cap(hdrm[h]) = IF hdrm[h] < Hdrm THEN 1 ELSE 0
      BY <1>1, <2>2 DEF Cap
    <3> QED
      BY <1>4, <3>1, <3>2, <3>3, <3>4
  <2>4. \A g \in Hosts : hdrm'[g] <= PG(queue', g)
    BY <1>1, <1>3, <2>1
  <2>5. Len(queue') <= SpLimit + 1 + SumFunction(Capped(hdrm'))
    <3>1. CASE Len(queue) > SpLimit
      <4>1. hdrm[h] < Hdrm
        <5>1. PG(queue, h) = 0 \/ hdrm[h] + 1 <= Hdrm
          BY <1>1, <1>3, <3>1 DEF HeadroomFull, SP
        <5> QED
          BY <1>1, <1>3, <5>1
      <4> QED
        BY <1>1, <1>2, <1>5, <2>3, <4>1
    <3>2. CASE ~ (Len(queue) > SpLimit)
      <4>1. SumFunction(Capped(hdrm')) \in Nat
        <5>1. c \in Nat
          BY <1>1, <1>4, CappedSum
        <5> QED
          BY <2>3, <5>1
      <4> QED
        BY <1>1, <1>2, <3>2, <4>1
    <3> QED
      BY <3>1, <3>2
  <2> QED
    BY <1>1, <1>2, <1>5, <2>3, <2>4, <2>5 DEF BufferInv, SP
<1>7. CASE ~ (SP(queue') > SpLimit)
  <2>1. hdrm' = hdrm /\ Capped(hdrm') = Capped(hdrm)
    BY <1>7 DEF UpdateIngressAdmission, Capped
  <2>2. s \in Nat /\ c \in Nat
    BY <1>1, <1>4, HeadroomSum, CappedSum
  <2>3. \A g \in Hosts : hdrm'[g] <= PG(queue', g)
    BY <1>1, <1>3, <2>1
  <2>4. SumFunction(hdrm') = s /\ SumFunction(Capped(hdrm')) = c
    BY <1>4, <2>1
  <2>5. Len(queue') <= SpLimit + s /\ Len(queue') <= SpLimit + 1 + c
    BY <1>1, <1>2, <1>7, <2>2 DEF SP
  <2> QED
    BY <1>1, <1>2, <2>1, <2>3, <2>4, <2>5 DEF BufferInv, SP
<1> QED
  BY <1>6, <1>7

LEMMA RemoveIngressInv ==
  ASSUME BufferInv, queue # <<>>, RemoveFromIngressAdmission(Head(queue))
  PROVE  BufferInv'
<1>1. PICK h \in Hosts : h = Head(queue)
  BY DEF BufferInv
<1>2. /\ queue \in Seq(Hosts) /\ hdrm \in [Hosts -> Nat] /\ hdrm[h] \in Nat
      /\ SpLimit \in Nat /\ Hdrm \in Nat \ {0}
  BY PfcAssumption DEF BufferInv
<1>3. /\ queue' = Tail(queue) /\ queue' \in Seq(Hosts)
      /\ Len(queue') = Len(queue) - 1 /\ Len(queue) \in Nat
  BY <1>2 DEF RemoveFromIngressAdmission
<1>4. PICK n \in Nat : n = IF hdrm[h] > 1 THEN hdrm[h] - 1 ELSE 0
  BY <1>2
<1>5. /\ hdrm' \in [Hosts -> Nat] /\ hdrm'[h] = n
      /\ \A g \in Hosts : g # h => hdrm[g] = hdrm'[g]
  BY <1>1, <1>2, <1>4 DEF RemoveFromIngressAdmission
<1>6. \A g \in Hosts : hdrm'[g] <= PG(queue', g)
  <2>1. ASSUME NEW g \in Hosts PROVE hdrm'[g] <= PG(queue', g)
    <3>1. /\ PG(queue', g) = PG(queue, g) - (IF g = h THEN 1 ELSE 0)
          /\ PG(queue, g) \in Nat /\ PG(queue', g) \in Nat
      BY <1>1, <1>2, <1>3, PGTail, PGBounds
    <3>2. hdrm[g] <= PG(queue, g) /\ hdrm[g] \in Nat
      BY <1>2 DEF BufferInv
    <3> QED
      BY <1>4, <1>5, <3>1, <3>2
  <2> QED
    BY <2>1
<1>7. PICK s, c : s = SumFunction(hdrm) /\ c = SumFunction(Capped(hdrm))
  OBVIOUS
<1>8. Len(queue) <= SpLimit + s /\ Len(queue) <= SpLimit + 1 + c
  BY <1>7 DEF BufferInv, SP
<1>9. /\ s \in Int /\ SumFunction(hdrm') = s + (n - hdrm[h])
      /\ c \in Int /\ SumFunction(Capped(hdrm')) = c + (Cap(n) - Cap(hdrm[h]))
  <2>1. /\ SumFunction(hdrm) \in Int
        /\ SumFunction(hdrm') = SumFunction(hdrm) + (hdrm'[h] - hdrm[h])
        /\ SumFunction(Capped(hdrm)) \in Int
        /\ SumFunction(Capped(hdrm')) =
             SumFunction(Capped(hdrm)) + (Cap(hdrm'[h]) - Cap(hdrm[h]))
    BY <1>2, <1>5, HeadroomChanged
  <2> QED
    BY <1>5, <1>7, <2>1
<1>10. /\ n - hdrm[h] \in {0, -1}
       /\ Cap(n) - Cap(hdrm[h]) \in {0, -1}
  BY <1>2, <1>4 DEF Cap
<1>11. /\ Len(queue') <= SpLimit + SumFunction(hdrm')
       /\ Len(queue') <= SpLimit + 1 + SumFunction(Capped(hdrm'))
  <2>1. PICK L \in Nat : L = Len(queue)
    BY <1>3
  <2>2. /\ SumFunction(hdrm') \in Int /\ s - 1 <= SumFunction(hdrm')
        /\ SumFunction(Capped(hdrm')) \in Int
        /\ c - 1 <= SumFunction(Capped(hdrm'))
    <3>1. s \in Int /\ (SumFunction(hdrm') = s + 0 \/ SumFunction(hdrm') = s + -1)
      BY <1>9, <1>10
    <3>2. /\ c \in Int
          /\ \/ SumFunction(Capped(hdrm')) = c + 0
             \/ SumFunction(Capped(hdrm')) = c + -1
      BY <1>9, <1>10
    <3> QED
      BY <3>1, <3>2
  <2>3. PICK t, d : t = SumFunction(hdrm') /\ d = SumFunction(Capped(hdrm'))
    OBVIOUS
  <2>4. L - 1 <= SpLimit + t /\ L - 1 <= SpLimit + 1 + d
    <3>1. SpLimit \in Nat /\ s \in Int /\ c \in Int
      BY <1>2, <1>9
    <3>2. L <= SpLimit + s /\ L <= SpLimit + 1 + c
      BY <1>8, <2>1
    <3>3. t \in Int /\ s - 1 <= t /\ d \in Int /\ c - 1 <= d
      BY <2>2, <2>3
    <3> QED
      BY <3>1, <3>2, <3>3
  <2> QED
    BY <1>3, <2>1, <2>3, <2>4
<1> QED
  BY <1>3, <1>5, <1>6, <1>11 DEF BufferInv, SP

\* The limits bound the buffer, and the headroom charged with it.
LEMMA BufferBounded ==
  BufferInv => /\ ~ BufferFull
               /\ hdrm \in [Hosts -> 0 .. MaxBuffer]
<1> SUFFICES ASSUME BufferInv
             PROVE  ~ BufferFull /\ hdrm \in [Hosts -> 0 .. MaxBuffer]
  OBVIOUS
<1>1. /\ queue \in Seq(Hosts) /\ hdrm \in [Hosts -> Nat] /\ SpLimit \in Nat
      /\ Len(queue) \in Nat
  BY PfcAssumption DEF BufferInv
<1>2. PICK c \in Nat : c = SumFunction(Capped(hdrm))
  BY <1>1, CappedSum
<1>3. c <= Cardinality(Hosts) * Hdrm
  BY <1>1, <1>2, CappedSum
<1>4. Len(queue) <= SpLimit + 1 + c
  BY <1>2 DEF BufferInv, SP
<1>5. PICK m \in Nat : m = Cardinality(Hosts) * Hdrm
  BY Limits
<1>6. Len(queue) + 1 <= MaxBuffer /\ MaxBuffer \in Nat
  BY <1>1, <1>3, <1>4, <1>5, Limits
<1>7. \A h \in Hosts : hdrm[h] <= MaxBuffer
  <2>1. \A h \in Hosts : /\ hdrm[h] <= PG(queue, h) /\ hdrm[h] \in Nat
                         /\ PG(queue, h) \in Nat /\ PG(queue, h) <= Len(queue)
    BY <1>1, PGBounds DEF BufferInv
  <2> QED
    BY <1>1, <1>6, <2>1
<1> QED
  BY <1>1, <1>6, <1>7 DEF BufferFull, SP

-----------------------------------------------------------------------------
(* The egress counters.                                                    *)

LEMMA UpdateEgressInv ==
  ASSUME EgressInv, queue \in Seq(Hosts), NEW h \in Hosts, queue' = Append(queue, h),
         CheckEgressAdmission, UpdateEgressAdmission
  PROVE  EgressInv'
<1>1. PICK n \in Nat : n = Len(queue)
  OBVIOUS
<1>2. Len(queue') = n + 1
  BY <1>1
<1>3. PICK L \in Nat : L = EgressLimit
  BY Limits
<1>4. /\ qMin \in 0 .. 3 /\ qShared \in 0 .. L
      /\ qMin + qShared = 2 * n
      /\ qMin = IF 2 * n < 3 THEN 2 * n ELSE 3
  BY <1>1, <1>3 DEF EgressInv, EgressSplit, QMinLimit
<1>5. qShared + 2 <= L
  BY <1>3 DEF CheckEgressAdmission
<1>6. IF qMin + 2 < 3
      THEN qMin' = qMin + 2 /\ qShared' = qShared
      ELSE qMin' = 3 /\ qShared' = qShared + 2 + qMin - 3
  BY DEF UpdateEgressAdmission, QMinLimit
<1>7. /\ qMin' \in 0 .. 3 /\ qShared' \in 0 .. L
      /\ qMin' + qShared' = 2 * (n + 1)
      /\ qMin' = IF 2 * (n + 1) < 3 THEN 2 * (n + 1) ELSE 3
  BY <1>4, <1>5, <1>6
<1> QED
  BY <1>2, <1>3, <1>7 DEF EgressInv, EgressSplit, QMinLimit, EgressLimit, MaxBuffer,
     Reserved

LEMMA RemoveEgressInv ==
  ASSUME EgressInv, queue \in Seq(Hosts), queue # <<>>, queue' = Tail(queue),
         RemoveFromEgressAdmission
  PROVE  EgressInv'
<1>1. PICK n \in Nat : n = Len(queue) /\ n >= 1
  OBVIOUS
<1>2. Len(queue') = n - 1
  BY <1>1
<1>3. PICK L \in Nat : L = EgressLimit
  BY Limits
<1>4. /\ qMin \in 0 .. 3 /\ qShared \in 0 .. L
      /\ qMin + qShared = 2 * n
      /\ qMin = IF 2 * n < 3 THEN 2 * n ELSE 3
  BY <1>1, <1>3 DEF EgressInv, EgressSplit, QMinLimit
<1>5. IF qMin < 3 THEN qMin' = qMin - 2 /\ qShared' = qShared
      ELSE IF qShared < 2 THEN qMin' = qMin + qShared - 2 /\ qShared' = 0
      ELSE qMin' = qMin /\ qShared' = qShared - 2
  BY DEF RemoveFromEgressAdmission, QMinLimit
<1>6. /\ qMin' \in 0 .. 3 /\ qShared' \in 0 .. L
      /\ qMin' + qShared' = 2 * (n - 1)
      /\ qMin' = IF 2 * (n - 1) < 3 THEN 2 * (n - 1) ELSE 3
  BY <1>1, <1>4, <1>5
<1> QED
  BY <1>2, <1>3, <1>6 DEF EgressInv, EgressSplit, QMinLimit, EgressLimit, MaxBuffer,
     Reserved

-----------------------------------------------------------------------------
(* The timers and the frames.                                              *)

\* Time and places in a channel of frames.
LEMMA Durations ==
  /\ PauseTime \in Nat \ {0} /\ Delay \in Nat \ {0} /\ MaxWait \in Nat
  /\ Ticks(PauseTime) \subseteq Int
BY PfcAssumption DEF Ticks, Off

\* A frame that is sent is the last on its way.
LEMMA SendPfcEffect ==
  ASSUME frames \in [Hosts -> Seq(Frame)], FramesOrdered,
         NEW h \in Hosts, NEW pause \in BOOLEAN, SendPfc(h, pause)
  PROVE  /\ frames' \in [Hosts -> Seq(Frame)] /\ FramesOrdered'
         /\ frames'[h] # <<>>
         /\ Last(frames'[h]).pause = pause
         /\ Last(frames'[h]).left \in Nat /\ Last(frames'[h]).left >= Delay
         /\ \A g \in Hosts : g # h => frames'[g] = frames[g]
<1>1. Delay \in Nat \ {0} /\ MaxWait \in Nat
  BY Durations
<1>2. PICK wait \in 0 .. MaxWait :
        /\ frames[h] # <<>> => Delay + wait >= Last(frames[h]).left
        /\ frames' = [frames EXCEPT ![h] =
                        Append(@, [pause |-> pause, left |-> Delay + wait])]
  BY DEF SendPfc
<1>3. PICK f : f = [pause |-> pause, left |-> Delay + wait]
  OBVIOUS
<1>4. f \in Frame /\ f.pause = pause /\ f.left = Delay + wait
  BY <1>1, <1>3 DEF Frame
<1>5. PICK s \in Seq(Frame) : s = frames[h]
  OBVIOUS
<1>6. /\ frames' \in [Hosts -> Seq(Frame)]
      /\ frames'[h] = Append(s, f)
      /\ \A g \in Hosts : g # h => frames'[g] = frames[g]
  BY <1>2, <1>3, <1>4, <1>5
<1>7. /\ Append(s, f) # <<>> /\ Last(Append(s, f)) = f
      /\ Len(s) \in Nat /\ DOMAIN s = 1 .. Len(s)
      /\ DOMAIN Append(s, f) = 1 .. Len(s) + 1
      /\ \A i \in 1 .. Len(s) : Append(s, f)[i] = s[i]
      /\ Append(s, f)[Len(s) + 1] = f
  BY <1>4 DEF Last
<1>8. \A i \in 1 .. Len(s) : s[i].left \in Int /\ s[i].left <= f.left
  <2>1. ASSUME NEW i \in 1 .. Len(s) PROVE s[i].left \in Int /\ s[i].left <= f.left
    <3>1. s[i] \in Frame /\ s[Len(s)] \in Frame /\ Len(s) \in DOMAIN s /\ i <= Len(s)
      BY <1>7
    <3>2. s[i].left \in Int /\ s[Len(s)].left \in Int
      BY <1>1, <3>1 DEF Frame
    <3>3. s[i].left <= s[Len(s)].left
      BY <1>5, <1>7, <3>1 DEF FramesOrdered
    <3>4. s[Len(s)].left <= f.left
      <4>1. frames[h] # <<>>
        BY <1>5, <1>7
      <4> QED
        BY <1>1, <1>2, <1>4, <1>5, <3>2, <4>1 DEF Last
    <3> QED
      BY <1>1, <1>4, <3>2, <3>3, <3>4
  <2> QED
    BY <2>1
<1>9. \A i, j \in 1 .. Len(s) + 1 :
        i <= j => Append(s, f)[i].left <= Append(s, f)[j].left
  <2>1. ASSUME NEW i \in 1 .. Len(s) + 1, NEW j \in 1 .. Len(s) + 1, i <= j
        PROVE  Append(s, f)[i].left <= Append(s, f)[j].left
    <3>1. CASE j = Len(s) + 1 /\ i = Len(s) + 1
      BY <1>1, <1>4, <1>7, <3>1
    <3>2. CASE j = Len(s) + 1 /\ i # Len(s) + 1
      <4>1. i \in 1 .. Len(s)
        BY <1>7, <3>2
      <4> QED
        BY <1>7, <1>8, <3>2, <4>1
    <3>3. CASE j # Len(s) + 1
      <4>1. i \in 1 .. Len(s) /\ j \in 1 .. Len(s)
        BY <1>7, <2>1, <3>3
      <4>2. s[i].left <= s[j].left
        BY <1>5, <1>7, <2>1, <4>1 DEF FramesOrdered
      <4> QED
        BY <1>7, <4>1, <4>2
    <3> QED
      BY <3>1, <3>2, <3>3
  <2> QED
    BY <2>1
<1>10. FramesOrdered'
  <2>1. ASSUME NEW g \in Hosts, NEW i \in DOMAIN (frames'[g]),
               NEW j \in DOMAIN (frames'[g]), i <= j
        PROVE  frames'[g][i].left <= frames'[g][j].left
    <3>1. CASE g = h
      BY <1>6, <1>7, <1>9, <2>1, <3>1
    <3>2. CASE g # h
      BY <1>6, <2>1, <3>2 DEF FramesOrdered
    <3> QED
      BY <3>1, <3>2
  <2> QED
    BY <2>1 DEF FramesOrdered
<1> QED
  BY <1>1, <1>4, <1>6, <1>7, <1>10

\* What the switch does keeps the timers in step.
LEMMA PauseInv ==
  ASSUME TimerInv, NEW h \in Hosts, Pause(h),
         nicTimer' = nicTimer, up' \in [Hosts -> SUBSET (0 .. Delay)],
         pauseRemote' \in [Hosts -> BOOLEAN]
  PROVE  TimerInv'
<1>1. /\ frames' \in [Hosts -> Seq(Frame)] /\ FramesOrdered'
      /\ frames'[h] # <<>>
      /\ Last(frames'[h]).pause = TRUE
      /\ Last(frames'[h]).left \in Nat /\ Last(frames'[h]).left >= Delay
      /\ \A g \in Hosts : g # h => frames'[g] = frames[g]
  BY SendPfcEffect DEF TimerInv, Pause
<1>2. PauseTime \in Nat \ {0} /\ Delay \in Nat \ {0}
  BY Durations
<1>3. /\ swTimer' \in [Hosts -> Ticks(PauseTime)] /\ swTimer'[h] = PauseTime
      /\ \A g \in Hosts : g # h => swTimer'[g] = swTimer[g]
  BY <1>2 DEF TimerInv, Pause, Ticks
<1>4. ASSUME NEW g \in Hosts, swTimer'[g] # Off
      PROVE  IF frames'[g] # <<>>
             THEN /\ Last(frames'[g]).pause
                  /\ swTimer'[g] + Delay <= PauseTime + Last(frames'[g]).left
             ELSE nicTimer'[g] > swTimer'[g]
  <2>1. CASE g = h
    BY <1>1, <1>2, <1>3, <2>1
  <2>2. CASE g # h
    BY <1>1, <1>3, <1>4, <2>2 DEF TimerInv, PauseAhead
  <2> QED
    BY <2>1, <2>2
<1> QED
  BY <1>1, <1>3, <1>4 DEF TimerInv, PauseAhead

LEMMA ResumeInv ==
  ASSUME TimerInv, NEW h \in Hosts, Resume(h),
         nicTimer' = nicTimer, up' \in [Hosts -> SUBSET (0 .. Delay)],
         pauseRemote' \in [Hosts -> BOOLEAN]
  PROVE  TimerInv'
<1>1. /\ frames' \in [Hosts -> Seq(Frame)] /\ FramesOrdered'
      /\ \A g \in Hosts : g # h => frames'[g] = frames[g]
  BY SendPfcEffect DEF TimerInv, Resume
<1>2. /\ swTimer' \in [Hosts -> Ticks(PauseTime)] /\ swTimer'[h] = Off
      /\ \A g \in Hosts : g # h => swTimer'[g] = swTimer[g]
  BY DEF TimerInv, Resume, Ticks
<1>3. ASSUME NEW g \in Hosts, swTimer'[g] # Off
      PROVE  IF frames'[g] # <<>>
             THEN /\ Last(frames'[g]).pause
                  /\ swTimer'[g] + Delay <= PauseTime + Last(frames'[g]).left
             ELSE nicTimer'[g] > swTimer'[g]
  <2>1. g # h
    BY <1>2, <1>3
  <2> QED
    BY <1>1, <1>2, <1>3, <2>1 DEF TimerInv, PauseAhead
<1> QED
  BY <1>1, <1>2, <1>3 DEF TimerInv, PauseAhead

LEMMA NoFrameInv ==
  ASSUME TimerInv, UNCHANGED <<nicTimer, frames, swTimer>>,
         up' \in [Hosts -> SUBSET (0 .. Delay)],
         pauseRemote' \in [Hosts -> BOOLEAN]
  PROVE  TimerInv'
BY DEF TimerInv, FramesOrdered, PauseAhead

LEMMA CheckAndSendPfcInv ==
  ASSUME TimerInv, NEW h \in Hosts, CheckAndSendPfc(h), nicTimer' = nicTimer,
         up' \in [Hosts -> SUBSET (0 .. Delay)]
  PROVE  TimerInv'
<1>1. pauseRemote' \in [Hosts -> BOOLEAN]
  BY DEF CheckAndSendPfc, TimerInv
<1>2. \/ Pause(h) \/ Resume(h) \/ UNCHANGED <<frames, swTimer>>
  BY DEF CheckAndSendPfc
<1> QED
  BY <1>1, <1>2, PauseInv, ResumeInv, NoFrameInv

LEMMA CheckAndSendResumeInv ==
  ASSUME TimerInv, NEW h \in Hosts, CheckAndSendResume(h),
         UNCHANGED <<nicTimer, up>>
  PROVE  TimerInv'
<1>1. /\ pauseRemote' \in [Hosts -> BOOLEAN]
      /\ up' \in [Hosts -> SUBSET (0 .. Delay)]
  BY DEF CheckAndSendResume, TimerInv
<1>2. \/ Resume(h) \/ UNCHANGED <<frames, swTimer>>
  BY DEF CheckAndSendResume
<1> QED
  BY <1>1, <1>2, ResumeInv, NoFrameInv

\* A timer that ends leaves no port that takes its host for paused: at the
\* switch by what it does, at the host because the switch's timer ended before.
LEMMA SetResumeInv ==
  ASSUME TimerInv, NEW h \in Hosts, SetResume(h)
  PROVE  TimerInv'
<1>1. /\ swTimer' \in [Hosts -> Ticks(PauseTime)] /\ swTimer'[h] = Off
      /\ \A g \in Hosts : g # h => swTimer'[g] = swTimer[g]
      /\ UNCHANGED <<nicTimer, up, frames, pauseRemote>>
  BY DEF TimerInv, SetResume, Ticks
<1> QED
  BY <1>1 DEF TimerInv, FramesOrdered, PauseAhead

LEMMA NicResumeInv ==
  ASSUME TimerInv, NEW h \in Hosts, NicResume(h)
  PROVE  TimerInv'
<1>1. /\ nicTimer' \in [Hosts -> Ticks(PauseTime)]
      /\ \A g \in Hosts : g # h => nicTimer'[g] = nicTimer[g]
      /\ UNCHANGED <<swTimer, up, frames, pauseRemote>>
  BY DEF TimerInv, NicResume, Ticks, switchVars
<1>2. frames[h] # <<>> \/ swTimer[h] = Off
  <2>1. nicTimer[h] = 0 /\ swTimer[h] \in 0 .. PauseTime \union {Off}
    BY DEF TimerInv, NicResume, Ticks
  <2>2. frames[h] = <<>> /\ swTimer[h] # Off => nicTimer[h] > swTimer[h]
    BY DEF TimerInv, PauseAhead
  <2> QED
    BY <2>1, <2>2, Durations
<1> QED
  BY <1>1, <1>2 DEF TimerInv, FramesOrdered, PauseAhead

\* A host that receives a frame behind which others are waiting is paused or
\* not as the last of them says; the last one itself sets the longer timer.
LEMMA ReceivePfcInv ==
  ASSUME TimerInv, NEW h \in Hosts, ReceivePfc(h)
  PROVE  TimerInv'
<1>1. PauseTime \in Nat \ {0} /\ Delay \in Nat \ {0}
  BY Durations
<1>2. PICK s \in Seq(Frame) : s = frames[h]
  BY DEF TimerInv
<1>3. s # <<>> /\ Head(s).left = 0
  BY <1>2 DEF ReceivePfc
<1>4. /\ frames' \in [Hosts -> Seq(Frame)] /\ frames'[h] = Tail(s)
      /\ \A g \in Hosts : g # h => frames'[g] = frames[g]
  <2>1. Tail(s) \in Seq(Frame) /\ frames' = [frames EXCEPT ![h] = Tail(s)]
    BY <1>2, <1>3 DEF ReceivePfc
  <2> QED
    BY <2>1 DEF TimerInv
<1>5. /\ nicTimer' \in [Hosts -> Ticks(PauseTime)]
      /\ nicTimer'[h] = (IF Head(s).pause THEN PauseTime ELSE Off)
      /\ \A g \in Hosts : g # h => nicTimer'[g] = nicTimer[g]
      /\ UNCHANGED <<swTimer, up, pauseRemote>>
  BY <1>1, <1>2 DEF TimerInv, ReceivePfc, Ticks, switchVars
<1>6. /\ Len(s) \in Nat \ {0} /\ DOMAIN s = 1 .. Len(s)
      /\ DOMAIN Tail(s) = 1 .. Len(s) - 1
      /\ \A i \in 1 .. Len(s) - 1 : Tail(s)[i] = s[i + 1]
      /\ Head(s) = s[1] /\ Last(s) = s[Len(s)]
      /\ Len(s) # 1 => Tail(s) # <<>> /\ Last(Tail(s)) = s[Len(s)]
      /\ Len(s) = 1 => Tail(s) = <<>>
  <2>1. /\ Len(s) \in Nat \ {0} /\ DOMAIN s = 1 .. Len(s)
        /\ DOMAIN Tail(s) = 1 .. Len(s) - 1 /\ Len(Tail(s)) = Len(s) - 1
        /\ \A i \in 1 .. Len(s) - 1 : Tail(s)[i] = s[i + 1]
        /\ Head(s) = s[1] /\ Tail(s) \in Seq(Frame)
    BY <1>3
  <2>2. Last(s) = s[Len(s)] /\ Last(Tail(s)) = Tail(s)[Len(s) - 1]
    BY <2>1 DEF Last
  <2>3. Len(s) # 1 => Tail(s) # <<>> /\ Tail(s)[Len(s) - 1] = s[Len(s)]
    BY <2>1
  <2>4. Len(s) = 1 => Tail(s) = <<>>
    BY <2>1
  <2> QED
    BY <2>1, <2>2, <2>3, <2>4
<1>7. FramesOrdered'
  <2>1. ASSUME NEW g \in Hosts, NEW i \in DOMAIN (frames'[g]),
               NEW j \in DOMAIN (frames'[g]), i <= j
        PROVE  frames'[g][i].left <= frames'[g][j].left
    <3>1. CASE g = h
      <4>1. i \in 1 .. Len(s) - 1 /\ j \in 1 .. Len(s) - 1
        BY <1>4, <1>6, <3>1
      <4>2. i + 1 \in DOMAIN s /\ j + 1 \in DOMAIN s /\ i + 1 <= j + 1
        BY <1>6, <2>1, <4>1
      <4>3. s[i + 1].left <= s[j + 1].left
        BY <1>2, <4>2 DEF TimerInv, FramesOrdered
      <4> QED
        BY <1>4, <1>6, <3>1, <4>1, <4>3
    <3>2. CASE g # h
      BY <1>4, <2>1, <3>2 DEF TimerInv, FramesOrdered
    <3> QED
      BY <3>1, <3>2
  <2> QED
    BY <2>1 DEF FramesOrdered
<1>8. ASSUME NEW g \in Hosts, swTimer'[g] # Off
      PROVE  IF frames'[g] # <<>>
             THEN /\ Last(frames'[g]).pause
                  /\ swTimer'[g] + Delay <= PauseTime + Last(frames'[g]).left
             ELSE nicTimer'[g] > swTimer'[g]
  <2>1. CASE g = h
    <3>1. swTimer[h] \in 0 .. PauseTime /\ swTimer'[h] = swTimer[h]
      BY <1>5, <1>8, <2>1 DEF TimerInv, Ticks
    <3>2. s[Len(s)].pause /\ swTimer[h] + Delay <= PauseTime + s[Len(s)].left
      BY <1>2, <1>3, <1>5, <1>6, <1>8, <2>1 DEF TimerInv, PauseAhead
    <3>3. CASE Len(s) = 1
      BY <1>1, <1>3, <1>4, <1>5, <1>6, <2>1, <3>1, <3>2, <3>3
    <3>4. CASE Len(s) # 1
      BY <1>4, <1>6, <2>1, <3>1, <3>2, <3>4
    <3> QED
      BY <3>3, <3>4
  <2>2. CASE g # h
    BY <1>4, <1>5, <1>8, <2>2 DEF TimerInv, PauseAhead
  <2> QED
    BY <2>1, <2>2
<1> QED
  BY <1>4, <1>5, <1>7, <1>8 DEF TimerInv, PauseAhead

\* Time runs for both timers and all frames at once; nothing that is due is
\* passed over.
LEMMA TickInv ==
  ASSUME TimerInv, Tick
  PROVE  TimerInv'
<1>1. /\ PauseTime \in Nat \ {0} /\ Delay \in Nat \ {0} /\ MaxWait \in Nat
  BY Durations
<1>2. /\ \A h \in Hosts : nicTimer'[h] = Down(nicTimer[h])
      /\ \A h \in Hosts : swTimer'[h] = Down(swTimer[h])
      /\ nicTimer' = [h \in Hosts |-> Down(nicTimer[h])]
      /\ swTimer' = [h \in Hosts |-> Down(swTimer[h])]
      /\ up' = [h \in Hosts |-> {n - 1 : n \in up[h]}]
      /\ frames' = [h \in Hosts |->
           [i \in DOMAIN frames[h] |-> [frames[h][i] EXCEPT !.left = @ - 1]]]
      /\ pauseRemote' = pauseRemote
  BY DEF Tick
<1>3. \A h \in Hosts :
        /\ nicTimer[h] # 0 /\ swTimer[h] # 0 /\ 0 \notin up[h]
        /\ frames[h] # <<>> => Head(frames[h]).left # 0
  BY DEF Tick, Due, TimerDue
<1>4. \A n \in Ticks(PauseTime) : n # 0 => Down(n) \in Ticks(PauseTime)
  BY <1>1 DEF Ticks, Down, Off
<1>5. /\ nicTimer' \in [Hosts -> Ticks(PauseTime)]
      /\ swTimer' \in [Hosts -> Ticks(PauseTime)]
  BY <1>2, <1>3, <1>4 DEF TimerInv
<1>6. up' \in [Hosts -> SUBSET (0 .. Delay)]
  <2>1. ASSUME NEW h \in Hosts PROVE {n - 1 : n \in up[h]} \subseteq 0 .. Delay
    <3>1. \A n \in up[h] : n \in 0 .. Delay /\ n # 0
      BY <1>3 DEF TimerInv
    <3> QED
      BY <1>1, <3>1
  <2> QED
    BY <1>2, <2>1
<1>7. ASSUME NEW h \in Hosts, NEW i \in DOMAIN frames[h]
      PROVE  frames[h][i] \in Frame /\ frames[h][i].left \in 1 .. Delay + MaxWait
  <2>1. PICK s \in Seq(Frame) : s = frames[h]
    BY DEF TimerInv
  <2>2. /\ i \in 1 .. Len(s) /\ 1 \in DOMAIN s /\ DOMAIN s = 1 .. Len(s) /\ 1 <= i
        /\ s # <<>> /\ Head(s) = s[1] /\ s[i] \in Frame /\ s[1] \in Frame
    BY <1>7, <2>1
  <2>3. s[1].left # 0
    BY <1>3, <2>1, <2>2
  <2>4. s[1].left <= s[i].left
    BY <2>1, <2>2 DEF TimerInv, FramesOrdered
  <2>5. s[1].left \in 0 .. Delay + MaxWait /\ s[i].left \in 0 .. Delay + MaxWait
    BY <2>2 DEF Frame
  <2> QED
    BY <1>1, <2>1, <2>2, <2>3, <2>4, <2>5
<1>8. ASSUME NEW h \in Hosts
      PROVE  /\ frames'[h] \in Seq(Frame)
             /\ DOMAIN (frames'[h]) = DOMAIN frames[h]
             /\ Len(frames'[h]) = Len(frames[h])
             /\ \A i \in DOMAIN frames[h] :
                  /\ frames'[h][i].pause = frames[h][i].pause
                  /\ frames'[h][i].left = frames[h][i].left - 1
  <2>1. PICK s \in Seq(Frame) : s = frames[h]
    BY DEF TimerInv
  <2>2. PICK t : t = [i \in 1 .. Len(s) |-> [s[i] EXCEPT !.left = @ - 1]]
    OBVIOUS
  <2>3. frames'[h] = t
    BY <1>2, <2>1, <2>2
  <2>4. ASSUME NEW i \in 1 .. Len(s)
        PROVE  /\ t[i] \in Frame /\ t[i].pause = s[i].pause
               /\ t[i].left = s[i].left - 1
    <3>1. s[i] \in Frame /\ s[i].left \in 1 .. Delay + MaxWait
      BY <1>7, <2>1
    <3>2. t[i] = [s[i] EXCEPT !.left = @ - 1]
      BY <2>2
    <3> QED
      BY <1>1, <3>1, <3>2 DEF Frame
  <2>5. Len(s) \in Nat /\ DOMAIN s = 1 .. Len(s) /\ DOMAIN t = 1 .. Len(s)
    BY <2>2
  <2>6. t \in [1 .. Len(s) -> Frame]
    BY <2>2, <2>4, <2>5
  <2>7. t \in Seq(Frame) /\ Len(t) = Len(s)
    BY <2>5, <2>6
  <2> QED
    BY <2>1, <2>3, <2>4, <2>5, <2>7
<1>9. frames' \in [Hosts -> Seq(Frame)]
  BY <1>2, <1>8
<1>10. FramesOrdered'
  <2>1. ASSUME NEW h \in Hosts, NEW i \in DOMAIN (frames'[h]),
               NEW j \in DOMAIN (frames'[h]), i <= j
        PROVE  frames'[h][i].left <= frames'[h][j].left
    <3>1. frames[h][i].left <= frames[h][j].left
      BY <1>8, <2>1 DEF TimerInv, FramesOrdered
    <3>2. frames[h][i].left \in Int /\ frames[h][j].left \in Int
      BY <1>7, <1>8
    <3> QED
      BY <1>8, <3>1, <3>2
  <2> QED
    BY <2>1 DEF FramesOrdered
<1>11. ASSUME NEW h \in Hosts, swTimer'[h] # Off
       PROVE  IF frames'[h] # <<>>
              THEN /\ Last(frames'[h]).pause
                   /\ swTimer'[h] + Delay <= PauseTime + Last(frames'[h]).left
              ELSE nicTimer'[h] > swTimer'[h]
  <2>1. /\ swTimer[h] # Off /\ swTimer[h] \in 0 .. PauseTime
        /\ swTimer'[h] = swTimer[h] - 1
    BY <1>2, <1>11 DEF TimerInv, Ticks, Down
  <2>2. CASE frames'[h] # <<>>
    <3>1. PICK n \in DOMAIN frames[h] : n = Len(frames[h])
      BY <1>8, <2>2 DEF TimerInv
    <3>2. frames[h] # <<>>
      BY <3>1
    <3>3. Last(frames[h]) = frames[h][n] /\ Last(frames'[h]) = frames'[h][n]
      BY <1>8, <3>1 DEF Last
    <3>4. frames[h][n].pause /\ swTimer[h] + Delay <= PauseTime + frames[h][n].left
      BY <2>1, <3>2, <3>3 DEF TimerInv, PauseAhead
    <3>5. PICK l \in Int : l = frames[h][n].left
      BY <1>7
    <3>6. Last(frames'[h]).pause /\ Last(frames'[h]).left = l - 1
      BY <1>8, <3>3, <3>4, <3>5
    <3>7. swTimer'[h] + Delay <= PauseTime + (l - 1)
      BY <1>1, <2>1, <3>4, <3>5
    <3> QED
      BY <2>2, <3>6, <3>7
  <2>3. CASE frames'[h] = <<>>
    <3>1. frames[h] = <<>>
      BY <1>8, <2>3 DEF TimerInv
    <3>2. nicTimer[h] > swTimer[h] /\ nicTimer[h] \in 0 .. PauseTime \union {Off}
      BY <2>1, <3>1 DEF TimerInv, PauseAhead, Ticks
    <3>3. nicTimer'[h] = nicTimer[h] - 1
      BY <1>2, <2>1, <3>2 DEF Down, Off
    <3> QED
      BY <1>1, <2>1, <2>3, <3>2, <3>3 DEF Off
  <2> QED
    BY <2>2, <2>3
<1> QED
  BY <1>2, <1>5, <1>6, <1>9, <1>10, <1>11 DEF TimerInv, PauseAhead

-----------------------------------------------------------------------------
(* Every step, and the theorems.                                           *)

LEMMA ArriveInv ==
  ASSUME PfcInv, NEW h \in Hosts, Arrive(h)
  PROVE  PfcInv'
<1>1. up' \in [Hosts -> SUBSET (0 .. Delay)] /\ nicTimer' = nicTimer
  BY DEF PfcInv, TimerInv, Arrive
<1>2. queue \in Seq(Hosts)
  BY DEF PfcInv, BufferInv
<1>3. CASE Admitted(h)
  <2>1. /\ UpdateIngressAdmission(h) /\ UpdateEgressAdmission
        /\ CheckAndSendPfc(h)
        /\ ~ HeadroomFull(h) /\ CheckEgressAdmission
    BY <1>3 DEF Arrive, Admitted, CheckIngressAdmission
  <2>2. BufferInv'
    BY <2>1, UpdateIngressInv DEF PfcInv
  <2>3. EgressInv'
    <3>1. queue' = Append(queue, h)
      BY <2>1 DEF UpdateIngressAdmission
    <3> QED
      BY <1>2, <2>1, <3>1, UpdateEgressInv DEF PfcInv
  <2>4. TimerInv'
    BY <1>1, <2>1, CheckAndSendPfcInv DEF PfcInv
  <2> QED
    BY <2>2, <2>3, <2>4 DEF PfcInv
<1>4. CASE ~ Admitted(h)
  <2>1. UNCHANGED <<swTimer, pauseRemote, queue, hdrm, qMin, qShared, frames>>
    BY <1>4 DEF Arrive, switchVars
  <2>2. TimerInv'
    BY <1>1, <2>1, NoFrameInv DEF PfcInv, TimerInv
  <2> QED
    BY <2>1, <2>2 DEF PfcInv, BufferInv, EgressInv, EgressSplit
<1> QED
  BY <1>3, <1>4

LEMMA DequeueInv ==
  ASSUME PfcInv, Dequeue
  PROVE  PfcInv'
<1>1. /\ queue # <<>> /\ queue \in Seq(Hosts) /\ Head(queue) \in Hosts
      /\ RemoveFromIngressAdmission(Head(queue)) /\ RemoveFromEgressAdmission
      /\ CheckAndSendResume(Head(queue)) /\ UNCHANGED <<nicTimer, up>>
  BY DEF PfcInv, BufferInv, Dequeue
<1>2. BufferInv'
  BY <1>1, RemoveIngressInv DEF PfcInv
<1>3. EgressInv'
  <2>1. queue' = Tail(queue)
    BY <1>1 DEF RemoveFromIngressAdmission
  <2> QED
    BY <1>1, <2>1, RemoveEgressInv DEF PfcInv
<1>4. TimerInv'
  BY <1>1, CheckAndSendResumeInv DEF PfcInv
<1> QED
  BY <1>2, <1>3, <1>4 DEF PfcInv

LEMMA PfcInvInit == Init => PfcInv
<1> SUFFICES ASSUME Init PROVE PfcInv
  OBVIOUS
<1>1. BufferInv
  BY BufferInvInit
<1>2. EgressInv
  BY Limits DEF Init, EgressInv, EgressSplit, QMinLimit
<1>3. TimerInv
  BY Durations DEF Init, TimerInv, FramesOrdered, PauseAhead, Ticks
<1> QED
  BY <1>1, <1>2, <1>3 DEF PfcInv

LEMMA PfcInvNext == PfcInv /\ [Next]_vars => PfcInv'
<1> SUFFICES ASSUME PfcInv, [Next]_vars PROVE PfcInv'
  OBVIOUS
<1> DEFINE buffers == <<queue, hdrm, qMin, qShared>>
<1>1. ASSUME UNCHANGED buffers PROVE BufferInv' /\ EgressInv'
  BY <1>1 DEF PfcInv, BufferInv, EgressInv, EgressSplit
<1>2. CASE Tick
  <2>1. UNCHANGED buffers
    BY <1>2 DEF Tick
  <2> QED
    BY <1>1, <1>2, <2>1, TickInv DEF PfcInv
<1>3. CASE Dequeue
  BY <1>3, DequeueInv
<1>4. ASSUME NEW h \in Hosts, Send(h) PROVE PfcInv'
  <2>1. /\ UNCHANGED buffers /\ UNCHANGED <<nicTimer, frames, swTimer, pauseRemote>>
        /\ up' = [up EXCEPT ![h] = @ \union {Delay}]
    BY <1>4 DEF Send, switchVars
  <2>2. /\ up' \in [Hosts -> SUBSET (0 .. Delay)]
        /\ pauseRemote' \in [Hosts -> BOOLEAN]
    BY <2>1, Durations DEF PfcInv, TimerInv
  <2> QED
    BY <1>1, <2>1, <2>2, NoFrameInv DEF PfcInv
<1>5. ASSUME NEW h \in Hosts, ReceivePfc(h) PROVE PfcInv'
  <2>1. UNCHANGED buffers
    BY <1>5 DEF ReceivePfc, switchVars
  <2> QED
    BY <1>1, <1>5, <2>1, ReceivePfcInv DEF PfcInv
<1>6. ASSUME NEW h \in Hosts, NicResume(h) PROVE PfcInv'
  <2>1. UNCHANGED buffers
    BY <1>6 DEF NicResume, switchVars
  <2> QED
    BY <1>1, <1>6, <2>1, NicResumeInv DEF PfcInv
<1>7. ASSUME NEW h \in Hosts, Arrive(h) PROVE PfcInv'
  BY <1>7, ArriveInv
<1>8. ASSUME NEW h \in Hosts, SetResume(h) PROVE PfcInv'
  <2>1. UNCHANGED buffers
    BY <1>8 DEF SetResume
  <2> QED
    BY <1>1, <1>8, <2>1, SetResumeInv DEF PfcInv
<1>9. CASE UNCHANGED vars
  BY <1>9 DEF vars, switchVars, PfcInv, BufferInv, EgressInv, EgressSplit, TimerInv,
     FramesOrdered, PauseAhead
<1> QED
  BY <1>2, <1>3, <1>4, <1>5, <1>6, <1>7, <1>8, <1>9 DEF Next

\* PfcInv is inductive, whatever the hosts send and the output port does.
THEOREM PfcInvariant == Spec => []PfcInv
<1>1. Init => PfcInv
  BY PfcInvInit
<1>2. PfcInv /\ [Next]_vars => PfcInv'
  BY PfcInvNext
<1> QED
  BY <1>1, <1>2, PTL DEF Spec

\* Types, among them the bounds of the counters: none of the subtractions in
\* RemoveFromIngressAdmission and RemoveFromEgressAdmission goes below zero.
THEOREM PfcTypeCorrect == Spec => []TypeOK
<1>1. PfcInv => TypeOK
  BY BufferBounded DEF PfcInv, TypeOK, BufferInv, EgressInv, TimerInv
<1> QED
  BY <1>1, PfcInvariant, PTL

\* Headroom is charged for packets that are there, and for at least those
\* beyond the shared buffer: the switch never reaches "buffer full"
\* (switch-mmu.cc:137), whatever its limits.
THEOREM PfcHeadroomCharged == Spec => []HeadroomCharged
<1>1. PfcInv => HeadroomCharged
  BY BufferBounded DEF PfcInv, BufferInv, HeadroomCharged
<1> QED
  BY <1>1, PfcInvariant, PTL

\* The egress counters together are the packets in the queue, the minimum
\* first: none of the overflow reports (switch-mmu.cc:285, 307, 315) is reached.
THEOREM PfcEgressSplit == Spec => []EgressSplit
<1>1. PfcInv => EgressSplit
  BY DEF PfcInv, EgressInv
<1> QED
  BY <1>1, PfcInvariant, PTL

\* As long as the switch takes a host for paused it is paused for longer, or a
\* pause is the last thing it will hear: for every delay of the link and of a
\* frame behind others, and every pause time.
THEOREM PfcPauseCovers == Spec => []PauseCovers
<1>1. PfcInv => PauseCovers
  BY DEF PfcInv, TimerInv, PauseAhead, PauseCovers
<1> QED
  BY <1>1, PfcInvariant, PTL

=============================================================================
