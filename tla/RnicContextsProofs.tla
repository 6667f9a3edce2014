------------------------- MODULE RnicContextsProofs -------------------------
(***************************************************************************)
(* The safety properties of RnicContexts, for every size of the caches and *)
(* of the bounds.                                                          *)
(*                                                                         *)
(* A handler is a fold of its steps.  What holds of its state after every  *)
(* step holds of the fold: the first part shows this once for all steps    *)
(* (FoldedPath), for the library's induction theorems cannot be used here. *)
(***************************************************************************)
EXTENDS RnicContexts, DataTheorems

-----------------------------------------------------------------------------
(* Folds over sequences.                                                   *)

\* The step of a fold, by the name of its operator.
Step(op, x, e) ==
  CASE op = "Submit" -> Submit(x, e)
    [] op = "SubmitChain" -> SubmitChain(x, e)
    [] op = "MoveHead" -> MoveHead(x, e)
    [] op = "TimedOutHead" -> TimedOutHead(x, e)
    [] op = "Access" -> Access(x, e)

\* it is the function by which FoldLeft is defined.
Folded(op, b, s, D, it) ==
  it = [t \in SUBSET D |-> IF t = {} THEN b
                           ELSE Step(op, it[t \ {Max(t)}], s[Max(t)])]

Folding(op, b, s) == CHOOSE it : Folded(op, b, s, DOMAIN s, it)

\* The states of a fold, from the first to the last.
Path(op, b, s, n, tr) ==
  /\ tr[0] = b
  /\ \A k \in 1 .. n : tr[k] = Step(op, tr[k - 1], s[k])

\* A function that folds a sequence exists: by adding the elements one by one.
LEMMA FoldedExists ==
  ASSUME NEW op, NEW b, NEW s, NEW n \in Nat
  PROVE  \E it : Folded(op, b, s, 1 .. n, it)
<1> DEFINE S == {k \in 0 .. n : \E it : Folded(op, b, s, 1 .. k, it)}
<1>1. 0 \in S
  <2> DEFINE it == [t \in SUBSET (1 .. 0) |-> b]
  <2>1. \A t \in SUBSET (1 .. 0) : t = {}
    OBVIOUS
  <2>2. it = [t \in SUBSET (1 .. 0) |->
               IF t = {} THEN b ELSE Step(op, it[t \ {Max(t)}], s[Max(t)])]
    BY <2>1
  <2> HIDE DEF it
  <2>3. Folded(op, b, s, 1 .. 0, it)
    BY <2>2 DEF Folded
  <2> QED
    BY <2>3
<1>2. ASSUME NEW k \in 1 .. n, k - 1 \in S PROVE k \in S
  <2>1. PICK f : Folded(op, b, s, 1 .. k - 1, f)
    BY <1>2
  <2> DEFINE g == [t \in SUBSET (1 .. k) |->
                    IF k \in t THEN Step(op, f[t \ {k}], s[k]) ELSE f[t]]
  <2>2. ASSUME NEW t \in SUBSET (1 .. k)
        PROVE  g[t] = IF t = {} THEN b ELSE Step(op, g[t \ {Max(t)}], s[Max(t)])
    <3>1. CASE k \in t
      <4>1. Max(t) = k
        BY <3>1, Largest
      <4>2. PICK u : u = t \ {k}
        OBVIOUS
      <4>3. u \in SUBSET (1 .. k) /\ k \notin u
        BY <4>2
      <4>4. g[u] = f[u]
        BY <4>3
      <4>5. g[t] = Step(op, f[u], s[k])
        BY <3>1, <4>2
      <4> HIDE DEF g
      <4> QED
        BY <3>1, <4>1, <4>2, <4>4, <4>5
    <3>2. CASE k \notin t
      <4>1. t \in SUBSET (1 .. k - 1)
        BY <3>2
      <4>2. g[t] = f[t]
        BY <3>2
      <4>3. f[t] = IF t = {} THEN b ELSE Step(op, f[t \ {Max(t)}], s[Max(t)])
        BY <2>1, <4>1 DEF Folded
      <4>4. PICK u : u = t \ {Max(t)}
        OBVIOUS
      <4>5. g[u] = f[u]
        BY <3>2, <4>1, <4>4
      <4> HIDE DEF g
      <4> QED
        BY <4>2, <4>3, <4>4, <4>5
    <3> QED
      BY <3>1, <3>2
  <2>3. g = [t \in SUBSET (1 .. k) |->
              IF t = {} THEN b ELSE Step(op, g[t \ {Max(t)}], s[Max(t)])]
    <3> HIDE DEF g
    <3>1. g = [t \in SUBSET (1 .. k) |-> g[t]]
      BY DEF g
    <3> QED
      BY <2>2, <3>1
  <2> HIDE DEF g
  <2>4. Folded(op, b, s, 1 .. k, g)
    BY <2>3 DEF Folded
  <2> QED
    BY <2>4
<1> HIDE DEF S
<1>3. n \in S
  BY <1>1, <1>2, Upwards
<1> QED
  BY <1>3 DEF S

\* A fold over a sequence takes its steps one after the other.
LEMMA FoldedPath ==
  ASSUME NEW op, NEW b, NEW s, NEW n \in Nat, DOMAIN s = 1 .. n
  PROVE  \E tr : Path(op, b, s, n, tr) /\ Folding(op, b, s)[DOMAIN s] = tr[n]
<1>1. PICK it : it = Folding(op, b, s) /\ Folded(op, b, s, 1 .. n, it)
  BY FoldedExists DEF Folding
<1> DEFINE tr == [k \in 0 .. n |-> it[1 .. k]]
<1>2. \A t \in SUBSET (1 .. n) :
        it[t] = IF t = {} THEN b ELSE Step(op, it[t \ {Max(t)}], s[Max(t)])
  BY <1>1 DEF Folded
<1>3. tr[0] = b
  <2>1. tr[0] = it[1 .. 0] /\ 1 .. 0 = {} /\ {} \in SUBSET (1 .. n)
    OBVIOUS
  <2>2. it[{}] = b
    BY <1>2, <2>1
  <2> HIDE DEF tr
  <2> QED
    BY <2>1, <2>2
<1>4. ASSUME NEW k \in 1 .. n PROVE tr[k] = Step(op, tr[k - 1], s[k])
  <2>1. 1 .. k \in SUBSET (1 .. n) /\ k \in 1 .. k /\ (1 .. k) \ {k} = 1 .. k - 1
    OBVIOUS
  <2>2. Max(1 .. k) = k
    BY Largest
  <2>3. it[1 .. k] = Step(op, it[1 .. k - 1], s[k])
    BY <1>2, <2>1, <2>2
  <2> QED
    BY <2>3
<1>5. tr[n] = it[DOMAIN s]
  OBVIOUS
<1> HIDE DEF tr
<1>6. Path(op, b, s, n, tr)
  BY <1>3, <1>4 DEF Path
<1> QED
  BY <1>1, <1>5, <1>6

(* FoldLeft is the fold whose step has the operator's name.               *)

\* The operations of a chain.
LEMMA FoldSubmit ==
  ASSUME NEW b, NEW s
  PROVE  FoldLeft(Submit, b, s) = Folding("Submit", b, s)[DOMAIN s]
BY DEF FoldLeft, MapThenFoldSet, Folding, Folded, Step

\* The chains of a handler.
LEMMA FoldSubmitChain ==
  ASSUME NEW b, NEW s
  PROVE  FoldLeft(SubmitChain, b, s) = Folding("SubmitChain", b, s)[DOMAIN s]
BY DEF FoldLeft, MapThenFoldSet, Folding, Folded, Step

\* The heads moved to the table.
LEMMA FoldMoveHead ==
  ASSUME NEW b, NEW s
  PROVE  FoldLeft(MoveHead, b, s) = Folding("MoveHead", b, s)[DOMAIN s]
BY DEF FoldLeft, MapThenFoldSet, Folding, Folded, Step

\* The heads that have timed out.
LEMMA FoldTimedOutHead ==
  ASSUME NEW b, NEW s
  PROVE  FoldLeft(TimedOutHead, b, s) = Folding("TimedOutHead", b, s)[DOMAIN s]
BY DEF FoldLeft, MapThenFoldSet, Folding, Folded, Step

\* The entries accessed.
LEMMA FoldAccess ==
  ASSUME NEW b, NEW s
  PROVE  FoldLeft(Access, b, s) = Folding("Access", b, s)[DOMAIN s]
BY DEF FoldLeft, MapThenFoldSet, Folding, Folded, Step

-----------------------------------------------------------------------------
(* The DMA scheduler.                                                      *)

Operation == [dir : Dirs, bytes : Nat \ {0}]
Delayed == [delay : Nat, ops : [Dirs -> SUBSET Nat]]

DmaState ==
  [avail : [Dirs -> Nat], queue : [Dirs -> Seq(Nat)], replies : Seq(Delayed)]

\* The operations of a queue are done one after the other, and the last one
\* once it has been serialised.
Queued(q, a) ==
  /\ q \in Seq(Nat)
  /\ \A k, m \in DOMAIN q : k <= m => q[k] <= q[m]
  /\ \A k \in DOMAIN q : q[k] <= a + FixedLatency

Positive(q) == \A k \in DOMAIN q : q[k] > 0

\* The delay of a reply is the largest completion time of its operations.
Exact(r, queue) ==
  /\ \A d \in Dirs : \A k \in r.ops[d] : k \in DOMAIN queue[d] /\ queue[d][k] <= r.delay
  /\ r.delay = 0 \/ \E d \in Dirs : \E k \in r.ops[d] : queue[d][k] = r.delay

\* A reply that waits for nothing so far.
Idle(r) == r.delay = 0 /\ \A d \in Dirs : r.ops[d] = {}

DmaOK(s) ==
  /\ s \in DmaState
  /\ \A d \in Dirs : Queued(s.queue[d], s.avail[d])
  /\ \A k \in DOMAIN s.replies : Exact(s.replies[k], s.queue)
  /\ \/ \A d \in Dirs : Positive(s.queue[d])
     \/ \A k \in DOMAIN s.replies : Idle(s.replies[k])

\* The operations that RefreshRnicDmaSchedulerState keeps are in flight, and all
\* that are in flight are kept.
LEMMA RefreshKeeps ==
  ASSUME NEW a \in Nat, NEW q, Queued(q, a)
  PROVE  /\ Queued(Refreshed(q), a)
         /\ Positive(Refreshed(q))
         /\ Positive(q) => Refreshed(q) = q
<1> DEFINE P == {k \in DOMAIN q : q[k] > 0}
<1>1. q \in Seq(Nat) /\ \A k \in DOMAIN q : q[k] \in Nat
  BY DEF Queued
<1>2. Refreshed(q) = IF P = {} THEN <<>> ELSE SubSeq(q, Min(P), Len(q))
  BY DEF Refreshed
<1>3. CASE P = {}
  <2>1. Refreshed(q) = <<>>
    BY <1>2, <1>3
  <2>2. Positive(q) => q = <<>>
    BY <1>1, <1>3 DEF Positive
  <2> QED
    BY <2>1, <2>2 DEF Queued, Positive
<1>4. CASE P # {}
  <2>1. PICK m \in P : \A k \in P : m <= k
    <3>1. P \subseteq Nat
      BY <1>1
    <3> HIDE DEF P
    <3> QED
      BY <1>4, <3>1, LeastNatural
  <2>2. Min(P) = m
    <3>1. PICK x : x = Min(P)
      OBVIOUS
    <3>2. x \in P /\ \A k \in P : x <= k
      BY <2>1, <3>1 DEF Min
    <3>3. x \in Nat /\ m \in Nat
      BY <1>1, <3>2
    <3> HIDE DEF P
    <3> QED
      BY <2>1, <3>1, <3>2, <3>3
  <2>3. m \in 1 .. Len(q) /\ q[m] > 0
    BY <1>1
  <2>4. PICK z : z = SubSeq(q, m, Len(q))
    OBVIOUS
  <2>5. Refreshed(q) = z
    BY <1>2, <1>4, <2>2, <2>4
  <2>6. /\ z \in Seq(Nat) /\ Len(z) = Len(q) - m + 1
        /\ \A k \in DOMAIN z : k + m - 1 \in DOMAIN q /\ z[k] = q[k + m - 1]
    <3>1. m \in Nat /\ Len(q) \in Nat /\ 1 <= m /\ m <= Len(q)
      BY <1>1, <2>3
    <3>2. z \in Seq(Nat) /\ Len(z) = Len(q) - m + 1
      BY <1>1, <2>4, <3>1
    <3>3. ASSUME NEW k \in 1 .. Len(q) - m + 1
          PROVE  k + m - 1 \in 1 .. Len(q) /\ z[k] = q[k + m - 1]
      BY <1>1, <2>4, <3>1
    <3>4. DOMAIN z = 1 .. Len(q) - m + 1 /\ DOMAIN q = 1 .. Len(q)
      BY <1>1, <3>2
    <3> QED
      BY <3>2, <3>3, <3>4
  <2>7. Queued(z, a)
    <3>1. ASSUME NEW k \in DOMAIN z, NEW l \in DOMAIN z, k <= l PROVE z[k] <= z[l]
      <4>1. k + m - 1 <= l + m - 1
        BY <2>3, <2>6, <3>1
      <4> QED
        BY <2>6, <3>1, <4>1 DEF Queued
    <3>2. ASSUME NEW k \in DOMAIN z PROVE z[k] <= a + FixedLatency
      BY <2>6 DEF Queued
    <3> QED
      BY <2>6, <3>1, <3>2 DEF Queued
  <2>8. Positive(z)
    <3>1. ASSUME NEW k \in DOMAIN z PROVE z[k] > 0
      <4>1. k + m - 1 \in DOMAIN q /\ m <= k + m - 1
        BY <2>3, <2>6
      <4>2. q[m] <= q[k + m - 1]
        BY <2>3, <4>1 DEF Queued
      <4> QED
        BY <1>1, <2>3, <2>6, <4>1, <4>2
    <3> QED
      BY <3>1 DEF Positive
  <2>9. Positive(q) => z = q
    <3>1. ASSUME Positive(q) PROVE m = 1
      <4>1. 1 \in P
        BY <1>1, <2>3, <3>1 DEF Positive
      <4> QED
        BY <2>1, <2>3, <4>1
    <3>2. SubSeq(q, 1, Len(q)) = q
      BY <1>1
    <3> QED
      BY <2>4, <3>1, <3>2
  <2> QED
    BY <2>5, <2>7, <2>8, <2>9
<1> QED
  BY <1>3, <1>4

\* An operation enters its queue; the reply waits for it too.
LEMMA Submitted ==
  ASSUME NEW s, DmaOK(s), s.replies # <<>>, NEW op \in Operation
  PROVE  DmaOK(Submit(s, op)) /\ Submit(s, op).replies # <<>>
<1>1. PICK d \in Dirs : d = op.dir
  BY DEF Operation
<1>2. PICK rs : rs = s.replies
  OBVIOUS
<1>3. PICK n : n = Len(rs)
  OBVIOUS
<1>4. PICK q : q = [e \in Dirs |-> Refreshed(s.queue[e])]
  OBVIOUS
<1>5. PICK done : done = s.avail[d] + FixedLatency + op.bytes
  OBVIOUS
<1>6. PICK r : r = rs[n]
  OBVIOUS
<1>7. PICK w : w = [delay |-> ChainDelay(r.delay, done),
                    ops |-> [r.ops EXCEPT ![d] = @ \union {Len(q[d]) + 1}]]
  OBVIOUS
<1>8. PICK qq : qq = [e \in Dirs |-> IF e = d THEN Append(q[d], done) ELSE q[e]]
  OBVIOUS
<1>9. PICK av : av = [s.avail EXCEPT ![d] = @ + op.bytes]
  OBVIOUS
<1>10. /\ s.avail \in [Dirs -> Nat] /\ s.queue \in [Dirs -> Seq(Nat)]
       /\ rs \in Seq(Delayed) /\ n \in Nat /\ n > 0 /\ r \in Delayed
       /\ op.bytes \in Nat /\ op.bytes > 0 /\ FixedLatency \in Nat
  <2>1. s \in DmaState
    BY DEF DmaOK
  <2>2. rs \in Seq(Delayed) /\ s.avail \in [Dirs -> Nat] /\ s.queue \in [Dirs -> Seq(Nat)]
    BY <1>2, <2>1 DEF DmaState
  <2>3. n \in Nat /\ n > 0
    BY <1>2, <1>3, <2>2
  <2> QED
    BY <1>3, <1>6, <2>2, <2>3, RnicAssumption DEF Operation
<1>11. done \in Nat /\ done > 0 /\ s.avail[d] \in Nat
  BY <1>5, <1>10
<1>12. \A e \in Dirs : /\ Queued(q[e], s.avail[e]) /\ Positive(q[e])
                       /\ Positive(s.queue[e]) => q[e] = s.queue[e]
  BY <1>4, <1>10, RefreshKeeps DEF DmaOK
<1>13. PICK p : p = Append(Front(rs), w)
  OBVIOUS
<1>14. Submit(s, op) = [avail |-> av, queue |-> qq, replies |-> p]
  <2>1. q[d] = Refreshed(s.queue[op.dir]) /\ done = DoneAt(s.avail[op.dir], op)
    BY <1>1, <1>4, <1>5 DEF DoneAt
  <2>2. qq = [e \in Dirs |-> IF e = op.dir THEN Append(Refreshed(s.queue[op.dir]), done)
                             ELSE Refreshed(s.queue[e])]
    BY <1>1, <1>4, <1>8, <2>1
  <2>3. av = [s.avail EXCEPT ![op.dir] = @ + op.bytes]
    BY <1>1, <1>9
  <2>4. w = [delay |-> ChainDelay(Last(s.replies).delay, done),
             ops |-> [Last(s.replies).ops EXCEPT
                        ![op.dir] = @ \union {Len(Refreshed(s.queue[op.dir])) + 1}]]
    BY <1>1, <1>2, <1>3, <1>6, <1>7, <2>1 DEF Last
  <2> QED
    BY <1>2, <1>13, <2>1, <2>2, <2>3, <2>4 DEF Submit
<1>15. w \in Delayed /\ w.delay \in Nat /\ w.delay >= r.delay /\ w.delay >= done
       /\ (w.delay = r.delay \/ w.delay = done) /\ r.delay \in Nat
  <2>1. r.delay \in Nat /\ r.ops \in [Dirs -> SUBSET Nat]
    BY <1>10 DEF Delayed
  <2>2. ChainDelay(r.delay, done) \in {r.delay, done}
        /\ ChainDelay(r.delay, done) >= r.delay /\ ChainDelay(r.delay, done) >= done
    BY <1>11, <2>1 DEF ChainDelay
  <2>3. Len(q[d]) + 1 \in Nat
    BY <1>12 DEF Queued
  <2>4. [r.ops EXCEPT ![d] = @ \union {Len(q[d]) + 1}] \in [Dirs -> SUBSET Nat]
    BY <2>1, <2>3
  <2>5. ChainDelay(r.delay, done) \in Nat
    BY <1>11, <2>1, <2>2
  <2> QED
    BY <1>7, <2>1, <2>2, <2>4, <2>5 DEF Delayed
<1>16. /\ p \in Seq(Delayed) /\ Len(p) = n
       /\ \A k \in DOMAIN p : p[k] = IF k = n THEN w ELSE rs[k]
       /\ DOMAIN p = DOMAIN rs
  <2>1. Front(rs) = SubSeq(rs, 1, n - 1)
    BY <1>3 DEF Front
  <2>2. PICK f : f = SubSeq(rs, 1, n - 1)
    OBVIOUS
  <2>3. f \in Seq(Delayed) /\ Len(f) = n - 1 /\ \A k \in 1 .. n - 1 : f[k] = rs[k]
    BY <1>3, <1>10, <2>2
  <2> QED
    BY <1>3, <1>10, <1>13, <1>15, <2>1, <2>2, <2>3
<1>17. /\ qq \in [Dirs -> Seq(Nat)] /\ av \in [Dirs -> Nat]
       /\ \A e \in Dirs : Queued(qq[e], av[e]) /\ Positive(qq[e])
  <2>1. av \in [Dirs -> Nat] /\ av[d] = s.avail[d] + op.bytes
        /\ \A e \in Dirs : e # d => av[e] = s.avail[e]
    BY <1>9, <1>10
  <2>2. Queued(qq[d], av[d]) /\ Positive(qq[d])
    <3>1. PICK z : z = q[d]
      OBVIOUS
    <3>2. PICK y : y = Append(z, done)
      OBVIOUS
    <3>3. Queued(z, s.avail[d]) /\ Positive(z) /\ qq[d] = y
      BY <1>8, <1>12, <3>1, <3>2
    <3>4. /\ y \in Seq(Nat) /\ Len(y) = Len(z) + 1 /\ y[Len(z) + 1] = done
          /\ \A k \in DOMAIN z : y[k] = z[k] /\ z[k] \in Nat /\ z[k] <= done
      <4>1. z \in Seq(Nat)
        BY <3>3 DEF Queued
      <4>2. /\ y \in Seq(Nat) /\ Len(y) = Len(z) + 1 /\ y[Len(z) + 1] = done
            /\ \A k \in DOMAIN z : y[k] = z[k] /\ z[k] \in Nat
        BY <1>11, <3>2, <4>1
      <4>3. \A k \in DOMAIN z : z[k] <= s.avail[d] + FixedLatency
        BY <3>3 DEF Queued
      <4>4. s.avail[d] + FixedLatency <= done
        BY <1>5, <1>10, <1>11
      <4>5. \A k \in DOMAIN z : z[k] <= done
        BY <1>10, <1>11, <4>2, <4>3, <4>4
      <4> QED
        BY <4>2, <4>5
    <3>5. \A k \in DOMAIN y : k \in DOMAIN z \/ k = Len(z) + 1
      BY <3>2, <3>3 DEF Queued
    <3>6. done <= av[d] + FixedLatency
      BY <1>5, <1>10, <1>11, <2>1
    <3>7. Positive(y)
      BY <1>11, <3>3, <3>4, <3>5 DEF Positive
    <3>8. ASSUME NEW k \in DOMAIN y PROVE y[k] \in Nat /\ y[k] <= av[d] + FixedLatency
      <4>1. y[k] \in Nat /\ y[k] <= done
        BY <1>11, <3>4, <3>5, <3>8
      <4>2. av[d] + FixedLatency \in Nat
        BY <1>10, <1>11, <2>1
      <4> QED
        BY <1>11, <3>6, <4>1, <4>2
    <3>9. ASSUME NEW k \in DOMAIN y, NEW m \in DOMAIN y, k <= m PROVE y[k] <= y[m]
      <4>1. CASE m = Len(z) + 1
        BY <1>11, <3>4, <3>5, <4>1
      <4>2. CASE m \in DOMAIN z
        <5>1. k \in DOMAIN z
          BY <3>3, <3>4, <3>5, <3>9, <4>2 DEF Queued
        <5> QED
          BY <3>3, <3>4, <3>9, <4>2, <5>1 DEF Queued
      <4> QED
        BY <3>5, <4>1, <4>2
    <3> QED
      BY <3>3, <3>4, <3>7, <3>8, <3>9 DEF Queued
  <2>3. ASSUME NEW e \in Dirs, e # d PROVE Queued(qq[e], av[e]) /\ Positive(qq[e])
    BY <1>8, <1>12, <2>1, <2>3
  <2>4. \A e \in Dirs : Queued(qq[e], av[e]) /\ Positive(qq[e])
    BY <2>2, <2>3
  <2>5. qq \in [Dirs -> Seq(Nat)]
    BY <1>8, <2>4 DEF Queued
  <2> QED
    BY <2>1, <2>4, <2>5
<1>18. ASSUME NEW e \in Dirs, NEW k \in DOMAIN q[e]
       PROVE  k \in DOMAIN qq[e] /\ qq[e][k] = q[e][k]
  BY <1>8, <1>12, <1>18 DEF Queued
<1>19. Len(q[d]) + 1 \in DOMAIN qq[d] /\ qq[d][Len(q[d]) + 1] = done
  BY <1>8, <1>12 DEF Queued
<1>20. \A e \in Dirs : \A k \in w.ops[e] : k \in r.ops[e] \/ (e = d /\ k = Len(q[d]) + 1)
  BY <1>7, <1>10 DEF Delayed
<1>21. /\ Len(q[d]) + 1 \in w.ops[d]
       /\ \A e \in Dirs : r.ops[e] \subseteq w.ops[e]
  BY <1>7, <1>10 DEF Delayed
<1>22. \A k \in DOMAIN rs : Exact(rs[k], s.queue) /\ rs[k] \in Delayed
  BY <1>2, <1>10 DEF DmaOK
<1>23. \A k \in DOMAIN p : Exact(p[k], qq)
  <2>1. CASE \A e \in Dirs : Positive(s.queue[e])
    <3>1. \A e \in Dirs : q[e] = s.queue[e]
      BY <1>12, <2>1
    <3>2. ASSUME NEW k \in DOMAIN rs, NEW x, x = rs[k] PROVE Exact(x, qq)
      BY <1>18, <1>22, <3>1, <3>2 DEF Exact
    <3>3. Exact(w, qq)
      <4>1. n \in DOMAIN rs /\ Exact(r, s.queue)
        BY <1>3, <1>6, <1>10, <1>22
      <4>2. ASSUME NEW e \in Dirs, NEW k \in w.ops[e]
            PROVE  k \in DOMAIN qq[e] /\ qq[e][k] <= w.delay
        <5>1. CASE e = d /\ k = Len(q[d]) + 1
          BY <1>15, <1>19, <5>1
        <5>2. CASE k \in r.ops[e]
          <6>1. k \in DOMAIN q[e] /\ q[e][k] <= r.delay
            BY <3>1, <4>1, <5>2 DEF Exact
          <6>2. q[e][k] \in Nat
            BY <1>12, <6>1 DEF Queued
          <6>3. k \in DOMAIN qq[e] /\ qq[e][k] = q[e][k]
            BY <1>18, <6>1
          <6> QED
            BY <1>15, <6>1, <6>2, <6>3
        <5> QED
          BY <1>20, <4>2, <5>1, <5>2
      <4>3. \E e \in Dirs : \E k \in w.ops[e] : qq[e][k] = w.delay
        <5>1. CASE w.delay = done
          BY <1>19, <1>21, <5>1
        <5>2. CASE w.delay = r.delay /\ w.delay # done
          <6>1. r.delay # 0
            BY <1>11, <1>15, <5>2
          <6>2. PICK e \in Dirs : \E k \in r.ops[e] : s.queue[e][k] = r.delay
            BY <4>1, <6>1 DEF Exact
          <6>3. PICK k \in r.ops[e] : s.queue[e][k] = r.delay
            BY <6>2
          <6>4. k \in DOMAIN q[e] /\ q[e][k] = r.delay
            BY <3>1, <4>1, <6>3 DEF Exact
          <6>5. qq[e][k] = w.delay
            BY <1>18, <5>2, <6>4
          <6> QED
            BY <1>21, <6>5
        <5> QED
          BY <1>15, <5>1, <5>2
      <4> QED
        BY <4>2, <4>3 DEF Exact
    <3> QED
      BY <1>16, <3>2, <3>3
  <2>2. CASE \A k \in DOMAIN rs : Idle(rs[k])
    <3>1. ASSUME NEW k \in DOMAIN rs, NEW x, x = rs[k] PROVE Exact(x, qq)
      BY <2>2, <3>1 DEF Exact, Idle
    <3>2. Exact(w, qq)
      <4>1. Idle(r)
        BY <1>3, <1>6, <1>10, <2>2
      <4>2. w.delay = done
        BY <1>11, <1>15, <4>1 DEF Idle
      <4>3. ASSUME NEW e \in Dirs, NEW k \in w.ops[e] PROVE e = d /\ k = Len(q[d]) + 1
        BY <1>20, <4>1, <4>3 DEF Idle
      <4>4. \A e \in Dirs : \A k \in w.ops[e] : k \in DOMAIN qq[e] /\ qq[e][k] <= w.delay
        BY <1>11, <1>19, <4>2, <4>3
      <4>5. \E e \in Dirs : \E k \in w.ops[e] : qq[e][k] = w.delay
        BY <1>19, <1>21, <4>2
      <4> QED
        BY <4>4, <4>5 DEF Exact
    <3> QED
      BY <1>16, <3>1, <3>2
  <2> QED
    BY <1>2, <2>1, <2>2 DEF DmaOK
<1>24. [avail |-> av, queue |-> qq, replies |-> p] \in DmaState
  BY <1>16, <1>17 DEF DmaState
<1>25. DmaOK([avail |-> av, queue |-> qq, replies |-> p])
  BY <1>17, <1>23, <1>24 DEF DmaOK
<1>26. p # <<>>
  BY <1>10, <1>16
<1> QED
  BY <1>14, <1>25, <1>26

\* A chain delays a reply of its own.
LEMMA ChainSubmitted ==
  ASSUME NEW s, DmaOK(s), NEW chain \in Seq(Operation)
  PROVE  DmaOK(SubmitChain(s, chain))
<1> DEFINE reply == [delay |-> 0, ops |-> [d \in Dirs |-> {}]]
<1>1. PICK rs : rs = Append(s.replies, reply)
  OBVIOUS
<1>2. PICK b : b = [s EXCEPT !.replies = rs]
  OBVIOUS
<1>3. PICK n : n = Len(chain) /\ n \in Nat /\ DOMAIN chain = 1 .. n
  OBVIOUS
<1>4. b.avail = s.avail /\ b.queue = s.queue /\ b.replies = rs
      /\ b = [avail |-> b.avail, queue |-> b.queue, replies |-> b.replies]
  BY <1>2 DEF DmaOK, DmaState
<1>5. SubmitChain(s, chain) = Folding("Submit", b, chain)[DOMAIN chain]
  BY <1>1, <1>2, FoldSubmit DEF SubmitChain
<1>6. DmaOK(b) /\ b.replies # <<>>
  <2>1. s.replies \in Seq(Delayed) /\ s.avail \in [Dirs -> Nat] /\ s.queue \in [Dirs -> Seq(Nat)]
    BY DEF DmaOK, DmaState
  <2>2. reply \in Delayed /\ Idle(reply) /\ Exact(reply, s.queue)
    BY DEF Delayed, Idle, Exact
  <2> HIDE DEF reply
  <2>3. /\ rs \in Seq(Delayed) /\ rs # <<>>
        /\ \A k \in DOMAIN rs : \/ k \in DOMAIN s.replies /\ rs[k] = s.replies[k]
                                \/ rs[k] = reply
    BY <1>1, <2>1, <2>2
  <2>4. b \in DmaState
    BY <1>4, <2>1, <2>3 DEF DmaState
  <2>5. \A k \in DOMAIN rs : Exact(rs[k], s.queue)
    BY <2>2, <2>3 DEF DmaOK
  <2>6. \/ \A d \in Dirs : Positive(s.queue[d])
        \/ \A k \in DOMAIN rs : Idle(rs[k])
    BY <2>2, <2>3 DEF DmaOK
  <2>7. \A d \in Dirs : Queued(s.queue[d], s.avail[d])
    BY DEF DmaOK
  <2> QED
    BY <1>4, <2>3, <2>4, <2>5, <2>6, <2>7 DEF DmaOK
<1>7. PICK tr : Path("Submit", b, chain, n, tr)
                /\ Folding("Submit", b, chain)[DOMAIN chain] = tr[n]
  BY <1>3, FoldedPath
<1> DEFINE S == {k \in 0 .. n : DmaOK(tr[k]) /\ tr[k].replies # <<>>}
<1>8. 0 \in S
  BY <1>3, <1>6, <1>7 DEF Path
<1>9. ASSUME NEW k \in 1 .. n, k - 1 \in S PROVE k \in S
  <2>1. tr[k] = Submit(tr[k - 1], chain[k])
    BY <1>7 DEF Path, Step
  <2>2. chain[k] \in Operation
    BY <1>3
  <2>3. DmaOK(tr[k - 1]) /\ tr[k - 1].replies # <<>>
    BY <1>9
  <2>4. DmaOK(tr[k]) /\ tr[k].replies # <<>>
    BY <2>1, <2>2, <2>3, Submitted
  <2> QED
    BY <2>4
<1>10. n \in S
  <2> HIDE DEF S
  <2>1. n \in Nat /\ n \in 0 .. n
    BY <1>3
  <2>2. \A k \in 0 .. n : k \in S
    BY <1>8, <1>9, <2>1, Upwards
  <2> QED
    BY <2>1, <2>2
<1> QED
  BY <1>5, <1>7, <1>10

\* The state of the DMA scheduler between two handlers.
DmaInv ==
  /\ backlog \in [Dirs -> Nat] /\ completions \in [Dirs -> Seq(Nat)]
  /\ replies \in Seq(Delayed)
  /\ \A d \in Dirs : Queued(completions[d], backlog[d])
  /\ \A k \in DOMAIN replies : Exact(replies[k], completions)

\* Whatever chains a handler submits, queues stay in order and delays exact.
LEMMA DmaKeeps ==
  ASSUME DmaInv, NEW chains \in Seq(Seq(Operation)), Dma(chains)
  PROVE  DmaInv'
<1>1. PICK b : b = [avail |-> backlog, queue |-> completions, replies |-> <<>>]
  OBVIOUS
<1>2. PICK n : n = Len(chains) /\ n \in Nat /\ DOMAIN chains = 1 .. n
  OBVIOUS
<1>3. DmaOK(b)
  <2>1. <<>> \in Seq(Delayed) /\ DOMAIN <<>> = {}
    OBVIOUS
  <2> QED
    BY <1>1, <2>1 DEF DmaInv, DmaOK, DmaState
<1>4. PICK tr : Path("SubmitChain", b, chains, n, tr)
                /\ Folding("SubmitChain", b, chains)[DOMAIN chains] = tr[n]
  BY <1>2, FoldedPath
<1> DEFINE S == {k \in 0 .. n : DmaOK(tr[k])}
<1>5. 0 \in S
  BY <1>2, <1>3, <1>4 DEF Path
<1>6. ASSUME NEW k \in 1 .. n, k - 1 \in S PROVE k \in S
  <2>1. tr[k] = SubmitChain(tr[k - 1], chains[k])
    BY <1>4 DEF Path, Step
  <2>2. chains[k] \in Seq(Operation) /\ DmaOK(tr[k - 1])
    BY <1>2, <1>6
  <2>3. DmaOK(tr[k])
    BY <2>1, <2>2, ChainSubmitted
  <2> QED
    BY <2>3
<1>7. n \in S
  <2> HIDE DEF S
  <2>1. n \in Nat /\ n \in 0 .. n
    BY <1>2
  <2>2. \A k \in 0 .. n : k \in S
    BY <1>5, <1>6, <2>1, Upwards
  <2> QED
    BY <2>1, <2>2
<1>8. DmaOK(tr[n])
  BY <1>7
<1>9. backlog' = tr[n].avail /\ completions' = tr[n].queue /\ replies' = tr[n].replies
  BY <1>1, <1>4, FoldSubmitChain DEF Dma
<1> QED
  BY <1>8, <1>9 DEF DmaOK, DmaState, DmaInv

\* Time passes.
LEMMA TickKeeps ==
  ASSUME DmaInv, Tick
  PROVE  DmaInv'
<1>1. replies' = <<>> /\ backlog' = [d \in Dirs |-> Before(backlog[d])]
  BY DEF Tick
<1>2. completions' = [d \in Dirs |-> [k \in DOMAIN completions[d] |->
                                        Before(completions[d][k])]]
  BY DEF Tick
<1>3. ASSUME NEW d \in Dirs
      PROVE  Before(backlog[d]) \in Nat /\ Queued(completions'[d], Before(backlog[d]))
  <2>1. PICK q : q = completions[d]
    OBVIOUS
  <2>2. PICK z : z = [k \in DOMAIN q |-> Before(q[k])]
    OBVIOUS
  <2>3. PICK a : a = backlog[d] /\ a \in Nat /\ Queued(q, a)
    BY <2>1 DEF DmaInv
  <2>4. \A x, y \in Nat :
          /\ Before(x) \in Nat
          /\ x <= y => Before(x) <= Before(y)
          /\ x <= y + FixedLatency => Before(x) <= Before(y) + FixedLatency
    BY RnicAssumption DEF Before
  <2>5. q \in Seq(Nat) /\ \A k \in DOMAIN q : q[k] \in Nat
    BY <2>3 DEF Queued
  <2>6. z \in Seq(Nat) /\ DOMAIN z = DOMAIN q
    <3>1. PICK n \in Nat : DOMAIN q = 1 .. n
      BY <2>5
    <3>2. z \in [1 .. n -> Nat]
      BY <2>2, <2>4, <2>5, <3>1
    <3> QED
      BY <3>1, <3>2
  <2>7. Queued(z, Before(a))
    <3>1. \A k \in DOMAIN z : z[k] = Before(q[k])
      BY <2>2
    <3>2. ASSUME NEW k \in DOMAIN z, NEW m \in DOMAIN z, k <= m PROVE z[k] <= z[m]
      <4>1. q[k] <= q[m]
        BY <2>3, <2>6, <3>2 DEF Queued
      <4> QED
        BY <2>4, <2>5, <2>6, <3>1, <4>1
    <3>3. ASSUME NEW k \in DOMAIN z PROVE z[k] <= Before(a) + FixedLatency
      <4>1. q[k] <= a + FixedLatency
        BY <2>3, <2>6 DEF Queued
      <4> QED
        BY <2>3, <2>4, <2>5, <2>6, <3>1, <4>1
    <3> QED
      BY <2>6, <3>2, <3>3 DEF Queued
  <2>8. completions'[d] = z
    BY <1>2, <2>1, <2>2
  <2> QED
    BY <2>3, <2>4, <2>7, <2>8
<1>4. completions' \in [Dirs -> Seq(Nat)]
  BY <1>2, <1>3 DEF Queued
<1>5. backlog' \in [Dirs -> Nat]
  BY <1>1, <1>3
<1>6. <<>> \in Seq(Delayed) /\ DOMAIN <<>> = {}
  OBVIOUS
<1> QED
  BY <1>1, <1>3, <1>4, <1>5, <1>6 DEF DmaInv

\* The monitor only removes what is done.
LEMMA MonitorKeeps ==
  ASSUME DmaInv, Monitor
  PROVE  DmaInv'
<1>1. /\ replies' = <<>> /\ backlog' = backlog
      /\ completions' = [d \in Dirs |-> Refreshed(completions[d])]
  BY DEF Monitor
<1>2. \A d \in Dirs : Queued(completions'[d], backlog[d])
  BY <1>1, RefreshKeeps DEF DmaInv
<1>3. completions' \in [Dirs -> Seq(Nat)]
  BY <1>1, <1>2 DEF Queued
<1>4. <<>> \in Seq(Delayed) /\ DOMAIN <<>> = {}
  OBVIOUS
<1> QED
  BY <1>1, <1>2, <1>3, <1>4 DEF DmaInv

-----------------------------------------------------------------------------
(* The list and its head cache.                                            *)

Context ==
  [cached : Seq(BOOLEAN), head : Nat, host : Nat, index : Nat,
   chains : Seq(Seq(Operation))]

Window(fs) == \A i \in DOMAIN fs : fs[i] <=> i <= FirstN

\* A list of m nodes of which the first FirstN are cached and counted.
WindowOK(c, m) ==
  /\ c \in Context /\ nextIndex \in 0 .. c.index
  /\ Len(c.cached) = m /\ Window(c.cached)
  /\ c.head = IF m <= FirstN THEN m ELSE FirstN
  /\ c.host = m - c.head

\* Operations joined to the last chain.
LEMMA OpsAdded ==
  ASSUME NEW c \in Context, NEW ops \in Seq(Operation)
  PROVE  LET e == AddOps(c, ops)
         IN  /\ e \in Context
             /\ e.cached = c.cached /\ e.head = c.head /\ e.host = c.host
             /\ e.index = c.index
<1>1. PICK ch : ch = c.chains /\ ch \in Seq(Seq(Operation))
  BY DEF Context
<1>2. PICK n : n = Len(ch) /\ n \in Nat /\ DOMAIN ch = 1 .. n
  BY <1>1
<1>3. PICK y : y = [ch EXCEPT ![n] = @ \o ops]
  OBVIOUS
<1>4. y \in Seq(Seq(Operation))
  <2>1. CASE n = 0
    <3>1. DOMAIN y = 1 .. 0 /\ \A k \in 1 .. 0 : y[k] \in Seq(Operation)
      BY <1>1, <1>2, <1>3, <2>1
    <3>2. y \in [1 .. 0 -> Seq(Operation)]
      BY <1>3, <3>1
    <3> QED
      BY <3>2
  <2>2. CASE n # 0
    <3>1. n \in 1 .. n /\ ch[n] \in Seq(Operation)
      BY <1>1, <1>2, <2>2
    <3>2. ch[n] \o ops \in Seq(Operation)
      BY <3>1
    <3>3. y \in [1 .. n -> Seq(Operation)]
      BY <1>1, <1>2, <1>3, <3>1, <3>2
    <3> QED
      BY <1>2, <3>3
  <2> QED
    BY <2>1, <2>2
<1>5. AddOps(c, ops) = [c EXCEPT !.chains = y]
  BY <1>1, <1>2, <1>3 DEF AddOps
<1> QED
  BY <1>4, <1>5 DEF Context

\* The entries of a node are written one by one.
LEMMA PutToTableKeeps ==
  ASSUME NEW c, NEW m, WindowOK(c, m), NEW n \in Nat
  PROVE  WindowOK(PutToTable(c, n), m)
<1>1. PICK e : e = [c EXCEPT !.index = @ + n]
  OBVIOUS
<1>2. e \in Context /\ e.cached = c.cached /\ e.head = c.head /\ e.host = c.host
      /\ e.index = c.index + n
  <2>1. c.index \in Nat /\ c.index + n \in Nat
    BY DEF WindowOK, Context
  <2> QED
    BY <1>1, <2>1 DEF WindowOK, Context
<1>3. PICK ops : ops = [k \in 1 .. n |-> Transfer("write", 1)]
  OBVIOUS
<1>4. ops \in Seq(Operation)
  <2>1. Transfer("write", 1) \in Operation
    BY DEF Transfer, Operation, Dirs
  <2> QED
    BY <1>3, <2>1
<1>5. PutToTable(c, n) = AddOps(e, ops)
  BY <1>1, <1>3 DEF PutToTable
<1>6. PICK f : f = AddOps(e, ops)
  OBVIOUS
<1>7. f \in Context /\ f.cached = c.cached /\ f.head = c.head /\ f.host = c.host
      /\ f.index = c.index + n
  BY <1>2, <1>4, <1>6, OpsAdded
<1>8. nextIndex \in 0 .. f.index
  <2>1. nextIndex \in 0 .. c.index /\ c.index \in Nat
    BY DEF WindowOK, Context
  <2> QED
    BY <1>7, <2>1
<1> QED
  BY <1>5, <1>6, <1>7, <1>8 DEF WindowOK

\* The slot that the head of the list leaves is filled with the first node of
\* the host: FirstN nodes are cached again, or all.
LEMMA EraseHeadKeeps ==
  ASSUME NEW c, NEW m \in Nat, m > 0, WindowOK(c, m)
  PROVE  WindowOK(EraseHead(c), m - 1)
<1>1. PICK w : w = WithoutHead(c)
  OBVIOUS
<1>2. PICK fs : fs = c.cached
  OBVIOUS
<1>3. PICK gs : gs = Tail(fs)
  OBVIOUS
<1>4. /\ c \in Context /\ fs \in Seq(BOOLEAN) /\ Len(fs) = m
      /\ \A i \in 1 .. m : fs[i] <=> i <= FirstN
      /\ c.head = (IF m <= FirstN THEN m ELSE FirstN) /\ c.host = m - c.head
      /\ FirstN \in Nat
  BY <1>2, RnicAssumption DEF WindowOK, Window, Context
<1>5. /\ gs \in Seq(BOOLEAN) /\ Len(gs) = m - 1
      /\ \A i \in 1 .. m - 1 : gs[i] = fs[i + 1]
  BY <1>3, <1>4
<1>6. \A i \in 1 .. m - 1 : gs[i] <=> i < FirstN
  <2>1. ASSUME NEW i \in 1 .. m - 1 PROVE gs[i] <=> i < FirstN
    <3>1. i + 1 \in 1 .. m /\ (i + 1 <= FirstN <=> i < FirstN)
      BY <1>4
    <3>2. gs[i] = fs[i + 1] /\ (fs[i + 1] <=> i + 1 <= FirstN)
      BY <1>4, <1>5, <3>1
    <3> QED
      BY <3>1, <3>2
  <2> QED
    BY <2>1
<1>7. fs[1] <=> 1 <= FirstN
  BY <1>4
<1>8. /\ w.cached = gs /\ w.index = c.index /\ w.chains = c.chains
      /\ w.head = IF 1 <= FirstN THEN c.head - 1 ELSE c.head
      /\ w.host = IF 1 <= FirstN THEN c.host ELSE c.host - 1
      /\ w = [cached |-> w.cached, head |-> w.head, host |-> w.host,
              index |-> w.index, chains |-> w.chains]
  <2>1. w = [c EXCEPT !.cached = gs,
                      !.head = IF 1 <= FirstN THEN @ - 1 ELSE @,
                      !.host = IF 1 <= FirstN THEN @ ELSE @ - 1]
    BY <1>1, <1>2, <1>3, <1>7 DEF WithoutHead
  <2>2. c \in Context
    BY <1>4
  <2> QED
    BY <2>1, <2>2 DEF Context
<1>9. nextIndex \in 0 .. w.index
  BY <1>8 DEF WindowOK
<1>10. EraseHead(c) = Refill(w)
  BY <1>1 DEF EraseHead
<1>11. CASE m <= FirstN \/ FirstN = 0
  <2>1. /\ w.head = (IF FirstN = 0 THEN 0 ELSE m - 1) /\ w.head \in Nat
        /\ w.host = m - 1 - w.head /\ w.host \in Nat
        /\ FirstN = 0 \/ w.host = 0
    BY <1>4, <1>8, <1>11
  <2>2. w \in Context
    BY <1>4, <1>5, <1>8, <2>1 DEF Context
  <2>3. Refill(w) = w
    BY <2>1 DEF Refill
  <2>4. w.head = IF m - 1 <= FirstN THEN m - 1 ELSE FirstN
    BY <1>4, <1>11, <2>1
  <2>5. Window(gs)
    <3>1. ASSUME NEW i \in 1 .. m - 1 PROVE i < FirstN <=> i <= FirstN
      BY <1>4, <1>11
    <3>2. DOMAIN gs = 1 .. m - 1
      BY <1>5
    <3> QED
      BY <1>6, <3>1, <3>2 DEF Window
  <2> QED
    BY <1>5, <1>8, <1>9, <1>10, <2>1, <2>2, <2>3, <2>4, <2>5 DEF WindowOK
<1>12. CASE ~ (m <= FirstN \/ FirstN = 0)
  <2>1. /\ FirstN \in 1 .. m - 1
        /\ w.head = FirstN - 1 /\ w.host = m - FirstN /\ w.head \in Nat /\ w.host \in Nat
        /\ w.host > 0
    BY <1>4, <1>8, <1>12
  <2>2. w \in Context
    BY <1>4, <1>5, <1>8, <2>1 DEF Context
  <2>3. PICK H : H = {i \in DOMAIN w.cached : ~ w.cached[i]}
    OBVIOUS
  <2>4. H = FirstN .. m - 1
    <3>1. DOMAIN w.cached = 1 .. m - 1
      BY <1>5, <1>8
    <3>2. ASSUME NEW i \in 1 .. m - 1 PROVE ~ w.cached[i] <=> ~ (i < FirstN)
      BY <1>6, <1>8
    <3>3. H = {i \in 1 .. m - 1 : ~ (i < FirstN)}
      BY <2>3, <3>1, <3>2
    <3> QED
      BY <2>1, <3>3
  <2>5. Min({FirstN - w.head, w.host}) = 1
    <3>1. PICK x : x = Min({1, w.host})
      OBVIOUS
    <3>2. \E y \in {1, w.host} : \A z \in {1, w.host} : y <= z
      BY <2>1
    <3>3. x \in {1, w.host} /\ \A z \in {1, w.host} : x <= z
      BY <3>1, <3>2 DEF Min
    <3>4. x = 1
      BY <2>1, <3>3
    <3>5. FirstN - w.head = 1
      BY <1>4, <2>1
    <3> QED
      BY <3>1, <3>4, <3>5
  <2>6. PICK pulled : pulled = {i \in H : Cardinality({j \in H : j <= i}) <= 1}
    OBVIOUS
  <2>7. pulled = {FirstN}
    <3>1. ASSUME NEW i \in H PROVE Cardinality({j \in H : j <= i}) <= 1 <=> i = FirstN
      <4>1. i \in Int /\ FirstN \in Int /\ FirstN <= i /\ i <= m - 1
        BY <1>4, <2>1, <2>4
      <4>2. {j \in H : j <= i} = FirstN .. i
        BY <2>4, <4>1
      <4>3. PICK z : z = Cardinality(FirstN .. i) /\ z = i - FirstN + 1
        BY <4>1, FS_Interval
      <4>4. z <= 1 <=> i = FirstN
        BY <4>1, <4>3
      <4> QED
        BY <4>2, <4>3, <4>4
    <3>2. FirstN \in H
      BY <2>1, <2>4
    <3> QED
      BY <2>6, <3>1, <3>2
  <2>8. Cardinality(pulled) = 1
    BY <2>7, FS_Singleton
  <2>9. PICK e : e = AddOps(w, <<Transfer("read", 1)>>)
    OBVIOUS
  <2>10. /\ e \in Context /\ e.cached = gs /\ e.head = w.head /\ e.host = w.host
         /\ e.index = w.index
    <3>1. <<Transfer("read", 1)>> \in Seq(Operation)
      BY DEF Transfer, Operation, Dirs
    <3> QED
      BY <1>8, <2>2, <2>9, <3>1, OpsAdded
  <2>11. PICK hs : hs = [i \in DOMAIN w.cached |-> w.cached[i] \/ i \in pulled]
    OBVIOUS
  <2>12. PICK r : r = [e EXCEPT !.cached = hs, !.head = @ + 1, !.host = @ - 1]
    OBVIOUS
  <2>13. Refill(w) = r
    <3>1. ~ (FirstN = 0 \/ w.head >= FirstN \/ w.host = 0)
      BY <1>4, <2>1
    <3>2. pulled = {i \in H : Cardinality({j \in H : j <= i})
                                <= Min({FirstN - w.head, w.host})}
      BY <2>5, <2>6
    <3>3. Cardinality(pulled) > 0
      BY <2>8
    <3> QED
      BY <2>3, <2>8, <2>9, <2>11, <2>12, <3>1, <3>2, <3>3 DEF Refill
  <2>14. hs \in Seq(BOOLEAN) /\ Len(hs) = m - 1 /\ Window(hs)
    <3>1. DOMAIN w.cached = 1 .. m - 1 /\ m - 1 \in Nat
      BY <1>4, <1>5, <1>8
    <3>2. hs \in [1 .. m - 1 -> BOOLEAN]
      BY <2>11, <3>1
    <3>3. ASSUME NEW i \in 1 .. m - 1 PROVE hs[i] <=> i <= FirstN
      <4>1. hs[i] <=> (gs[i] \/ i = FirstN)
        BY <1>8, <2>7, <2>11, <3>1
      <4>2. i <= FirstN <=> (i < FirstN \/ i = FirstN)
        BY <1>4
      <4> QED
        BY <1>6, <4>1, <4>2
    <3>4. DOMAIN hs = 1 .. m - 1
      BY <3>2
    <3>5. hs \in Seq(BOOLEAN) /\ Len(hs) = m - 1
      BY <3>1, <3>2
    <3> QED
      BY <3>3, <3>4, <3>5 DEF Window
  <2>15. r.cached = hs /\ r.head = FirstN /\ r.host = m - 1 - FirstN /\ r.index = w.index
    BY <1>4, <2>1, <2>10, <2>12 DEF Context
  <2>16. r \in Context
    <3>1. m - 1 - FirstN \in Nat
      BY <1>4, <2>1
    <3> QED
      BY <1>4, <2>10, <2>12, <2>14, <2>15, <3>1 DEF Context
  <2>17. r.head = IF m - 1 <= FirstN THEN m - 1 ELSE FirstN
    BY <1>4, <2>1, <2>15
  <2> QED
    BY <1>9, <1>10, <2>13, <2>14, <2>15, <2>16, <2>17 DEF WindowOK
<1> QED
  BY <1>11, <1>12

\* PutLinkedListHeadToTable makes the list one node shorter.
LEMMA MoveHeadKeeps ==
  ASSUME NEW c, NEW m \in Nat, m > 0, WindowOK(c, m), NEW n \in Nat
  PROVE  WindowOK(MoveHead(c, n), m - 1)
BY PutToTableKeeps, EraseHeadKeeps DEF MoveHead

\* The nodes before the one that a packet hits, moved one after the other.
LEMMA HeadsMoved ==
  ASSUME NEW c, NEW m \in Nat, NEW k \in 0 .. m, WindowOK(c, m),
         NEW moved \in [1 .. k -> Nat]
  PROVE  WindowOK(FoldLeft(MoveHead, c, moved), m - k)
<1>1. PICK tr : Path("MoveHead", c, moved, k, tr)
                /\ Folding("MoveHead", c, moved)[DOMAIN moved] = tr[k]
  BY FoldedPath
<1> DEFINE S == {l \in 0 .. k : WindowOK(tr[l], m - l)}
<1>2. 0 \in S
  BY <1>1 DEF Path
<1>3. ASSUME NEW l \in 1 .. k, l - 1 \in S PROVE l \in S
  <2>1. tr[l] = MoveHead(tr[l - 1], moved[l])
    BY <1>1 DEF Path, Step
  <2>2. moved[l] \in Nat /\ WindowOK(tr[l - 1], m - (l - 1))
    BY <1>3
  <2>3. m - (l - 1) \in Nat /\ m - (l - 1) > 0 /\ m - (l - 1) - 1 = m - l
    OBVIOUS
  <2>4. WindowOK(tr[l], m - l)
    BY <2>1, <2>2, <2>3, MoveHeadKeeps
  <2> QED
    BY <2>4
<1>4. k \in S
  <2> HIDE DEF S
  <2>1. k \in Nat /\ k \in 0 .. k
    OBVIOUS
  <2>2. \A l \in 0 .. k : l \in S
    BY <1>2, <1>3, <2>1, Upwards
  <2> QED
    BY <2>1, <2>2
<1> QED
  BY <1>1, <1>4, FoldMoveHead

\* A chain of its own for every head that has timed out.
LEMMA TimedOutHeadKeeps ==
  ASSUME NEW c, NEW m \in Nat, m > 0, WindowOK(c, m), NEW n \in Nat
  PROVE  WindowOK(TimedOutHead(c, n), m - 1)
<1>1. PICK e : e = [c EXCEPT !.chains = Append(@, <<>>)]
  OBVIOUS
<1>2. Append(c.chains, <<>>) \in Seq(Seq(Operation))
  BY DEF WindowOK, Context
<1>3. e \in Context /\ e.cached = c.cached /\ e.head = c.head /\ e.host = c.host
      /\ e.index = c.index
  BY <1>1, <1>2 DEF WindowOK, Context
<1>4. WindowOK(e, m)
  BY <1>3 DEF WindowOK
<1> QED
  BY <1>1, <1>4, MoveHeadKeeps DEF TimedOutHead

\* The heads that have timed out.
LEMMA HeadsTimedOut ==
  ASSUME NEW c, NEW m \in Nat, NEW k \in 0 .. m, WindowOK(c, m),
         NEW moved \in [1 .. k -> Nat]
  PROVE  WindowOK(FoldLeft(TimedOutHead, c, moved), m - k)
<1>1. PICK tr : Path("TimedOutHead", c, moved, k, tr)
                /\ Folding("TimedOutHead", c, moved)[DOMAIN moved] = tr[k]
  BY FoldedPath
<1> DEFINE S == {l \in 0 .. k : WindowOK(tr[l], m - l)}
<1>2. 0 \in S
  BY <1>1 DEF Path
<1>3. ASSUME NEW l \in 1 .. k, l - 1 \in S PROVE l \in S
  <2>1. tr[l] = TimedOutHead(tr[l - 1], moved[l])
    BY <1>1 DEF Path, Step
  <2>2. moved[l] \in Nat /\ WindowOK(tr[l - 1], m - (l - 1))
    BY <1>3
  <2>3. m - (l - 1) \in Nat /\ m - (l - 1) > 0 /\ m - (l - 1) - 1 = m - l
    OBVIOUS
  <2>4. WindowOK(tr[l], m - l)
    BY <2>1, <2>2, <2>3, TimedOutHeadKeeps
  <2> QED
    BY <2>4
<1>4. k \in S
  <2> HIDE DEF S
  <2>1. k \in Nat /\ k \in 0 .. k
    OBVIOUS
  <2>2. \A l \in 0 .. k : l \in S
    BY <1>2, <1>3, <2>1, Upwards
  <2> QED
    BY <2>1, <2>2
<1> QED
  BY <1>1, <1>4, FoldTimedOutHead

\* Every index accessed, the last one first; the cache holds the first ones.
LruOK(l, r) ==
  /\ r \in Seq(0 .. nextIndex - 1) /\ IsInjective(r)
  /\ l = SubSeq(r, 1, IF LruSize <= Len(r) THEN LruSize ELSE Len(r))

CacheInv ==
  /\ cached \in Seq(BOOLEAN) /\ Len(cached) <= MaxNodes /\ Window(cached)
  /\ headCount = IF Len(cached) <= FirstN THEN Len(cached) ELSE FirstN
  /\ hostCount = Len(cached) - headCount

TableInv ==
  /\ nextIndex \in 0 .. MaxIndex
  /\ table \subseteq 0 .. nextIndex - 1
  /\ LruOK(lru, recent)

RnicInv == DmaInv /\ CacheInv /\ TableInv

\* Handlers enter with a list whose head is cached.
LEMMA EnteredOK ==
  ASSUME RnicInv, NEW chains \in Seq(Seq(Operation))
  PROVE  WindowOK(Entered(chains), Len(cached)) /\ Len(cached) \in Nat
<1>1. PICK m : m = Len(cached) /\ m \in Nat /\ cached \in Seq(BOOLEAN)
  BY DEF RnicInv, CacheInv
<1>2. PICK c : c = Entered(chains)
  OBVIOUS
<1>3. c.cached = cached /\ c.head = headCount /\ c.host = hostCount /\ c.index = nextIndex
  BY <1>2 DEF Entered
<1>4. headCount \in Nat /\ hostCount \in Nat
      /\ headCount = (IF m <= FirstN THEN m ELSE FirstN) /\ hostCount = m - headCount
  BY <1>1, RnicAssumption DEF RnicInv, CacheInv
<1>5. nextIndex \in Nat
  BY RnicAssumption DEF RnicInv, TableInv
<1>6. c \in Context
  BY <1>1, <1>2, <1>4, <1>5 DEF Entered, Context
<1>7. nextIndex \in 0 .. nextIndex
  BY <1>5
<1>8. Window(cached)
  BY DEF RnicInv, CacheInv
<1> QED
  BY <1>1, <1>2, <1>3, <1>4, <1>6, <1>7, <1>8 DEF WindowOK

\* What a handler leaves.
LEMMA LeaveKeeps ==
  ASSUME RnicInv, NEW c, NEW m \in Nat, m <= MaxNodes, WindowOK(c, m), Leave(c)
  PROVE  RnicInv'
<1>1. /\ c.index <= MaxIndex /\ cached' = c.cached /\ headCount' = c.head
      /\ hostCount' = c.host /\ nextIndex' = c.index
      /\ table' = table \union nextIndex .. c.index - 1
      /\ lru' = lru /\ recent' = recent /\ Dma(c.chains)
  BY DEF Leave
<1>2. c \in Context /\ c.index \in Nat /\ nextIndex \in 0 .. c.index
      /\ c.chains \in Seq(Seq(Operation))
  BY DEF WindowOK, Context
<1>3. DmaInv'
  BY <1>1, <1>2, DmaKeeps DEF RnicInv
<1>4. CacheInv'
  BY <1>1, <1>2 DEF WindowOK, Context, CacheInv, Window
<1>5. TableInv'
  <2>1. nextIndex' \in 0 .. MaxIndex
    BY <1>1, <1>2, RnicAssumption
  <2>2. PICK A : A = 0 .. nextIndex - 1
    OBVIOUS
  <2>3. PICK B : B = 0 .. nextIndex' - 1
    OBVIOUS
  <2>4. A \subseteq B /\ nextIndex .. c.index - 1 \subseteq B
    BY <1>1, <1>2, <2>2, <2>3
  <2>5. table' \subseteq 0 .. nextIndex' - 1
    <3>1. table \subseteq A
      BY <2>2 DEF RnicInv, TableInv
    <3> QED
      BY <1>1, <2>3, <2>4, <3>1
  <2>6. recent \in Seq(0 .. nextIndex' - 1)
    <3>1. recent \in Seq(A)
      BY <2>2 DEF RnicInv, TableInv, LruOK
    <3>2. recent \in Seq(B)
      BY <2>4, <3>1
    <3> QED
      BY <2>3, <3>2
  <2>7. LruOK(lru, recent)'
    BY <1>1, <2>6 DEF RnicInv, TableInv, LruOK
  <2> QED
    BY <2>1, <2>5, <2>7 DEF TableInv
<1> QED
  BY <1>3, <1>4, <1>5 DEF RnicInv

-----------------------------------------------------------------------------
(* The handlers.                                                           *)

\* A node appended is cached just when there is room for it in front.
LEMMA AppendNodeKeeps ==
  ASSUME RnicInv, AppendNode
  PROVE  RnicInv'
<1>1. PICK c : c = Entered(<< <<>> >>)
  OBVIOUS
<1>2. PICK m : m = Len(cached)
  OBVIOUS
<1>3. << <<>> >> \in Seq(Seq(Operation))
  OBVIOUS
<1>4. WindowOK(c, m) /\ m \in Nat
  BY <1>1, <1>2, <1>3, EnteredOK
<1>5. PICK inCache : inCache = (FirstN > 0 /\ hostCount = 0 /\ headCount < FirstN)
  OBVIOUS
<1>6. PICK more : more = [c EXCEPT !.cached = Append(@, inCache)]
  OBVIOUS
<1>7. PICK fs : fs = Append(c.cached, inCache)
  OBVIOUS
<1>8. /\ m < MaxNodes
      /\ Leave(IF inCache THEN [more EXCEPT !.head = @ + 1]
               ELSE AddOps([more EXCEPT !.host = @ + 1], <<Transfer("write", 1)>>))
  BY <1>1, <1>2, <1>5, <1>6 DEF AppendNode
<1>9. inCache \in BOOLEAN /\ (inCache <=> m + 1 <= FirstN)
  <2>1. /\ headCount = (IF m <= FirstN THEN m ELSE FirstN) /\ hostCount = m - headCount
        /\ FirstN \in Nat /\ m \in Nat
    BY <1>2, <1>4, RnicAssumption DEF RnicInv, CacheInv
  <2>2. FirstN > 0 /\ hostCount = 0 /\ headCount < FirstN <=> m + 1 <= FirstN
    BY <2>1
  <2> QED
    BY <1>5, <2>2
<1>10. fs \in Seq(BOOLEAN) /\ Len(fs) = m + 1 /\ Window(fs)
  <2>1. PICK gs : gs = c.cached /\ gs \in Seq(BOOLEAN) /\ Len(gs) = m /\ Window(gs)
    BY <1>4 DEF WindowOK, Context
  <2>2. /\ fs \in Seq(BOOLEAN) /\ Len(fs) = m + 1 /\ fs[m + 1] = inCache
        /\ \A i \in 1 .. m : fs[i] = gs[i]
    BY <1>4, <1>7, <1>9, <2>1
  <2>3. \A i \in DOMAIN gs : gs[i] <=> i <= FirstN
    BY <2>1 DEF Window
  <2>4. DOMAIN gs = 1 .. m /\ DOMAIN fs = 1 .. m + 1
    BY <2>1, <2>2
  <2>5. \A i \in 1 .. m + 1 : i \in 1 .. m \/ i = m + 1
    BY <1>4
  <2>6. Window(fs)
    BY <1>9, <2>2, <2>3, <2>4, <2>5 DEF Window
  <2> QED
    BY <2>2, <2>6
<1>11. /\ c \in Context /\ c.head = (IF m <= FirstN THEN m ELSE FirstN)
       /\ c.host = m - c.head /\ nextIndex \in 0 .. c.index /\ FirstN \in Nat
       /\ c.head \in Nat /\ c.host \in Nat
  BY <1>4, RnicAssumption DEF WindowOK, Context
<1>12. more.cached = fs /\ more \in Context /\ more.head = c.head /\ more.host = c.host
       /\ more.index = c.index
  BY <1>6, <1>7, <1>10, <1>11 DEF Context
<1>13. m + 1 \in Nat /\ m + 1 <= MaxNodes
  BY <1>4, <1>8, RnicAssumption
<1>14. CASE inCache
  <2>1. PICK e : e = [more EXCEPT !.head = @ + 1]
    OBVIOUS
  <2>2. more.head + 1 \in Nat
    BY <1>11, <1>12
  <2>3. /\ e \in Context /\ e.cached = fs /\ e.head = c.head + 1 /\ e.host = c.host
        /\ e.index = c.index
    BY <1>12, <2>1, <2>2 DEF Context
  <2>4. /\ e.head = IF m + 1 <= FirstN THEN m + 1 ELSE FirstN
        /\ e.host = m + 1 - e.head
    BY <1>4, <1>9, <1>11, <1>14, <2>3
  <2>5. WindowOK(e, m + 1)
    BY <1>10, <1>11, <2>3, <2>4 DEF WindowOK
  <2> QED
    BY <1>8, <1>13, <1>14, <2>1, <2>5, LeaveKeeps
<1>15. CASE ~ inCache
  <2>1. PICK e : e = [more EXCEPT !.host = @ + 1]
    OBVIOUS
  <2>2. more.host + 1 \in Nat
    BY <1>11, <1>12
  <2>3. /\ e \in Context /\ e.cached = fs /\ e.head = c.head /\ e.host = c.host + 1
        /\ e.index = c.index
    BY <1>12, <2>1, <2>2 DEF Context
  <2>4. <<Transfer("write", 1)>> \in Seq(Operation)
    <3>1. Transfer("write", 1) \in Operation
      BY DEF Transfer, Operation, Dirs
    <3> QED
      BY <3>1
  <2>5. PICK f : f = AddOps(e, <<Transfer("write", 1)>>)
    OBVIOUS
  <2>6. /\ f \in Context /\ f.cached = fs /\ f.head = c.head /\ f.host = c.host + 1
        /\ f.index = c.index
    BY <2>3, <2>4, <2>5, OpsAdded
  <2>7. /\ f.head = IF m + 1 <= FirstN THEN m + 1 ELSE FirstN
        /\ f.host = m + 1 - f.head
    BY <1>4, <1>9, <1>11, <1>15, <2>6
  <2>8. WindowOK(f, m + 1)
    <3>1. Len(f.cached) = m + 1 /\ Window(f.cached)
      BY <1>10, <2>6
    <3>2. nextIndex \in 0 .. f.index
      BY <1>11, <2>6
    <3>3. f \in Context
      BY <2>6
    <3> QED
      BY <1>4, <1>11, <2>7, <3>1, <3>2, <3>3 DEF WindowOK
  <2> QED
    BY <1>8, <1>13, <1>15, <2>1, <2>5, <2>8, LeaveKeeps
<1> QED
  BY <1>9, <1>14, <1>15

\* A miss reads at least the node it is for.
LEMMA MissReadTyped ==
  ASSUME RnicInv, NEW i \in DOMAIN cached
  PROVE  MissRead(i) \in Seq(Operation)
<1>1. CASE cached[i]
  BY <1>1 DEF MissRead
<1>2. CASE ~ cached[i]
  <2>1. PICK P : P = {k \in DOMAIN cached : ~ cached[k]}
    OBVIOUS
  <2>2. DOMAIN cached \subseteq Nat /\ i \in Nat
    BY DEF RnicInv, CacheInv
  <2>3. i \in P /\ P \subseteq Nat
    BY <1>2, <2>1, <2>2
  <2>4. \E x \in P : \A y \in P : x <= y
    BY <2>3, LeastNatural
  <2>5. PICK x : x = Min(P)
    OBVIOUS
  <2>6. x \in P /\ \A y \in P : x <= y
    BY <2>4, <2>5 DEF Min
  <2>7. i + 1 - x \in Nat \ {0}
    BY <2>2, <2>3, <2>6
  <2>8. Transfer("read", i + 1 - x) \in Operation
    BY <2>7 DEF Transfer, Operation, Dirs
  <2> QED
    BY <1>2, <2>1, <2>5, <2>8 DEF MissRead
<1> QED
  BY <1>1, <1>2

\* Record(tier 1), whatever is moved and whether the node is erased or stays.
LEMMA FirstRetransKeeps ==
  ASSUME RnicInv, NEW i \in DOMAIN cached, NEW n \in 0 .. MaxChunks,
         NEW erased \in BOOLEAN, NEW moved \in [1 .. i - 1 -> 0 .. MaxChunks],
         FirstRetrans(i, moved, n, erased)
  PROVE  RnicInv'
<1>1. PICK b : b = Entered(<<MissRead(i)>>)
  OBVIOUS
<1>2. PICK m : m = Len(cached) /\ i \in 1 .. m
  BY DEF RnicInv, CacheInv
<1>3. WindowOK(b, m) /\ m \in Nat
  <2>1. <<MissRead(i)>> \in Seq(Seq(Operation))
    BY MissReadTyped
  <2> QED
    BY <1>1, <1>2, <2>1, EnteredOK
<1>4. n \in Nat /\ moved \in [1 .. i - 1 -> Nat]
  BY RnicAssumption
<1>5. PICK k : k = i - 1 /\ k \in 0 .. m /\ k < m
  BY <1>2, <1>3
<1>6. PICK h : h = FoldLeft(MoveHead, b, moved)
  OBVIOUS
<1>7. WindowOK(h, m - k)
  BY <1>3, <1>4, <1>5, <1>6, HeadsMoved
<1>8. PICK c : c = PutToTable(h, n)
  OBVIOUS
<1>9. WindowOK(c, m - k)
  BY <1>4, <1>7, <1>8, PutToTableKeeps
<1>10. m - k \in Nat /\ m - k > 0 /\ m - k <= MaxNodes
       /\ m - k - 1 \in Nat /\ m - k - 1 <= MaxNodes
  <2>1. m <= MaxNodes /\ MaxNodes \in Nat
    BY <1>2, RnicAssumption DEF RnicInv, CacheInv
  <2> QED
    BY <1>3, <1>5, <2>1
<1>11. Leave(IF erased THEN EraseHead(c) ELSE c)
  BY <1>1, <1>6, <1>8 DEF FirstRetrans
<1>12. CASE erased
  <2>1. PICK e : e = EraseHead(c)
    OBVIOUS
  <2>2. WindowOK(e, m - k - 1)
    BY <1>9, <1>10, <2>1, EraseHeadKeeps
  <2> QED
    BY <1>10, <1>11, <1>12, <2>1, <2>2, LeaveKeeps
<1>13. CASE ~ erased
  BY <1>9, <1>10, <1>11, <1>13, LeaveKeeps
<1> QED
  BY <1>12, <1>13

\* HandleOmniListTimeout.
LEMMA ListTimeoutKeeps ==
  ASSUME RnicInv, NEW k \in DOMAIN cached, NEW moved \in [1 .. k -> 0 .. MaxChunks],
         ListTimeout(moved)
  PROVE  RnicInv'
<1>1. PICK b : b = Entered(<<>>)
  OBVIOUS
<1>2. PICK m : m = Len(cached) /\ k \in 0 .. m
  BY DEF RnicInv, CacheInv
<1>3. WindowOK(b, m) /\ m \in Nat
  <2>1. <<>> \in Seq(Seq(Operation))
    OBVIOUS
  <2> QED
    BY <1>1, <1>2, <2>1, EnteredOK
<1>4. moved \in [1 .. k -> Nat]
  BY RnicAssumption
<1>5. PICK h : h = FoldLeft(TimedOutHead, b, moved)
  OBVIOUS
<1>6. WindowOK(h, m - k)
  BY <1>2, <1>3, <1>4, <1>5, HeadsTimedOut
<1>7. m - k \in Nat /\ m - k <= MaxNodes
  <2>1. m <= MaxNodes /\ MaxNodes \in Nat
    BY <1>2, RnicAssumption DEF RnicInv, CacheInv
  <2> QED
    BY <1>2, <1>3, <2>1
<1>8. Leave(h)
  BY <1>1, <1>5 DEF ListTimeout
<1> QED
  BY <1>6, <1>7, <1>8, LeaveKeeps

-----------------------------------------------------------------------------
(* The lookup table's cache.                                               *)

\* The element at p moves to the front.
LEMMA MovedToFront ==
  ASSUME NEW S, NEW s \in Seq(S), NEW p \in 1 .. Len(s)
  PROVE  LET z == <<s[p]>> \o (SubSeq(s, 1, p - 1) \o SubSeq(s, p + 1, Len(s)))
         IN  /\ z \in Seq(S) /\ Len(z) = Len(s)
             /\ \A k \in 1 .. Len(s) :
                  z[k] = IF k = 1 THEN s[p] ELSE IF k <= p THEN s[k - 1] ELSE s[k]
<1>1. PICK f : f = SubSeq(s, 1, p - 1)
  OBVIOUS
<1>2. PICK b : b = SubSeq(s, p + 1, Len(s))
  OBVIOUS
<1>3. f \in Seq(S) /\ Len(f) = p - 1 /\ \A k \in 1 .. p - 1 : f[k] = s[k]
  BY <1>1
<1>4. b \in Seq(S) /\ Len(b) = Len(s) - p /\ \A k \in 1 .. Len(s) - p : b[k] = s[k + p]
  BY <1>2
<1>5. PICK t : t = f \o b
  OBVIOUS
<1>6. t \in Seq(S) /\ Len(t) = Len(s) - 1
      /\ \A k \in 1 .. Len(s) - 1 : t[k] = IF k < p THEN s[k] ELSE s[k + 1]
  <2>1. t \in Seq(S) /\ Len(t) = Len(s) - 1
    BY <1>3, <1>4, <1>5
  <2>2. ASSUME NEW k \in 1 .. Len(s) - 1, k < p PROVE t[k] = s[k]
    BY <1>3, <1>4, <1>5, <2>2
  <2>3. ASSUME NEW k \in 1 .. Len(s) - 1, ~ (k < p) PROVE t[k] = s[k + 1]
    <3>1. k \in Len(f) + 1 .. Len(f) + Len(b) /\ k - Len(f) = k - p + 1
          /\ k - p + 1 \in 1 .. Len(s) - p /\ k - p + 1 + p = k + 1
      BY <1>3, <1>4, <2>3
    <3>2. t[k] = b[k - Len(f)]
      BY <1>3, <1>4, <1>5, <3>1, SecondPart
    <3> QED
      BY <1>4, <3>1, <3>2
  <2> QED
    BY <2>1, <2>2, <2>3
<1>7. PICK z : z = <<s[p]>> \o t
  OBVIOUS
<1>8. z \in Seq(S) /\ Len(z) = Len(s) /\ z[1] = s[p]
      /\ \A k \in 2 .. Len(s) : z[k] = t[k - 1]
  BY <1>6, <1>7
<1>9. ASSUME NEW k \in 1 .. Len(s)
      PROVE  z[k] = IF k = 1 THEN s[p] ELSE IF k <= p THEN s[k - 1] ELSE s[k]
  <2>1. CASE k = 1
    BY <1>8, <2>1
  <2>2. CASE k # 1
    <3>1. k \in 2 .. Len(s) /\ k - 1 \in 1 .. Len(s) - 1 /\ (k - 1 < p <=> k <= p)
          /\ k - 1 + 1 = k
      BY <2>2
    <3> QED
      BY <1>6, <1>8, <2>2, <3>1
  <2> QED
    BY <2>1, <2>2
<1> QED
  BY <1>1, <1>2, <1>5, <1>7, <1>8, <1>9

\* RemoveFirst of an element that occurs once takes out its position.
LEMMA FirstRemoved ==
  ASSUME NEW S, NEW s \in Seq(S), IsInjective(s), NEW p \in 1 .. Len(s)
  PROVE  RemoveFirst(s, s[p]) = SubSeq(s, 1, p - 1) \o SubSeq(s, p + 1, Len(s))
<1>1. PICK I : I = {k \in 1 .. Len(s) : s[k] = s[p]}
  OBVIOUS
<1>2. I = {p}
  BY <1>1 DEF IsInjective
<1>3. Min(I) = p
  <2>1. PICK x : x = Min({p})
    OBVIOUS
  <2>2. \E y \in {p} : \A k \in {p} : y <= k
    OBVIOUS
  <2>3. x \in {p}
    BY <2>1, <2>2 DEF Min
  <2> QED
    BY <1>2, <2>1, <2>3
<1>4. SelectInSeq(s, LAMBDA v : v = s[p]) = p
  BY <1>1, <1>2, <1>3 DEF SelectInSeq
<1>5. \E k \in 1 .. Len(s) : s[k] = s[p]
  OBVIOUS
<1> QED
  BY <1>4, <1>5 DEF RemoveFirst, RemoveAt

\* An element in front of a sequence.
LEMMA InFront ==
  ASSUME NEW S, NEW s \in Seq(S), NEW i \in S
  PROVE  /\ <<i>> \o s \in Seq(S) /\ Len(<<i>> \o s) = Len(s) + 1
         /\ \A k \in 1 .. Len(s) + 1 :
              (<<i>> \o s)[k] = IF k = 1 THEN i ELSE s[k - 1]
OBVIOUS

\* An access keeps the most recent indices in the cache.
LEMMA AccessLruKeeps ==
  ASSUME NEW l, NEW r, LruOK(l, r), NEW i \in 0 .. nextIndex - 1
  PROVE  LruOK(AccessLru(l, i), <<i>> \o RemoveFirst(r, i))
<1>1. PICK S : S = 0 .. nextIndex - 1
  OBVIOUS
<1>2. PICK n : n = Len(r) /\ n \in Nat /\ r \in Seq(S) /\ IsInjective(r) /\ i \in S
  BY <1>1 DEF LruOK
<1>3. PICK K : K = IF LruSize <= n THEN LruSize ELSE n
  OBVIOUS
<1>4. LruSize \in Nat /\ LruSize > 0 /\ K \in 0 .. n /\ n \in Nat
  BY <1>2, <1>3, RnicAssumption
<1>5. /\ l \in Seq(S) /\ Len(l) = K /\ l = SubSeq(r, 1, K)
      /\ \A k \in 1 .. K : l[k] = r[k]
  <2>1. l = SubSeq(r, 1, K)
    BY <1>2, <1>3 DEF LruOK
  <2> QED
    BY <1>2, <1>4, <2>1
<1>6. PICK x : x = AccessLru(l, i)
  OBVIOUS
<1>7. PICK y : y = <<i>> \o RemoveFirst(r, i)
  OBVIOUS
<1>8. \A a, b \in 1 .. n : r[a] = r[b] => a = b
  BY <1>2 DEF IsInjective
<1>9. SUFFICES /\ y \in Seq(S) /\ IsInjective(y)
               /\ x \in Seq(S) /\ Len(x) = (IF LruSize <= Len(y) THEN LruSize ELSE Len(y))
               /\ \A k \in 1 .. Len(x) : x[k] = y[k]
  <2>1. ASSUME /\ y \in Seq(S) /\ x \in Seq(S)
               /\ Len(x) = (IF LruSize <= Len(y) THEN LruSize ELSE Len(y))
               /\ \A k \in 1 .. Len(x) : x[k] = y[k]
        PROVE  x = SubSeq(y, 1, Len(x))
    <3>1. Len(x) \in 0 .. Len(y)
      BY <1>4, <2>1
    <3>2. PICK z : z = SubSeq(y, 1, Len(x))
      OBVIOUS
    <3>3. z \in Seq(S) /\ Len(z) = Len(x) /\ \A k \in 1 .. Len(x) : z[k] = y[k]
      BY <2>1, <3>1, <3>2
    <3> QED
      BY <2>1, <3>2, <3>3, SeqEqual
  <2> QED
    BY <1>1, <1>6, <1>7, <2>1 DEF LruOK
<1>10. CASE \E p \in 1 .. n : r[p] = i
  <2>1. PICK p \in 1 .. n : r[p] = i
    BY <1>10
  <2>2. /\ y \in Seq(S) /\ Len(y) = n
        /\ \A k \in 1 .. n :
             y[k] = IF k = 1 THEN i ELSE IF k <= p THEN r[k - 1] ELSE r[k]
    <3>1. y = <<r[p]>> \o (SubSeq(r, 1, p - 1) \o SubSeq(r, p + 1, Len(r)))
      BY <1>2, <1>7, <2>1, FirstRemoved
    <3> QED
      BY <1>2, <2>1, <3>1, MovedToFront
  <2>3. IsInjective(y)
    <3> DEFINE from(k) == IF k = 1 THEN p ELSE IF k <= p THEN k - 1 ELSE k
    <3>1. \A k \in 1 .. n : y[k] = r[from(k)] /\ from(k) \in 1 .. n
      BY <2>1, <2>2
    <3>2. \A a, b \in 1 .. n : from(a) = from(b) => a = b
      OBVIOUS
    <3>3. DOMAIN y = 1 .. n
      BY <2>2
    <3> HIDE DEF from
    <3> QED
      BY <1>8, <3>1, <3>2, <3>3 DEF IsInjective
  <2>4. CASE p <= K
    <3>1. l[p] = i /\ p \in 1 .. Len(l) /\ Contains(l, i)
      BY <1>5, <2>1, <2>4 DEF Contains
    <3>2. IsInjective(l)
      <4>1. DOMAIN l = 1 .. K /\ \A k \in 1 .. K : k \in 1 .. n
        BY <1>4, <1>5
      <4> QED
        BY <1>5, <1>8, <4>1 DEF IsInjective
    <3>3. x = <<l[p]>> \o (SubSeq(l, 1, p - 1) \o SubSeq(l, p + 1, Len(l)))
      <4>1. RemoveFirst(l, l[p]) = SubSeq(l, 1, p - 1) \o SubSeq(l, p + 1, Len(l))
        BY <1>5, <3>1, <3>2, FirstRemoved
      <4>2. x = <<i>> \o RemoveFirst(l, i)
        BY <1>6, <3>1 DEF AccessLru
      <4> QED
        BY <3>1, <4>1, <4>2
    <3>4. /\ x \in Seq(S) /\ Len(x) = K
          /\ \A k \in 1 .. K :
               x[k] = IF k = 1 THEN l[p] ELSE IF k <= p THEN l[k - 1] ELSE l[k]
      <4>1. /\ x \in Seq(S) /\ Len(x) = Len(l)
            /\ \A k \in 1 .. Len(l) :
                 x[k] = IF k = 1 THEN l[p] ELSE IF k <= p THEN l[k - 1] ELSE l[k]
        <5>1. l \in Seq(S) /\ p \in 1 .. Len(l)
          BY <1>5, <3>1
        <5> QED
          BY <3>3, <5>1, MovedToFront
      <4> QED
        BY <1>5, <4>1
    <3>5. ASSUME NEW k \in 1 .. K PROVE x[k] = y[k]
      <4>1. k \in 1 .. n /\ (k # 1 => k - 1 \in 1 .. K)
        BY <1>4
      <4>2. l[k] = r[k] /\ (k # 1 => l[k - 1] = r[k - 1])
        BY <1>5, <4>1
      <4>3. x[k] = IF k = 1 THEN i ELSE IF k <= p THEN r[k - 1] ELSE r[k]
        BY <3>1, <3>4, <4>2
      <4>4. y[k] = IF k = 1 THEN i ELSE IF k <= p THEN r[k - 1] ELSE r[k]
        BY <2>2, <4>1
      <4> QED
        BY <4>3, <4>4
    <3> QED
      BY <1>3, <2>2, <2>3, <3>4, <3>5
  <2>5. CASE ~ (p <= K)
    <3>1. K = LruSize /\ K < p /\ K >= 1
      BY <1>2, <1>3, <1>4, <2>1, <2>5
    <3>2. ~ Contains(l, i)
      <4>1. ASSUME NEW k \in 1 .. K, l[k] = i PROVE FALSE
        BY <1>4, <1>5, <1>8, <2>1, <2>5, <4>1
      <4> QED
        BY <1>5, <4>1 DEF Contains
    <3>3. PICK f : f = SubSeq(l, 1, K - 1)
      OBVIOUS
    <3>4. f \in Seq(S) /\ Len(f) = K - 1 /\ \A k \in 1 .. K - 1 : f[k] = l[k]
      BY <1>4, <1>5, <3>1, <3>3
    <3>5. x = <<i>> \o f
      BY <1>4, <1>5, <1>6, <3>1, <3>2, <3>3 DEF AccessLru, Front
    <3>6. x \in Seq(S) /\ Len(x) = K
          /\ \A k \in 1 .. K : x[k] = IF k = 1 THEN i ELSE f[k - 1]
      BY <1>2, <1>4, <3>4, <3>5, InFront
    <3>7. ASSUME NEW k \in 1 .. K PROVE x[k] = y[k]
      <4>1. k \in 1 .. n /\ k <= p /\ (k # 1 => k - 1 \in 1 .. K - 1 /\ k - 1 \in 1 .. K)
        BY <1>4, <2>1, <3>1
      <4> QED
        BY <1>5, <2>2, <3>4, <3>6, <4>1
    <3> QED
      BY <1>3, <2>2, <2>3, <3>6, <3>7
  <2> QED
    BY <2>4, <2>5
<1>11. CASE ~ \E p \in 1 .. n : r[p] = i
  <2>1. y = <<i>> \o r
    BY <1>2, <1>7, <1>11 DEF RemoveFirst
  <2>2. /\ y \in Seq(S) /\ Len(y) = n + 1
        /\ \A k \in 1 .. n + 1 : y[k] = IF k = 1 THEN i ELSE r[k - 1]
    BY <1>2, <2>1, InFront
  <2>3. IsInjective(y)
    <3>1. ASSUME NEW a \in 1 .. n + 1, NEW b \in 1 .. n + 1, y[a] = y[b] PROVE a = b
      <4>1. /\ a # 1 => a - 1 \in 1 .. n
            /\ b # 1 => b - 1 \in 1 .. n
            /\ a - 1 = b - 1 => a = b
        BY <1>2
      <4> QED
        BY <1>8, <1>11, <2>2, <3>1, <4>1
    <3>2. DOMAIN y = 1 .. n + 1
      BY <1>2, <2>2
    <3> QED
      BY <3>1, <3>2 DEF IsInjective
  <2>4. ~ Contains(l, i)
    <3>1. \A k \in 1 .. K : k \in 1 .. n
      BY <1>4
    <3> QED
      BY <1>5, <1>11, <3>1 DEF Contains
  <2>5. CASE LruSize <= n
    <3>1. K = LruSize /\ K >= 1
      BY <1>3, <1>4, <2>5
    <3>2. PICK f : f = SubSeq(l, 1, K - 1)
      OBVIOUS
    <3>3. f \in Seq(S) /\ Len(f) = K - 1 /\ \A k \in 1 .. K - 1 : f[k] = l[k]
      BY <1>4, <1>5, <3>1, <3>2
    <3>4. x = <<i>> \o f
      BY <1>4, <1>5, <1>6, <2>4, <3>1, <3>2 DEF AccessLru, Front
    <3>5. x \in Seq(S) /\ Len(x) = K
          /\ \A k \in 1 .. K : x[k] = IF k = 1 THEN i ELSE f[k - 1]
      BY <1>2, <1>4, <3>3, <3>4, InFront
    <3>6. ASSUME NEW k \in 1 .. K PROVE x[k] = y[k]
      <4>1. k \in 1 .. n + 1 /\ (k # 1 => k - 1 \in 1 .. K - 1 /\ k - 1 \in 1 .. K)
        BY <1>4
      <4> QED
        BY <1>5, <2>2, <3>3, <3>5, <4>1
    <3>7. LruSize <= n + 1
      BY <1>2, <1>4, <2>5
    <3> QED
      BY <2>2, <2>3, <3>1, <3>5, <3>6, <3>7
  <2>6. CASE ~ (LruSize <= n)
    <3>1. K = n /\ l = r /\ n + 1 <= LruSize
      <4>1. K = n /\ n + 1 <= LruSize
        BY <1>2, <1>3, <1>4, <2>6
      <4>2. SubSeq(r, 1, n) = r
        BY <1>2
      <4> QED
        BY <1>5, <4>1, <4>2
    <3>2. x = y
      BY <1>2, <1>5, <1>6, <2>1, <2>4, <2>6, <3>1 DEF AccessLru
    <3>3. Len(y) = IF LruSize <= Len(y) THEN LruSize ELSE Len(y)
      BY <1>2, <1>4, <2>2, <3>1
    <3> QED
      BY <2>2, <2>3, <3>2, <3>3
  <2> QED
    BY <2>5, <2>6
<1> QED
  BY <1>10, <1>11

\* An access goes to the front of the cache and of the history.
AccessOK(a) == LruOK(a.lru, a.recent) /\ a.chains \in Seq(Seq(Operation))

\* One access of a handler.
LEMMA AccessKeeps ==
  ASSUME NEW a, AccessOK(a), NEW i \in 0 .. nextIndex - 1
  PROVE  AccessOK(Access(a, i))
<1>1. PICK ch : ch = IF Contains(a.lru, i) THEN <<>> ELSE <<Transfer("read", 1)>>
  OBVIOUS
<1>2. ch \in Seq(Operation)
  <2>1. Transfer("read", 1) \in Operation
    BY DEF Transfer, Operation, Dirs
  <2> QED
    BY <1>1, <2>1
<1>3. PICK b : b = Access(a, i)
  OBVIOUS
<1>4. b.lru = AccessLru(a.lru, i) /\ b.recent = <<i>> \o RemoveFirst(a.recent, i)
      /\ b.chains = Append(a.chains, ch)
  BY <1>1, <1>3 DEF Access
<1>5. LruOK(b.lru, b.recent)
  BY <1>4, AccessLruKeeps DEF AccessOK
<1>6. b.chains \in Seq(Seq(Operation))
  BY <1>2, <1>4 DEF AccessOK
<1> QED
  BY <1>3, <1>5, <1>6 DEF AccessOK

\* All accesses of a handler.
LEMMA AccessesKeep ==
  ASSUME RnicInv, NEW entries \in Seq(0 .. nextIndex - 1), Accesses(entries),
         table' \subseteq table
  PROVE  RnicInv'
<1>1. PICK b : b = [lru |-> lru, recent |-> recent, chains |-> <<>>]
  OBVIOUS
<1>2. PICK n : n = Len(entries) /\ n \in Nat /\ DOMAIN entries = 1 .. n
               /\ \A k \in 1 .. n : entries[k] \in 0 .. nextIndex - 1
  <2>1. PICK A : A = 0 .. nextIndex - 1
    OBVIOUS
  <2>2. entries \in Seq(A)
    BY <2>1
  <2>3. /\ Len(entries) \in Nat /\ DOMAIN entries = 1 .. Len(entries)
        /\ \A k \in 1 .. Len(entries) : entries[k] \in A
    BY <2>2
  <2> QED
    BY <2>1, <2>3
<1>3. AccessOK(b)
  <2>1. <<>> \in Seq(Seq(Operation))
    OBVIOUS
  <2> QED
    BY <1>1, <2>1 DEF AccessOK, RnicInv, TableInv
<1>4. PICK tr : Path("Access", b, entries, n, tr)
                /\ Folding("Access", b, entries)[DOMAIN entries] = tr[n]
  BY <1>2, FoldedPath
<1> DEFINE S == {k \in 0 .. n : AccessOK(tr[k])}
<1>5. 0 \in S
  BY <1>2, <1>3, <1>4 DEF Path
<1>6. ASSUME NEW k \in 1 .. n, k - 1 \in S PROVE k \in S
  <2>1. tr[k] = Access(tr[k - 1], entries[k])
    BY <1>4 DEF Path, Step
  <2>2. AccessOK(tr[k - 1]) /\ entries[k] \in 0 .. nextIndex - 1
    BY <1>2, <1>6
  <2>3. AccessOK(tr[k])
    BY <2>1, <2>2, AccessKeeps
  <2> QED
    BY <2>3
<1>7. n \in S
  <2> HIDE DEF S
  <2>1. n \in Nat /\ n \in 0 .. n
    BY <1>2
  <2>2. \A k \in 0 .. n : k \in S
    BY <1>5, <1>6, <2>1, Upwards
  <2> QED
    BY <2>1, <2>2
<1>8. PICK a : a = tr[n] /\ AccessOK(a)
  BY <1>7
<1>9. lru' = a.lru /\ recent' = a.recent /\ Dma(a.chains)
      /\ UNCHANGED listVars /\ nextIndex' = nextIndex
  BY <1>1, <1>4, <1>8, FoldAccess DEF Accesses
<1>10. DmaInv'
  BY <1>8, <1>9, DmaKeeps DEF RnicInv, AccessOK
<1>11. CacheInv'
  BY <1>9 DEF RnicInv, CacheInv, Window, listVars
<1>12. TableInv'
  BY <1>8, <1>9 DEF RnicInv, TableInv, AccessOK, LruOK
<1> QED
  BY <1>10, <1>11, <1>12 DEF RnicInv

\* Record(tier > 1).
LEMMA MultiRetransKeeps ==
  ASSUME RnicInv, NEW i \in table, NEW erased \in BOOLEAN,
         NEW j \in table \union {NoIndex}, MultiRetrans(i, erased, j)
  PROVE  RnicInv'
<1>1. table' \subseteq table
  BY DEF MultiRetrans
<1>2. PICK entries : entries = IF j = NoIndex THEN <<i>> ELSE <<i, j>>
  OBVIOUS
<1>3. entries \in Seq(0 .. nextIndex - 1)
  <2>1. PICK A : A = 0 .. nextIndex - 1
    OBVIOUS
  <2>2. i \in A /\ (j # NoIndex => j \in A)
    BY <2>1 DEF RnicInv, TableInv
  <2>3. entries \in Seq(A)
    BY <1>2, <2>2
  <2> QED
    BY <2>1, <2>3
<1>4. Accesses(entries)
  BY <1>2 DEF MultiRetrans
<1> QED
  BY <1>1, <1>3, <1>4, AccessesKeep

\* HandleOmniTableTimeout.
LEMMA TableTimeoutKeeps ==
  ASSUME RnicInv, NEW entries \in SeqOf(table, Cardinality(table)),
         TableTimeout(entries)
  PROVE  RnicInv'
<1>1. table' \subseteq table /\ Accesses(entries)
  BY DEF TableTimeout
<1>2. entries \in Seq(0 .. nextIndex - 1)
  <2>1. PICK A : A = 0 .. nextIndex - 1
    OBVIOUS
  <2>2. table \subseteq A
    BY <2>1 DEF RnicInv, TableInv
  <2>3. PICK m \in 0 .. Cardinality(table) : entries \in [1 .. m -> table]
    BY DEF SeqOf
  <2>4. entries \in [1 .. m -> A]
    BY <2>2, <2>3
  <2>5. m \in Nat
    OBVIOUS
  <2>6. entries \in Seq(A)
    BY <2>4, <2>5
  <2> QED
    BY <2>1, <2>6
<1> QED
  BY <1>1, <1>2, AccessesKeep

-----------------------------------------------------------------------------
(* The theorems.                                                           *)

\* The initial state.
LEMMA RnicInit ==
  ASSUME Init
  PROVE  RnicInv
<1>1. DmaInv
  <2>1. \A d \in Dirs : Queued(completions[d], backlog[d])
    BY DEF Init, Queued
  <2> QED
    BY <2>1 DEF Init, DmaInv
<1>2. CacheInv
  <2>1. MaxNodes \in Nat /\ FirstN \in Nat /\ Len(<<>>) = 0 /\ DOMAIN <<>> = {}
        /\ <<>> \in Seq(BOOLEAN)
    BY RnicAssumption
  <2> QED
    BY <2>1 DEF Init, CacheInv, Window
<1>3. TableInv
  <2>1. MaxIndex \in Nat /\ LruSize \in Nat /\ LruSize > 0
    BY RnicAssumption
  <2>2. IsInjective(<<>>) /\ <<>> \in Seq(0 .. -1) /\ Len(<<>>) = 0
    BY DEF IsInjective
  <2>3. SubSeq(<<>>, 1, 0) = <<>>
    OBVIOUS
  <2>4. LruOK(lru, recent)
    BY <2>1, <2>2, <2>3 DEF Init, LruOK
  <2> QED
    BY <2>1, <2>4 DEF Init, TableInv
<1> QED
  BY <1>1, <1>2, <1>3 DEF RnicInv

\* Every step.
LEMMA RnicNext ==
  ASSUME RnicInv, [Next]_vars
  PROVE  RnicInv'
<1>1. CASE AppendNode
  BY <1>1, AppendNodeKeeps
<1>2. CASE \E i \in DOMAIN cached, n \in 0 .. MaxChunks, erased \in BOOLEAN :
             \E moved \in [1 .. i - 1 -> 0 .. MaxChunks] :
               FirstRetrans(i, moved, n, erased)
  BY <1>2, FirstRetransKeeps
<1>3. CASE \E k \in DOMAIN cached : \E moved \in [1 .. k -> 0 .. MaxChunks] :
             ListTimeout(moved)
  BY <1>3, ListTimeoutKeeps
<1>4. CASE \E i \in table, erased \in BOOLEAN, j \in table \union {NoIndex} :
             MultiRetrans(i, erased, j)
  BY <1>4, MultiRetransKeeps
<1>5. CASE \E entries \in SeqOf(table, Cardinality(table)) : TableTimeout(entries)
  BY <1>5, TableTimeoutKeeps
<1>6. CASE Monitor
  <2>1. DmaInv'
    BY <1>6, MonitorKeeps DEF RnicInv
  <2>2. CacheInv' /\ TableInv'
    BY <1>6 DEF Monitor, RnicInv, CacheInv, TableInv, Window, LruOK, listVars
  <2> QED
    BY <2>1, <2>2 DEF RnicInv
<1>7. CASE Tick
  <2>1. DmaInv'
    BY <1>7, TickKeeps DEF RnicInv
  <2>2. CacheInv' /\ TableInv'
    BY <1>7 DEF Tick, RnicInv, CacheInv, TableInv, Window, LruOK, listVars
  <2> QED
    BY <2>1, <2>2 DEF RnicInv
<1>8. CASE UNCHANGED vars
  BY <1>8 DEF vars, listVars, dmaVars, RnicInv, DmaInv, CacheInv, TableInv, Window, LruOK
<1> QED
  BY <1>1, <1>2, <1>3, <1>4, <1>5, <1>6, <1>7, <1>8 DEF Next

\* RnicInv holds in every execution.
THEOREM RnicInvariant == Spec => []RnicInv
<1>1. Init => RnicInv
  BY RnicInit
<1>2. RnicInv /\ [Next]_vars => RnicInv'
  BY RnicNext
<1> QED
  BY <1>1, <1>2, PTL DEF Spec

\* The flags mark the first first_n nodes of the list and the counters count
\* them and the others, whatever is appended, moved and erased: the asserts of
\* EraseLinkedListHeadAndRefill hold.
THEOREM RnicCacheIsHeadWindow == Spec => []CacheIsHeadWindow
<1>1. ASSUME RnicInv PROVE CacheIsHeadWindow
  <2>1. PICK m : m = Len(cached) /\ m \in Nat /\ DOMAIN cached = 1 .. m
    BY <1>1 DEF RnicInv, CacheInv
  <2>2. FirstN \in Nat
    BY RnicAssumption
  <2>3. \A i \in DOMAIN cached : cached[i] <=> i <= FirstN
    BY <1>1 DEF RnicInv, CacheInv, Window
  <2>4. headCount = (IF m <= FirstN THEN m ELSE FirstN) /\ hostCount = m - headCount
    BY <1>1, <2>1 DEF RnicInv, CacheInv
  <2>5. {i \in DOMAIN cached : cached[i]} = 1 .. headCount
    <3>1. {i \in DOMAIN cached : cached[i]} = {i \in 1 .. m : i <= FirstN}
      BY <2>1, <2>3
    <3> QED
      BY <2>1, <2>2, <2>4, <3>1
  <2>6. headCount = Cardinality(1 .. headCount)
    <3>1. headCount \in Nat
      BY <2>1, <2>2, <2>4
    <3> QED
      BY <3>1, FS_Interval
  <2> QED
    BY <2>1, <2>3, <2>4, <2>5, <2>6 DEF CacheIsHeadWindow
<1> QED
  BY <1>1, RnicInvariant, PTL

\* The LRU of the lookup table holds the m_lookupTableLruSize entries that were
\* accessed last.
THEOREM RnicLruHoldsMostRecent == Spec => []LruHoldsMostRecent
<1>1. ASSUME RnicInv PROVE LruHoldsMostRecent
  <2>1. PICK n : n = Len(recent) /\ n \in Nat
    BY <1>1 DEF RnicInv, TableInv, LruOK
  <2>2. lru = SubSeq(recent, 1, IF LruSize <= n THEN LruSize ELSE n)
    BY <1>1, <2>1 DEF RnicInv, TableInv, LruOK
  <2>3. LruSize \in Nat
    BY RnicAssumption
  <2>4. PICK x : x = Min({LruSize, n})
    OBVIOUS
  <2>5. \E y \in {LruSize, n} : \A z \in {LruSize, n} : y <= z
    BY <2>1, <2>3
  <2>6. x \in {LruSize, n} /\ \A z \in {LruSize, n} : x <= z
    BY <2>4, <2>5 DEF Min
  <2>7. x = IF LruSize <= n THEN LruSize ELSE n
    BY <2>1, <2>3, <2>6
  <2> QED
    BY <2>1, <2>2, <2>4, <2>7 DEF LruHoldsMostRecent
<1> QED
  BY <1>1, RnicInvariant, PTL

\* RefreshRnicDmaSchedulerState keeps only what is in flight.
THEOREM RnicInflightExact == Spec => []InflightExact
<1>1. ASSUME RnicInv PROVE InflightExact
  <2>1. ASSUME NEW d \in Dirs PROVE Positive(Refreshed(completions[d]))
    BY <1>1, RefreshKeeps DEF RnicInv, DmaInv
  <2> QED
    BY <2>1 DEF InflightExact, Positive
<1> QED
  BY <1>1, RnicInvariant, PTL

\* A reply leaves when the last operation of its chain is done.
THEOREM RnicReplyWhenDmaDone == Spec => []ReplyWhenDmaDone
<1>1. ASSUME RnicInv PROVE ReplyWhenDmaDone
  <2>1. ASSUME NEW r \in ToSet(replies)
        PROVE  r.delay = Max({0} \union UNION {{completions[d][k] : k \in r.ops[d]} :
                                                 d \in Dirs})
    <3>1. r \in Delayed /\ Exact(r, completions)
      BY <1>1 DEF RnicInv, DmaInv, ToSet
    <3>2. PICK S : S = {0} \union UNION {{completions[d][k] : k \in r.ops[d]} : d \in Dirs}
      OBVIOUS
    <3>3. r.delay \in Nat /\ completions \in [Dirs -> Seq(Nat)]
      BY <1>1, <3>1 DEF Delayed, RnicInv, DmaInv
    <3>4. r.delay \in S
      BY <3>1, <3>2 DEF Exact
    <3>5. ASSUME NEW x \in S PROVE x \in Nat /\ x <= r.delay
      <4>1. CASE x = 0
        BY <3>3, <4>1
      <4>2. CASE \E d \in Dirs : \E k \in r.ops[d] : x = completions[d][k]
        <5>1. PICK d \in Dirs : \E k \in r.ops[d] : x = completions[d][k]
          BY <4>2
        <5>2. PICK k \in r.ops[d] : x = completions[d][k]
          BY <5>1
        <5>3. PICK q : q = completions[d] /\ q \in Seq(Nat) /\ k \in DOMAIN q
                       /\ q[k] <= r.delay
          BY <3>1, <3>3 DEF Exact
        <5> QED
          BY <5>2, <5>3
      <4> QED
        BY <3>2, <4>1, <4>2
    <3>6. PICK y : y = Max(S)
      OBVIOUS
    <3>7. y \in S /\ \A x \in S : y >= x
      <4>1. \A x \in S : r.delay >= x
        BY <3>3, <3>5
      <4> QED
        BY <3>4, <3>6, <4>1 DEF Max
    <3>8. y = r.delay
      BY <3>3, <3>4, <3>5, <3>7
    <3> QED
      BY <3>2, <3>6, <3>8
  <2> QED
    BY <2>1 DEF ReplyWhenDmaDone
<1> QED
  BY <1>1, RnicInvariant, PTL

\* The variables keep their types; the LRU never outgrows its size.
THEOREM RnicTypeCorrect == Spec => []TypeOK
<1>1. ASSUME RnicInv PROVE TypeOK
  <2>1. PICK m : m = Len(cached) /\ m \in Nat
    BY <1>1 DEF RnicInv, CacheInv
  <2>2. FirstN \in Nat /\ MaxNodes \in Nat /\ LruSize \in Nat
    BY RnicAssumption
  <2>3. cached \in Seq(BOOLEAN) /\ m <= MaxNodes
        /\ headCount = (IF m <= FirstN THEN m ELSE FirstN) /\ hostCount = m - headCount
    BY <1>1, <2>1 DEF RnicInv, CacheInv
  <2>4. {headCount, hostCount} \subseteq 0 .. MaxNodes
    BY <2>1, <2>2, <2>3
  <2>5. PICK S : S = 0 .. nextIndex - 1
    OBVIOUS
  <2>6. recent \in Seq(S) /\ ToSet(recent) \subseteq S
    <3>1. recent \in Seq(S)
      BY <1>1, <2>5 DEF RnicInv, TableInv, LruOK
    <3> QED
      BY <3>1 DEF ToSet
  <2>7. PICK K : K = IF LruSize <= Len(recent) THEN LruSize ELSE Len(recent)
    OBVIOUS
  <2>8. K \in 0 .. Len(recent) /\ K <= LruSize
    BY <2>2, <2>6, <2>7
  <2>9. lru = SubSeq(recent, 1, K)
    BY <1>1, <2>7 DEF RnicInv, TableInv, LruOK
  <2>10. lru \in Seq(S) /\ Len(lru) = K
    BY <2>6, <2>8, <2>9
  <2>11. ToSet(lru) \subseteq S
    BY <2>10 DEF ToSet
  <2>12. nextIndex \in 0 .. MaxIndex /\ table \subseteq S
    BY <1>1, <2>5 DEF RnicInv, TableInv
  <2>13. backlog \in [Dirs -> Nat] /\ completions \in [Dirs -> Seq(Nat)]
    BY <1>1 DEF RnicInv, DmaInv
  <2> QED
    BY <2>1, <2>3, <2>4, <2>5, <2>6, <2>8, <2>10, <2>11, <2>12, <2>13 DEF TypeOK
<1> QED
  BY <1>1, RnicInvariant, PTL

=============================================================================
