---------------------------- MODULE DataTheorems ----------------------------
(***************************************************************************)
(* Facts about the data the modules are built from: numbers, the packets   *)
(* of a set in order, channels (sequences from which any element may be    *)
(* taken) and bags.                                                        *)
(***************************************************************************)
EXTENDS Integers, FiniteSets, Bags, SequencesExt, FiniteSetTheorems,
        SequenceTheorems, WellFoundedInduction, TLAPS

\* Every set of natural numbers has a least one.
LEMMA LeastNatural ==
  ASSUME NEW S, S \subseteq Nat, S # {}
  PROVE  \E m \in S : \A n \in S : m <= n
<1>1. PICK x \in S : \A y \in S : ~ (<<y, x>> \in OpToRel(<, Nat))
  BY NatLessThanWellFounded, WFMin
<1>2. \A y \in S : ~ (y < x)
  BY <1>1 DEF OpToRel
<1> QED
  BY <1>2

\* What holds at 0 and goes over from each number to the next holds up to n.
LEMMA Upwards ==
  ASSUME NEW n \in Nat, NEW S, 0 \in S, \A k \in 1 .. n : k - 1 \in S => k \in S
  PROVE  \A k \in 0 .. n : k \in S
<1> DEFINE Bad == {k \in 0 .. n : k \notin S}
<1> SUFFICES ASSUME Bad # {} PROVE FALSE
  OBVIOUS
<1>1. PICK m \in Bad : \A k \in Bad : m <= k
  <2>1. Bad \subseteq Nat
    OBVIOUS
  <2> HIDE DEF Bad
  <2> QED
    BY <2>1, LeastNatural
<1>2. m \in 1 .. n /\ m \notin S
  OBVIOUS
<1>3. m - 1 \notin Bad /\ m - 1 \in 0 .. n
  BY <1>1, <1>2
<1> QED
  BY <1>2, <1>3

\* The largest element of a subset of 1 .. n that holds n.
LEMMA Largest ==
  ASSUME NEW n \in Nat, NEW t \in SUBSET (1 .. n), n \in t
  PROVE  Max(t) = n
<1>1. \A y \in t : n >= y
  OBVIOUS
<1>2. PICK m : m = Max(t)
  OBVIOUS
<1>3. m \in t /\ \A y \in t : m >= y
  BY <1>1, <1>2 DEF Max
<1> QED
  BY <1>1, <1>2, <1>3

\* A finite set of numbers has a k-th smallest element, for every k up to its
\* size: the rank is an injection into 1 .. Cardinality(S), hence a surjection.
LEMMA KthExists ==
  ASSUME NEW S, IsFiniteSet(S), S \subseteq Int, NEW k \in 1 .. Cardinality(S)
  PROVE  \E s \in S : Cardinality({r \in S : r <= s}) = k
<1> DEFINE upTo(s) == {r \in S : r <= s}
           n == Cardinality(S)
           f == [s \in S |-> Cardinality(upTo(s))]
<1>1. n \in Nat
  BY FS_CardinalityType
<1>2. ASSUME NEW s \in S
      PROVE  /\ IsFiniteSet(upTo(s)) /\ Cardinality(upTo(s)) \in 1 .. n
  <2>1. upTo(s) \in SUBSET S /\ s \in upTo(s)
    OBVIOUS
  <2> HIDE DEF upTo
  <2>2. IsFiniteSet(upTo(s)) /\ Cardinality(upTo(s)) <= n
    BY <2>1, FS_Subset
  <2>3. Cardinality(upTo(s)) \in Nat /\ Cardinality(upTo(s)) # 0
    BY <2>1, <2>2, FS_CardinalityType, FS_EmptySet
  <2> QED
    BY <1>1, <2>2, <2>3
<1>3. ASSUME NEW s \in S, NEW t \in S, s < t
      PROVE  Cardinality(upTo(s)) # Cardinality(upTo(t))
  <2>1. upTo(s) \in SUBSET upTo(t) /\ t \in upTo(t) /\ t \notin upTo(s)
    <3>1. s \in Int /\ t \in Int /\ \A r \in S : r \in Int
      OBVIOUS
    <3>2. \A r \in S : r <= s => r <= t
      BY <1>3, <3>1
    <3>3. t <= t /\ ~ (t <= s)
      BY <1>3, <3>1
    <3> QED
      BY <3>2, <3>3
  <2> HIDE DEF upTo
  <2> QED
    BY <1>2, <2>1, FS_Subset
<1>4. f \in Injection(S, 1 .. n)
  <2>1. f \in [S -> 1 .. n]
    BY <1>2
  <2>2. ASSUME NEW s \in S, NEW t \in S, s # t PROVE f[s] # f[t]
    <3>1. s < t \/ t < s
      BY <2>2
    <3> QED
      BY <3>1, <1>3
  <2> HIDE DEF f
  <2> QED
    BY <2>1, <2>2 DEF Injection, IsInjective
<1>5. IsFiniteSet(1 .. n) /\ Cardinality(1 .. n) = n
  BY <1>1, FS_Interval
<1> HIDE DEF f, n
<1>6. f \in Surjection(S, 1 .. n)
  BY <1>4, <1>5, FS_Injection DEF n
<1>7. \E s \in S : f[s] = k
  BY <1>6 DEF Surjection, n
<1> QED
  BY <1>7 DEF f

-----------------------------------------------------------------------------
(* Bags.                                                                   *)

\* What is in a bag to which the elements of a set have been added.
LEMMA BagAdded ==
  ASSUME NEW B, IsABag(B), NEW S
  PROVE  /\ IsABag(B (+) SetToBag(S))
         /\ BagToSet(B (+) SetToBag(S)) = BagToSet(B) \union S
BY DEF IsABag, SetToBag, BagToSet, (+)

\* What is left in a bag from which an element has been taken.
LEMMA BagRemoved ==
  ASSUME NEW B, IsABag(B), NEW x
  PROVE  /\ IsABag(B (-) SetToBag({x}))
         /\ BagToSet(B (-) SetToBag({x})) \subseteq BagToSet(B)
BY DEF IsABag, SetToBag, BagToSet, (-)

\* Adding nothing leaves a bag as it is.
LEMMA BagOfNothing ==
  ASSUME NEW B, IsABag(B)
  PROVE  B = B (+) SetToBag({})
BY DEF IsABag, SetToBag, BagToSet, (+)

-----------------------------------------------------------------------------
(* Sums over functions.  SumFunction chooses a function it that satisfies  *)
(* Sums(H, f, it) and takes its value at H; finite sets have one.          *)

AnyOf(s) == CHOOSE x \in s : TRUE

Sums(H, f, it) ==
  it = [s \in SUBSET H |-> IF s = {} THEN 0 ELSE f[AnyOf(s)] + it[s \ {AnyOf(s)}]]

SmallSets(H, n) == {s \in SUBSET H : Cardinality(s) <= n}

SumsUpTo(H, f, n, it) ==
  it = [s \in SmallSets(H, n) |->
          IF s = {} THEN 0 ELSE f[AnyOf(s)] + it[s \ {AnyOf(s)}]]

\* A set without one of its elements is smaller by one.
LEMMA OneLess ==
  ASSUME NEW H, IsFiniteSet(H), NEW s \in SUBSET H, s # {}
  PROVE  /\ AnyOf(s) \in s /\ s \ {AnyOf(s)} \in SUBSET H
         /\ Cardinality(s) \in Nat /\ Cardinality(s \ {AnyOf(s)}) \in Nat
         /\ Cardinality(s \ {AnyOf(s)}) = Cardinality(s) - 1
<1>1. IsFiniteSet(s)
  BY FS_Subset
<1>2. AnyOf(s) \in s
  BY DEF AnyOf
<1>3. /\ IsFiniteSet(s \ {AnyOf(s)})
      /\ Cardinality(s \ {AnyOf(s)}) = Cardinality(s) - 1
  BY <1>1, <1>2, FS_RemoveElement
<1>4. Cardinality(s) \in Nat /\ Cardinality(s \ {AnyOf(s)}) \in Nat
  BY <1>1, <1>3, FS_CardinalityType
<1> QED
  BY <1>2, <1>3, <1>4

LEMMA SumsUpToExtended ==
  ASSUME NEW H, IsFiniteSet(H), NEW f \in [H -> Int], NEW n \in Nat,
         NEW it, SumsUpTo(H, f, n, it)
  PROVE  \E jt : SumsUpTo(H, f, n + 1, jt)
<1> DEFINE jt == [s \in SmallSets(H, n + 1) |->
                    IF s = {} THEN 0 ELSE f[AnyOf(s)] + it[s \ {AnyOf(s)}]]
<1>1. ASSUME NEW s \in SmallSets(H, n + 1), s # {}
      PROVE  it[s \ {AnyOf(s)}] = jt[s \ {AnyOf(s)}]
  <2>1. PICK t : t = s \ {AnyOf(s)}
    OBVIOUS
  <2>2. t \in SUBSET H /\ Cardinality(t) = Cardinality(s) - 1 /\ Cardinality(s) \in Nat
    BY <1>1, <2>1, OneLess DEF SmallSets
  <2>3. Cardinality(s) <= n + 1
    BY DEF SmallSets
  <2>4. t \in SmallSets(H, n) /\ t \in SmallSets(H, n + 1)
    BY <2>2, <2>3 DEF SmallSets
  <2>5. it[t] = IF t = {} THEN 0 ELSE f[AnyOf(t)] + it[t \ {AnyOf(t)}]
    BY <2>4 DEF SumsUpTo
  <2>6. jt[t] = IF t = {} THEN 0 ELSE f[AnyOf(t)] + it[t \ {AnyOf(t)}]
    BY <2>4
  <2> QED
    BY <2>1, <2>5, <2>6
<1>2. jt = [s \in SmallSets(H, n + 1) |->
              IF s = {} THEN 0 ELSE f[AnyOf(s)] + jt[s \ {AnyOf(s)}]]
  BY <1>1
<1> HIDE DEF jt
<1> QED
  BY <1>2 DEF SumsUpTo

LEMMA SumsExist ==
  ASSUME NEW H, IsFiniteSet(H), NEW f \in [H -> Int]
  PROVE  \E it : Sums(H, f, it)
<1> DEFINE Bad == {n \in Nat : ~ \E it : SumsUpTo(H, f, n, it)}
<1>1. 0 \notin Bad
  <2>1. ASSUME NEW s \in SmallSets(H, 0) PROVE s = {}
    <3>1. s \in SUBSET H /\ Cardinality(s) <= 0 /\ IsFiniteSet(s)
      BY FS_Subset DEF SmallSets
    <3>2. Cardinality(s) = 0
      BY <3>1, FS_CardinalityType
    <3> QED
      BY <3>1, <3>2, FS_EmptySet
  <2>2. SumsUpTo(H, f, 0, [s \in SmallSets(H, 0) |-> 0])
    BY <2>1 DEF SumsUpTo
  <2> QED
    BY <2>2
<1>2. Bad = {}
  <2> SUFFICES ASSUME Bad # {} PROVE FALSE
    OBVIOUS
  <2>1. PICK m \in Bad : \A n \in Bad : m <= n
    <3>1. Bad \subseteq Nat
      OBVIOUS
    <3> HIDE DEF Bad
    <3> QED
      BY <3>1, LeastNatural
  <2>2. m \in Nat /\ m # 0 /\ m - 1 \in Nat /\ ~ (m <= m - 1)
    BY <1>1
  <2>3. m - 1 \notin Bad
    BY <2>1, <2>2
  <2>4. \E it : SumsUpTo(H, f, m - 1, it)
    BY <2>2, <2>3
  <2>5. \E it : SumsUpTo(H, f, (m - 1) + 1, it)
    BY <2>2, <2>4, SumsUpToExtended
  <2>6. (m - 1) + 1 = m
    BY <2>2
  <2> QED
    BY <2>1, <2>5, <2>6
<1>3. Cardinality(H) \in Nat
  BY FS_CardinalityType
<1>4. PICK it : SumsUpTo(H, f, Cardinality(H), it)
  BY <1>2, <1>3
<1>5. SmallSets(H, Cardinality(H)) = SUBSET H
  BY FS_Subset DEF SmallSets
<1> QED
  BY <1>4, <1>5 DEF SumsUpTo, Sums

\* What SumFunction adds up.
LEMMA SumIs ==
  ASSUME NEW H, IsFiniteSet(H), NEW f \in [H -> Int]
  PROVE  \E it : Sums(H, f, it) /\ SumFunction(f) = it[H]
<1> DEFINE jt == CHOOSE jt : Sums(H, f, jt)
<1>1. Sums(H, f, jt)
  BY SumsExist
<1>2. SumFunction(f) = jt[H]
  BY DEF SumFunction, SumFunctionOnSet, FoldFunctionOnSet, MapThenFoldSet, Sums,
         AnyOf
<1> QED
  BY <1>1, <1>2

\* Changing a function at one place changes its sum by the difference.
LEMMA SumUpdate ==
  ASSUME NEW H, IsFiniteSet(H), NEW f \in [H -> Int], NEW g \in [H -> Int],
         NEW h \in H, \A k \in H : k # h => f[k] = g[k]
  PROVE  /\ SumFunction(f) \in Int
         /\ SumFunction(g) \in Int
         /\ SumFunction(g) = SumFunction(f) + (g[h] - f[h])
<1>1. PICK it : Sums(H, f, it) /\ SumFunction(f) = it[H]
  BY SumIs
<1>2. PICK jt : Sums(H, g, jt) /\ SumFunction(g) = jt[H]
  BY SumIs
<1> DEFINE Fine(s) == /\ it[s] \in Int /\ jt[s] \in Int
                      /\ jt[s] = it[s] + (IF h \in s THEN g[h] - f[h] ELSE 0)
           Bad == {n \in Nat : \E s \in SUBSET H : Cardinality(s) = n /\ ~ Fine(s)}
<1>3. Bad = {}
  <2> SUFFICES ASSUME Bad # {} PROVE FALSE
    OBVIOUS
  <2>1. PICK m \in Bad : \A n \in Bad : m <= n
    <3>1. Bad \subseteq Nat
      OBVIOUS
    <3> HIDE DEF Bad
    <3> QED
      BY <3>1, LeastNatural
  <2>2. PICK s \in SUBSET H : Cardinality(s) = m /\ ~ Fine(s)
    BY <2>1
  <2>3. s # {}
    <3>1. {} \in SUBSET H
      OBVIOUS
    <3>2. it[{}] = 0 /\ jt[{}] = 0
      BY <1>1, <1>2, <3>1 DEF Sums
    <3> QED
      BY <2>2, <3>2
  <2>4. PICK x : x = AnyOf(s)
    OBVIOUS
  <2>5. PICK t : t = s \ {x}
    OBVIOUS
  <2>6. x \in s /\ t \in SUBSET H /\ Cardinality(t) = m - 1
        /\ m \in Nat /\ m - 1 \in Nat
    BY <2>2, <2>3, <2>4, <2>5, OneLess
  <2>7. Fine(t)
    <3>1. m - 1 \notin Bad
      BY <2>1, <2>6
    <3> HIDE DEF Fine
    <3> QED
      BY <2>6, <3>1
  <2>8. it[s] = f[x] + it[t] /\ jt[s] = g[x] + jt[t]
    BY <1>1, <1>2, <2>2, <2>3, <2>4, <2>5 DEF Sums
  <2>9. f[x] \in Int /\ g[x] \in Int /\ f[h] \in Int /\ g[h] \in Int
        /\ (x # h => f[x] = g[x])
    BY <2>2, <2>6
  <2>10. CASE x = h
    <3>1. h \in s /\ h \notin t
      BY <2>5, <2>6, <2>10
    <3>2. jt[t] = it[t] /\ it[t] \in Int
      BY <2>7, <3>1
    <3> QED
      BY <2>2, <2>8, <2>9, <2>10, <3>1, <3>2
  <2>11. CASE x # h
    <3>1. h \in s <=> h \in t
      BY <2>5, <2>11
    <3>2. it[t] \in Int /\ jt[t] \in Int
          /\ jt[t] = it[t] + (IF h \in s THEN g[h] - f[h] ELSE 0)
      BY <2>7, <3>1
    <3> QED
      BY <2>2, <2>8, <2>9, <2>11, <3>2
  <2> QED
    BY <2>10, <2>11
<1>4. Cardinality(H) \in Nat /\ H \in SUBSET H
  BY FS_CardinalityType
<1>5. Fine(H)
  <2> HIDE DEF Fine
  <2> QED
    BY <1>3, <1>4
<1> QED
  BY <1>1, <1>2, <1>5

\* The sum of numbers between 0 and K.
LEMMA SumBounds ==
  ASSUME NEW H, IsFiniteSet(H), NEW K \in Nat, NEW f \in [H -> 0 .. K]
  PROVE  /\ SumFunction(f) \in Nat
         /\ SumFunction(f) <= Cardinality(H) * K
<1>1. f \in [H -> Int]
  OBVIOUS
<1>2. PICK it : Sums(H, f, it) /\ SumFunction(f) = it[H]
  BY <1>1, SumIs
<1> DEFINE Fine(s) == it[s] \in Nat /\ it[s] <= Cardinality(s) * K
           Bad == {n \in Nat : \E s \in SUBSET H : Cardinality(s) = n /\ ~ Fine(s)}
<1>3. Bad = {}
  <2> SUFFICES ASSUME Bad # {} PROVE FALSE
    OBVIOUS
  <2>1. PICK m \in Bad : \A n \in Bad : m <= n
    <3>1. Bad \subseteq Nat
      OBVIOUS
    <3> HIDE DEF Bad
    <3> QED
      BY <3>1, LeastNatural
  <2>2. PICK s \in SUBSET H : Cardinality(s) = m /\ ~ Fine(s)
    BY <2>1
  <2>3. s # {}
    <3>1. {} \in SUBSET H
      OBVIOUS
    <3>2. it[{}] = 0
      BY <1>2, <3>1 DEF Sums
    <3>3. Cardinality({}) * K = 0
      BY FS_EmptySet
    <3>4. Fine({})
      BY <3>2, <3>3
    <3> HIDE DEF Fine
    <3> QED
      BY <2>2, <3>4
  <2>4. PICK x : x = AnyOf(s)
    OBVIOUS
  <2>5. PICK t : t = s \ {x}
    OBVIOUS
  <2>6. x \in s /\ t \in SUBSET H /\ Cardinality(t) = m - 1
        /\ m \in Nat /\ m - 1 \in Nat
    BY <2>2, <2>3, <2>4, <2>5, OneLess
  <2>7. Fine(t)
    <3>1. m - 1 \notin Bad
      BY <2>1, <2>6
    <3> HIDE DEF Fine
    <3> QED
      BY <2>6, <3>1
  <2>8. it[s] = f[x] + it[t]
    BY <1>2, <2>2, <2>3, <2>4, <2>5 DEF Sums
  <2>9. f[x] \in 0 .. K
    BY <2>2, <2>6
  <2>10. it[t] \in Nat /\ it[t] <= (m - 1) * K
    BY <2>6, <2>7
  <2>11. (m - 1) * K = m * K - K /\ m * K \in Nat
    BY <2>6
  <2> QED
    BY <2>2, <2>8, <2>9, <2>10, <2>11
<1>4. Cardinality(H) \in Nat /\ H \in SUBSET H
  BY FS_CardinalityType
<1>5. Fine(H)
  <2> HIDE DEF Fine
  <2> QED
    BY <1>3, <1>4
<1> QED
  BY <1>2, <1>5

-----------------------------------------------------------------------------
(* Channels.                                                               *)

\* The elements of a concatenation beyond the first part.
LEMMA SecondPart ==
  ASSUME NEW S, NEW s \in Seq(S), NEW t \in Seq(S),
         NEW j \in Len(s) + 1 .. Len(s) + Len(t)
  PROVE  (s \o t)[j] = t[j - Len(s)]
OBVIOUS

\* What is left of a channel when a packet leaves it.
LEMMA RemoveAtElements ==
  ASSUME NEW S, NEW s \in Seq(S), NEW k \in DOMAIN s
  PROVE  /\ RemoveAt(s, k) \in Seq(S)
         /\ \A j \in DOMAIN RemoveAt(s, k) :
              \E i \in DOMAIN s : RemoveAt(s, k)[j] = s[i]
<1> DEFINE front == SubSeq(s, 1, k - 1)
           back  == SubSeq(s, k + 1, Len(s))
<1>1. k \in 1 .. Len(s) /\ Len(s) \in Nat
  OBVIOUS
<1>2. /\ front \in Seq(S) /\ Len(front) = k - 1
      /\ \A i \in 1 .. k - 1 : front[i] = s[i]
  BY <1>1
<1>3. /\ back \in Seq(S) /\ Len(back) = Len(s) - k
      /\ \A i \in 1 .. Len(s) - k : back[i] = s[k + i]
  BY <1>1
<1>4. RemoveAt(s, k) = front \o back
  BY DEF RemoveAt
<1> HIDE DEF front, back
<1>5. RemoveAt(s, k) \in Seq(S) /\ Len(RemoveAt(s, k)) = Len(s) - 1
  BY <1>1, <1>2, <1>3, <1>4
<1>6. ASSUME NEW j \in 1 .. Len(s) - 1
      PROVE  \E i \in DOMAIN s : RemoveAt(s, k)[j] = s[i]
  <2>1. CASE j <= k - 1
    <3>1. RemoveAt(s, k)[j] = s[j]
      BY <1>1, <1>2, <1>3, <1>4, <2>1
    <3> QED
      BY <1>1, <3>1, <2>1
  <2>2. CASE j > k - 1
    <3>1. RemoveAt(s, k)[j] = back[j - (k - 1)]
      <4>1. j \in Len(front) + 1 .. Len(front) + Len(back)
        BY <1>1, <1>2, <1>3, <2>2
      <4>2. (front \o back)[j] = back[j - Len(front)]
        BY <1>2, <1>3, <4>1, SecondPart
      <4> QED
        BY <1>2, <1>4, <4>2
    <3>2. j - (k - 1) \in 1 .. Len(s) - k /\ j + 1 \in DOMAIN s
      BY <1>1, <2>2
    <3>3. back[j - (k - 1)] = s[j + 1]
      BY <1>1, <1>3, <3>2
    <3> QED
      BY <3>1, <3>2, <3>3
  <2> QED
    BY <1>1, <2>1, <2>2
<1> QED
  BY <1>5, <1>6

\* The same for the set of the elements.
LEMMA ElementsRemoved ==
  ASSUME NEW S, NEW s \in Seq(S), NEW k \in DOMAIN s
  PROVE  /\ RemoveAt(s, k) \in Seq(S)
         /\ Range(RemoveAt(s, k)) \subseteq Range(s)
BY RemoveAtElements DEF Range

\* An element added is the only new one.
LEMMA ElementsAppended ==
  ASSUME NEW S, NEW s \in Seq(S), NEW x \in S
  PROVE  /\ Append(s, x) \in Seq(S)
         /\ Range(Append(s, x)) = Range(s) \union {x}
<1>1. /\ Append(s, x) \in Seq(S) /\ Len(Append(s, x)) = Len(s) + 1
      /\ \A i \in 1 .. Len(s) : Append(s, x)[i] = s[i]
      /\ Append(s, x)[Len(s) + 1] = x
      /\ DOMAIN s = 1 .. Len(s) /\ Len(s) \in Nat
      /\ DOMAIN Append(s, x) = 1 .. Len(s) + 1
  OBVIOUS
<1>2. Range(s) \union {x} \subseteq Range(Append(s, x))
  BY <1>1 DEF Range
<1>3. Range(Append(s, x)) \subseteq Range(s) \union {x}
  BY <1>1 DEF Range
<1> QED
  BY <1>1, <1>2, <1>3

\* The elements of two channels, one behind the other.
LEMMA ElementsJoined ==
  ASSUME NEW S, NEW s \in Seq(S), NEW t \in Seq(S)
  PROVE  /\ s \o t \in Seq(S)
         /\ Range(s \o t) = Range(s) \union Range(t)
<1>1. s \o t \in Seq(S) /\ DOMAIN (s \o t) = 1 .. Len(s) + Len(t)
      /\ Len(s) \in Nat /\ Len(t) \in Nat
      /\ DOMAIN s = 1 .. Len(s) /\ DOMAIN t = 1 .. Len(t)
  OBVIOUS
<1>2. ASSUME NEW j \in 1 .. Len(s) + Len(t)
      PROVE  (s \o t)[j] \in Range(s) \union Range(t)
  <2>1. CASE j <= Len(s)
    <3>1. j \in DOMAIN s /\ (s \o t)[j] = s[j]
      BY <1>1, <2>1
    <3> QED
      BY <3>1 DEF Range
  <2>2. CASE j > Len(s)
    <3>1. j \in Len(s) + 1 .. Len(s) + Len(t)
      BY <1>1, <2>2
    <3>2. (s \o t)[j] = t[j - Len(s)] /\ j - Len(s) \in DOMAIN t
      BY <1>1, <3>1, SecondPart
    <3> QED
      BY <3>2 DEF Range
  <2> QED
    BY <1>1, <2>1, <2>2
<1>3. ASSUME NEW j \in 1 .. Len(s) PROVE s[j] \in Range(s \o t)
  <2>1. (s \o t)[j] = s[j] /\ j \in 1 .. Len(s) + Len(t)
    BY <1>1
  <2> QED
    BY <1>1, <2>1 DEF Range
<1>4. ASSUME NEW j \in 1 .. Len(t) PROVE t[j] \in Range(s \o t)
  <2>1. j + Len(s) \in Len(s) + 1 .. Len(s) + Len(t) /\ (j + Len(s)) - Len(s) = j
    BY <1>1
  <2>2. (s \o t)[j + Len(s)] = t[j]
    BY <2>1, SecondPart
  <2>3. j + Len(s) \in 1 .. Len(s) + Len(t)
    BY <1>1
  <2> QED
    BY <1>1, <2>2, <2>3 DEF Range
<1> QED
  BY <1>1, <1>2, <1>3, <1>4 DEF Range

\* The elements of a channel have its type.
LEMMA ElementsTyped ==
  ASSUME NEW S, NEW s \in Seq(S)
  PROVE  Range(s) \subseteq S
BY DEF Range

=============================================================================
