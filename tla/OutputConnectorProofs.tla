------------------------ MODULE OutputConnectorProofs ------------------------
(***************************************************************************)
(* Proofs about OutputConnector for every value of its constants: what a   *)
(* delivered ack, a failed Send and a fault say of the server.             *)
(***************************************************************************)
EXTENDS OutputConnector, SequenceTheorems, FiniteSetTheorems, WellFoundedInduction, TLAPS

(* Arithmetic of the chunks: chunk k ends where chunk k + 1 begins.        *)
LEMMA NextBound ==
  ASSUME NEW k \in Nat, NEW c \in Nat
  PROVE  k * c \in Nat /\ (k + 1) * c = k * c + c
OBVIOUS

LEMMA BoundGrows ==
  ASSUME NEW j \in Nat, NEW k \in Nat, NEW c \in Nat, j <= k
  PROVE  j * c <= k * c
<1>1. PICK d \in Nat : k = j + d
      BY SMT
<1>2. k * c = j * c + d * c /\ d * c \in Nat /\ j * c \in Nat
      BY <1>1, SMT
<1> QED BY <1>2, SMT

(* Rounding up leaves no rest: that many chunks hold the batch.            *)
LEMMA CeilDivCovers ==
  ASSUME NEW n \in Nat, NEW d \in Nat \ {0}
  PROVE  CeilDiv(n, d) \in Nat /\ n <= CeilDiv(n, d) * d
<1> DEFINE q == (n + d - 1) \div d
<1>1. q \in Int /\ d * q <= n + d - 1 /\ n + d - 1 < d * (q + 1)
      BY SMT
<1>2. d * (q + 1) = d * q + d /\ d * q = q * d /\ d * q \in Int
      BY <1>1, SMT
<1>3. n <= q * d
      BY <1>1, <1>2, SMT
<1>4. q >= 0
      BY <1>1, SMT
<1> QED BY <1>1, <1>3, <1>4, SMT DEF CeilDiv

(* Min of a pair, as Chunk uses it.                                        *)
LEMMA MinOfTwo ==
  ASSUME NEW a \in Int, NEW b \in Int
  PROVE  Min({a, b}) = IF a <= b THEN a ELSE b
<1> DEFINE m == IF a <= b THEN a ELSE b
<1>1. m \in {a, b} /\ \A y \in {a, b} : m <= y
      BY SMT
<1>2. \A x \in {a, b} : (\A y \in {a, b} : x <= y) => x = m
      BY SMT
<1> QED BY <1>1, <1>2 DEF Min

LEMMA ChunkHolds ==
  ASSUME NEW n \in Nat, NEW k \in Nat, ChunkSize(n) \in Nat
  PROVE  /\ Chunk(n, k) \subseteq 1 .. n
         /\ \A i \in Int : i \in Chunk(n, k) <=>
              k * ChunkSize(n) < i /\ i <= (k + 1) * ChunkSize(n) /\ i <= n
<1> DEFINE c == ChunkSize(n)
<1>1. k * c \in Nat /\ (k + 1) * c \in Nat
      BY NextBound
<1>2. Min({(k + 1) * c, n}) = IF (k + 1) * c <= n THEN (k + 1) * c ELSE n
      BY <1>1, MinOfTwo
<1>3. Chunk(n, k) = k * c + 1 .. Min({(k + 1) * c, n})
      BY DEF Chunk
<1> HIDE DEF c
<1>4. \A i \in Int : i \in Chunk(n, k) <=> k * c < i /\ i <= (k + 1) * c /\ i <= n
      BY <1>1, <1>2, <1>3, SMT
<1>5. Chunk(n, k) \subseteq Int
      BY <1>1, <1>2, <1>3, SMT
<1>6. Chunk(n, k) \subseteq 1 .. n
      BY <1>1, <1>4, <1>5, SMT
<1> QED BY <1>4, <1>6 DEF c

(* A chunk of a batch that is not empty has at least one signal, and the   *)
(* chunks together are the batch.                                          *)
LEMMA ChunkSizeType ==
  ASSUME TypeOK, input.type \in Types, NEW n \in Nat
  PROVE  ChunkSize(n) \in Nat /\ (n > 0 => ChunkSize(n) > 0)
<1>1. cfg.limit \in Int
      BY DEF TypeOK
<1> QED BY <1>1, SMT DEF ChunkSize, Types

LEMMA AllPassed ==
  ASSUME TypeOK, input.type \in Types, NEW n \in Nat, NEW k \in Nat, ~(k < Chunks(n))
  PROVE  n <= k * ChunkSize(n)
<1> DEFINE c == ChunkSize(n)
<1>1. c \in Nat /\ (n > 0 => c > 0)
      BY ChunkSizeType
<1> HIDE DEF c
<1>0. k * c \in Nat
      BY <1>1, NextBound
<1>2. CASE n = 0
      BY <1>0, <1>2 DEF c
<1>3. CASE n > 0
  <2>1. c \in Nat \ {0} /\ Chunks(n) = CeilDiv(n, c)
        BY <1>1, <1>3 DEF Chunks, c
  <2>2. CeilDiv(n, c) \in Nat /\ n <= CeilDiv(n, c) * c
        BY <2>1, CeilDivCovers
  <2>3. CeilDiv(n, c) <= k
        BY <2>1, <2>2
  <2>4. PICK q \in Nat : q = CeilDiv(n, c) /\ n <= q * c /\ q <= k
        BY <2>2, <2>3
  <2>5. q * c <= k * c
        BY <2>1, <2>4, BoundGrows
  <2>6. q * c \in Nat
        BY <2>1, <2>4, NextBound
  <2> QED BY <1>0, <2>4, <2>5, <2>6 DEF c
<1>4. n = 0 \/ n > 0
      OBVIOUS
<1> QED BY <1>2, <1>3, <1>4 DEF c

(* The sequences of a server: what is in them, and their order.            *)
LEMMA ToSetOfConcat ==
  ASSUME NEW S, NEW a \in Seq(S), NEW b \in Seq(S)
  PROVE  ToSet(a \o b) = ToSet(a) \cup ToSet(b)
<1>1. /\ a \o b \in Seq(S) /\ Len(a \o b) = Len(a) + Len(b)
      /\ \A i \in 1 .. Len(a) + Len(b) : (a \o b)[i] = IF i <= Len(a) THEN a[i] ELSE b[i - Len(a)]
      BY ConcatProperties
<1>2. /\ Len(a) \in Nat /\ Len(b) \in Nat /\ DOMAIN a = 1 .. Len(a) /\ DOMAIN b = 1 .. Len(b)
      /\ DOMAIN (a \o b) = 1 .. Len(a) + Len(b)
      BY <1>1
<1>3. ASSUME NEW i \in DOMAIN (a \o b) PROVE (a \o b)[i] \in ToSet(a) \cup ToSet(b)
  <2>1. CASE i <= Len(a)
        BY <2>1, <1>1, <1>2 DEF ToSet
  <2>2. CASE ~(i <= Len(a))
    <3>1. i - Len(a) \in DOMAIN b /\ (a \o b)[i] = b[i - Len(a)]
          BY <2>2, <1>1, <1>2
    <3> QED BY <3>1 DEF ToSet
  <2> QED BY <2>1, <2>2
<1>4. ASSUME NEW i \in DOMAIN a PROVE a[i] \in ToSet(a \o b)
  <2>1. i \in DOMAIN (a \o b) /\ (a \o b)[i] = a[i]
        BY <1>1, <1>2
  <2> QED BY <2>1 DEF ToSet
<1>5. ASSUME NEW i \in DOMAIN b PROVE b[i] \in ToSet(a \o b)
  <2>1. Len(a) + i \in DOMAIN (a \o b) /\ (a \o b)[Len(a) + i] = b[i]
        BY <1>1, <1>2
  <2> QED BY <2>1 DEF ToSet
<1> QED BY <1>3, <1>4, <1>5 DEF ToSet

LEMMA IncreasingConcat ==
  ASSUME NEW a \in Seq(Nat), NEW b \in Seq(Nat), Increasing(a), Increasing(b),
         \A x \in ToSet(a), y \in ToSet(b) : x < y
  PROVE  Increasing(a \o b)
<1>1. /\ a \o b \in Seq(Nat) /\ Len(a \o b) = Len(a) + Len(b)
      /\ \A i \in 1 .. Len(a) + Len(b) : (a \o b)[i] = IF i <= Len(a) THEN a[i] ELSE b[i - Len(a)]
      BY ConcatProperties
<1>2. /\ Len(a) \in Nat /\ Len(b) \in Nat /\ DOMAIN a = 1 .. Len(a) /\ DOMAIN b = 1 .. Len(b)
      /\ DOMAIN (a \o b) = 1 .. Len(a) + Len(b)
      BY <1>1
<1>3. ASSUME NEW m \in DOMAIN (a \o b), NEW n \in DOMAIN (a \o b), m < n
      PROVE  (a \o b)[m] < (a \o b)[n]
  <2>1. CASE n <= Len(a)
    <3>1. m \in DOMAIN a /\ n \in DOMAIN a /\ (a \o b)[m] = a[m] /\ (a \o b)[n] = a[n]
          BY <2>1, <1>1, <1>2, <1>3
    <3> QED BY <3>1, <1>3 DEF Increasing
  <2>2. CASE m <= Len(a) /\ ~(n <= Len(a))
    <3>1. m \in DOMAIN a /\ n - Len(a) \in DOMAIN b /\ (a \o b)[m] = a[m] /\ (a \o b)[n] = b[n - Len(a)]
          BY <2>2, <1>1, <1>2, <1>3
    <3> QED BY <3>1 DEF ToSet
  <2>3. CASE ~(m <= Len(a))
    <3>1. m - Len(a) \in DOMAIN b /\ n - Len(a) \in DOMAIN b /\ m - Len(a) < n - Len(a)
          BY <2>3, <1>1, <1>2, <1>3
    <3>2. (a \o b)[m] = b[m - Len(a)] /\ (a \o b)[n] = b[n - Len(a)]
          BY <2>3, <1>1, <1>2, <1>3
    <3> QED BY <3>1, <3>2 DEF Increasing
  <2> QED BY <2>1, <2>2, <2>3, <1>2, <1>3
<1> QED BY <1>3 DEF Increasing

-----------------------------------------------------------------------------
(* Induction over the natural numbers, stated about a set of them.         *)
LEMMA LeastElement ==
  ASSUME NEW S \in SUBSET Nat, S # {}
  PROVE  \E n \in S : \A m \in S : n <= m
<1> DEFINE R == OpToRel(<, Nat)
<1>1. IsWellFoundedOn(R, Nat)
      BY NatLessThanWellFounded
<1>2. \A m, n \in Nat : m < n => <<m, n>> \in R
      BY Zenon DEF OpToRel
<1> HIDE DEF R
<1>3. PICK n \in S : \A m \in S : ~(<<m, n>> \in R)
      BY <1>1, WFMin
<1>4. ASSUME NEW m \in S PROVE n <= m
  <2>1. m \in Nat /\ n \in Nat
        OBVIOUS
  <2>2. ~(m < n)
        BY <1>2, <1>3, <2>1
  <2> QED BY <2>1, <2>2
<1> QED BY <1>3, <1>4

LEMMA NatSetInduction ==
  ASSUME NEW S, 0 \in S, \A n \in Nat : n \in S => n + 1 \in S
  PROVE  Nat \subseteq S
<1> SUFFICES ASSUME Nat \ S # {} PROVE FALSE
    OBVIOUS
<1>1. PICK n \in Nat \ S : \A m \in Nat \ S : n <= m
      BY LeastElement
<1>2. n # 0 /\ n - 1 \in Nat /\ n = (n - 1) + 1
      BY <1>1
<1>3. n - 1 \in S
      BY <1>1, <1>2
<1> QED BY <1>1, <1>2, <1>3

(* The increasing enumerations of a set of positions: there is one, and it *)
(* leaves nothing out.                                                     *)
Orders(S) == {s \in [1 .. Cardinality(S) -> S] : Increasing(s)}
LEMMA OrdersExist ==
  ASSUME NEW S \in SUBSET Nat, IsFiniteSet(S)
  PROVE  /\ Orders(S) # {}
         /\ \A s \in Orders(S) : s \in Seq(S) /\ Increasing(s) /\ ToSet(s) = S
<1> DEFINE Orderable == {n \in Nat : \A T \in SUBSET Nat :
                           IsFiniteSet(T) /\ Cardinality(T) = n => Orders(T) # {}}
<1>1. 0 \in Orderable
  <2> SUFFICES ASSUME NEW T \in SUBSET Nat, Cardinality(T) = 0 PROVE << >> \in Orders(T)
      OBVIOUS
  <2>1. << >> \in [1 .. 0 -> T] /\ Increasing(<< >>)
        BY DEF Increasing
  <2> QED BY <2>1 DEF Orders
<1>2. ASSUME NEW n \in Nat, n \in Orderable PROVE n + 1 \in Orderable
  <2> SUFFICES ASSUME NEW T \in SUBSET Nat, IsFiniteSet(T), Cardinality(T) = n + 1
               PROVE  Orders(T) # {}
      OBVIOUS
  <2>1. T # {}
        BY FS_EmptySet
  <2>2. PICK least \in T : \A m \in T : least <= m
        BY <2>1, LeastElement
  <2>3. /\ IsFiniteSet(T \ {least}) /\ Cardinality(T \ {least}) = n
        /\ T \ {least} \in SUBSET Nat
        BY FS_RemoveElement
  <2>4. PICK s : s \in Orders(T \ {least})
        BY <1>2, <2>3
  <2>5. s \in [1 .. n -> T \ {least}] /\ \A i, j \in 1 .. n : i < j => s[i] < s[j]
        BY <2>3, <2>4 DEF Orders, Increasing
  <2> DEFINE r == [i \in 1 .. n + 1 |-> IF i = 1 THEN least ELSE s[i - 1]]
  <2>6. \A i \in 1 .. n + 1 : i # 1 => i - 1 \in 1 .. n
        OBVIOUS
  <2>7. r \in [1 .. n + 1 -> T]
        BY <2>5, <2>6
  <2>8. ASSUME NEW i \in 1 .. n + 1, NEW j \in 1 .. n + 1, i < j PROVE r[i] < r[j]
    <3>1. j # 1 /\ r[j] = s[j - 1] /\ s[j - 1] \in T \ {least} /\ j - 1 \in 1 .. n
          BY <2>5, <2>6, <2>8
    <3>2. CASE i = 1
      <4>1. r[i] = least /\ least \in Nat /\ r[j] \in Nat /\ least <= r[j] /\ r[j] # least
            BY <2>2, <3>1, <3>2
      <4> HIDE DEF r
      <4> QED BY <4>1
    <3>3. CASE i # 1
      <4>1. r[i] = s[i - 1] /\ i - 1 \in 1 .. n /\ i - 1 < j - 1
            BY <2>6, <2>8, <3>3
      <4> HIDE DEF r
      <4> QED BY <2>5, <3>1, <4>1
    <3> QED BY <3>2, <3>3
  <2>9. r \in Orders(T)
    <3> HIDE DEF r
    <3> QED BY <2>7, <2>8 DEF Orders, Increasing
  <2> QED BY <2>9
<1> HIDE DEF Orderable
<1>3. Nat \subseteq Orderable
      BY <1>1, <1>2, NatSetInduction
<1>4. Cardinality(S) \in Nat
      BY FS_CardinalityType
<1>5. Orders(S) # {}
      BY <1>3, <1>4 DEF Orderable
<1>6. ASSUME NEW s \in Orders(S) PROVE s \in Seq(S) /\ Increasing(s) /\ ToSet(s) = S
  <2> DEFINE n == Cardinality(S)
  <2>1. s \in [1 .. n -> S] /\ Increasing(s) /\ n \in Nat
        BY <1>4 DEF Orders
  <2>2. s \in Seq(S) /\ ToSet(s) \subseteq S /\ ToSet(s) = {s[i] : i \in 1 .. n}
        BY <2>1 DEF ToSet
  <2>3. \A i, j \in 1 .. n : s[i] = s[j] => i = j
    <3> SUFFICES ASSUME NEW i \in 1 .. n, NEW j \in 1 .. n, i # j PROVE s[i] # s[j]
        OBVIOUS
    <3>1. s[i] \in Nat /\ s[j] \in Nat
          BY <2>1
    <3>2. i < j \/ j < i
          BY <2>1
    <3>3. s[i] < s[j] \/ s[j] < s[i]
          BY <2>1, <3>2 DEF Increasing
    <3> QED BY <3>1, <3>3
  <2>4. s \in Injection(1 .. n, S)
        BY <2>1, <2>3 DEF Injection, IsInjective
  <2>5. Cardinality(1 .. n) = n
        BY <2>1, FS_Interval
  <2>6. s \in Surjection(1 .. n, S)
        BY <2>4, <2>5, FS_Injection
  <2>7. \A x \in S : \E i \in 1 .. n : s[i] = x
        BY <2>6 DEF Surjection
  <2> QED BY <2>1, <2>2, <2>7
<1> QED BY <1>5, <1>6

(* In an increasing enumeration of a set n - 1 elements lie below the n-th.*)
LEMMA RankInOrder ==
  ASSUME NEW S \in SUBSET Nat, IsFiniteSet(S), NEW s \in Orders(S), NEW n \in 1 .. Cardinality(S)
  PROVE  Cardinality({y \in S : y < s[n]}) = n - 1
<1> DEFINE B == {y \in S : y < s[n]}
           g == [i \in 1 .. n - 1 |-> s[i]]
<1>1. Cardinality(S) \in Nat
      BY FS_CardinalityType
<1>2. s \in [1 .. Cardinality(S) -> S] /\ Increasing(s) /\ ToSet(s) = S
      BY OrdersExist DEF Orders
<1>3. \A i, j \in 1 .. Cardinality(S) : s[i] \in Nat /\ (i < j => s[i] < s[j])
      BY <1>2 DEF Increasing
<1>4. \A i \in 1 .. n - 1 : i \in 1 .. Cardinality(S) /\ s[i] \in B
      BY <1>1, <1>2, <1>3
<1>5. \A y \in B : \E i \in 1 .. n - 1 : s[i] = y
  <2> TAKE y \in B
  <2>1. PICK i \in 1 .. Cardinality(S) : s[i] = y
        BY <1>2 DEF ToSet
  <2>2. ~(n <= i)
        BY <1>3, <2>1
  <2> QED BY <1>1, <2>1, <2>2
<1>6. \A i, j \in 1 .. n - 1 : s[i] = s[j] => i = j
  <2> TAKE i, j \in 1 .. n - 1
  <2>1. i < j \/ j < i \/ i = j
        OBVIOUS
  <2> QED BY <1>3, <1>4, <2>1
<1>7. g \in Bijection(1 .. n - 1, B)
  <2> HIDE DEF B
  <2>1. g \in [1 .. n - 1 -> B]
        BY <1>4
  <2>2. g \in Injection(1 .. n - 1, B)
        BY <2>1, <1>6 DEF Injection, IsInjective
  <2>3. g \in Surjection(1 .. n - 1, B)
    <3>1. \A y \in B : \E i \in 1 .. n - 1 : g[i] = y
          BY <1>5
    <3> HIDE DEF g
    <3> QED BY <2>1, <3>1 DEF Surjection
  <2> QED BY <2>2, <2>3 DEF Bijection
<1>8. IsFiniteSet(1 .. n - 1) /\ Cardinality(1 .. n - 1) = n - 1
  <2>1. PICK m \in Nat : m = n - 1
        BY <1>1
  <2>2. IsFiniteSet(1 .. m) /\ Cardinality(1 .. m) = IF 1 > m THEN 0 ELSE m - 1 + 1
        BY FS_Interval
  <2>3. (IF 1 > m THEN 0 ELSE m - 1 + 1) = m
        OBVIOUS
  <2> QED BY <2>1, <2>2, <2>3
<1>9. ExistsBijection(1 .. n - 1, B)
      BY <1>7 DEF ExistsBijection
<1> HIDE DEF B
<1>10. Cardinality(B) = n - 1
       BY <1>8, <1>9, FS_Bijection
<1> QED BY <1>10 DEF B

(* Whatever part of a chunk a server takes, InOrder is a sequence of it in *)
(* the order of the request, the one that Next lets SendChunk append, and  *)
(* it leaves nothing out.                                                  *)
THEOREM PartsHaveAnOrder ==
  ASSUME NEW S \in SUBSET Nat, IsFiniteSet(S)
  PROVE  InOrder(S) \in Seq(S) /\ Increasing(InOrder(S)) /\ ToSet(InOrder(S)) = S
<1>1. PICK s : s \in Orders(S)
      BY OrdersExist
<1>2. Cardinality(S) \in Nat
      BY FS_CardinalityType
<1>3. s \in [1 .. Cardinality(S) -> S] /\ s \in Seq(S) /\ Increasing(s) /\ ToSet(s) = S
      BY <1>1, OrdersExist DEF Orders
<1>4. ASSUME NEW n \in 1 .. Cardinality(S) PROVE Nth(S, n) = s[n]
  <2> DEFINE R(x) == Cardinality({y \in S : y < x}) = n - 1
  <2>1. s[n] \in S /\ R(s[n])
        BY <1>1, <1>3, RankInOrder
  <2>2. ASSUME NEW x \in S, R(x) PROVE x = s[n]
    <3>1. PICK m \in 1 .. Cardinality(S) : s[m] = x
          BY <1>3 DEF ToSet
    <3>2. Cardinality({y \in S : y < s[m]}) = m - 1
          BY <1>1, RankInOrder
    <3>3. m = n
          BY <1>2, <2>2, <3>1, <3>2
    <3> QED BY <3>1, <3>3
  <2> HIDE DEF R
  <2>3. (CHOOSE x \in S : R(x)) = s[n]
        BY <2>1, <2>2
  <2> QED BY <2>3 DEF Nth, R
<1>5. InOrder(S) = s
  <2>1. s = [n \in 1 .. Cardinality(S) |-> s[n]]
        BY <1>3
  <2> QED BY <1>4, <2>1 DEF InOrder
<1> QED BY <1>3, <1>5

(* The function by which FlattenSeq is defined exists: every prefix of it  *)
(* extends by one.                                                         *)
LEMMA FlattenExists ==
  ASSUME NEW e, NEW n \in Nat
  PROVE  \E g : g = [i \in 1 .. n |-> IF i = 1 THEN e[i] ELSE g[i - 1] \o e[i]]
<1> DEFINE Step(g, m) == g = [i \in 1 .. m |-> IF i = 1 THEN e[i] ELSE g[i - 1] \o e[i]]
           S == {m \in Nat : \E g : Step(g, m)}
<1>1. 0 \in S
  <2> DEFINE g == [i \in 1 .. 0 |-> << >>]
  <2>1. Step(g, 0)
        OBVIOUS
  <2>2. \E h : Step(h, 0)
        BY <2>1
  <2> QED BY <2>2
<1>2. ASSUME NEW m \in Nat, m \in S PROVE m + 1 \in S
  <2>1. PICK g : Step(g, m)
        BY <1>2
  <2> DEFINE last == IF m = 0 THEN e[1] ELSE g[m] \o e[m + 1]
             h == [i \in 1 .. m + 1 |-> IF i = m + 1 THEN last ELSE g[i]]
  <2>2. ASSUME NEW i \in 1 .. m + 1
        PROVE  h[i] = IF i = 1 THEN e[i] ELSE h[i - 1] \o e[i]
    <3>1. CASE i = m + 1
      <4>1. CASE m = 0
            BY <3>1, <4>1
      <4>2. CASE m # 0
        <5>1. i # 1 /\ i - 1 = m /\ m \in 1 .. m + 1 /\ m # m + 1
              BY <3>1, <4>2
        <5>2. h[m] = g[m] /\ h[i] = g[m] \o e[m + 1]
              BY <3>1, <4>2, <5>1
        <5> QED BY <3>1, <5>1, <5>2
      <4> QED BY <4>1, <4>2
    <3>2. CASE i # m + 1
      <4>1. i \in 1 .. m /\ h[i] = g[i]
            BY <3>2
      <4>2. g[i] = IF i = 1 THEN e[i] ELSE g[i - 1] \o e[i]
            BY <2>1, <4>1
      <4>3. i # 1 => i - 1 \in 1 .. m + 1 /\ i - 1 # m + 1 /\ h[i - 1] = g[i - 1]
            BY <3>2, <4>1
      <4> QED BY <4>1, <4>2, <4>3
    <3> QED BY <3>1, <3>2
  <2>3. h = [i \in 1 .. m + 1 |-> h[i]]
        OBVIOUS
  <2> HIDE DEF h
  <2>4. Step(h, m + 1)
    <3>1. [i \in 1 .. m + 1 |-> h[i]]
            = [i \in 1 .. m + 1 |-> IF i = 1 THEN e[i] ELSE h[i - 1] \o e[i]]
          BY <2>2
    <3> QED BY <2>3, <3>1
  <2>5. \E f : Step(f, m + 1)
        BY <2>4
  <2> HIDE DEF Step
  <2> QED BY <2>5
<1> HIDE DEF S
<1>3. Nat \subseteq S
      BY <1>1, <1>2, NatSetInduction
<1> QED BY <1>3 DEF S

LEMMA FlattenEquation ==
  ASSUME NEW e, NEW L \in Nat \ {0}, Len(e) = L
  PROVE  \E g : /\ FlattenSeq(e) = g[L]
                /\ g = [i \in 1 .. L |-> IF i = 1 THEN e[i] ELSE g[i - 1] \o e[i]]
<1> DEFINE Eq(g) == g = [i \in 1 .. L |-> IF i = 1 THEN e[i] ELSE g[i - 1] \o e[i]]
           f == CHOOSE g : Eq(g)
<1>1. \E g : Eq(g)
      BY FlattenExists
<1>2. Eq(f)
      BY <1>1
<1>3. FlattenSeq(e) = f[L]
      BY DEF FlattenSeq
<1> QED BY <1>2, <1>3

(* One more entry of a sequence that is given by a function.               *)
LEMMA AppendOne ==
  ASSUME NEW V, NEW c \in Nat \ {0}, NEW f, \A k \in 1 .. c : f[k] \in V
  PROVE  [k \in 1 .. c - 1 |-> f[k]] \o <<f[c]>> = [k \in 1 .. c |-> f[k]]
<1> DEFINE a == [k \in 1 .. c - 1 |-> f[k]]
           b == <<f[c]>>
           r == [k \in 1 .. c |-> f[k]]
<1>1. a \in Seq(V) /\ Len(a) = c - 1 /\ \A k \in 1 .. c - 1 : a[k] = f[k]
      BY IsASeq
<1>2. b \in Seq(V) /\ Len(b) = 1 /\ b[1] = f[c]
      OBVIOUS
<1>3. r \in Seq(V) /\ Len(r) = c /\ \A k \in 1 .. c : r[k] = f[k]
      BY IsASeq
<1> HIDE DEF a, b, r
<1>4. /\ a \o b \in Seq(V) /\ Len(a \o b) = c
      /\ \A k \in 1 .. c : (a \o b)[k] = IF k <= c - 1 THEN a[k] ELSE b[k - (c - 1)]
  <2>1. /\ a \o b \in Seq(V) /\ Len(a \o b) = Len(a) + Len(b)
        /\ \A k \in 1 .. Len(a) + Len(b) :
             (a \o b)[k] = IF k <= Len(a) THEN a[k] ELSE b[k - Len(a)]
        BY <1>1, <1>2, ConcatProperties
  <2>2. Len(a) + Len(b) = c
        BY <1>1, <1>2
  <2> QED BY <1>1, <2>1, <2>2
<1>5. \A k \in 1 .. c : (a \o b)[k] = r[k]
  <2> TAKE k \in 1 .. c
  <2>1. CASE k <= c - 1
    <3>1. k \in 1 .. c - 1
          BY <2>1
    <3> QED BY <1>1, <1>3, <1>4, <2>1, <3>1
  <2>2. CASE ~(k <= c - 1)
    <3>1. k = c /\ k - (c - 1) = 1
          BY <2>2
    <3> QED BY <1>2, <1>3, <1>4, <2>2, <3>1
  <2> QED BY <2>1, <2>2
<1>6. a \o b = r
      BY <1>3, <1>4, <1>5, SeqEqual
<1> QED BY <1>6 DEF a, b, r

(* Flattening a list of results, each nothing or one value, is listing the *)
(* values of those that are something, in their order.                     *)
LEMMA FlattenChosen ==
  ASSUME NEW V, NEW e \in Seq(Seq(V)), NEW s \in Seq(Nat),
         \A i \in DOMAIN e : e[i] = << >> \/ \E v \in V : e[i] = <<v>>,
         Increasing(s), ToSet(s) = {i \in DOMAIN e : e[i] # << >>}
  PROVE  FlattenSeq(e) = [k \in DOMAIN s |-> e[s[k]][1]]
<1> DEFINE n == Len(e)
           f == [k \in DOMAIN s |-> e[s[k]][1]]
           Start(c) == [k \in 1 .. c |-> f[k]]
<1>1. /\ n \in Nat /\ DOMAIN e = 1 .. n
      /\ Len(s) \in Nat /\ DOMAIN s = 1 .. Len(s) /\ \A k \in 1 .. Len(s) : s[k] \in Nat
      OBVIOUS
<1>2. \A k \in 1 .. Len(s) : s[k] \in 1 .. n /\ e[s[k]] = <<f[k]>> /\ f[k] \in V
  <2> TAKE k \in 1 .. Len(s)
  <2>1. s[k] \in ToSet(s)
        BY <1>1 DEF ToSet
  <2>2. s[k] \in 1 .. n /\ e[s[k]] # << >>
        BY <1>1, <2>1
  <2>3. PICK v \in V : e[s[k]] = <<v>>
        BY <1>1, <2>2
  <2> QED BY <1>1, <2>2, <2>3
<1>3. \A i \in 1 .. n : e[i] # << >> => \E k \in 1 .. Len(s) : s[k] = i
      BY <1>1 DEF ToSet
<1>4. \A j, k \in 1 .. Len(s) : j < k => s[j] < s[k]
      BY <1>1 DEF Increasing
<1>5. f = [k \in 1 .. Len(s) |-> f[k]]
      BY <1>1
<1> HIDE DEF f, n
<1>6. CASE n = 0
  <2>1. e = << >>
        BY <1>1, <1>6 DEF n
  <2>2. Len(s) = 0
        BY <1>1, <1>2, <1>6
  <2>3. FlattenSeq(e) = << >>
        BY <2>1 DEF FlattenSeq
  <2>4. f = << >>
        BY <1>5, <2>2
  <2> QED BY <2>3, <2>4 DEF f
<1>7. CASE n # 0
  <2>1. PICK g : /\ FlattenSeq(e) = g[n]
                 /\ g = [i \in 1 .. n |-> IF i = 1 THEN e[i] ELSE g[i - 1] \o e[i]]
    <3>1. n \in Nat \ {0} /\ Len(e) = n
          BY <1>1, <1>7 DEF n
    <3> QED BY <3>1, FlattenEquation
  <2> DEFINE F(m) == IF m = 0 THEN << >> ELSE g[m]
             Split(m, c) == \A k \in 1 .. Len(s) : k <= c <=> s[k] <= m
             S == {m \in Nat : m <= n => \A c \in 0 .. Len(s) : Split(m, c) => F(m) = Start(c)}
  <2>2. \A c \in 0 .. Len(s) : Start(c) \in Seq(V) /\ Len(Start(c)) = c
    <3> TAKE c \in 0 .. Len(s)
    <3>1. \A k \in 1 .. c : f[k] \in V
          BY <1>1, <1>2
    <3> QED BY <3>1
  <2>3. 0 \in S
    <3>1. ASSUME NEW c \in 0 .. Len(s), Split(0, c) PROVE F(0) = Start(c)
      <4>1. c = 0
        <5> SUFFICES ASSUME c # 0 PROVE FALSE
            OBVIOUS
        <5>1. 1 \in 1 .. Len(s) /\ 1 <= c
              BY <1>1
        <5>2. s[1] <= 0 /\ s[1] \in 1 .. n
              BY <3>1, <5>1, <1>2
        <5> QED BY <5>2, <1>1
      <4> QED BY <4>1
    <3> QED BY <3>1
  <2>4. ASSUME NEW m \in Nat, m \in S, m + 1 <= n, NEW c \in 0 .. Len(s), Split(m + 1, c)
        PROVE  F(m + 1) = Start(c)
    <3>1. m <= n /\ m + 1 \in 1 .. n /\ m \in 0 .. n
          BY <2>4, <1>1
    <3>2. \A d \in 0 .. Len(s) : Split(m, d) => F(m) = Start(d)
          BY <2>4, <3>1
    <3>3. g[m + 1] = IF m = 0 THEN e[m + 1] ELSE g[m] \o e[m + 1]
      <4>1. g[m + 1] = IF m + 1 = 1 THEN e[m + 1] ELSE g[(m + 1) - 1] \o e[m + 1]
            BY <2>1, <3>1
      <4>2. (m + 1 = 1 <=> m = 0) /\ (m + 1) - 1 = m
            OBVIOUS
      <4> QED BY <4>1, <4>2
    <3>4. e[m + 1] \in Seq(V)
          BY <1>1, <3>1
    <3>5. F(m + 1) = F(m) \o e[m + 1]
      <4>1. CASE m = 0
        <5>1. F(m + 1) = e[m + 1] /\ F(m) = << >>
              BY <4>1, <3>3
        <5>2. << >> \o e[m + 1] = e[m + 1]
              BY <3>4
        <5> HIDE DEF F
        <5> QED BY <5>1, <5>2
      <4>2. CASE m # 0
        <5>1. m + 1 # 0
              OBVIOUS
        <5> QED BY <4>2, <3>3, <5>1
      <4> QED BY <4>1, <4>2
    <3> HIDE DEF F, Start, S
    <3>6. CASE e[m + 1] = << >>
      <4>1. \A k \in 1 .. Len(s) : s[k] \in Nat /\ s[k] # m + 1
        <5> TAKE k \in 1 .. Len(s)
        <5>1. s[k] \in 1 .. n /\ e[s[k]] = <<f[k]>> /\ <<f[k]>> # << >>
              BY <1>2
        <5>2. s[k] # m + 1
              BY <3>6, <5>1
        <5> QED BY <1>1, <5>1, <5>2
      <4>2. Split(m, c)
            BY <2>4, <4>1
      <4>3. F(m) = Start(c) /\ Start(c) \in Seq(V)
            BY <2>2, <3>2, <4>2
      <4> QED BY <3>5, <3>6, <4>3
    <3>7. CASE e[m + 1] # << >>
      <4>1. PICK k \in 1 .. Len(s) : s[k] = m + 1
            BY <1>3, <3>1, <3>7
      <4>2. k <= c
            BY <2>4, <4>1
      <4>3. k = c
        <5>1. c \in 1 .. Len(s) /\ s[c] <= m + 1
              BY <1>1, <2>4, <4>2
        <5> QED BY <1>1, <1>4, <4>1, <4>2, <5>1
      <4>4. c \in 1 .. Len(s) /\ s[c] = m + 1 /\ c - 1 \in 0 .. Len(s)
            BY <1>1, <4>1, <4>3
      <4>5. Split(m, c - 1)
        <5> TAKE j \in 1 .. Len(s)
        <5>1. CASE j <= c - 1
              BY <1>1, <1>4, <4>4, <5>1
        <5>2. CASE ~(j <= c - 1)
          <6>1. j = c \/ (c < j)
                BY <4>4, <5>2
          <6> QED BY <1>1, <1>4, <4>4, <5>2, <6>1
        <5> QED BY <5>1, <5>2
      <4>6. F(m) = Start(c - 1)
            BY <3>2, <4>4, <4>5
      <4>7. e[m + 1] = <<f[c]>>
            BY <1>2, <4>4
      <4>8. Start(c - 1) \o <<f[c]>> = Start(c)
        <5>1. c \in Nat \ {0} /\ \A j \in 1 .. c : f[j] \in V
              BY <1>1, <1>2, <4>4
        <5> QED BY <5>1, AppendOne DEF Start
      <4> QED BY <3>5, <4>6, <4>7, <4>8
    <3> QED BY <3>6, <3>7
  <2>5. \A m \in Nat : m \in S => m + 1 \in S
    <3> TAKE m \in Nat
    <3> HAVE m \in S
    <3>1. ASSUME m + 1 <= n, NEW c \in 0 .. Len(s), Split(m + 1, c)
          PROVE  F(m + 1) = Start(c)
      <4> HIDE DEF F, Start, Split, S
      <4> QED BY <2>4, <3>1
    <3>2. m + 1 \in Nat
          OBVIOUS
    <3> HIDE DEF F, Start, Split
    <3>3. m + 1 <= n => \A c \in 0 .. Len(s) : Split(m + 1, c) => F(m + 1) = Start(c)
          BY <3>1
    <3> QED BY <3>2, <3>3, Zenon
  <2>6. n \in S
    <3> HIDE DEF S
    <3> QED BY <2>3, <2>5, <1>1, NatSetInduction
  <2>7. Split(n, Len(s))
        BY <1>1, <1>2
  <2>8. F(n) = Start(Len(s))
    <3>1. n <= n /\ Len(s) \in 0 .. Len(s)
          BY <1>1
    <3> HIDE DEF F, Start, Split
    <3> QED BY <2>6, <2>7, <3>1, Zenon
  <2> QED BY <1>5, <1>7, <2>1, <2>8 DEF f
<1> QED BY <1>6, <1>7

-----------------------------------------------------------------------------
(* What a step that leaves the configuration alone leaves alone with it.   *)
LEMMA Static ==
  ASSUME input' = input, cfg' = cfg
  PROVE  /\ Streams' = Streams /\ Promises' = Promises /\ Resends' = Resends
         /\ \A n : ChunkSize(n)' = ChunkSize(n) /\ Chunks(n)' = Chunks(n)
         /\ \A n, k : Chunk(n, k)' = Chunk(n, k)
<1>1. Streams' = Streams /\ Promises' = Promises /\ Resends' = Resends
      BY DEF Streams, Promises, Resends
<1>2. \A n : ChunkSize(n)' = ChunkSize(n)
      BY DEF ChunkSize
<1>3. \A n : Chunks(n)' = Chunks(n)
      BY <1>2 DEF Chunks
<1>4. \A n, k : Chunk(n, k)' = Chunk(n, k)
      BY <1>2 DEF Chunk
<1> QED BY <1>1, <1>2, <1>3, <1>4

LEMMA SameSend ==
  ASSUME NEW v \in Workers, SendInv(v), input' = input, cfg' = cfg,
         job'[v] = job[v], received'[v] = received[v], rejected'[v] = rejected[v],
         result'[v] = result[v]
  PROVE  SendInv(v)'
<1>1. /\ Positions(v)' = Positions(v) /\ Held(v)' = Held(v)
      /\ Encodable(v)' = Encodable(v)
      BY DEF Positions, Held, Encodable
<1>2. PassedUpTo(v)' = PassedUpTo(v) /\ Passed(v)' = Passed(v) /\ InWork(v)' = InWork(v)
      BY Static DEF PassedUpTo, Passed, InWork
<1>3. /\ Promises' = Promises /\ Resends' = Resends
      /\ Chunks(Len(job[v].batch))' = Chunks(Len(job'[v].batch))
      BY Static
<1> QED BY <1>1, <1>2, <1>3, Static DEF SendInv

(* A batch and what a chunk of it sends.                                   *)
LEMMA BatchType ==
  ASSUME NEW b \in Batches \cup {<< >>}
  PROVE  /\ Len(b) \in Nat /\ DOMAIN b = 1 .. Len(b)
         /\ \A i \in DOMAIN b : b[i] \in Signals
<1>1. CASE b = << >>
      BY <1>1
<1>2. CASE b \in Batches
  <2>1. b \in Seq(ToSet(b))
        BY <1>2, OutputAssumption
  <2>2. Len(b) \in Nat /\ DOMAIN b = 1 .. Len(b)
        BY <2>1
  <2>3. \A i \in DOMAIN b : b[i] \in ToSet(b)
        BY DEF ToSet
  <2> QED BY <1>2, <2>2, <2>3 DEF Signals
<1> QED BY <1>1, <1>2

LEMMA SentType ==
  ASSUME TypeOK, input.type \in Types, NEW w \in Workers
  PROVE  /\ PassedUpTo(w) \in Nat /\ ChunkSize(Len(job[w].batch)) \in Nat
         /\ Encodable(w) \subseteq Nat /\ Sent(w) \subseteq Encodable(w) \cap InWork(w)
         /\ \A i \in Encodable(w) : i \in Sent(w) <=>
              PassedUpTo(w) < i /\ i <= PassedUpTo(w) + ChunkSize(Len(job[w].batch))
<1> DEFINE b == job[w].batch
           k == job[w].next
           c == ChunkSize(Len(job[w].batch))
<1>1. b \in Batches \cup {<< >>} /\ k \in Nat
      BY DEF TypeOK
<1>2. Len(b) \in Nat /\ DOMAIN b = 1 .. Len(b)
      BY <1>1, BatchType
<1>3. c \in Nat
      BY <1>2, ChunkSizeType
<1>4. k * c \in Nat /\ (k + 1) * c = k * c + c
      BY <1>1, <1>3, NextBound
<1>5. PassedUpTo(w) = k * c
      BY DEF PassedUpTo
<1>6. /\ Chunk(Len(b), k) \subseteq 1 .. Len(b)
      /\ \A i \in Int : i \in Chunk(Len(b), k) <=> k * c < i /\ i <= (k + 1) * c /\ i <= Len(b)
      BY <1>1, <1>2, <1>3, ChunkHolds
<1>7. Encodable(w) \subseteq 1 .. Len(b)
      BY <1>2 DEF Encodable
<1>8. Sent(w) = {i \in Chunk(Len(b), k) : Encode(input.type, b[i]) # << >>}
      BY DEF Sent, Payload
<1>9. Sent(w) \subseteq Encodable(w) \cap InWork(w)
      BY <1>2, <1>6, <1>8 DEF Encodable, InWork
<1>10. ASSUME NEW i \in Encodable(w)
       PROVE  i \in Sent(w) <=> PassedUpTo(w) < i /\ i <= PassedUpTo(w) + c
  <2>1. i \in Int /\ i <= Len(b) /\ Encode(input.type, b[i]) # << >>
        BY <1>2, <1>7, <1>10 DEF Encodable
  <2>2. i \in Sent(w) <=> i \in Chunk(Len(b), k)
        BY <2>1, <1>8
  <2> QED BY <2>1, <2>2, <1>4, <1>5, <1>6
<1> QED BY <1>3, <1>4, <1>5, <1>7, <1>9, <1>10

(* The chunks that have been passed end where the next begins.             *)
LEMMA PassedBelow ==
  ASSUME TypeOK, input.type \in Types, NEW w \in Workers
  PROVE  Passed(w) \subseteq Nat /\ \A i \in Passed(w) : i <= PassedUpTo(w)
<1> DEFINE n == Len(job[w].batch)
           k == job[w].next
           c == ChunkSize(Len(job[w].batch))
<1>1. job[w].batch \in Batches \cup {<< >>} /\ k \in Nat
      BY DEF TypeOK
<1>2. n \in Nat
      BY <1>1, BatchType
<1>3. c \in Nat
      BY <1>2, ChunkSizeType
<1>4. ASSUME NEW j \in 0 .. k - 1, NEW i \in Chunk(n, j)
      PROVE  i \in Nat /\ i <= k * c
  <2>1. j \in Nat /\ j + 1 \in Nat /\ j + 1 <= k
        BY <1>1
  <2>2. i \in Nat /\ i <= (j + 1) * c
    <3>1. /\ Chunk(n, j) \subseteq 1 .. n
          /\ \A x \in Int : x \in Chunk(n, j) <=> j * c < x /\ x <= (j + 1) * c /\ x <= n
          BY <1>2, <1>3, <2>1, ChunkHolds
    <3> QED BY <3>1, <1>2
  <2>3. (j + 1) * c <= k * c /\ (j + 1) * c \in Nat /\ k * c \in Nat
    <3>1. PICK m \in Nat : m = j + 1
          BY <2>1
    <3>2. m * c <= k * c /\ m * c \in Nat /\ k * c \in Nat
          BY <3>1, <2>1, <1>1, <1>3, BoundGrows, NextBound
    <3> QED BY <3>1, <3>2
  <2> QED BY <2>2, <2>3
<1> QED BY <1>4 DEF Passed, PassedUpTo

-----------------------------------------------------------------------------
LEMMA InitOutput == Init => OutputInv
<1> SUFFICES ASSUME Init PROVE OutputInv
    OBVIOUS
<1>1. TypeOK
  <2>1. << >> \in Seq(Document)
        BY EmptySeq
  <2>2. received \in [Workers -> Seq(Document)]
        BY <2>1 DEF Init
  <2>3. job \in [Workers -> [batch : Batches \cup {<< >>}, next : Nat]]
        BY DEF Init, Idle
  <2>4. input \in Inputs /\ cfg.limit = 0
        BY DEF Init, Unbuilt
  <2> QED BY <2>2, <2>3, <2>4 DEF Init, TypeOK
<1>2. ConnInv /\ FaultsDoNotLinger
      BY DEF Init, ConnInv, FaultsDoNotLinger
<1>3. \A w \in Workers : result[w] = "none"
      BY DEF Init
<1> QED BY <1>1, <1>2, <1>3 DEF OutputInv

(* New of each package makes an integer of every limit.                    *)
LEMMA LimitType ==
  ASSUME NEW in \in Inputs PROVE Limit(in) \in Int
<1>1. Decoded(in.extra, 0) \in Int
      BY OutputAssumption DEF Decoded
<1> QED BY <1>1 DEF Limit, OrDefault

LEMMA BuildInv ==
  ASSUME OutputInv, Build PROVE OutputInv'
<1>1. TypeOK /\ ConnInv
      BY DEF OutputInv
<1>2. \A w \in Workers : result'[w] = "none"
      BY <1>1 DEF Build, ConnInv, sendVars
<1>3. conn' \in {"built", "failed"} /\ (conn' = "built" => input.type \in Types)
      BY DEF Build
<1>4. cfg'.limit \in Int
  <2>1. Limit(input) \in Int
        BY <1>1, LimitType DEF TypeOK
  <2>2. ASSUME NEW a, NEW t, cfg' = [limit |-> Limit(input), acks |-> a, transport |-> t]
        PROVE  cfg'.limit = Limit(input)
        BY <2>2
  <2>3. \/ \E a, t : cfg' = [limit |-> Limit(input), acks |-> a, transport |-> t]
        \/ cfg' = cfg
        BY Zenon DEF Build
  <2>4. cfg.limit \in Int
        BY <1>1 DEF TypeOK
  <2> QED BY <2>1, <2>2, <2>3, <2>4
<1>5. TypeOK'
      BY <1>1, <1>3, <1>4 DEF Build, TypeOK, sendVars
<1>6. ConnInv'
      BY <1>2, <1>3 DEF Build, ConnInv
<1>7. FaultsDoNotLinger'
      BY <1>2 DEF FaultsDoNotLinger
<1> QED BY <1>2, <1>5, <1>6, <1>7 DEF OutputInv

LEMMA ConnectInv ==
  ASSUME OutputInv, Connect PROVE OutputInv'
<1>1. TypeOK /\ ConnInv
      BY DEF OutputInv
<1>2. \A w \in Workers : result'[w] = "none"
      BY <1>1 DEF Connect, ConnInv, sendVars
<1>3. conn = "built" /\ conn' \in {"up", "failed"} /\ input' = input
      BY DEF Connect
<1>4. TypeOK'
      BY <1>1, <1>3 DEF Connect, TypeOK, sendVars
<1>5. ConnInv'
      BY <1>1, <1>2, <1>3 DEF ConnInv
<1>6. FaultsDoNotLinger'
      BY <1>2 DEF FaultsDoNotLinger
<1> QED BY <1>2, <1>4, <1>5, <1>6 DEF OutputInv

-----------------------------------------------------------------------------
(* The steps of one Send.                                                  *)
LEMMA SendBeginInv ==
  ASSUME OutputInv, NEW w \in Workers, NEW batch \in Batches, SendBegin(w, batch)
  PROVE  OutputInv'
<1>1. TypeOK /\ ConnInv /\ FaultsDoNotLinger /\ input.type \in Types
      BY DEF OutputInv, SendBegin, ConnInv
<1>2. input' = input /\ cfg' = cfg /\ conn' = conn
      BY DEF SendBegin
<1>3. TypeOK'
  <2>1. job' \in [Workers -> [batch : Batches \cup {<< >>}, next : Nat]]
        BY <1>1 DEF SendBegin, TypeOK
  <2>2. received' \in [Workers -> Seq(Document)]
        BY <1>1, EmptySeq DEF SendBegin, NothingSent, TypeOK
  <2>3. /\ rejected' \in [Workers -> SUBSET Nat] /\ healthy' \in [Workers -> BOOLEAN]
        /\ result' \in [Workers -> {"none", "busy", "delivered", "failed"}]
        BY <1>1 DEF SendBegin, TypeOK
  <2> QED BY <1>1, <1>2, <2>1, <2>2, <2>3 DEF TypeOK
<1>4. ConnInv'
      BY <1>1, <1>2, Static DEF SendBegin, ConnInv
<1>5. FaultsDoNotLinger'
      BY <1>1, <1>2 DEF SendBegin, FaultsDoNotLinger, TypeOK
<1>6. ASSUME NEW v \in Workers, result'[v] # "none" PROVE SendInv(v)'
  <2>1. CASE v = w
    <3>1. /\ job'[w] = [batch |-> batch, next |-> 0] /\ received'[w] = << >>
          /\ rejected'[w] = {} /\ result'[w] = "busy"
          BY <1>1 DEF SendBegin, NothingSent, TypeOK
    <3>2. Positions(w)' = << >>
          BY <3>1 DEF Positions
    <3>3. Increasing(<< >>) /\ ToSet(<< >>) = {}
          BY DEF Increasing, ToSet
    <3>4. PassedUpTo(w)' = 0 /\ Encodable(w)' \subseteq Nat \ {0}
      <4>1. Len(batch) \in Nat /\ DOMAIN batch = 1 .. Len(batch)
            BY BatchType
      <4>2. ChunkSize(Len(batch)) \in Nat
            BY <4>1, <1>1, ChunkSizeType
      <4>3. PassedUpTo(w)' = 0
            BY <4>2, <3>1, <1>2, Static DEF PassedUpTo
      <4> QED BY <4>1, <4>3, <3>1 DEF Encodable
    <3>5. SendInv(w)'
      <4>1. Increasing(Positions(w))' /\ Held(w)' = {}
            BY <3>2, <3>3 DEF Held
      <4>2. \A i \in Encodable(w)' : ~(i <= PassedUpTo(w)')
            BY <3>4
      <4> QED BY <3>1, <4>1, <4>2 DEF SendInv
    <3> QED BY <2>1, <3>5
  <2>2. CASE v # w
    <3>1. /\ job'[v] = job[v] /\ received'[v] = received[v]
          /\ rejected'[v] = rejected[v] /\ result'[v] = result[v]
          BY <2>2, <1>1 DEF SendBegin, NothingSent, TypeOK
    <3>2. SendInv(v)
          BY <1>6, <3>1 DEF OutputInv
    <3> QED BY <1>2, <3>1, <3>2, SameSend
  <2> QED BY <2>1, <2>2
<1> QED BY <1>3, <1>4, <1>5, <1>6 DEF OutputInv

LEMMA OthersKept ==
  ASSUME OutputInv, NEW w \in Workers, input' = input, cfg' = cfg,
         \A v \in Workers \ {w} : /\ job'[v] = job[v] /\ received'[v] = received[v]
                                  /\ rejected'[v] = rejected[v] /\ result'[v] = result[v]
  PROVE  \A v \in Workers \ {w} : result'[v] # "none" => SendInv(v)'
<1> SUFFICES ASSUME NEW v \in Workers \ {w}, result'[v] # "none" PROVE SendInv(v)'
    OBVIOUS
<1>1. SendInv(v)
      BY DEF OutputInv
<1> QED BY <1>1, SameSend

LEMMA BusyOutput ==
  ASSUME OutputInv, NEW w \in Workers, result[w] = "busy"
  PROVE  TypeOK /\ ConnInv /\ FaultsDoNotLinger /\ input.type \in Types /\ SendInv(w)
BY DEF OutputInv, ConnInv

(* Passing a chunk.                                                        *)
LEMMA NextPassed ==
  ASSUME TypeOK, input.type \in Types, NEW w \in Workers,
         input' = input, cfg' = cfg, NextChunk(w)
  PROVE  /\ job' \in [Workers -> [batch : Batches \cup {<< >>}, next : Nat]]
         /\ \A v \in Workers \ {w} : job'[v] = job[v]
         /\ Encodable(w)' = Encodable(w)
         /\ PassedUpTo(w)' = PassedUpTo(w) + ChunkSize(Len(job[w].batch))
         /\ Passed(w) \cup InWork(w) \subseteq Passed(w)'
<1> DEFINE b == job[w].batch
           k == job[w].next
           c == ChunkSize(Len(job[w].batch))
<1>1. b \in Batches \cup {<< >>} /\ k \in Nat
      BY DEF TypeOK
<1>2. job'[w].batch = b /\ job'[w].next = k + 1
      BY DEF TypeOK, NextChunk
<1>3. c \in Nat
      BY <1>1, BatchType, ChunkSizeType
<1>4. PassedUpTo(w)' = (k + 1) * c
      BY <1>2, Static DEF PassedUpTo
<1>5. PassedUpTo(w) = k * c
      BY DEF PassedUpTo
<1>6. (k + 1) * c = k * c + c
      BY <1>1, <1>3, NextBound
<1>7. Encodable(w)' = Encodable(w)
      BY <1>2 DEF Encodable
<1>8. Passed(w)' = UNION {Chunk(Len(b), j) : j \in 0 .. (k + 1) - 1}
      BY <1>2, Static DEF Passed
<1>9. 0 .. k - 1 \subseteq 0 .. (k + 1) - 1 /\ k \in 0 .. (k + 1) - 1
      BY <1>1
<1>10. Passed(w) \cup InWork(w) \subseteq Passed(w)'
      BY <1>8, <1>9 DEF Passed, InWork
<1>11. job' \in [Workers -> [batch : Batches \cup {<< >>}, next : Nat]]
  <2> DEFINE r == [job[w] EXCEPT !.next = @ + 1]
             R == [batch : Batches \cup {<< >>}, next : Nat]
  <2>1. job \in [Workers -> R]
        BY DEF TypeOK
  <2>2. r \in R
        BY <2>1
  <2>3. job' = [job EXCEPT ![w] = r]
        BY DEF NextChunk
  <2> HIDE DEF r, R
  <2>4. job' \in [Workers -> R]
        BY <2>1, <2>2, <2>3
  <2> QED BY <2>4 DEF R
<1>12. \A v \in Workers \ {w} : job'[v] = job[v]
      BY DEF TypeOK, NextChunk
<1> QED BY <1>4, <1>5, <1>6, <1>7, <1>10, <1>11, <1>12

LEMMA SkipChunkInv ==
  ASSUME OutputInv, NEW w \in Workers, SkipChunk(w) PROVE OutputInv'
<1>1. TypeOK /\ ConnInv /\ FaultsDoNotLinger /\ input.type \in Types /\ SendInv(w)
      BY BusyOutput DEF SkipChunk, HasChunk
<1>2. /\ input' = input /\ cfg' = cfg /\ conn' = conn /\ received' = received
      /\ rejected' = rejected /\ healthy' = healthy /\ result' = result /\ NextChunk(w)
      /\ result[w] = "busy" /\ Sent(w) = {}
      BY DEF SkipChunk, HasChunk
<1>3. TypeOK'
      BY <1>1, <1>2, NextPassed DEF TypeOK
<1>4. ConnInv' /\ FaultsDoNotLinger'
      BY <1>1, <1>2, Static DEF ConnInv, FaultsDoNotLinger
<1>5. SendInv(w)'
  <2> DEFINE c == ChunkSize(Len(job[w].batch))
  <2>1. /\ Positions(w)' = Positions(w) /\ Held(w)' = Held(w) /\ Encodable(w)' = Encodable(w)
        /\ PassedUpTo(w)' = PassedUpTo(w) + c /\ Passed(w) \cup InWork(w) \subseteq Passed(w)'
        /\ Resends' = Resends
        BY <1>1, <1>2, NextPassed, Static DEF Positions, Held
  <2>2. /\ PassedUpTo(w) \in Nat /\ c \in Nat /\ Encodable(w) \subseteq Nat
        /\ \A i \in Encodable(w) : ~(PassedUpTo(w) < i /\ i <= PassedUpTo(w) + c)
        BY <1>1, <1>2, SentType
  <2> HIDE DEF c
  <2>3. rejected[w] \subseteq Nat
        BY <1>1 DEF TypeOK
  <2>4. /\ Resends' \/ Increasing(Positions(w))'
        /\ Held(w)' \subseteq Encodable(w)' \ rejected'[w]
        BY <1>1, <1>2, <2>1 DEF SendInv
  <2>5. \A i \in rejected'[w] : i <= PassedUpTo(w)'
        BY <1>1, <1>2, <2>1, <2>2, <2>3 DEF SendInv
  <2>6. Held(w)' \subseteq Passed(w)'
        BY <1>1, <1>2, <2>1 DEF SendInv
  <2>7. Promises' => \A i \in Encodable(w)' :
          i <= PassedUpTo(w)' => i \in Held(w)' \cup rejected'[w]
    <3>1. Promises' = Promises
          BY <1>2, Static
    <3>2. ASSUME Promises, NEW i \in Encodable(w), i <= PassedUpTo(w) + c
          PROVE  i \in Held(w) \cup rejected[w]
      <4>1. i <= PassedUpTo(w)
            BY <2>2, <3>2
      <4> QED BY <1>1, <3>2, <4>1 DEF SendInv
    <3> QED BY <1>2, <2>1, <3>1, <3>2
  <2> QED BY <1>2, <2>4, <2>5, <2>6, <2>7 DEF SendInv
<1>6. \A v \in Workers \ {w} : result'[v] # "none" => SendInv(v)'
      BY <1>1, <1>2, NextPassed, OthersKept
<1> QED BY <1>3, <1>4, <1>5, <1>6 DEF OutputInv

(* A failed Send keeps what it has passed.                                 *)
LEMMA WriteBrokenInv ==
  ASSUME OutputInv, NEW w \in Workers, WriteBroken(w) PROVE OutputInv'
<1>1. TypeOK /\ ConnInv /\ FaultsDoNotLinger /\ input.type \in Types /\ SendInv(w)
      BY BusyOutput DEF WriteBroken, HasChunk
<1>2. /\ input' = input /\ cfg' = cfg /\ conn' = conn /\ received' = received /\ job' = job
      /\ rejected' = rejected /\ healthy' = healthy /\ result' = [result EXCEPT ![w] = "failed"]
      /\ result[w] = "busy" /\ conn = "broken"
      BY DEF WriteBroken, HasChunk, Aborts
<1>3. TypeOK'
      BY <1>1, <1>2 DEF TypeOK
<1>4. ConnInv'
      BY <1>1, <1>2, Static DEF ConnInv
<1>5. FaultsDoNotLinger'
      BY <1>1, <1>2 DEF ConnInv, FaultsDoNotLinger, Streams, TypeOK
<1>6. result'[w] = "failed" /\ \A v \in Workers \ {w} : result'[v] = result[v]
      BY <1>1, <1>2 DEF TypeOK
<1>7. SendInv(w)'
  <2>1. /\ Positions(w)' = Positions(w) /\ Encodable(w)' = Encodable(w)
        /\ PassedUpTo(w)' = PassedUpTo(w) /\ Passed(w)' = Passed(w) /\ Promises' = Promises
        /\ Held(w)' = Held(w) /\ Resends' = Resends /\ InWork(w)' = InWork(w)
        BY <1>2, Static DEF Positions, Held, Encodable, PassedUpTo, Passed, InWork
  <2> QED BY <1>1, <1>2, <1>6, <2>1 DEF SendInv
<1>8. \A v \in Workers \ {w} : result'[v] # "none" => SendInv(v)'
      BY <1>2, <1>6, OthersKept
<1> QED BY <1>3, <1>4, <1>5, <1>7, <1>8 DEF OutputInv

LEMMA SendEndInv ==
  ASSUME OutputInv, NEW w \in Workers, SendEnd(w) PROVE OutputInv'
<1>1. TypeOK /\ ConnInv /\ FaultsDoNotLinger /\ input.type \in Types /\ SendInv(w)
      BY BusyOutput DEF SendEnd
<1>2. /\ input' = input /\ cfg' = cfg /\ conn' = conn /\ received' = received /\ job' = job
      /\ rejected' = rejected /\ healthy' = healthy /\ result' = [result EXCEPT ![w] = "delivered"]
      /\ result[w] = "busy" /\ ~(job[w].next < Chunks(Len(job[w].batch)))
      BY DEF SendEnd, HasChunk
<1>3. TypeOK'
      BY <1>1, <1>2 DEF TypeOK
<1>4. ConnInv'
      BY <1>1, <1>2, Static DEF ConnInv, TypeOK
<1>5. FaultsDoNotLinger'
      BY <1>1, <1>2 DEF FaultsDoNotLinger, TypeOK
<1>6. result'[w] = "delivered" /\ \A v \in Workers \ {w} : result'[v] = result[v]
      BY <1>1, <1>2 DEF TypeOK
<1>7. SendInv(w)'
  <2>1. /\ Positions(w)' = Positions(w) /\ Encodable(w)' = Encodable(w)
        /\ PassedUpTo(w)' = PassedUpTo(w) /\ Passed(w)' = Passed(w) /\ Promises' = Promises
        /\ Held(w)' = Held(w) /\ Resends' = Resends /\ InWork(w)' = InWork(w)
        /\ Chunks(Len(job[w].batch))' = Chunks(Len(job[w].batch))
        BY <1>2, Static DEF Positions, Held, Encodable, PassedUpTo, Passed, InWork
  <2> QED BY <1>1, <1>2, <1>6, <2>1 DEF SendInv
<1>8. \A v \in Workers \ {w} : result'[v] # "none" => SendInv(v)'
      BY <1>2, <1>6, OthersKept
<1> QED BY <1>3, <1>4, <1>5, <1>7, <1>8 DEF OutputInv

-----------------------------------------------------------------------------
(* One request.  The server's copy grows by what it took, in order.        *)
LEMMA PositionsType ==
  ASSUME TypeOK, NEW w \in Workers
  PROVE  /\ Positions(w) \in Seq(Nat) /\ Len(Positions(w)) = Len(received[w])
         /\ \A n \in 1 .. Len(received[w]) : Positions(w)[n] = received[w][n].i
<1>1. received[w] \in Seq(Document)
      BY DEF TypeOK
<1>2. /\ Len(received[w]) \in Nat /\ DOMAIN received[w] = 1 .. Len(received[w])
      /\ \A n \in 1 .. Len(received[w]) : received[w][n] \in Document
      BY <1>1
<1>3. /\ Positions(w) = [n \in 1 .. Len(received[w]) |-> received[w][n].i]
      /\ \A n \in 1 .. Len(received[w]) : received[w][n].i \in Nat
      BY <1>2 DEF Positions, Document
<1> QED BY <1>2, <1>3, IsASeq

LEMMA PositionsGrow ==
  ASSUME TypeOK, TypeOK', NEW w \in Workers, NEW docs \in Seq(Document), NEW order \in Seq(Nat),
         Len(docs) = Len(order), \A n \in 1 .. Len(order) : docs[n].i = order[n],
         received'[w] = received[w] \o docs
  PROVE  Positions(w)' = Positions(w) \o order
<1> DEFINE old == received[w]
           new == received'[w]
<1>1. old \in Seq(Document) /\ new \in Seq(Document) /\ Len(old) \in Nat /\ Len(order) \in Nat
      BY DEF TypeOK
<1>2. /\ Len(new) = Len(old) + Len(order)
      /\ \A n \in 1 .. Len(old) + Len(order) : new[n] = IF n <= Len(old) THEN old[n] ELSE docs[n - Len(old)]
  <2>1. PICK s \in Seq(Document), t \in Seq(Document) : s = old /\ t = docs
        BY <1>1
  <2>2. /\ Len(s \o t) = Len(s) + Len(t)
        /\ \A n \in 1 .. Len(s) + Len(t) :
             (s \o t)[n] = IF n <= Len(s) THEN s[n] ELSE t[n - Len(s)]
        BY ConcatProperties
  <2>3. new = s \o t /\ Len(t) = Len(order)
        BY <2>1
  <2> HIDE DEF old, new
  <2>4. Len(new) = Len(old) + Len(order)
        BY <2>1, <2>2, <2>3
  <2>5. ASSUME NEW n \in 1 .. Len(old) + Len(order)
        PROVE  new[n] = IF n <= Len(old) THEN old[n] ELSE docs[n - Len(old)]
        BY <2>1, <2>2, <2>3
  <2> QED BY <2>4, <2>5
<1>3. /\ Positions(w)' \in Seq(Nat) /\ Len(Positions(w)') = Len(new)
      /\ \A n \in 1 .. Len(new) : Positions(w)'[n] = new[n].i
  <2>1. new \in Seq(Document) /\ Len(new) \in Nat /\ DOMAIN new = 1 .. Len(new)
        BY <1>1
  <2>2. \A n \in 1 .. Len(new) : new[n] \in Document
        BY <2>1
  <2>3. /\ Positions(w)' = [n \in 1 .. Len(new) |-> new[n].i]
        /\ \A n \in 1 .. Len(new) : new[n].i \in Nat
        BY <2>1, <2>2 DEF Positions, Document
  <2> QED BY <2>1, <2>3, IsASeq
<1>4. /\ Positions(w) \in Seq(Nat) /\ Len(Positions(w)) = Len(old)
      /\ \A n \in 1 .. Len(old) : Positions(w)[n] = old[n].i
      BY PositionsType
<1>5. /\ Positions(w) \o order \in Seq(Nat) /\ Len(Positions(w) \o order) = Len(old) + Len(order)
      /\ \A n \in 1 .. Len(old) + Len(order) : (Positions(w) \o order)[n] =
            IF n <= Len(old) THEN Positions(w)[n] ELSE order[n - Len(old)]
  <2>1. /\ Positions(w) \o order \in Seq(Nat)
        /\ Len(Positions(w) \o order) = Len(Positions(w)) + Len(order)
        /\ \A n \in 1 .. Len(Positions(w)) + Len(order) : (Positions(w) \o order)[n] =
             IF n <= Len(Positions(w)) THEN Positions(w)[n] ELSE order[n - Len(Positions(w))]
        BY <1>4, ConcatProperties
  <2> QED BY <1>4, <2>1
<1>6. ASSUME NEW n \in 1 .. Len(old) + Len(order)
      PROVE  Positions(w)'[n] = (Positions(w) \o order)[n]
  <2>1. Positions(w)'[n] = new[n].i
        BY <1>2, <1>3
  <2>2. CASE n <= Len(old)
    <3>1. n \in 1 .. Len(old)
          BY <2>2, <1>1
    <3> QED BY <2>1, <2>2, <3>1, <1>2, <1>4, <1>5
  <2>3. CASE ~(n <= Len(old))
    <3>1. n - Len(old) \in 1 .. Len(order)
          BY <2>3, <1>1
    <3> QED BY <2>1, <2>3, <3>1, <1>2, <1>5
  <2> QED BY <2>2, <2>3
<1>7. PICK s \in Seq(Nat) : s = Positions(w)'
      BY <1>3
<1>8. PICK t \in Seq(Nat) : t = Positions(w) \o order
      BY <1>5
<1>9. Len(s) = Len(t) /\ \A n \in 1 .. Len(s) : s[n] = t[n]
      BY <1>2, <1>3, <1>5, <1>6, <1>7, <1>8
<1>10. s = t
       BY <1>9, SeqEqual
<1> QED BY <1>7, <1>8, <1>10

LEMMA DocumentsType ==
  ASSUME TypeOK, input.type \in Types, NEW w \in Workers, NEW order \in Seq(Sent(w))
  PROVE  /\ order \in Seq(Nat) /\ ToSet(order) \subseteq Sent(w)
         /\ Documents(w, order) \in Seq(Document) /\ Len(Documents(w, order)) = Len(order)
         /\ \A n \in 1 .. Len(order) : Documents(w, order)[n].i = order[n]
<1> DEFINE b == job[w].batch
           Doc(n) == [i |-> order[n], doc |-> Encode(input.type, b[order[n]])[1]]
<1>1. Sent(w) \subseteq Encodable(w) /\ Sent(w) \subseteq Nat
      BY SentType
<1>2. /\ Len(order) \in Nat /\ DOMAIN order = 1 .. Len(order)
      /\ \A n \in 1 .. Len(order) : order[n] \in Sent(w)
      BY LenProperties, ElementOfSeq
<1>3. order \in Seq(Nat) /\ ToSet(order) \subseteq Sent(w)
      BY <1>1, <1>2, SeqMonotonic DEF ToSet
<1>4. ASSUME NEW n \in 1 .. Len(order) PROVE Doc(n) \in Document /\ Doc(n).i = order[n]
  <2>1. /\ b \in Batches \cup {<< >>} /\ order[n] \in DOMAIN b /\ order[n] \in Nat
        /\ Encode(input.type, b[order[n]]) # << >>
        BY <1>1, <1>2 DEF TypeOK, Encodable
  <2>2. input \in Inputs /\ b[order[n]] \in Signals
        BY <2>1, BatchType DEF TypeOK
  <2>3. PICK p \in Inputs \X Signals : p = <<input, b[order[n]]>>
        BY <2>2
  <2>4. p \in Encoded /\ Encode(input.type, b[order[n]])[1] = Encode(p[1].type, p[2])[1]
        BY <2>1, <2>3 DEF Encoded
  <2>5. Encode(input.type, b[order[n]])[1] \in {Encode(q[1].type, q[2])[1] : q \in Encoded}
        BY <2>4
  <2> QED BY <2>1, <2>5 DEF Document
<1>5. Documents(w, order) = [n \in 1 .. Len(order) |-> Doc(n)]
      BY <1>2 DEF Documents
<1> HIDE DEF Doc
<1>6. Documents(w, order) \in Seq(Document) /\ Len(Documents(w, order)) = Len(order)
      BY <1>2, <1>4, <1>5, IsASeq
<1>7. \A n \in 1 .. Len(order) : Documents(w, order)[n].i = order[n]
      BY <1>4, <1>5
<1> QED BY <1>3, <1>6, <1>7

(* The copy stays in order and without repetition unless the client        *)
(* repeats, for what is new comes from behind all that has been passed.    *)
LEMMA SentAhead ==
  ASSUME OutputInv, NEW w \in Workers, result[w] = "busy"
  PROVE  \A x \in (IF Resends THEN {} ELSE Held(w)) \cup rejected[w], y \in Sent(w) : x < y
<1>1. TypeOK /\ input.type \in Types /\ SendInv(w)
      BY BusyOutput
<1>2. ~Resends => \A x \in Held(w) : x \in Nat /\ x <= PassedUpTo(w)
  <2>1. ~Resends => Held(w) \subseteq Passed(w)
        BY <1>1 DEF SendInv
  <2> QED BY <1>1, <2>1, PassedBelow
<1>3. \A x \in rejected[w] : x \in Nat /\ x <= PassedUpTo(w)
      BY <1>1 DEF SendInv, TypeOK
<1>4. PassedUpTo(w) \in Nat /\ \A y \in Sent(w) : y \in Nat /\ PassedUpTo(w) < y
      BY <1>1, SentType
<1> QED BY <1>2, <1>3, <1>4

LEMMA SentDiffers ==
  ASSUME NEW S \in SUBSET Nat, NEW T \in SUBSET Nat, \A x \in S, y \in T : x < y
  PROVE  \A x \in S, y \in T : x # y
OBVIOUS

LEMMA ArrivesType ==
  ASSUME TypeOK, input.type \in Types, NEW w \in Workers, NEW order, Arrives(w, order)
  PROVE  /\ order \in Seq(Nat) /\ ToSet(order) \subseteq Sent(w) /\ Increasing(order)
         /\ Documents(w, order) \in Seq(Document) /\ Len(Documents(w, order)) = Len(order)
         /\ \A n \in 1 .. Len(order) : Documents(w, order)[n].i = order[n]
         /\ received' \in [Workers -> Seq(Document)]
         /\ received'[w] = received[w] \o Documents(w, order)
         /\ \A v \in Workers \ {w} : received'[v] = received[v]
<1>1. /\ order \in Seq(Sent(w)) /\ Increasing(order)
      /\ received' = [received EXCEPT ![w] = @ \o Documents(w, order)]
      BY DEF Arrives
<1>2. /\ order \in Seq(Nat) /\ ToSet(order) \subseteq Sent(w)
      /\ Documents(w, order) \in Seq(Document) /\ Len(Documents(w, order)) = Len(order)
      /\ \A n \in 1 .. Len(order) : Documents(w, order)[n].i = order[n]
      BY <1>1, DocumentsType
<1>3. received[w] \o Documents(w, order) \in Seq(Document)
      BY <1>2, ConcatProperties DEF TypeOK
<1>4. /\ received' \in [Workers -> Seq(Document)]
      /\ received'[w] = received[w] \o Documents(w, order)
      /\ \A v \in Workers \ {w} : received'[v] = received[v]
      BY <1>1, <1>3 DEF TypeOK
<1> QED BY <1>1, <1>2, <1>4

LEMMA ArrivesGrows ==
  ASSUME OutputInv, TypeOK', NEW w \in Workers, NEW order, result[w] = "busy", Arrives(w, order)
  PROVE  /\ Held(w)' = Held(w) \cup ToSet(order)
         /\ Resends \/ Increasing(Positions(w))'
<1>1. TypeOK /\ input.type \in Types /\ SendInv(w)
      BY BusyOutput
<1>2. /\ order \in Seq(Nat) /\ ToSet(order) \subseteq Sent(w) /\ Increasing(order)
      /\ Documents(w, order) \in Seq(Document) /\ Len(Documents(w, order)) = Len(order)
      /\ \A n \in 1 .. Len(order) : Documents(w, order)[n].i = order[n]
      /\ received'[w] = received[w] \o Documents(w, order)
      BY <1>1, ArrivesType
<1>3. Positions(w)' = Positions(w) \o order
      BY <1>1, <1>2, PositionsGrow
<1>4. Positions(w) \in Seq(Nat)
      BY <1>1, PositionsType
<1>5. ToSet(Positions(w) \o order) = ToSet(Positions(w)) \cup ToSet(order)
      BY <1>2, <1>4, ToSetOfConcat
<1>6. ASSUME ~Resends PROVE Increasing(Positions(w) \o order)
  <2>1. \A x \in ToSet(Positions(w)), y \in ToSet(order) : x < y
        BY <1>2, <1>6, SentAhead DEF Held
  <2>2. Increasing(Positions(w))
        BY <1>1, <1>6 DEF SendInv
  <2> QED BY <1>2, <1>4, <2>1, <2>2, IncreasingConcat
<1> QED BY <1>3, <1>5, <1>6 DEF Held

(* Another copy of what has arrived, or will: the chunk stays in work.     *)
LEMMA AnswerLostInv ==
  ASSUME OutputInv, NEW w \in Workers, NEW order, HasChunk(w), AnswerLost(w, order)
  PROVE  OutputInv'
<1>1. /\ TypeOK /\ ConnInv /\ FaultsDoNotLinger /\ input.type \in Types /\ SendInv(w)
      /\ result[w] = "busy"
      BY BusyOutput DEF HasChunk
<1>2. /\ input' = input /\ cfg' = cfg /\ conn' = conn /\ job' = job /\ rejected' = rejected
      /\ healthy' = healthy /\ result' = result /\ Resends /\ Arrives(w, order)
      BY DEF AnswerLost
<1>3. /\ ToSet(order) \subseteq Sent(w) /\ received' \in [Workers -> Seq(Document)]
      /\ \A v \in Workers \ {w} : received'[v] = received[v]
      BY <1>1, <1>2, ArrivesType
<1>4. TypeOK'
      BY <1>1, <1>2, <1>3 DEF TypeOK
<1>5. ConnInv' /\ FaultsDoNotLinger'
      BY <1>1, <1>2, Static DEF ConnInv, FaultsDoNotLinger
<1>6. SendInv(w)'
  <2>1. /\ PassedUpTo(w)' = PassedUpTo(w) /\ Passed(w)' = Passed(w) /\ InWork(w)' = InWork(w)
        /\ Encodable(w)' = Encodable(w) /\ Promises' = Promises /\ Resends' = Resends
        BY <1>2, Static DEF PassedUpTo, Passed, InWork, Encodable
  <2>2. Held(w)' = Held(w) \cup ToSet(order)
        BY <1>1, <1>2, <1>4, ArrivesGrows
  <2>3. /\ PassedUpTo(w) \in Nat /\ Encodable(w) \subseteq Nat
        /\ Sent(w) \subseteq Encodable(w) \cap InWork(w)
        BY <1>1, SentType
  <2>4. \A x \in rejected[w], y \in Sent(w) : x # y
    <3>1. rejected[w] \in SUBSET Nat /\ Sent(w) \in SUBSET Nat
          BY <1>1, <2>3 DEF TypeOK
    <3>2. \A x \in rejected[w], y \in Sent(w) : x < y
          BY <1>1, SentAhead
    <3> QED BY <3>1, <3>2, SentDiffers
  <2>5. Held(w)' \subseteq Encodable(w)' \ rejected'[w]
        BY <1>1, <1>2, <1>3, <2>1, <2>2, <2>3, <2>4 DEF SendInv
  <2>6. Held(w)' \subseteq Passed(w)' \cup InWork(w)'
        BY <1>1, <1>3, <2>1, <2>2, <2>3 DEF SendInv
  <2>7. /\ \A i \in rejected'[w] : i <= PassedUpTo(w)'
        /\ result'[w] = "busy"
        BY <1>1, <1>2, <2>1 DEF SendInv
  <2>8. Promises' => \A i \in Encodable(w)' :
          i <= PassedUpTo(w)' => i \in Held(w)' \cup rejected'[w]
        BY <1>1, <1>2, <2>1, <2>2 DEF SendInv
  <2> QED BY <1>2, <2>1, <2>5, <2>6, <2>7, <2>8 DEF SendInv
<1>7. \A v \in Workers \ {w} : result'[v] # "none" => SendInv(v)'
      BY <1>2, <1>3, OthersKept
<1> QED BY <1>4, <1>5, <1>6, <1>7 DEF OutputInv

LEMMA SendChunkInv ==
  ASSUME OutputInv, NEW w \in Workers, NEW answer, NEW order, HasChunk(w),
         SendChunk(w, answer, order)
  PROVE  OutputInv'
<1> DEFINE took == ToSet(order)
           c == ChunkSize(Len(job[w].batch))
<1>1. /\ TypeOK /\ ConnInv /\ FaultsDoNotLinger /\ input.type \in Types /\ SendInv(w)
      /\ result[w] = "busy"
      BY BusyOutput DEF HasChunk
<1>2. /\ input' = input /\ cfg' = cfg /\ conn = "up"
      /\ Arrives(w, order)
      BY DEF SendChunk
<1>3. /\ rejected' = [rejected EXCEPT ![w] = IF answer = "ok" /\ Promises
                                            THEN @ \cup (Sent(w) \ (took \cup Held(w))) ELSE @]
      /\ healthy' = [healthy EXCEPT ![w] = @ /\ answer = "ok"]
      /\ conn' = IF Streams /\ answer # "ok" THEN "broken" ELSE "up"
      BY DEF SendChunk
<1>4. \/ answer = "ok" /\ NextChunk(w) /\ result' = result
      \/ answer # "ok" /\ job' = job /\ result' = [result EXCEPT ![w] = "failed"]
      BY DEF SendChunk, Answers, IsError, Aborts, CarriesOn
<1>5. took \subseteq Sent(w) /\ received' \in [Workers -> Seq(Document)]
      BY <1>1, <1>2, ArrivesType
<1>7. rejected'[w] = (IF answer = "ok" /\ Promises
                      THEN rejected[w] \cup (Sent(w) \ (took \cup Held(w))) ELSE rejected[w])
      BY <1>1, <1>3 DEF TypeOK
<1>8. /\ PassedUpTo(w) \in Nat /\ c \in Nat /\ Encodable(w) \subseteq Nat
      /\ Sent(w) \subseteq Encodable(w) \cap InWork(w)
      /\ \A i \in Encodable(w) : i \in Sent(w) <=> PassedUpTo(w) < i /\ i <= PassedUpTo(w) + c
      BY <1>1, SentType
<1>9. \A v \in Workers \ {w} : /\ job'[v] = job[v] /\ received'[v] = received[v]
                               /\ rejected'[v] = rejected[v] /\ result'[v] = result[v]
  <2>1. \A v \in Workers \ {w} : received'[v] = received[v] /\ rejected'[v] = rejected[v]
        BY <1>1, <1>2, <1>3, ArrivesType DEF TypeOK
  <2>2. \A v \in Workers \ {w} : job'[v] = job[v]
        BY <1>1, <1>2, <1>4, NextPassed
  <2>3. \A v \in Workers \ {w} : result'[v] = result[v]
        BY <1>1, <1>4 DEF TypeOK
  <2> QED BY <2>1, <2>2, <2>3
<1> HIDE DEF took, c
<1>10. TypeOK'
  <2>2. rejected' \in [Workers -> SUBSET Nat]
    <3>1. rejected'[w] \subseteq Nat
          BY <1>1, <1>7, <1>8 DEF TypeOK
    <3>2. \A v \in Workers : rejected'[v] \subseteq Nat
          BY <1>1, <1>9, <3>1 DEF TypeOK
    <3>3. rejected' = [v \in Workers |-> rejected'[v]]
          BY <1>1, <1>3 DEF TypeOK
    <3> QED BY <3>2, <3>3
  <2>3. job' \in [Workers -> [batch : Batches \cup {<< >>}, next : Nat]]
        BY <1>1, <1>2, <1>4, NextPassed DEF TypeOK
  <2>4. healthy' \in [Workers -> BOOLEAN]
        BY <1>1, <1>3 DEF TypeOK
  <2>5. /\ result' \in [Workers -> {"none", "busy", "delivered", "failed"}]
        /\ conn' \in {"unbuilt", "built", "up", "broken", "failed"}
        BY <1>1, <1>3, <1>4 DEF TypeOK
  <2> QED BY <1>1, <1>2, <1>5, <2>2, <2>3, <2>4, <2>5 DEF TypeOK
<1>11. ConnInv'
  <2>1. conn' \in {"up", "broken"} /\ (conn' = "broken" => Streams)
        BY <1>3
  <2> QED BY <1>1, <1>2, <2>1, Static DEF ConnInv
<1>12. FaultsDoNotLinger'
  <2>1. ASSUME NEW v \in Workers, result'[v] = "failed", healthy'[v]
        PROVE  FALSE
    <3>1. CASE v = w
          BY <2>1, <3>1, <1>1, <1>3, <1>4 DEF TypeOK
    <3>2. CASE v # w
      <4>1. result[v] = "failed" /\ healthy[v]
            BY <2>1, <3>2, <1>1, <1>3, <1>9 DEF TypeOK
      <4> QED BY <4>1, <1>1, <1>2 DEF FaultsDoNotLinger
    <3> QED BY <3>1, <3>2
  <2> QED BY <2>1 DEF FaultsDoNotLinger
<1>13. /\ Held(w)' = Held(w) \cup took
       /\ Resends' = Resends /\ (Resends \/ Increasing(Positions(w))')
       BY <1>1, <1>2, <1>10, ArrivesGrows, Static DEF took
<1>14. \A x \in rejected[w], y \in Sent(w) : x # y
  <2>1. rejected[w] \in SUBSET Nat /\ Sent(w) \in SUBSET Nat
        BY <1>1, <1>8 DEF TypeOK
  <2>2. \A x \in rejected[w], y \in Sent(w) : x < y
        BY <1>1, SentAhead
  <2> QED BY <2>1, <2>2, SentDiffers
<1>15. Encodable(w)' = Encodable(w)
  <2>1. job'[w].batch = job[w].batch
        BY <1>1, <1>4 DEF TypeOK, NextChunk
  <2> QED BY <2>1, <1>2 DEF Encodable
<1>16. Held(w)' \subseteq Encodable(w)' \ rejected'[w]
       BY <1>1, <1>5, <1>7, <1>8, <1>13, <1>14, <1>15 DEF SendInv
<1>17. CASE answer = "ok"
  <2>1. /\ PassedUpTo(w)' = PassedUpTo(w) + c
        /\ Passed(w) \cup InWork(w) \subseteq Passed(w)' /\ result'[w] = "busy"
        BY <1>17, <1>1, <1>2, <1>4, NextPassed DEF c
  <2>2. \A i \in rejected'[w] : i <= PassedUpTo(w)'
    <3>1. \A i \in rejected[w] : i \in Nat /\ i <= PassedUpTo(w)
          BY <1>1 DEF SendInv, TypeOK
    <3>2. \A i \in Sent(w) : i \in Nat /\ i <= PassedUpTo(w) + c
          BY <1>8
    <3> QED BY <1>7, <1>8, <2>1, <3>1, <3>2
  <2>3. Held(w)' \subseteq Passed(w)'
        BY <1>1, <1>5, <1>8, <1>13, <2>1 DEF SendInv
  <2>4. ASSUME Promises, NEW i \in Encodable(w), i <= PassedUpTo(w) + c
        PROVE  i \in Held(w) \cup took \cup rejected'[w]
    <3>1. CASE i <= PassedUpTo(w)
          BY <1>1, <1>7, <2>4, <3>1 DEF SendInv
    <3>2. CASE ~(i <= PassedUpTo(w))
      <4>1. i \in Sent(w)
            BY <1>8, <2>4, <3>2
      <4> QED BY <1>7, <1>17, <2>4, <4>1
    <3> QED BY <3>1, <3>2
  <2>5. Promises' = Promises
        BY <1>2, Static
  <2>6. Promises' => \A i \in Encodable(w)' :
          i <= PassedUpTo(w)' => i \in Held(w)' \cup rejected'[w]
        BY <1>13, <1>15, <2>1, <2>4, <2>5
  <2>7. SendInv(w)'
        BY <1>13, <1>16, <2>1, <2>2, <2>3, <2>6 DEF SendInv
  <2> QED BY <1>2, <1>9, <1>10, <1>11, <1>12, <2>7, OthersKept DEF OutputInv
<1>18. CASE answer # "ok"
  <2>1. /\ job' = job /\ result'[w] = "failed" /\ rejected'[w] = rejected[w]
        BY <1>18, <1>1, <1>4, <1>7 DEF TypeOK
  <2>2. /\ PassedUpTo(w)' = PassedUpTo(w) /\ Passed(w)' = Passed(w) /\ InWork(w)' = InWork(w)
        /\ Promises' = Promises
        BY <1>2, <2>1, Static DEF PassedUpTo, Passed, InWork
  <2>3. Held(w)' \subseteq Passed(w)' \cup InWork(w)'
        BY <1>1, <1>5, <1>8, <1>13, <2>2 DEF SendInv
  <2>4. Promises' => \A i \in Encodable(w)' :
          i <= PassedUpTo(w)' => i \in Held(w)' \cup rejected'[w]
        BY <1>1, <1>13, <1>15, <2>1, <2>2 DEF SendInv
  <2>5. \A i \in rejected'[w] : i <= PassedUpTo(w)'
        BY <1>1, <2>1, <2>2 DEF SendInv
  <2>6. SendInv(w)'
        BY <1>13, <1>16, <2>1, <2>3, <2>4, <2>5 DEF SendInv
  <2> QED BY <1>2, <1>9, <1>10, <1>11, <1>12, <2>6, OthersKept DEF OutputInv
<1> QED BY <1>17, <1>18

-----------------------------------------------------------------------------
LEMMA NextOutput == OutputInv /\ [Next]_vars => OutputInv'
<1> SUFFICES ASSUME OutputInv, [Next]_vars PROVE OutputInv'
    OBVIOUS
<1>1. CASE Build
      BY <1>1, BuildInv
<1>2. CASE Connect
      BY <1>2, ConnectInv
<1>3. ASSUME NEW w \in Workers, NEW batch \in Batches, SendBegin(w, batch) PROVE OutputInv'
      BY <1>3, SendBeginInv
<1>4. ASSUME NEW w \in Workers, SkipChunk(w) PROVE OutputInv'
      BY <1>4, SkipChunkInv
<1>5. ASSUME NEW w \in Workers, WriteBroken(w) PROVE OutputInv'
      BY <1>5, WriteBrokenInv
<1>6. ASSUME NEW w \in Workers, SendEnd(w) PROVE OutputInv'
      BY <1>6, SendEndInv
<1>7. ASSUME NEW w \in Workers, HasChunk(w), NEW answer, NEW order, SendChunk(w, answer, order)
      PROVE  OutputInv'
      BY <1>7, SendChunkInv
<1>9. ASSUME NEW w \in Workers, HasChunk(w), NEW order, AnswerLost(w, order) PROVE OutputInv'
      BY <1>9, AnswerLostInv
<1>8. CASE UNCHANGED vars
  <2>1. /\ input' = input /\ cfg' = cfg /\ conn' = conn /\ job' = job /\ received' = received
        /\ rejected' = rejected /\ healthy' = healthy /\ result' = result
        BY <1>8 DEF vars, sendVars
  <2>2. TypeOK' /\ ConnInv' /\ FaultsDoNotLinger'
        BY <2>1, Static DEF OutputInv, TypeOK, ConnInv, FaultsDoNotLinger
  <2>3. \A w \in Workers : result'[w] # "none" => SendInv(w)'
        BY <2>1, SameSend DEF OutputInv
  <2> QED BY <2>2, <2>3 DEF OutputInv
<1> QED BY <1>1, <1>2, <1>3, <1>4, <1>5, <1>6, <1>7, <1>8, <1>9 DEF Next

(* The inductive invariant of an output, for any configuration, any        *)
(* batches, any number of workers and any behaviour of the server: the     *)
(* server's copy of a batch grows chunk by chunk from the front.           *)
THEOREM OutputCorrect == Spec => []OutputInv
<1> QED BY InitOutput, NextOutput, PTL DEF Spec

(* A delivered ack is the truth: the server has every signal of the batch  *)
(* that can be encoded or has rejected it (for the servers that promise    *)
(* anything), once and in order but for the Kafka client that repeats.     *)
THEOREM AckHonest == Spec => []AckIsTruthful
<1>1. ASSUME OutputInv PROVE AckIsTruthful
  <2> SUFFICES ASSUME NEW w \in Workers, result[w] = "delivered", Promises
               PROVE  /\ Held(w) = Encodable(w) \ rejected[w]
                      /\ Resends \/ Increasing(Positions(w))
      BY DEF AckIsTruthful
  <2>1. TypeOK /\ input.type \in Types /\ SendInv(w)
        BY <1>1 DEF OutputInv, ConnInv
  <2>2. job[w].batch \in Batches \cup {<< >>} /\ job[w].next \in Nat
        BY <2>1 DEF TypeOK
  <2>3. Len(job[w].batch) \in Nat /\ DOMAIN job[w].batch = 1 .. Len(job[w].batch)
        BY <2>2, BatchType
  <2>4. Len(job[w].batch) <= PassedUpTo(w)
        BY <2>1, <2>2, <2>3, AllPassed DEF SendInv, PassedUpTo
  <2>5. PassedUpTo(w) \in Nat
        BY <2>1, SentType
  <2>6. \A i \in Encodable(w) : i <= PassedUpTo(w)
        BY <2>3, <2>4, <2>5 DEF Encodable
  <2> QED BY <2>1, <2>6 DEF SendInv
<1> QED BY <1>1, OutputCorrect, PTL

(* A failed Send has gone no further than the chunk that failed.           *)
THEOREM FailureStops == Spec => []FailureEndsTheBatch
<1>1. ASSUME OutputInv PROVE FailureEndsTheBatch
  <2> SUFFICES ASSUME NEW w \in Workers, result[w] = "failed"
               PROVE  /\ Held(w) \subseteq Passed(w) \cup InWork(w)
                      /\ Promises => (Passed(w) \cap Encodable(w)) \ rejected[w] \subseteq Held(w)
      BY DEF FailureEndsTheBatch, Passed, InWork
  <2>1. TypeOK /\ input.type \in Types /\ SendInv(w)
        BY <1>1 DEF OutputInv, ConnInv
  <2>2. \A i \in Passed(w) : i <= PassedUpTo(w)
        BY <2>1, PassedBelow
  <2> QED BY <2>1, <2>2 DEF SendInv
<1> QED BY <1>1, OutputCorrect, PTL

(* A fault fails no later Send, but for a syslog stream that broke.        *)
THEOREM FaultsEnd == Spec => []FaultsDoNotLinger
<1>1. OutputInv => FaultsDoNotLinger
      BY DEF OutputInv
<1> QED BY <1>1, OutputCorrect, PTL

-----------------------------------------------------------------------------
(* The mapper and the dry run's checks of its events.                      *)
LEMMA EventOf ==
  ASSUME NEW s, s.layer \in Layers, NEW ev, ev = Map(s)[1]
  PROVE  /\ Map(s) # << >> /\ ev.class = ClassOf[s.layer] /\ ev.category = CategoryOf(ev.class)
         /\ ev.activity = ActivityOf[s.layer] /\ ev.type = ev.class * 100 + ev.activity
         /\ ev.time = s.time /\ ev.severity = (IF s.severity \in Severities THEN s.severity ELSE 1)
         /\ ev.version = "1.3.0" /\ ev.vendor = "Argus" /\ ev.fields = ClassFields(s, ev.class)
<1> DEFINE class == ClassOf[s.layer]
           activity == ActivityOf[s.layer]
           event == [class |-> class, category |-> CategoryOf(class),
             activity |-> activity, activityName |-> IF activity = 99 THEN "Other" ELSE "",
             type |-> class * 100 + activity, time |-> s.time,
             severity |-> IF s.severity \in Severities THEN s.severity ELSE 1,
             version |-> "1.3.0", vendor |-> "Argus", uid |-> s.id, layer |-> s.layer,
             raw |-> s.ctx.form \in {"object", "other"},
             fields |-> ClassFields(s, class)]
<1>1. Map(s) = <<event>>
      BY DEF Map
<1>2. Map(s) # << >> /\ ev = event
  <2> HIDE DEF event
  <2> QED BY <1>1
<1>3. /\ event.class = class /\ event.category = CategoryOf(class) /\ event.activity = activity
      /\ event.type = class * 100 + activity /\ event.time = s.time
      OBVIOUS
<1>4. /\ event.severity = (IF s.severity \in Severities THEN s.severity ELSE 1)
      /\ event.version = "1.3.0" /\ event.vendor = "Argus" /\ event.fields = ClassFields(s, class)
      OBVIOUS
<1> HIDE DEF event, class, activity
<1>5. /\ ev.class = class /\ ev.category = CategoryOf(class) /\ ev.activity = activity
      /\ ev.type = class * 100 + activity /\ ev.fields = ClassFields(s, class)
      BY <1>2, <1>3, <1>4
<1> QED BY <1>2, <1>3, <1>4, <1>5 DEF class, activity

(* The tables: the class, the category and the activity of a layer.        *)
LEMMA Tables ==
  ASSUME NEW layer \in Layers, NEW class, class = ClassOf[layer]
  PROVE  /\ class \in Int /\ class >= 1000
         /\ CategoryOf(class) \in 1 .. 6
         /\ ActivityOf[layer] \in 0 .. 99
         /\ class = DetectionFinding <=> layer \in {6, 11}
         /\ class \in {MemoryActivity, ModuleActivity, DetectionFinding, HTTPActivity,
                       APIActivity, DatastoreActivity, WebResourcesActivity}
BY DEF Layers, ClassOf, ActivityOf, CategoryOf, MemoryActivity, ModuleActivity,
       ProcessActivity, DetectionFinding, HTTPActivity, WebResourcesActivity, APIActivity,
       DatastoreActivity

LEMMA RequiredWritten ==
  ASSUME NEW s, NEW class,
         class \in {MemoryActivity, ModuleActivity, DetectionFinding, HTTPActivity,
                    APIActivity, DatastoreActivity, WebResourcesActivity}
  PROVE  /\ RequiredFields(class) \subseteq DOMAIN ClassFields(s, class)
         /\ "finding" \in DOMAIN ClassFields(s, class) <=> class = DetectionFinding
         /\ class = DetectionFinding => ClassFields(s, class).finding.uid = s.id
<1> DEFINE F == ClassFields(s, class)
           R == RequiredFields(class)
<1> USE DEF MemoryActivity, ModuleActivity, ProcessActivity, DetectionFinding, HTTPActivity,
            WebResourcesActivity, APIActivity, DatastoreActivity
<1>1. CASE class = 1004 \/ class = 1005
  <2>1. F = [device |-> "virtual", action |-> 1]
    <3>1. CASE class = 1004
          BY <3>1 DEF ClassFields
    <3>2. CASE class = 1005
          BY <3>2 DEF ClassFields
    <3> QED BY <1>1, <3>1, <3>2
  <2>2. R = {"device"}
        BY <1>1 DEF RequiredFields
  <2> HIDE DEF F, R
  <2> QED BY <1>1, <2>1, <2>2 DEF F, R
<1>2. CASE class = 2004
  <2> DEFINE analytic == IF s.layer = 6 THEN 4 ELSE 1
  <2>1. F = [finding |-> [uid |-> s.id, analytic |-> analytic], action |-> 1]
        BY <1>2 DEF ClassFields
  <2>2. R = {"finding"}
        BY <1>2 DEF RequiredFields
  <2> HIDE DEF F, R, analytic
  <2>3. DOMAIN F = {"finding", "action"} /\ F.finding.uid = s.id
        BY <2>1
  <2> QED BY <1>2, <2>2, <2>3 DEF F, R
<1>3. CASE class = 4002
  <2> DEFINE request == [url |-> Or(FirstText(s, <<"url", "target", "path">>), ""),
                         method |-> Or(FirstText(s, <<"method">>), "POST")]
             response == IF Has(s, "status_code", "number") THEN Keys(s)["status_code"].v ELSE 200
  <2>1. F = [request |-> request, response |-> response, dst |-> s.app]
        BY <1>3 DEF ClassFields
  <2>2. R = {"request", "response", "dst"}
        BY <1>3 DEF RequiredFields
  <2> HIDE DEF F, R, request, response
  <2>3. DOMAIN F = {"request", "response", "dst"}
        BY <2>1
  <2> QED BY <1>3, <2>2, <2>3 DEF F, R
<1>4. CASE class = 6003
  <2>1. F = [api |-> LayerServiceName(s.layer), src |-> s.app]
        BY <1>4 DEF ClassFields
  <2>2. R = {"api"}
        BY <1>4 DEF RequiredFields
  <2> HIDE DEF F, R
  <2>3. DOMAIN F = {"api", "src"}
        BY <2>1
  <2> QED BY <1>4, <2>2, <2>3 DEF F, R
<1>5. CASE class = 6005
  <2> DEFINE without == [src |-> s.app]
             with == [src |-> s.app, databucket |-> Text(s, "vector_index")]
             empty == Text(s, "vector_index") = ""
  <2>1. F = IF empty THEN without ELSE with
        BY <1>5 DEF ClassFields
  <2>2. R = {}
        BY <1>5 DEF RequiredFields
  <2>3. "finding" \notin DOMAIN without /\ "finding" \notin DOMAIN with
        OBVIOUS
  <2> HIDE DEF F, R, without, with, empty
  <2>4. F = without \/ F = with
        BY <2>1
  <2>5. "finding" \notin DOMAIN F
        BY <2>3, <2>4
  <2> QED BY <1>5, <2>2, <2>5 DEF F, R
<1>6. CASE class = 6001
  <2> DEFINE without == << >>
             with == [web |-> Text(s, "resource_url")]
             empty == Text(s, "resource_url") = ""
  <2>1. F = IF empty THEN without ELSE with
        BY <1>6 DEF ClassFields
  <2>2. R = {}
        BY <1>6 DEF RequiredFields
  <2>3. "finding" \notin DOMAIN without /\ "finding" \notin DOMAIN with
        OBVIOUS
  <2> HIDE DEF F, R, without, with, empty
  <2>4. F = without \/ F = with
        BY <2>1
  <2>5. "finding" \notin DOMAIN F
        BY <2>3, <2>4
  <2> QED BY <1>6, <2>2, <2>5 DEF F, R
<1> QED BY <1>1, <1>2, <1>3, <1>4, <1>5, <1>6

(* What Map writes for a signal with a known layer breaks no rule of the   *)
(* schema, and none of its class but two: a time of zero (1970) and, for a *)
(* finding, the signal's own empty id.                                     *)
THEOREM MapConforms ==
  ASSUME NEW s, s.layer \in Layers
  PROVE  /\ Map(s) # << >> /\ SchemaErrors(Map(s)[1]) = {}
         /\ StructuralErrors(Map(s)[1]) =
              {f \in {"time", "uid"} : \/ f = "time" /\ s.time = 0
                                       \/ f = "uid" /\ s.layer \in {6, 11} /\ s.id = ""}
<1> DEFINE ev == Map(s)[1]
<1>1. /\ Map(s) # << >> /\ ev.class = ClassOf[s.layer] /\ ev.category = CategoryOf(ev.class)
      /\ ev.activity = ActivityOf[s.layer] /\ ev.type = ev.class * 100 + ev.activity
      /\ ev.time = s.time /\ ev.severity = (IF s.severity \in Severities THEN s.severity ELSE 1)
      /\ ev.version = "1.3.0" /\ ev.vendor = "Argus" /\ ev.fields = ClassFields(s, ev.class)
      BY EventOf
<1>2. /\ ev.class \in Int /\ ev.class >= 1000 /\ ev.category \in 1 .. 6
      /\ ev.activity \in 0 .. 99 /\ (ev.class = DetectionFinding <=> s.layer \in {6, 11})
      /\ ev.class \in {MemoryActivity, ModuleActivity, DetectionFinding, HTTPActivity,
                       APIActivity, DatastoreActivity, WebResourcesActivity}
  <2>1. s.layer \in Layers /\ ev.class = ClassOf[s.layer] /\ ev.category = CategoryOf(ev.class)
        /\ ev.activity = ActivityOf[s.layer]
        BY <1>1
  <2> HIDE DEF ev
  <2> QED BY <2>1, Tables
<1>3. /\ RequiredFields(ev.class) \subseteq DOMAIN ev.fields
      /\ "finding" \in DOMAIN ev.fields <=> s.layer \in {6, 11}
      /\ s.layer \in {6, 11} => ev.fields.finding.uid = s.id
      BY <1>1, <1>2, RequiredWritten
<1> HIDE DEF ev
<1>4. ev.severity \in 1 .. 5 /\ ev.type \in Int /\ ev.type >= 100000
  <2>1. ev.severity \in 1 .. 5
        BY <1>1 DEF Severities
  <2>2. PICK c \in Int, a \in 0 .. 99 : c = ev.class /\ a = ev.activity /\ c >= 1000
        BY <1>2
  <2>3. ev.type = c * 100 + a
        BY <1>1, <2>2
  <2> QED BY <2>1, <2>2, <2>3
<1>5. SchemaErrors(ev) = {}
  <2> DEFINE Broken(f) ==
        CASE f = "class" -> ev.class < 1000
          [] f = "category" -> ev.category < 1
          [] f = "activity" -> ev.activity < 0
          [] f = "type" -> ev.type < 100000
          [] f = "severity" -> ev.severity \notin 1 .. 6
          [] f = "version" -> ev.version # "1.3.0"
          [] f = "vendor" -> ev.vendor = ""
  <2>1. ~Broken("class") /\ ~Broken("category") /\ ~Broken("activity") /\ ~Broken("type")
        BY <1>2, <1>4
  <2>2. ~Broken("severity")
        BY <1>4
  <2>3. ~Broken("version") /\ ~Broken("vendor")
        BY <1>1
  <2>4. SchemaErrors(ev) = {f \in {"class", "category", "activity", "type", "severity",
                                   "version", "vendor"} : Broken(f)}
        BY DEF SchemaErrors
  <2> HIDE DEF Broken
  <2> QED BY <2>1, <2>2, <2>3, <2>4
<1>6. StructuralErrors(ev) =
        {f \in {"time", "uid"} : \/ f = "time" /\ s.time = 0
                                 \/ f = "uid" /\ s.layer \in {6, 11} /\ s.id = ""}
  <2> DEFINE Broken(f) ==
        CASE f = "type" -> ev.type # ev.class * 100 + ev.activity
          [] f = "category" -> ev.category = 0
          [] f = "time" -> ev.time = 0
          [] f = "severity" -> ev.severity = 0
          [] f = "version" -> ev.version # "1.3.0"
          [] f = "vendor" -> ev.vendor = ""
          [] f = "uid" -> "finding" \in DOMAIN ev.fields /\ ev.fields.finding.uid = ""
  <2>1. /\ ~Broken("type") /\ ~Broken("category") /\ ~Broken("severity")
        /\ ~Broken("version") /\ ~Broken("vendor")
        BY <1>1, <1>2, <1>4
  <2>2. Broken("time") <=> s.time = 0
        BY <1>1
  <2>3. Broken("uid") <=> s.layer \in {6, 11} /\ s.id = ""
        BY <1>3
  <2>4. RequiredFields(ev.class) \ DOMAIN ev.fields = {}
        BY <1>3
  <2>5. StructuralErrors(ev) =
          {f \in {"type", "category", "time", "severity", "version", "vendor", "uid"} : Broken(f)}
        BY <2>4 DEF StructuralErrors
  <2> HIDE DEF Broken
  <2> QED BY <2>1, <2>2, <2>3, <2>5
<1> QED BY <1>1, <1>5, <1>6 DEF ev

(* What Map makes of a signal is nothing or one event.                     *)
LEMMA MapSingle ==
  ASSUME NEW s, Map(s) # << >>
  PROVE  Map(s) = <<Map(s)[1]>>
<1> DEFINE class == ClassOf[s.layer]
           activity == ActivityOf[s.layer]
           event == [class |-> class, category |-> CategoryOf(class),
             activity |-> activity, activityName |-> IF activity = 99 THEN "Other" ELSE "",
             type |-> class * 100 + activity, time |-> s.time,
             severity |-> IF s.severity \in Severities THEN s.severity ELSE 1,
             version |-> "1.3.0", vendor |-> "Argus", uid |-> s.id, layer |-> s.layer,
             raw |-> s.ctx.form \in {"object", "other"},
             fields |-> ClassFields(s, class)]
<1>1. Map(s) = IF s.layer \notin Layers THEN << >> ELSE <<event>>
      BY DEF Map
<1> HIDE DEF event
<1> QED BY <1>1

(* The dry run's list of events, and the signals it reports as unmapped.   *)
LEMMA RunWrites ==
  ASSUME NEW b
  PROVE  Run(b).ocsfFile = FlattenSeq([i \in DOMAIN b |-> Map(b[i])])
BY DEF Run, Padded

LEMMA RunFile ==
  ASSUME NEW b, Len(b) \in Nat, DOMAIN b = 1 .. Len(b), NEW s \in Seq(Nat), Increasing(s),
         ToSet(s) = {i \in DOMAIN b : Map(b[i]) # << >>}
  PROVE  Run(b).ocsfFile = [n \in DOMAIN s |-> Map(b[s[n]])[1]]
<1> DEFINE e == [i \in DOMAIN b |-> Map(b[i])]
           V == {Map(b[i])[1] : i \in DOMAIN b}
<1>1. \A i \in DOMAIN b : e[i] = << >> \/ \E v \in V : e[i] = <<v>>
      BY MapSingle
<1>2. e \in Seq(Seq(V)) /\ DOMAIN e = DOMAIN b
  <2>1. \A i \in 1 .. Len(b) : e[i] \in Seq(V)
    <3> TAKE i \in 1 .. Len(b)
    <3>1. << >> \in Seq(V) /\ \A v \in V : <<v>> \in Seq(V)
          OBVIOUS
    <3> HIDE DEF e, V
    <3> QED BY <1>1, <3>1
  <2>2. e = [i \in 1 .. Len(b) |-> e[i]] /\ DOMAIN e = DOMAIN b
        OBVIOUS
  <2> HIDE DEF e, V
  <2>3. e \in [1 .. Len(b) -> Seq(V)]
        BY <2>1, <2>2
  <2> QED BY <2>2, <2>3, SeqDef
<1>3. ToSet(s) = {i \in DOMAIN e : e[i] # << >>}
  <2>1. DOMAIN e = DOMAIN b /\ \A i \in DOMAIN b : e[i] = Map(b[i])
        OBVIOUS
  <2>2. {i \in DOMAIN e : e[i] # << >>} = {i \in DOMAIN b : Map(b[i]) # << >>}
    <3> HIDE DEF e
    <3> QED BY <2>1
  <2> HIDE DEF e
  <2> QED BY <2>2
<1>4. \A i \in DOMAIN e : e[i] = << >> \/ \E v \in V : e[i] = <<v>>
      BY <1>1, <1>2
<1>5. FlattenSeq(e) = [n \in DOMAIN s |-> e[s[n]][1]]
  <2>1. e \in Seq(Seq(V)) /\ Increasing(s) /\ s \in Seq(Nat)
        BY <1>2
  <2> HIDE DEF e, V
  <2> QED BY <2>1, <1>3, <1>4, FlattenChosen
<1>6. \A n \in DOMAIN s : s[n] \in DOMAIN b
      BY DEF ToSet
<1> QED BY <1>5, <1>6, RunWrites

LEMMA CheckedFields ==
  ASSUME NEW ev, NEW s
  PROVE  "mapper" \notin ProtoErrors(s) \cup StructuralErrors(ev) \cup SchemaErrors(ev)
<1>1. "mapper" \notin ProtoErrors(s)
      BY DEF ProtoErrors
<1>2. "mapper" \notin SchemaErrors(ev)
      BY DEF SchemaErrors
<1>3. "mapper" \notin RequiredFields(ev.class)
      BY DEF RequiredFields
<1>4. "mapper" \notin StructuralErrors(ev)
      BY <1>3 DEF StructuralErrors
<1> QED BY <1>1, <1>2, <1>4

LEMMA RunReports ==
  ASSUME NEW b
  PROVE  {e.index : e \in {x \in Run(b).errors : x.field = "mapper"}}
           = {i \in DOMAIN b : Map(b[i]) = << >>}
<1> DEFINE events == Padded(b)
           mapped == {j \in DOMAIN events : events[j] # << >>}
           proto == UNION {{Error(i, b, "proto", f) : f \in ProtoErrors(b[i])} : i \in DOMAIN b}
           mapper == {Error(i, b, "ocsf_schema", "mapper")
                        : i \in {j \in DOMAIN b : events[j] = << >>}}
           structural == UNION {{Error(i, b, "ocsf_structural", f)
                                   : f \in StructuralErrors(events[i][1])} : i \in mapped}
           schema == UNION {{Error(i, b, "ocsf_schema", f)
                               : f \in SchemaErrors(events[i][1])} : i \in mapped}
<1>1. Run(b).errors = proto \cup mapper \cup (structural \cup schema)
      BY DEF Run
<1>2. \A i, stage, f : Error(i, b, stage, f).field = f /\ Error(i, b, stage, f).index = i
      BY DEF Error
<1>3. \A x \in proto \cup (structural \cup schema) : x.field # "mapper"
  <2>1. \A x \in proto : x.field # "mapper"
        BY <1>2, CheckedFields
  <2>2. \A x \in structural : x.field # "mapper"
        BY <1>2, CheckedFields
  <2>3. \A x \in schema : x.field # "mapper"
        BY <1>2, CheckedFields
  <2> QED BY <2>1, <2>2, <2>3
<1>4. \A x \in mapper : x.field = "mapper"
      BY <1>2
<1>5. {x \in Run(b).errors : x.field = "mapper"} = mapper
  <2> HIDE DEF proto, structural, schema, mapper
  <2> QED BY <1>1, <1>3, <1>4
<1>6. {e.index : e \in mapper} = {i \in DOMAIN b : events[i] = << >>}
      BY <1>2
<1>7. \A i \in DOMAIN b : events[i] = Map(b[i])
      BY DEF Padded
<1> HIDE DEF events, mapper
<1> QED BY <1>5, <1>6, <1>7

(* What the server holds of a signal is that signal encoded, whatever has  *)
(* happened since, and only the XDR server rejects.                        *)
LEMMA DocsOfOthers ==
  ASSUME DocInv, NEW v \in Workers, result[v] # "none", input' = input,
         job'[v].batch = job[v].batch, received'[v] = received[v], rejected'[v] = rejected[v]
  PROVE  /\ \A n \in DOMAIN received'[v] :
              received'[v][n].doc = Encode(input'.type, job'[v].batch[received'[v][n].i])[1]
         /\ input'.type # "argusxdr" => rejected'[v] = {}
BY DEF DocInv

LEMMA KeptDocs ==
  ASSUME DocInv, input' = input, received' = received, rejected' = rejected,
         \A v \in Workers : result'[v] # "none" =>
           result[v] # "none" /\ job'[v].batch = job[v].batch
  PROVE  DocInv'
<1> SUFFICES ASSUME NEW v \in Workers, result'[v] # "none"
             PROVE  /\ \A n \in DOMAIN received'[v] :
                         received'[v][n].doc = Encode(input'.type, job'[v].batch[received'[v][n].i])[1]
                    /\ input'.type # "argusxdr" => rejected'[v] = {}
    BY DEF DocInv
<1> QED BY DocsOfOthers

LEMMA SameBatch ==
  ASSUME TypeOK, NEW w \in Workers, job' = job \/ NextChunk(w)
  PROVE  \A v \in Workers : job'[v].batch = job[v].batch
<1>1. CASE job' = job
      BY <1>1
<1>2. CASE NextChunk(w)
  <2>1. job'[w].batch = job[w].batch
        BY <1>2 DEF TypeOK, NextChunk
  <2>2. \A v \in Workers \ {w} : job'[v] = job[v]
        BY <1>2 DEF TypeOK, NextChunk
  <2> QED BY <2>1, <2>2
<1> QED BY <1>1, <1>2

LEMMA DocumentsHold ==
  ASSUME NEW w, NEW order \in Seq(Nat), NEW n \in 1 .. Len(order)
  PROVE  Documents(w, order)[n].doc = Encode(input.type, job[w].batch[order[n]])[1]
<1>1. n \in DOMAIN order
      OBVIOUS
<1>2. Documents(w, order)[n]
        = [i |-> order[n], doc |-> Encode(input.type, job[w].batch[order[n]])[1]]
      BY <1>1 DEF Documents
<1> QED BY <1>2

(* What arrives is faithful, and so is what was there before.              *)
LEMMA ArrivesDocs ==
  ASSUME OutputInv, DocInv, NEW w \in Workers, NEW order, result[w] = "busy", Arrives(w, order),
         input' = input, job'[w].batch = job[w].batch
  PROVE  \A n \in DOMAIN received'[w] :
           received'[w][n].doc = Encode(input'.type, job'[w].batch[received'[w][n].i])[1]
<1> DEFINE old == received[w]
           docs == Documents(w, order)
           b == job[w].batch
<1>1. TypeOK /\ input.type \in Types
      BY BusyOutput
<1>2. /\ order \in Seq(Nat) /\ docs \in Seq(Document) /\ Len(docs) = Len(order)
      /\ Len(order) \in Nat /\ \A n \in 1 .. Len(order) : docs[n].i = order[n]
      /\ received'[w] = old \o docs
      BY <1>1, ArrivesType
<1>3. \A n \in 1 .. Len(order) : docs[n].doc = Encode(input.type, b[docs[n].i])[1]
  <2> TAKE n \in 1 .. Len(order)
  <2>1. docs[n].doc = Encode(input.type, b[order[n]])[1]
        BY <1>2, DocumentsHold
  <2>2. docs[n].i = order[n]
        BY <1>2
  <2> HIDE DEF docs
  <2> QED BY <2>1, <2>2
<1>4. old \in Seq(Document) /\ Len(old) \in Nat /\ DOMAIN old = 1 .. Len(old)
      BY <1>1 DEF TypeOK
<1>5. \A n \in 1 .. Len(old) : old[n].doc = Encode(input.type, b[old[n].i])[1]
      BY <1>1, <1>4 DEF DocInv
<1> HIDE DEF old, docs
<1>6. /\ Len(old \o docs) = Len(old) + Len(docs) /\ old \o docs \in Seq(Document)
      /\ \A k \in 1 .. Len(old) + Len(docs) :
           (old \o docs)[k] = IF k <= Len(old) THEN old[k] ELSE docs[k - Len(old)]
  <2>1. PICK x \in Seq(Document), y \in Seq(Document) : x = old /\ y = docs
        BY <1>2, <1>4
  <2>2. /\ Len(x \o y) = Len(x) + Len(y) /\ x \o y \in Seq(Document)
        /\ \A k \in 1 .. Len(x) + Len(y) :
             (x \o y)[k] = IF k <= Len(x) THEN x[k] ELSE y[k - Len(x)]
        BY ConcatProperties
  <2> QED BY <2>1, <2>2
<1> TAKE n \in DOMAIN received'[w]
<1>7. n \in 1 .. Len(old) + Len(order)
      BY <1>2, <1>6
<1>8. CASE n <= Len(old)
  <2>1. n \in 1 .. Len(old) /\ received'[w][n] = old[n]
        BY <1>2, <1>4, <1>6, <1>7, <1>8
  <2> QED BY <1>5, <2>1
<1>9. CASE ~(n <= Len(old))
  <2>1. n - Len(old) \in 1 .. Len(order) /\ received'[w][n] = docs[n - Len(old)]
        BY <1>2, <1>4, <1>6, <1>7, <1>9
  <2> QED BY <1>3, <2>1
<1> QED BY <1>8, <1>9

LEMMA AnswerLostDocs ==
  ASSUME OutputInv, DocInv, NEW w \in Workers, NEW order, HasChunk(w), AnswerLost(w, order)
  PROVE  DocInv'
<1>1. TypeOK /\ input.type \in Types /\ result[w] = "busy"
      BY BusyOutput DEF HasChunk
<1>2. /\ input' = input /\ job' = job /\ rejected' = rejected /\ result' = result
      /\ Arrives(w, order)
      BY DEF AnswerLost
<1>3. \A n \in DOMAIN received'[w] :
        received'[w][n].doc = Encode(input'.type, job'[w].batch[received'[w][n].i])[1]
      BY <1>1, <1>2, ArrivesDocs
<1>4. input'.type # "argusxdr" => rejected'[w] = {}
      BY <1>1, <1>2 DEF DocInv
<1>5. ASSUME NEW v \in Workers, v # w, result'[v] # "none"
      PROVE  /\ \A n \in DOMAIN received'[v] :
                  received'[v][n].doc = Encode(input'.type, job'[v].batch[received'[v][n].i])[1]
             /\ input'.type # "argusxdr" => rejected'[v] = {}
  <2>1. received'[v] = received[v]
        BY <1>1, <1>2, <1>5, ArrivesType
  <2> QED BY <1>2, <1>5, <2>1, DocsOfOthers
<1> QED BY <1>3, <1>4, <1>5 DEF DocInv

LEMMA SendChunkDocs ==
  ASSUME OutputInv, DocInv, NEW w \in Workers, NEW answer, NEW order, HasChunk(w),
         SendChunk(w, answer, order)
  PROVE  DocInv'
<1> DEFINE after == ToSet(order) \cup (Held(w) \cap Sent(w))
<1>1. TypeOK /\ input.type \in Types /\ result[w] = "busy"
      BY BusyOutput DEF HasChunk
<1>2. /\ input' = input /\ Arrives(w, order) /\ Took(answer, Sent(w), after)
      /\ rejected' = [rejected EXCEPT ![w] = IF answer = "ok" /\ Promises
                                             THEN @ \cup (Sent(w) \ (ToSet(order) \cup Held(w)))
                                             ELSE @]
      BY DEF SendChunk
<1>3. job' = job \/ NextChunk(w)
      BY DEF SendChunk, Aborts, CarriesOn
<1>4. \A v \in Workers : job'[v].batch = job[v].batch
      BY <1>1, <1>3, SameBatch
<1>5. result' = result \/ result' = [result EXCEPT ![w] = "failed"]
      BY DEF SendChunk, Aborts, CarriesOn
<1>6. ASSUME NEW v \in Workers, v # w, result'[v] # "none"
      PROVE  /\ \A n \in DOMAIN received'[v] :
                  received'[v][n].doc = Encode(input'.type, job'[v].batch[received'[v][n].i])[1]
             /\ input'.type # "argusxdr" => rejected'[v] = {}
  <2>1. received'[v] = received[v]
        BY <1>1, <1>2, <1>6, ArrivesType
  <2>2. rejected'[v] = rejected[v] /\ result[v] # "none"
        BY <1>1, <1>2, <1>5, <1>6 DEF TypeOK
  <2> QED BY <1>2, <1>4, <2>1, <2>2, DocsOfOthers
<1>7. \A n \in DOMAIN received'[w] :
        received'[w][n].doc = Encode(input'.type, job'[w].batch[received'[w][n].i])[1]
      BY <1>1, <1>2, <1>4, ArrivesDocs
<1>8. input'.type # "argusxdr" => rejected'[w] = {}
  <2>1. input.type # "argusxdr" => rejected[w] = {}
        BY <1>1 DEF DocInv
  <2>2. input.type # "argusxdr" /\ answer = "ok" /\ Promises => after = Sent(w)
        BY <1>2 DEF Took
  <2>3. after = Sent(w) => Sent(w) \ (ToSet(order) \cup Held(w)) = {}
        OBVIOUS
  <2>4. rejected'[w] = (IF answer = "ok" /\ Promises
                        THEN rejected[w] \cup (Sent(w) \ (ToSet(order) \cup Held(w)))
                        ELSE rejected[w])
        BY <1>1, <1>2 DEF TypeOK
  <2> QED BY <1>2, <2>1, <2>2, <2>3, <2>4
<1> QED BY <1>6, <1>7, <1>8 DEF DocInv

LEMMA NextDocs == OutputInv /\ DocInv /\ [Next]_vars => DocInv'
<1> SUFFICES ASSUME OutputInv, DocInv, [Next]_vars PROVE DocInv'
    OBVIOUS
<1>0. TypeOK /\ ConnInv
      BY DEF OutputInv
<1>1. CASE Build \/ Connect
  <2>1. \A v \in Workers : result'[v] = "none"
        BY <1>0, <1>1 DEF Build, Connect, ConnInv, sendVars
  <2> QED BY <2>1 DEF DocInv
<1>2. ASSUME NEW w \in Workers, NEW batch \in Batches, SendBegin(w, batch) PROVE DocInv'
  <2>1. /\ input' = input /\ received' = [received EXCEPT ![w] = << >>]
        /\ rejected' = [rejected EXCEPT ![w] = {}] /\ result' = [result EXCEPT ![w] = "busy"]
        /\ job' = [job EXCEPT ![w] = [batch |-> batch, next |-> 0]]
        BY <1>2 DEF SendBegin, NothingSent
  <2>2. received'[w] = << >> /\ rejected'[w] = {}
        BY <1>0, <2>1 DEF TypeOK
  <2>3. ASSUME NEW v \in Workers, v # w, result'[v] # "none"
        PROVE  /\ \A n \in DOMAIN received'[v] :
                    received'[v][n].doc = Encode(input'.type, job'[v].batch[received'[v][n].i])[1]
               /\ input'.type # "argusxdr" => rejected'[v] = {}
    <3>1. /\ received'[v] = received[v] /\ rejected'[v] = rejected[v] /\ job'[v] = job[v]
          /\ result[v] # "none"
          BY <1>0, <2>1, <2>3 DEF TypeOK
    <3> QED BY <2>1, <3>1, DocsOfOthers
  <2>4. \A n \in DOMAIN received'[w] :
          received'[w][n].doc = Encode(input'.type, job'[w].batch[received'[w][n].i])[1]
        BY <2>2
  <2> QED BY <2>2, <2>3, <2>4 DEF DocInv
<1>3. ASSUME NEW w \in Workers, SkipChunk(w) \/ WriteBroken(w) \/ SendEnd(w) PROVE DocInv'
  <2>1. /\ input' = input /\ received' = received /\ rejected' = rejected
        /\ job' = job \/ NextChunk(w)
        BY <1>3 DEF SkipChunk, WriteBroken, SendEnd, Aborts
  <2>2. \A v \in Workers : job'[v].batch = job[v].batch
        BY <1>0, <2>1, SameBatch
  <2>3. \A v \in Workers : result'[v] # "none" => result[v] # "none"
        BY <1>0, <1>3 DEF TypeOK, SkipChunk, WriteBroken, SendEnd, HasChunk, Aborts
  <2> QED BY <2>1, <2>2, <2>3, KeptDocs
<1>4. ASSUME NEW w \in Workers, HasChunk(w), NEW answer, NEW order, SendChunk(w, answer, order)
      PROVE  DocInv'
      BY <1>4, SendChunkDocs
<1>5. ASSUME NEW w \in Workers, HasChunk(w), NEW order, AnswerLost(w, order) PROVE DocInv'
      BY <1>5, AnswerLostDocs
<1>6. CASE UNCHANGED vars
      BY <1>6, KeptDocs DEF vars, sendVars
<1> QED BY <1>1, <1>2, <1>3, <1>4, <1>5, <1>6 DEF Next

(* In any history the server's copy of a signal is the encoding of that    *)
(* very signal, and an output other than argusxdr rejects none.            *)
THEOREM DocumentsFaithful == Spec => []DocInv
<1>1. Init => DocInv
      BY DEF Init, DocInv
<1> QED BY <1>1, NextDocs, OutputCorrect, PTL DEF Spec

(* The dry run foretells a delivering OCSF output: the documents it        *)
(* writes for a batch are those the server gets, in that order and once    *)
(* each unless the client repeats, and the signals it reports as unmapped  *)
(* are those the server does not get.                                      *)
THEOREM DryRunForetells == Spec => []DryRunPredicts
<1>1. ASSUME OutputInv, DocInv, AckIsTruthful PROVE DryRunPredicts
  <2> DEFINE Doc(ev) == IF input.type = "elastic" THEN OcsfToECS(ev) ELSE ev
             Written(R) == [n \in DOMAIN R.ocsfFile |-> Doc(R.ocsfFile[n])]
             SentBy(v) == [n \in DOMAIN received[v] |-> received[v][n].doc]
  <2> SUFFICES ASSUME NEW w \in Workers, result[w] = "delivered", OcsfOutput, Promises
               PROVE  /\ IF Resends THEN ToSet(SentBy(w)) = ToSet(Written(Run(job[w].batch)))
                                    ELSE SentBy(w) = Written(Run(job[w].batch))
                      /\ DOMAIN job[w].batch \ Held(w)
                           = {e.index : e \in {x \in Run(job[w].batch).errors : x.field = "mapper"}}
      BY DEF DryRunPredicts
  <2> DEFINE b == job[w].batch
             p == Positions(w)
             M == {i \in DOMAIN b : Map(b[i]) # << >>}
             written == Written(Run(b))
             sent == SentBy(w)
  <2>1. TypeOK /\ input.type # "argusxdr"
        BY <1>1 DEF OutputInv, OcsfOutput
  <2>2. b \in Batches \cup {<< >>}
        BY <2>1 DEF TypeOK
  <2>3. Len(b) \in Nat /\ DOMAIN b = 1 .. Len(b)
        BY <2>2, BatchType
  <2>4. \A i \in DOMAIN b : /\ Encode(input.type, b[i]) = << >> <=> Map(b[i]) = << >>
                            /\ Map(b[i]) # << >> => Encode(input.type, b[i])[1] = Doc(Map(b[i])[1])
        BY DEF Encode, OcsfOutput
  <2>5. Held(w) = M /\ ToSet(p) = M /\ (Resends \/ Increasing(p))
    <3>1. rejected[w] = {}
          BY <1>1, <2>1 DEF DocInv
    <3>2. Held(w) = Encodable(w) /\ (Resends \/ Increasing(p))
          BY <1>1, <3>1 DEF AckIsTruthful
    <3>3. Encodable(w) = M
          BY <2>4 DEF Encodable
    <3> QED BY <3>2, <3>3 DEF Held
  <2>6. /\ p \in Seq(Nat) /\ Len(p) \in Nat /\ DOMAIN p = 1 .. Len(p)
        /\ DOMAIN received[w] = 1 .. Len(p)
        /\ \A n \in 1 .. Len(p) : p[n] = received[w][n].i
    <3>1. received[w] \in Seq(Document)
          BY <2>1 DEF TypeOK
    <3> QED BY <2>1, <3>1, PositionsType
  <2>7. \A n \in 1 .. Len(p) : received[w][n].doc = Doc(Map(b[p[n]])[1])
    <3> TAKE n \in 1 .. Len(p)
    <3>1. p[n] \in DOMAIN b /\ Map(b[p[n]]) # << >>
          BY <2>5, <2>6 DEF ToSet
    <3>2. received[w][n].doc = Encode(input.type, b[p[n]])[1]
          BY <1>1, <2>6 DEF DocInv
    <3> QED BY <2>4, <3>1, <3>2
  <2>8. sent = [n \in 1 .. Len(p) |-> Doc(Map(b[p[n]])[1])]
        BY <2>6, <2>7
  <2>9. ASSUME NEW s \in Seq(Nat), Increasing(s), ToSet(s) = M
        PROVE  written = [n \in DOMAIN s |-> Doc(Map(b[s[n]])[1])]
    <3>1. Run(b).ocsfFile = [n \in DOMAIN s |-> Map(b[s[n]])[1]]
          BY <2>3, <2>9, RunFile
    <3> QED BY <3>1
  <2>10. PICK s \in Seq(Nat) : Increasing(s) /\ ToSet(s) = M
    <3>1. M \in SUBSET Nat /\ M \in SUBSET (1 .. Len(b))
          BY <2>3
    <3> HIDE DEF M, b
    <3>2. IsFiniteSet(M)
      <4>1. IsFiniteSet(1 .. Len(b))
            BY <2>3, FS_Interval
      <4> QED BY <3>1, <4>1, FS_Subset
    <3>3. InOrder(M) \in Seq(M) /\ Increasing(InOrder(M)) /\ ToSet(InOrder(M)) = M
          BY <3>1, <3>2, PartsHaveAnOrder
    <3>4. InOrder(M) \in Seq(Nat)
          BY <3>1, <3>3, SeqMonotonic
    <3> QED BY <3>3, <3>4
  <2>11. ASSUME ~Resends PROVE sent = written
    <3>1. Increasing(p) /\ ToSet(p) = M /\ DOMAIN p = 1 .. Len(p)
          BY <2>5, <2>6, <2>11
    <3> HIDE DEF written, sent, p, M, Doc
    <3>2. written = [n \in 1 .. Len(p) |-> Doc(Map(b[p[n]])[1])]
          BY <2>6, <2>9, <3>1
    <3> QED BY <2>8, <3>2
  <2>12. ToSet(sent) = ToSet(written)
    <3> DEFINE D(i) == Doc(Map(b[i])[1])
    <3>1. sent = [n \in DOMAIN p |-> D(p[n])]
          BY <2>6, <2>8
    <3> HIDE DEF written, sent, p, M
    <3>2. written = [n \in DOMAIN s |-> D(s[n])]
          BY <2>9, <2>10
    <3> HIDE DEF D
    <3>3. ToSet(sent) = {D(i) : i \in ToSet(p)}
          BY <3>1 DEF ToSet
    <3>4. ToSet(written) = {D(i) : i \in ToSet(s)}
          BY <3>2 DEF ToSet
    <3> QED BY <2>5, <2>10, <3>3, <3>4
  <2>13. DOMAIN b \ Held(w) = {i \in DOMAIN b : Map(b[i]) = << >>}
         BY <2>5
  <2>14. DOMAIN b \ Held(w) = {x.index : x \in {y \in Run(b).errors : y.field = "mapper"}}
         BY <2>13, RunReports
  <2> HIDE DEF Written, SentBy
  <2> QED BY <2>11, <2>12, <2>14
<1> QED BY <1>1, OutputCorrect, DocumentsFaithful, AckHonest, PTL
=============================================================================
