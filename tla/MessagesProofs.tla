---------------------------- MODULE MessagesProofs ----------------------------
(***************************************************************************)
(* For all messages, senders, clocks and keys: what one process puts on    *)
(* its way, byte for byte, is what the other gets, verified, and no        *)
(* signature stands for two messages.                                      *)
(*                                                                         *)
(* First the wire format: varints, fields, messages and packets are read   *)
(* back as they were written.  What its recursive functions compute is     *)
(* shown by induction over sets of numbers (Induction, StrongInduction,    *)
(* Recursion), from the least number outside one.  Then the connection:    *)
(* which message each byte string under way is, by its place.              *)
(***************************************************************************)
EXTENDS Messages, SequenceTheorems, FiniteSetTheorems, WellFoundedInduction, TLAPS

-----------------------------------------------------------------------------

\* Induction, for a set: the least number outside it would be the next of one inside.
LEMMA Induction ==
    ASSUME NEW T, 0 \in T, \A n \in Nat : n \in T => n + 1 \in T
    PROVE  Nat \subseteq T
  <1> SUFFICES ASSUME Nat \ T # {}
               PROVE  FALSE
    OBVIOUS
  <1> DEFINE R == OpToRel(<, Nat)
  <1>1. IsWellFoundedOn(R, Nat)
    BY NatLessThanWellFounded
  <1>2. \A x, y \in Nat : <<x, y>> \in R <=> x < y
    BY DEF OpToRel
  <1> HIDE DEF R
  <1>3. PICK x \in Nat \ T : \A y \in Nat \ T : ~(<<y, x>> \in R)
    BY <1>1, WFMin
  <1>4. x # 0 /\ x - 1 \in Nat /\ x - 1 < x
    OBVIOUS
  <1>5. x - 1 \in T
    BY <1>2, <1>3, <1>4
  <1> QED
    BY <1>4, <1>5

\* The same from all smaller numbers.
LEMMA StrongInduction ==
    ASSUME NEW T, \A n \in Nat : (\A k \in Nat : k < n => k \in T) => n \in T
    PROVE  Nat \subseteq T
  <1> DEFINE U == {n \in Nat : \A k \in Nat : k < n => k \in T}
  <1>1. 0 \in U
    OBVIOUS
  <1>2. ASSUME NEW n \in Nat, n \in U
        PROVE  n + 1 \in U
    <2> SUFFICES ASSUME NEW k \in Nat, k < n + 1
                 PROVE  k \in T
      OBVIOUS
    <2>1. \A j \in Nat : j < k => j \in T
      BY <1>2
    <2> QED
      BY <2>1
  <1> HIDE DEF U
  <1>3. Nat \subseteq U
    BY <1>1, <1>2, Induction
  <1> QED
    <2> SUFFICES ASSUME NEW n \in Nat PROVE n \in T
      OBVIOUS
    <2>1. n + 1 \in U
      BY <1>3
    <2> QED
      BY <2>1 DEF U

\* A value of the recursive functions of Wire: where stop says so it is in base, and
\* otherwise made by step from the value at prev, which has a lower rank.
Recurses(D, stop, base, prev, step, f) ==
    f = [d \in D |-> IF d \in stop THEN base[d] ELSE step[<<d, f[prev[d]]>>]]

\* Such a function there is, if the values are in a set.
LEMMA Recursion ==
    ASSUME NEW D, NEW S, NEW s \in S, NEW rank \in [D -> Nat], NEW stop \in SUBSET D,
           NEW base \in [D -> S], NEW prev \in [D -> D], NEW step \in [D \X S -> S],
           \A d \in D \ stop : rank[prev[d]] < rank[d]
    PROVE  \E f \in [D -> S] : Recurses(D, stop, base, prev, step, f)
  <1> DEFINE Eq(g, d) == g[d] = IF d \in stop THEN base[d] ELSE step[<<d, g[prev[d]]>>]
             Good(n) == {g \in [D -> S] : \A d \in D : rank[d] < n => Eq(g, d)}
             T == {n \in Nat : Good(n) # {}}
  <1>1. 0 \in T
    <2>1. [d \in D |-> s] \in Good(0)
      OBVIOUS
    <2> QED
      BY <2>1
  <1>2. ASSUME NEW n \in Nat, n \in T
        PROVE  n + 1 \in T
    <2>1. PICK g \in Good(n) : TRUE
      BY <1>2
    <2> DEFINE h == [d \in D |-> IF d \in stop THEN base[d] ELSE step[<<d, g[prev[d]]>>]]
    <2>2. h \in [D -> S]
      BY <2>1
    <2>3. ASSUME NEW d \in D, rank[d] < n
          PROVE  h[d] = g[d]
      BY <2>1, <2>3
    <2>4. ASSUME NEW d \in D, rank[d] < n + 1
          PROVE  Eq(h, d)
      <3>1. CASE d \in stop
        BY <3>1
      <3>2. CASE d \notin stop
        <4>1. prev[d] \in D /\ rank[prev[d]] \in Nat /\ rank[d] \in Nat
          OBVIOUS
        <4>2. rank[prev[d]] < n
          BY <3>2, <4>1, <2>4
        <4>3. h[prev[d]] = g[prev[d]]
          BY <4>1, <4>2, <2>3
        <4> QED
          BY <4>3, <3>2
      <3> QED
        BY <3>1, <3>2
    <2>5. h \in Good(n + 1)
      BY <2>2, <2>4
    <2> HIDE DEF Good
    <2> QED
      BY <2>5
  <1>3. \A n \in Nat : Good(n) # {}
    <2> HIDE DEF Good
    <2>1. Nat \subseteq T
      <3> HIDE DEF T
      <3> QED
        BY <1>1, <1>2, Induction
    <2> QED
      BY <2>1
  <1>4. ASSUME NEW n \in Nat, NEW m \in Nat, NEW g \in Good(n), NEW h \in Good(m),
               NEW d \in D, rank[d] < n, rank[d] < m
        PROVE  g[d] = h[d]
    <2> DEFINE U == {k \in Nat : \A e \in D : rank[e] = k /\ k < n /\ k < m => g[e] = h[e]}
    <2>1. ASSUME NEW k \in Nat, \A j \in Nat : j < k => j \in U
          PROVE  k \in U
      <3> SUFFICES ASSUME NEW e \in D, rank[e] = k, k < n, k < m
                   PROVE  g[e] = h[e]
        OBVIOUS
      <3>1. Eq(g, e) /\ Eq(h, e)
        OBVIOUS
      <3>2. CASE e \in stop
        BY <3>1, <3>2
      <3>3. CASE e \notin stop
        <4>1. prev[e] \in D /\ rank[prev[e]] \in Nat /\ rank[prev[e]] < k
          BY <3>3
        <4>2. rank[prev[e]] \in U
          BY <4>1, <2>1
        <4>3. g[prev[e]] = h[prev[e]]
          BY <4>1, <4>2
        <4> QED
          BY <3>1, <3>3, <4>3
      <3> QED
        BY <3>2, <3>3
    <2>2. Nat \subseteq U
      <3> HIDE DEF U
      <3> QED
        BY <2>1, StrongInduction
    <2>3. rank[d] \in U
      BY <2>2
    <2> QED
      BY <2>3, <1>4
  <1> DEFINE at == [n \in Nat |-> CHOOSE g : g \in Good(n)]
             f == [d \in D |-> at[rank[d] + 1][d]]
  <1>5. \A n \in Nat : at[n] \in Good(n)
    <2> HIDE DEF Good
    <2> QED
      BY <1>3
  <1>6. \A n \in Nat : at[n] \in [D -> S]
    BY <1>5
  <1>7. f \in [D -> S]
    <2> HIDE DEF at
    <2> QED
      BY <1>6
  <1>8. ASSUME NEW d \in D
        PROVE  Eq(f, d)
    <2> DEFINE n == rank[d] + 1
    <2>1. n \in Nat /\ rank[d] < n
      OBVIOUS
    <2>2. Eq(at[n], d)
      <3> HIDE DEF at, n
      <3> QED
        BY <1>5, <2>1
    <2>3. f[d] = at[n][d]
      OBVIOUS
    <2>4. ASSUME d \notin stop
          PROVE  f[prev[d]] = at[n][prev[d]]
      <3> DEFINE m == rank[prev[d]] + 1
      <3>1. /\ prev[d] \in D /\ rank[prev[d]] \in Nat /\ m \in Nat
            /\ rank[prev[d]] < m /\ rank[prev[d]] < n
        BY <2>4
      <3>2. f[prev[d]] = at[m][prev[d]]
        BY <3>1
      <3>3. at[m][prev[d]] = at[n][prev[d]]
        <4> HIDE DEF Good, at, m, n
        <4> QED
          BY <1>4, <1>5, <2>1, <3>1
      <3> QED
        BY <3>2, <3>3
    <2> HIDE DEF f, at, n
    <2> QED
      BY <2>2, <2>3, <2>4
  <1>9. Recurses(D, stop, base, prev, step, f)
    <2>1. f = [d \in D |-> f[d]]
      OBVIOUS
    <2> HIDE DEF f
    <2> QED
      BY <2>1, <1>8 DEF Recurses
  <1> HIDE DEF f
  <1> QED
    BY <1>7, <1>9

-----------------------------------------------------------------------------
\* div and % of a number that is not negative.
LEMMA Division ==
    ASSUME NEW n \in Nat
    PROVE  /\ n \div 128 \in Nat /\ n % 128 \in 0 .. 127 /\ n = (n % 128) + 128 * (n \div 128)
           /\ n >= 128 => n \div 128 < n /\ n \div 128 > 0
           /\ n \div 2 \in Nat
           /\ n > 0 => n \div 2 < n
           /\ n < 128 => n \div 128 = 0
  BY SMT

\* EncodeVarint is the function its recursion describes.
LEMMA EncodeVarintIs ==
    ASSUME NEW n \in Nat
    PROVE  EncodeVarint(n) =
               IF n < 128 THEN <<n>> ELSE <<128 + (n % 128)>> \o EncodeVarint(n \div 128)
  <1> DEFINE stop == 0 .. 127
             base == [k \in Nat |-> <<k>>]
             prev == [k \in Nat |-> k \div 128]
             step == [p \in Nat \X Seq(Nat) |-> <<128 + (p[1] % 128)>> \o p[2]]
             rank == [k \in Nat |-> k]
             G == CHOOSE g : g = [k \in Nat |->
                      IF k < 128 THEN <<k>> ELSE <<128 + (k % 128)>> \o g[k \div 128]]
  <1>1. \A k \in Nat : EncodeVarint(k) = G[k]
    BY DEF EncodeVarint
  <1>2. /\ Nil \in Seq(Nat) /\ rank \in [Nat -> Nat] /\ stop \in SUBSET Nat
        /\ base \in [Nat -> Seq(Nat)]
        /\ prev \in [Nat -> Nat]
    BY Division DEF Nil
  <1>3. step \in [Nat \X Seq(Nat) -> Seq(Nat)]
    <2> SUFFICES ASSUME NEW p \in Nat \X Seq(Nat)
                 PROVE  <<128 + (p[1] % 128)>> \o p[2] \in Seq(Nat)
      OBVIOUS
    <2>1. 128 + (p[1] % 128) \in Nat
      BY Division
    <2> QED
      BY <2>1
  <1>4. \A k \in Nat \ stop : rank[prev[k]] < rank[k]
    BY Division
  <1>5. \E f \in [Nat -> Seq(Nat)] : Recurses(Nat, stop, base, prev, step, f)
    <2> HIDE DEF stop, base, prev, step, rank
    <2> QED
      BY <1>2, <1>3, <1>4, Recursion
  <1>6. PICK f \in [Nat -> Seq(Nat)] : Recurses(Nat, stop, base, prev, step, f)
    BY <1>5
  <1>7. ASSUME NEW k \in Nat
        PROVE  (IF k \in stop THEN base[k] ELSE step[<<k, f[prev[k]]>>])
               = IF k < 128 THEN <<k>> ELSE <<128 + (k % 128)>> \o f[k \div 128]
    <2>1. k \div 128 \in Nat /\ f[k \div 128] \in Seq(Nat)
      BY Division
    <2>2. CASE k < 128
      <3>1. k \in stop /\ base[k] = <<k>>
        BY <2>2
      <3> HIDE DEF stop, base, prev, step
      <3> QED
        BY <2>2, <3>1
    <2>3. CASE ~(k < 128)
      <3>1. k \notin stop
        BY <2>3
      <3>2. prev[k] = k \div 128
        OBVIOUS
      <3> DEFINE p == <<k, f[k \div 128]>>
      <3>3. p \in Nat \X Seq(Nat) /\ p[1] = k /\ p[2] = f[k \div 128]
        BY <2>1
      <3> HIDE DEF p
      <3>4. step[p] = <<128 + (k % 128)>> \o f[k \div 128]
        BY <3>3
      <3> QED
        BY <2>3, <3>1, <3>2, <3>4 DEF p
    <2> QED
      BY <2>2, <2>3
  <1>8. f = [k \in Nat |-> IF k < 128 THEN <<k>> ELSE <<128 + (k % 128)>> \o f[k \div 128]]
    <2> HIDE DEF stop, base, prev, step
    <2> QED
      BY <1>6, <1>7 DEF Recurses
  <1>9. G = [k \in Nat |-> IF k < 128 THEN <<k>> ELSE <<128 + (k % 128)>> \o G[k \div 128]]
    <2>1. \E g : g = [k \in Nat |->
                      IF k < 128 THEN <<k>> ELSE <<128 + (k % 128)>> \o g[k \div 128]]
      BY <1>8
    <2> QED
      BY <2>1
  <1>10. \A k \in Nat : G[k] = IF k < 128 THEN <<k>> ELSE <<128 + (k % 128)>> \o G[k \div 128]
    <2> HIDE DEF G
    <2> QED
      BY <1>9
  <1> HIDE DEF G, stop, base, prev, step, rank
  <1>11. n \div 128 \in Nat
    BY Division
  <1>12. EncodeVarint(n) = G[n] /\ EncodeVarint(n \div 128) = G[n \div 128]
    BY <1>1, <1>11
  <1> QED
    BY <1>10, <1>12

\* Of a number below 128 it is one byte.
LEMMA ShortVarint ==
    ASSUME NEW n \in Nat, n < 128
    PROVE  EncodeVarint(n) = <<n>>
  BY EncodeVarintIs, Zenon

\* Of a longer one.
LEMMA LongVarint ==
    ASSUME NEW n \in Nat, n >= 128
    PROVE  EncodeVarint(n) = <<128 + (n % 128)>> \o EncodeVarint(n \div 128)
  <1>1. ~(n < 128)
    OBVIOUS
  <1> QED
    BY <1>1, EncodeVarintIs, Zenon

-----------------------------------------------------------------------------
\* Bytes are numbers.
LEMMA BytesAreNumbers == Byte \subseteq Nat
  BY DEF Byte

\* A varint is bytes of which the last, and no other, has no eighth bit.
LEMMA EncodeVarintBytes ==
    ASSUME NEW n \in Nat
    PROVE  LET e == EncodeVarint(n)
           IN  /\ e \in Text /\ Len(e) \in Nat \ {0}
               /\ e[Len(e)] < 128
               /\ \A j \in 1 .. Len(e) - 1 : e[j] >= 128
  <1> DEFINE P(k) == LET e == EncodeVarint(k)
                     IN  /\ e \in Text /\ Len(e) \in Nat \ {0}
                         /\ e[Len(e)] < 128
                         /\ \A j \in 1 .. Len(e) - 1 : e[j] >= 128
             T == {k \in Nat : P(k)}
  <1>1. ASSUME NEW k \in Nat, \A j \in Nat : j < k => j \in T
        PROVE  k \in T
    <2>1. CASE k < 128
      <3>1. EncodeVarint(k) = <<k>> /\ k \in Byte
        BY <2>1, ShortVarint DEF Byte
      <3>2. <<k>> \in Text /\ Len(<<k>>) = 1 /\ <<k>>[1] = k
        BY <3>1 DEF Text
      <3>3. P(k)
        BY <2>1, <3>1, <3>2
      <3> QED
        BY <3>3
    <2>2. CASE k >= 128
      <3> DEFINE q == k \div 128  h == 128 + (k % 128)  f == EncodeVarint(q)  e == EncodeVarint(k)
      <3>1. q \in Nat /\ q < k /\ h \in Byte /\ h >= 128
        BY <2>2, Division DEF Byte
      <3>2. P(q)
        BY <3>1, <1>1
      <3>3. e = <<h>> \o f
        BY <2>2, LongVarint
      <3> HIDE DEF q, h, f, e
      <3>4. /\ f \in Text /\ Len(f) \in Nat \ {0} /\ f[Len(f)] < 128
            /\ \A j \in 1 .. Len(f) - 1 : f[j] >= 128
        BY <3>2 DEF f
      <3>5. /\ e \in Text /\ Len(e) = Len(f) + 1 /\ e[1] = h
            /\ \A j \in 2 .. Len(f) + 1 : e[j] = f[j - 1]
        BY <3>1, <3>3, <3>4 DEF Text
      <3>6. e[Len(e)] < 128
        BY <3>4, <3>5
      <3>7. \A j \in 1 .. Len(e) - 1 : e[j] >= 128
        <4> SUFFICES ASSUME NEW j \in 1 .. Len(e) - 1
                     PROVE  e[j] >= 128
          OBVIOUS
        <4>1. CASE j = 1
          BY <3>1, <3>5, <4>1
        <4>2. CASE j # 1
          <5>1. j \in 2 .. Len(f) + 1 /\ j - 1 \in 1 .. Len(f) - 1
            BY <3>4, <3>5, <4>2
          <5> QED
            BY <3>4, <3>5, <5>1
        <4> QED
          BY <4>1, <4>2
      <3>8. P(k)
        BY <3>4, <3>5, <3>6, <3>7 DEF e
      <3> QED
        BY <3>8
    <2> QED
      BY <2>1, <2>2
  <1>2. Nat \subseteq T
    <2> HIDE DEF T
    <2> QED
      BY <1>1, StrongInduction
  <1> QED
    BY <1>2

-----------------------------------------------------------------------------
\* The bits of Sov.
LEMMA SovIs ==
    \E B \in [Nat -> Nat] :
        /\ \A n \in Nat : n <= 1 => B[n] = 1
        /\ \A n \in Nat : n > 1 => B[n] = 1 + B[n \div 2]
        /\ \A n \in Nat : Sov(n) = (B[n] + 6) \div 7
  <1> DEFINE stop == {0, 1}
             base == [k \in Nat |-> 1]
             prev == [k \in Nat |-> k \div 2]
             step == [p \in Nat \X Nat |-> 1 + p[2]]
             rank == [k \in Nat |-> k]
             G == CHOOSE g : g = [k \in Nat |-> IF k <= 1 THEN 1 ELSE 1 + g[k \div 2]]
  <1>1. \A k \in Nat : Sov(k) = (G[k] + 6) \div 7
    BY DEF Sov
  <1>2. /\ 0 \in Nat /\ rank \in [Nat -> Nat] /\ stop \in SUBSET Nat
        /\ base \in [Nat -> Nat]
        /\ prev \in [Nat -> Nat]
        /\ step \in [Nat \X Nat -> Nat]
    BY Division
  <1>3. \A k \in Nat \ stop : rank[prev[k]] < rank[k]
    BY Division
  <1>4. \E f \in [Nat -> Nat] : Recurses(Nat, stop, base, prev, step, f)
    <2> HIDE DEF stop, base, prev, step, rank
    <2> QED
      BY <1>2, <1>3, Recursion
  <1>5. PICK f \in [Nat -> Nat] : Recurses(Nat, stop, base, prev, step, f)
    BY <1>4
  <1>6. ASSUME NEW k \in Nat
        PROVE  (IF k \in stop THEN base[k] ELSE step[<<k, f[prev[k]]>>])
               = IF k <= 1 THEN 1 ELSE 1 + f[k \div 2]
    <2>1. k \div 2 \in Nat
      BY Division
    <2>2. k \in stop <=> k <= 1
      OBVIOUS
    <2>3. base[k] = 1 /\ step[<<k, f[k \div 2]>>] = 1 + f[k \div 2] /\ prev[k] = k \div 2
      BY <2>1
    <2> HIDE DEF stop, base, prev, step
    <2> QED
      BY <2>2, <2>3
  <1>7. f = [k \in Nat |-> IF k <= 1 THEN 1 ELSE 1 + f[k \div 2]]
    <2> HIDE DEF stop, base, prev, step
    <2> QED
      BY <1>5, <1>6 DEF Recurses
  <1>8. G = [k \in Nat |-> IF k <= 1 THEN 1 ELSE 1 + G[k \div 2]]
    <2>1. \E g : g = [k \in Nat |-> IF k <= 1 THEN 1 ELSE 1 + g[k \div 2]]
      BY <1>7
    <2> QED
      BY <2>1
  <1> HIDE DEF G
  <1>9. \A k \in Nat : (k <= 1 => G[k] = 1) /\ (k > 1 => G[k] = 1 + G[k \div 2])
    BY <1>8
  <1>10. \A k \in Nat : G[k] \in Nat
    <2> DEFINE T == {k \in Nat : G[k] \in Nat}
    <2>1. ASSUME NEW k \in Nat, \A j \in Nat : j < k => j \in T
          PROVE  k \in T
      <3>1. CASE k <= 1
        BY <1>9, <3>1
      <3>2. CASE k > 1
        <4>1. k \div 2 \in Nat /\ k \div 2 < k
          BY <3>2, Division
        <4>2. k \div 2 \in T
          BY <2>1, <4>1
        <4> QED
          BY <1>9, <3>2, <4>2
      <3> QED
        BY <3>1, <3>2
    <2>2. Nat \subseteq T
      <3> HIDE DEF T
      <3> QED
        BY <2>1, StrongInduction
    <2> QED
      BY <2>2
  <1>11. G \in [Nat -> Nat]
    <2>1. G = [k \in Nat |-> G[k]]
      BY <1>8
    <2> QED
      BY <1>10, <2>1
  <1> QED
    BY <1>1, <1>9, <1>11

\* sov counts the bytes that encodeVarint writes.
LEMMA SovIsLength ==
    ASSUME NEW n \in Nat
    PROVE  Sov(n) = Len(EncodeVarint(n))
  <1>1. PICK B \in [Nat -> Nat] :
            /\ \A k \in Nat : k <= 1 => B[k] = 1
            /\ \A k \in Nat : k > 1 => B[k] = 1 + B[k \div 2]
            /\ \A k \in Nat : Sov(k) = (B[k] + 6) \div 7
    BY SovIs
  <1>10. \A k \in Nat : k <= 1 => B[k] = 1
    BY <1>1
  <1>11. \A k \in Nat : k > 1 => B[k] = 1 + B[k \div 2]
    BY <1>1
  <1>12. \A k \in Nat : Sov(k) = (B[k] + 6) \div 7
    BY <1>1
  <1>2. ASSUME NEW k \in Nat, k < 128
        PROVE  B[k] \in 1 .. 7
    <2> DEFINE Below(m, c) == \A j \in Nat : j < m => B[j] \in 1 .. c
    <2>1. Below(2, 1)
      BY <1>10
    <2>2. ASSUME NEW m \in Nat, NEW c \in Nat, Below(m, c), m > 1, c > 0
          PROVE  Below(2 * m, c + 1)
      <3> SUFFICES ASSUME NEW j \in Nat, j < 2 * m
                   PROVE  B[j] \in 1 .. c + 1
        OBVIOUS
      <3>1. j \div 2 \in Nat /\ j \div 2 < m
        OBVIOUS
      <3>2. B[j \div 2] \in 1 .. c
        BY <2>2, <3>1
      <3> QED
        BY <1>10, <1>11, <2>2, <3>2
    <2> HIDE DEF Below
    <2>3. Below(4, 2)
      BY <2>1, <2>2
    <2>4. Below(8, 3)
      BY <2>3, <2>2
    <2>5. Below(16, 4)
      BY <2>4, <2>2
    <2>6. Below(32, 5)
      BY <2>5, <2>2
    <2>7. Below(64, 6)
      BY <2>6, <2>2
    <2>8. Below(128, 7)
      BY <2>7, <2>2
    <2> QED
      BY <1>2, <2>8 DEF Below
  <1>3. ASSUME NEW k \in Nat, k >= 128
        PROVE  B[k] = 7 + B[k \div 128]
    <2> DEFINE k1 == k \div 2  k2 == k1 \div 2  k3 == k2 \div 2  k4 == k3 \div 2
               k5 == k4 \div 2  k6 == k5 \div 2  k7 == k6 \div 2
    <2>1. k1 \in Nat /\ k1 >= 64 /\ k1 = k \div 2
      BY <1>3
    <2>2. B[k] = 1 + B[k1]
      BY <1>11, <1>3
    <2> HIDE DEF k1
    <2>3. k2 \in Nat /\ k2 >= 32 /\ k2 = k \div 4 /\ B[k1] = 1 + B[k2]
      BY <1>11, <2>1
    <2> HIDE DEF k2
    <2>4. k3 \in Nat /\ k3 >= 16 /\ k3 = k \div 8 /\ B[k2] = 1 + B[k3]
      BY <1>11, <2>3
    <2> HIDE DEF k3
    <2>5. k4 \in Nat /\ k4 >= 8 /\ k4 = k \div 16 /\ B[k3] = 1 + B[k4]
      BY <1>11, <2>4
    <2> HIDE DEF k4
    <2>6. k5 \in Nat /\ k5 >= 4 /\ k5 = k \div 32 /\ B[k4] = 1 + B[k5]
      BY <1>11, <2>5
    <2> HIDE DEF k5
    <2>7. k6 \in Nat /\ k6 >= 2 /\ k6 = k \div 64 /\ B[k5] = 1 + B[k6]
      BY <1>11, <2>6
    <2> HIDE DEF k6
    <2>8. k7 \in Nat /\ k7 = k \div 128 /\ B[k6] = 1 + B[k7]
      BY <1>11, <2>7
    <2> HIDE DEF k7
    <2>9. B[k7] \in Nat
      BY <2>8
    <2> QED
      BY <2>2, <2>3, <2>4, <2>5, <2>6, <2>7, <2>8, <2>9
  <1> DEFINE T == {k \in Nat : Sov(k) = Len(EncodeVarint(k))}
  <1>4. ASSUME NEW k \in Nat, \A j \in Nat : j < k => j \in T
        PROVE  k \in T
    <2>1. CASE k < 128
      <3>1. Sov(k) = 1
        BY <1>12, <1>2, <2>1
      <3> QED
        BY <2>1, <3>1, ShortVarint
    <2>2. CASE k >= 128
      <3> DEFINE q == k \div 128
      <3>1. q \in Nat /\ q < k
        BY <2>2, Division
      <3>2. Sov(q) = Len(EncodeVarint(q))
        BY <1>4, <3>1
      <3>3. Len(EncodeVarint(k)) = 1 + Len(EncodeVarint(q))
        <4>1. EncodeVarint(k) = <<128 + (k % 128)>> \o EncodeVarint(q)
          BY <2>2, LongVarint
        <4>2. EncodeVarint(q) \in Seq(Byte)
          BY <3>1, EncodeVarintBytes DEF Text
        <4> HIDE DEF q
        <4> QED
          BY <4>1, <4>2
      <3>4. B[k] = 7 + B[q]
        BY <1>3, <2>2
      <3> HIDE DEF q
      <3>5. Sov(k) = 1 + Sov(q)
        <4>1. B[q] \in Nat /\ Sov(k) = (B[k] + 6) \div 7 /\ Sov(q) = (B[q] + 6) \div 7
          BY <1>12, <3>1
        <4> QED
          BY <3>4, <4>1
      <3> QED
        BY <3>2, <3>3, <3>5
    <2> QED
      BY <2>1, <2>2
  <1>5. Nat \subseteq T
    <2> HIDE DEF T
    <2> QED
      BY <1>4, StrongInduction
  <1> QED
    BY <1>5

-----------------------------------------------------------------------------
\* The function of DecodeVarint: what the bytes of b up to the place end stand for.
Value(b, end) ==
    CHOOSE value : value =
        [j \in 1 .. end |-> IF j = end THEN b[j] ELSE (b[j] % 128) + 128 * value[j + 1]]

\* It is the function its recursion describes.
LEMMA ValueIs ==
    ASSUME NEW b \in Text, NEW end \in 1 .. Len(b)
    PROVE  /\ Value(b, end)[end] = b[end]
           /\ \A j \in 1 .. end - 1 : Value(b, end)[j] = (b[j] % 128) + 128 * Value(b, end)[j + 1]
  <1> DEFINE D == 1 .. end
             stop == {end}
             base == [j \in D |-> b[j]]
             prev == [j \in D |-> IF j = end THEN j ELSE j + 1]
             step == [p \in D \X Nat |-> (b[p[1]] % 128) + 128 * p[2]]
             rank == [j \in D |-> end - j]
  <1>1. Len(b) \in Nat /\ \A j \in D : b[j] \in Nat /\ b[j] % 128 \in Nat
    <2>1. Len(b) \in Nat /\ \A j \in D : b[j] \in Byte
      BY DEF Text
    <2>2. \A j \in D : b[j] \in Nat
      BY <2>1, BytesAreNumbers
    <2> QED
      BY <2>1, <2>2, Division
  <1>2. /\ 0 \in Nat /\ rank \in [D -> Nat] /\ stop \in SUBSET D
        /\ base \in [D -> Nat] /\ prev \in [D -> D] /\ step \in [D \X Nat -> Nat]
    BY <1>1
  <1>3. \A j \in D \ stop : rank[prev[j]] < rank[j]
    OBVIOUS
  <1>4. \E f \in [D -> Nat] : Recurses(D, stop, base, prev, step, f)
    <2> HIDE DEF D, stop, base, prev, step, rank
    <2> QED
      BY <1>2, <1>3, Recursion
  <1>5. PICK f \in [D -> Nat] : Recurses(D, stop, base, prev, step, f)
    BY <1>4
  <1>6. ASSUME NEW j \in D
        PROVE  (IF j \in stop THEN base[j] ELSE step[<<j, f[prev[j]]>>])
               = IF j = end THEN b[j] ELSE (b[j] % 128) + 128 * f[j + 1]
    <2>1. CASE j = end
      BY <2>1
    <2>2. CASE j # end
      <3> DEFINE p == <<j, f[j + 1]>>
      <3>1. prev[j] = j + 1 /\ j + 1 \in D /\ j \notin stop
        BY <2>2
      <3>2. p \in D \X Nat /\ p[1] = j /\ p[2] = f[j + 1]
        BY <3>1
      <3> HIDE DEF p
      <3>3. step[p] = (b[j] % 128) + 128 * f[j + 1]
        BY <3>2
      <3> HIDE DEF D, stop, base, prev, step
      <3> QED
        BY <2>2, <3>1, <3>3 DEF p
    <2> QED
      BY <2>1, <2>2
  <1>7. f = [j \in D |-> IF j = end THEN b[j] ELSE (b[j] % 128) + 128 * f[j + 1]]
    <2> HIDE DEF D, stop, base, prev, step
    <2> QED
      BY <1>5, <1>6 DEF Recurses
  <1>8. Value(b, end) = [j \in D |-> IF j = end THEN b[j] ELSE (b[j] % 128) + 128 * Value(b, end)[j + 1]]
    <2>1. \E value : value = [j \in D |-> IF j = end THEN b[j] ELSE (b[j] % 128) + 128 * value[j + 1]]
      BY <1>7
    <2> QED
      BY <2>1 DEF Value
  <1>9. /\ end \in D /\ \A j \in 1 .. end - 1 : j \in D /\ j # end
    OBVIOUS
  <1> HIDE DEF D
  <1> QED
    BY <1>8, <1>9

\* The bytes x are at place i of b.
At(b, i, x) ==
    /\ i \in Nat /\ i > 0 /\ i + Len(x) <= Len(b) + 1
    /\ \A k \in 1 .. Len(x) : b[i + k - 1] = x[k]

\* Where two strings are, the first is, and the second behind it.
LEMMA AtBoth ==
    ASSUME NEW b \in Text, NEW i \in Nat, NEW x \in Text, NEW y \in Text, At(b, i, x \o y)
    PROVE  At(b, i, x) /\ At(b, i + Len(x), y)
  <1>1. Len(x) \in Nat /\ Len(y) \in Nat /\ Len(b) \in Nat /\ Len(x \o y) = Len(x) + Len(y)
    BY DEF Text
  <1>2. \A k \in 1 .. Len(x) : (x \o y)[k] = x[k]
    BY DEF Text
  <1>3. \A k \in 1 .. Len(y) : (x \o y)[Len(x) + k] = y[k]
    BY DEF Text
  <1>4. \A k \in 1 .. Len(y) : b[i + Len(x) + k - 1] = y[k]
    <2> SUFFICES ASSUME NEW k \in 1 .. Len(y)
                 PROVE  b[i + Len(x) + k - 1] = y[k]
      OBVIOUS
    <2>1. Len(x) + k \in 1 .. Len(x \o y)
      BY <1>1
    <2>2. b[i + (Len(x) + k) - 1] = (x \o y)[Len(x) + k]
      BY <2>1 DEF At
    <2>3. i + (Len(x) + k) - 1 = i + Len(x) + k - 1
      BY <1>1
    <2> QED
      BY <1>3, <2>2, <2>3
  <1>5. \A k \in 1 .. Len(x) : k \in 1 .. Len(x \o y)
    BY <1>1
  <1>6. \A k \in 1 .. Len(x) : b[i + k - 1] = x[k]
    BY <1>2, <1>5 DEF At
  <1> HIDE <1>2, <1>3
  <1>7. i \in Nat /\ i > 0 /\ i + Len(x \o y) <= Len(b) + 1
    BY DEF At
  <1> QED
    BY <1>1, <1>4, <1>6, <1>7 DEF At

\* What the bytes of a varint stand for.
LEMMA ValueOfVarint ==
    ASSUME NEW b \in Text, NEW v \in Nat, NEW i \in Nat, At(b, i, EncodeVarint(v))
    PROVE  Value(b, i + Len(EncodeVarint(v)) - 1)[i] = v
  <1> DEFINE T == {n \in Nat : \A j \in Nat : At(b, j, EncodeVarint(n)) =>
                       Value(b, j + Len(EncodeVarint(n)) - 1)[j] = n}
  <1>1. ASSUME NEW n \in Nat, \A m \in Nat : m < n => m \in T
        PROVE  n \in T
    <2> SUFFICES ASSUME NEW j \in Nat, At(b, j, EncodeVarint(n))
                 PROVE  Value(b, j + Len(EncodeVarint(n)) - 1)[j] = n
      OBVIOUS
    <2>1. EncodeVarint(n) \in Text /\ Len(EncodeVarint(n)) \in Nat \ {0} /\ Len(b) \in Nat
      BY EncodeVarintBytes DEF Text
    <2> DEFINE end == j + Len(EncodeVarint(n)) - 1
    <2>2. end \in 1 .. Len(b) /\ j \in 1 .. end
      BY <2>1 DEF At
    <2>3. CASE n < 128
      <3>1. EncodeVarint(n) = <<n>>
        BY <2>3, ShortVarint
      <3>2. end = j /\ b[j] = n
        BY <2>1, <3>1 DEF At
      <3> HIDE DEF end
      <3> QED
        BY <2>2, <3>2, ValueIs DEF end
    <2>4. CASE n >= 128
      <3> DEFINE q == n \div 128  h == 128 + (n % 128)  e == EncodeVarint(q)
      <3>1. q \in Nat /\ q < n /\ h \in Byte /\ h % 128 = n % 128 /\ n = (n % 128) + 128 * q
        BY <2>4, Division DEF Byte
      <3>2. EncodeVarint(n) = <<h>> \o e
        BY <2>4, LongVarint
      <3> HIDE DEF q, h
      <3>3. e \in Text /\ Len(e) \in Nat \ {0} /\ <<h>> \in Text
        <4>1. e \in Text /\ Len(e) \in Nat \ {0}
          BY <3>1, EncodeVarintBytes
        <4>2. <<h>> \in Text
          BY <3>1 DEF Text
        <4> QED
          BY <4>1, <4>2
      <3> HIDE DEF e
      <3>4. At(b, j, <<h>>) /\ At(b, j + Len(<<h>>), e)
        BY <3>2, <3>3, AtBoth
      <3>5. Len(<<h>>) = 1 /\ Len(EncodeVarint(n)) = 1 + Len(e)
        BY <3>2, <3>3 DEF Text
      <3>6. b[j] = h
        BY <3>4, <3>5, <2>2 DEF At
      <3>7. q \in T
        BY <3>1, <1>1
      <3>8. Value(b, (j + 1) + Len(e) - 1)[j + 1] = q
        BY <3>4, <3>5, <3>7 DEF e
      <3>9. (j + 1) + Len(e) - 1 = end /\ j \in 1 .. end - 1
        BY <3>3, <3>5, <2>2
      <3> HIDE DEF end
      <3>10. Value(b, end)[j] = (b[j] % 128) + 128 * Value(b, end)[j + 1]
        BY <2>2, <3>9, ValueIs
      <3> QED
        BY <3>1, <3>6, <3>8, <3>9, <3>10 DEF end
    <2> QED
      BY <2>3, <2>4
  <1>2. Nat \subseteq T
    <2> HIDE DEF T
    <2> QED
      BY <1>1, StrongInduction
  <1> QED
    BY <1>2

\* What encodeVarint writes is what the loop over shift reads.
LEMMA DecodeIs ==
    ASSUME NEW b \in Text, NEW v \in Nat, NEW i \in Nat, At(b, i, EncodeVarint(v)),
           Len(EncodeVarint(v)) \in 1 .. 10
    PROVE  DecodeVarint(b, i) = <<v, i + Len(EncodeVarint(v))>>
  <1> DEFINE e == EncodeVarint(v)
             L == Len(e)
             N == Len(b)
             end == i + L - 1
             last == {j \in i .. i + 9 : j <= N /\ b[j] < 128}
  <1>1. /\ e \in Text /\ L \in 1 .. 10 /\ e[L] < 128
        /\ \A j \in 1 .. L - 1 : e[j] >= 128
    BY EncodeVarintBytes
  <1>2. N \in Nat
    BY DEF Text
  <1>3. i > 0 /\ i + L <= N + 1
    BY DEF At
  <1>4. \A k \in 1 .. L : b[i + k - 1] = e[k]
    BY DEF At
  <1>5. DecodeVarint(b, i) = IF last = {} THEN Nil ELSE <<Value(b, Min(last))[i], Min(last) + 1>>
    BY DEF DecodeVarint, Value
  <1>6. \A j \in 1 .. L : e[j] \in Nat
    <2>1. \A j \in 1 .. L : e[j] \in Byte
      BY <1>1 DEF Text
    <2> QED
      BY <2>1, BytesAreNumbers
  <1>7. L \in Nat /\ L >= 1 /\ L <= 10
    <2>1. L \in 1 .. 10
      OBVIOUS
    <2> HIDE DEF L
    <2> QED
      BY <2>1
  <1>8. Value(b, end)[i] = v
    BY ValueOfVarint
  <1> HIDE DEF e, L, N
  <1>9. end \in last
    <2>1. end \in i .. i + 9 /\ end <= N
      BY <1>2, <1>3, <1>7
    <2>2. b[end] = e[L]
      BY <1>4, <1>7
    <2> QED
      BY <1>1, <2>1, <2>2
  <1>10. ASSUME NEW j \in last
         PROVE  end <= j
    <2> SUFFICES ASSUME j < end
                 PROVE  FALSE
      BY <1>7
    <2> DEFINE k == j - i + 1
    <2>1. k \in 1 .. L - 1 /\ k \in 1 .. L /\ i + k - 1 = j
      BY <1>7
    <2>2. b[j] < 128
      OBVIOUS
    <2> HIDE DEF k, last
    <2>3. b[j] = e[k]
      BY <1>4, <2>1
    <2>4. e[k] >= 128 /\ e[k] \in Nat
      BY <1>1, <1>6, <2>1
    <2> QED
      BY <2>2, <2>3, <2>4
  <1>11. Min(last) = end
    <2>1. \A x \in last : x \in Int
      OBVIOUS
    <2>2. end \in Int
      BY <1>9
    <2> HIDE DEF last, end
    <2>3. Min(last) \in last /\ \A y \in last : Min(last) <= y
      <3>1. \E x \in last : \A y \in last : x <= y
        BY <1>9, <1>10
      <3> QED
        BY <3>1, Zenon DEF Min
    <2>4. Min(last) <= end /\ end <= Min(last) /\ Min(last) \in Int
      BY <1>9, <1>10, <2>1, <2>3
    <2> QED
      BY <2>2, <2>4
  <1>12. DecodeVarint(b, i) = <<Value(b, end)[i], end + 1>>
    <2> HIDE DEF last, end
    <2> QED
      BY <1>5, <1>9, <1>11
  <1>13. end + 1 = i + L
    BY <1>7
  <1> HIDE DEF end
  <1> QED
    BY <1>8, <1>12, <1>13 DEF e, L

-----------------------------------------------------------------------------
\* Fields as the loop of Unmarshal makes them.
Field(num, wire, val) == [num |-> num, wire |-> wire, val |-> val]

\* A tag is a byte, which gives the number and the wire type back.
LEMMA TagIs ==
    ASSUME NEW num \in 1 .. 15, NEW wire \in 0 .. 7
    PROVE  /\ Tag(num, wire) = EncodeVarint(8 * num + wire)
           /\ Tag(num, wire) = <<8 * num + wire>>
           /\ Tag(num, wire) \in Text
           /\ Fits(8 * num + wire)
           /\ (8 * num + wire) \div 8 = num /\ (8 * num + wire) % 8 = wire
  <1> DEFINE t == 8 * num + wire
  <1>1. t \in Nat /\ t < 128 /\ t \in Byte /\ t \div 8 = num /\ t % 8 = wire
    BY DEF Byte
  <1>2. Tag(num, wire) = EncodeVarint(t)
    BY DEF Tag
  <1> HIDE DEF t
  <1>3. EncodeVarint(t) = <<t>>
    BY <1>1, ShortVarint
  <1>4. Len(<<t>>) = 1 /\ <<t>> \in Text
    BY <1>1 DEF Text
  <1>5. Fits(t)
    BY <1>1, <1>3, <1>4 DEF Fits
  <1> QED
    BY <1>1, <1>2, <1>3, <1>4, <1>5 DEF t

\* A field with a number is read as such.
LEMMA FieldAtInt ==
    ASSUME NEW b \in Text, NEW i \in Nat, NEW num \in 1 .. 15, NEW v, Fits(v),
           At(b, i, Tag(num, Varint) \o EncodeVarint(v))
    PROVE  FieldAt(b, i) = <<Field(num, Varint, v), i + Len(Tag(num, Varint) \o EncodeVarint(v))>>
  <1> DEFINE t == Tag(num, Varint)
             e == EncodeVarint(v)
             tag == 8 * num + Varint
  <1>1. /\ t \in Text /\ t = EncodeVarint(tag) /\ t = <<tag>> /\ Fits(tag)
        /\ tag \div 8 = num /\ tag % 8 = Varint
    <2>1. Varint \in 0 .. 7
      BY DEF Varint
    <2> QED
      BY <2>1, TagIs
  <1>2. v \in Nat /\ e \in Text /\ Len(e) \in 1 .. 10
    BY EncodeVarintBytes DEF Fits
  <1> HIDE DEF e, t, tag
  <1>3. At(b, i, t) /\ At(b, i + Len(t), e)
    BY <1>1, <1>2, AtBoth DEF e, t
  <1>4. Len(t) = 1 /\ i + 1 \in Nat /\ tag \in Nat
    BY <1>1 DEF Fits
  <1>5. DecodeVarint(b, i) = <<tag, i + 1>>
    <2>1. At(b, i, EncodeVarint(tag)) /\ Len(EncodeVarint(tag)) \in 1 .. 10 /\ tag \in Nat
      BY <1>1, <1>3 DEF Fits
    <2>2. Len(EncodeVarint(tag)) = 1
      BY <1>1, <1>4
    <2> QED
      BY <2>1, <2>2, DecodeIs
  <1>6. DecodeVarint(b, i + 1) = <<v, i + 1 + Len(e)>>
    BY <1>2, <1>3, <1>4, DecodeIs DEF e
  <1>7. <<tag, i + 1>> # Nil /\ <<v, i + 1 + Len(e)>> # Nil
    BY DEF Nil
  <1>8. Len(t \o e) = 1 + Len(e)
    BY <1>1, <1>2, <1>4 DEF Text
  <1>9. FieldAt(b, i) = <<Field(num, Varint, v), i + 1 + Len(e)>>
    BY <1>1, <1>5, <1>6, <1>7 DEF FieldAt, Field, Varint, Bytes
  <1>10. i + 1 + Len(e) = i + Len(t \o e)
    BY <1>2, <1>8
  <1> QED
    BY <1>9, <1>10 DEF e, t

\* So is one with bytes.
LEMMA FieldAtBytes ==
    ASSUME NEW b \in Text, NEW i \in Nat, NEW num \in 1 .. 15, NEW x \in Text, Fits(Len(x)),
           At(b, i, Embedded(num, x))
    PROVE  FieldAt(b, i) = <<Field(num, Bytes, x), i + Len(Embedded(num, x))>>
  <1> DEFINE t == Tag(num, Bytes)
             e == EncodeVarint(Len(x))
             tag == 8 * num + Bytes
             n == Len(x)
             N == Len(b)
  <1>1. /\ t \in Text /\ t = EncodeVarint(tag) /\ t = <<tag>> /\ Fits(tag)
        /\ tag \div 8 = num /\ tag % 8 = Bytes
    <2>1. Bytes \in 0 .. 7
      BY DEF Bytes
    <2> QED
      BY <2>1, TagIs
  <1>2. n \in Nat /\ e \in Text /\ Len(e) \in 1 .. 10 /\ e = EncodeVarint(n) /\ N \in Nat
    BY EncodeVarintBytes DEF Fits, Text
  <1>3. Embedded(num, x) = (t \o e) \o x
    BY DEF Embedded
  <1> HIDE DEF e, t, tag, N
  <1>4. t \o e \in Text
    BY <1>1, <1>2 DEF Text
  <1>5. At(b, i, t \o e) /\ At(b, i + Len(t \o e), x)
    <2>1. At(b, i, (t \o e) \o x)
      BY <1>3
    <2> QED
      BY <1>4, <2>1, AtBoth
  <1>6. At(b, i, t) /\ At(b, i + Len(t), e)
    <2>1. t \in Text /\ e \in Text /\ At(b, i, t \o e)
      BY <1>1, <1>2, <1>5
    <2> QED
      BY <2>1, AtBoth
  <1>7. Len(t) = 1 /\ i + 1 \in Nat /\ tag \in Nat
    BY <1>1 DEF Fits
  <1>8. DecodeVarint(b, i) = <<tag, i + 1>>
    <2>1. At(b, i, EncodeVarint(tag)) /\ Len(EncodeVarint(tag)) \in 1 .. 10 /\ tag \in Nat
      BY <1>1, <1>6 DEF Fits
    <2>2. Len(EncodeVarint(tag)) = 1
      BY <1>1, <1>7
    <2> QED
      BY <2>1, <2>2, DecodeIs
  <1>9. DecodeVarint(b, i + 1) = <<n, i + 1 + Len(e)>>
    BY <1>2, <1>6, <1>7, DecodeIs
  <1>10. <<tag, i + 1>> # Nil /\ <<n, i + 1 + Len(e)>> # Nil
    BY DEF Nil
  <1> DEFINE from == i + 1 + Len(e)
  <1>11. Len(t \o e) = 1 + Len(e) /\ Len((t \o e) \o x) = 1 + Len(e) + n
    BY <1>1, <1>2, <1>4, <1>7 DEF Text
  <1>12. from \in Nat /\ from > 0 /\ from = i + Len(t \o e)
    BY <1>2, <1>11
  <1>13. At(b, from, x)
    BY <1>5, <1>12
  <1>14. from + n <= N + 1 /\ \A k \in 1 .. n : b[from + k - 1] = x[k]
    BY <1>13 DEF At, N
  <1> HIDE DEF from
  <1>15. SubSeq(b, from, from + n - 1) = x
    BY <1>2, <1>12, <1>14 DEF Text, N
  <1>16. FieldAt(b, i) = <<Field(num, Bytes, x), from + n>>
    <2>1. DecodeVarint(b, i)[1] = tag /\ DecodeVarint(b, i)[2] = i + 1 /\ DecodeVarint(b, i) # Nil
      BY <1>8, <1>10
    <2> DEFINE v == DecodeVarint(b, i + 1)
    <2>2. v[1] = n /\ v[2] = from /\ v # Nil
      BY <1>9, <1>10 DEF from
    <2>3. tag % 8 # Varint /\ tag % 8 = Bytes /\ tag \div 8 = num
      BY <1>1 DEF Varint, Bytes
    <2>4. v[2] + v[1] <= Len(b) + 1
      BY <1>14, <2>2 DEF N
    <2> HIDE DEF v
    <2>5. FieldAt(b, i) = <<[num |-> tag \div 8, wire |-> tag % 8,
                            val |-> SubSeq(b, v[2], v[2] + v[1] - 1)], v[2] + v[1]>>
      BY <2>1, <2>2, <2>3, <2>4 DEF FieldAt, v
    <2> QED
      BY <2>2, <2>3, <2>5, <1>15 DEF Field
  <1>17. from + n = i + Len((t \o e) \o x)
    BY <1>2, <1>11 DEF from
  <1> QED
    BY <1>3, <1>16, <1>17

-----------------------------------------------------------------------------
\* What is read is a number, and the place moves on, at most behind the end.
LEMMA ValueIsNumber ==
    ASSUME NEW b \in Text, NEW end \in 1 .. Len(b), NEW i \in 1 .. end
    PROVE  Value(b, end)[i] \in Nat
  <1>1. Len(b) \in Nat /\ \A j \in 1 .. Len(b) : b[j] \in Nat /\ b[j] % 128 \in Nat
    <2>1. Len(b) \in Nat /\ \A j \in 1 .. Len(b) : b[j] \in Byte
      BY DEF Text
    <2>2. \A j \in 1 .. Len(b) : b[j] \in Nat
      BY <2>1, BytesAreNumbers
    <2> QED
      BY <2>1, <2>2, Division
  <1> DEFINE T == {k \in Nat : k < end => Value(b, end)[end - k] \in Nat}
  <1>2. 0 \in T
    <2>1. Value(b, end)[end] = b[end] /\ b[end] \in Nat
      BY <1>1, ValueIs
    <2> QED
      BY <1>1, <2>1
  <1>3. ASSUME NEW k \in Nat, k \in T
        PROVE  k + 1 \in T
    <2> SUFFICES ASSUME k + 1 < end
                 PROVE  Value(b, end)[end - (k + 1)] \in Nat
      OBVIOUS
    <2> DEFINE j == end - (k + 1)
    <2>1. j \in 1 .. end - 1 /\ j + 1 = end - k /\ j \in 1 .. Len(b)
      BY <1>1
    <2>2. Value(b, end)[end - k] \in Nat
      BY <1>1, <1>3
    <2> HIDE DEF j
    <2>3. Value(b, end)[j] = (b[j] % 128) + 128 * Value(b, end)[j + 1]
      BY <2>1, ValueIs
    <2>4. b[j] % 128 \in Nat
      BY <1>1, <2>1
    <2>5. Value(b, end)[j] \in Nat
      BY <2>1, <2>2, <2>3, <2>4
    <2> QED
      BY <2>5 DEF j
  <1>4. Nat \subseteq T
    <2> HIDE DEF T
    <2> QED
      BY <1>2, <1>3, Induction
  <1>5. end - i \in Nat /\ end - i < end /\ end - (end - i) = i
    BY <1>1
  <1>6. end - i \in T
    BY <1>4, <1>5
  <1> QED
    BY <1>5, <1>6

\* The same of DecodeVarint, whole.
LEMMA DecodeMoves ==
    ASSUME NEW b \in Text, NEW i \in 1 .. Len(b) + 1, DecodeVarint(b, i) # Nil
    PROVE  DecodeVarint(b, i)[1] \in Nat /\ DecodeVarint(b, i)[2] \in i + 1 .. Len(b) + 1
  <1> DEFINE N == Len(b)
             last == {j \in i .. i + 9 : j <= N /\ b[j] < 128}
             end == Min(last)
  <1>1. N \in Nat /\ i \in 1 .. N + 1
    BY DEF Text
  <1>2. DecodeVarint(b, i) = IF last = {} THEN Nil ELSE <<Value(b, end)[i], end + 1>>
    BY DEF DecodeVarint, Value
  <1>3. last # {} /\ DecodeVarint(b, i) = <<Value(b, end)[i], end + 1>>
    <2> HIDE DEF last, end
    <2> QED
      BY <1>2
  <1> HIDE DEF N
  <1>4. end \in last
    <2> DEFINE T == {k \in Nat : i + k \in last => \E x \in last : \A y \in last : x <= y}
    <2>1. ASSUME NEW k \in Nat, \A h \in Nat : h < k => h \in T
          PROVE  k \in T
      <3> SUFFICES ASSUME i + k \in last
                   PROVE  \E x \in last : \A y \in last : x <= y
        OBVIOUS
      <3>1. CASE \A y \in last : i + k <= y
        BY <3>1
      <3>2. CASE \E y \in last : ~(i + k <= y)
        <4>1. PICK y \in last : ~(i + k <= y)
          BY <3>2
        <4>2. y - i \in Nat /\ y - i < k /\ i + (y - i) = y
          BY <1>1, <4>1
        <4> HIDE DEF last
        <4> QED
          BY <2>1, <4>1, <4>2
      <3> QED
        BY <3>1, <3>2
    <2>2. Nat \subseteq T
      <3> HIDE DEF T
      <3> QED
        BY <2>1, StrongInduction
    <2>3. PICK y \in last : TRUE
      BY <1>3
    <2>4. y - i \in Nat /\ i + (y - i) = y
      BY <1>1
    <2> HIDE DEF last
    <2>5. \E x \in last : \A z \in last : x <= z
      BY <2>2, <2>4
    <2> QED
      BY <2>5, Zenon DEF Min
  <1>5. end \in i .. N /\ end \in 1 .. N /\ i \in 1 .. end
    <2> HIDE DEF end
    <2> QED
      BY <1>1, <1>4
  <1> HIDE DEF end, last
  <1>6. Value(b, end)[i] \in Nat
    BY <1>5, ValueIsNumber DEF N
  <1>7. end + 1 \in i + 1 .. N + 1
    BY <1>1, <1>5
  <1> QED
    BY <1>3, <1>6, <1>7 DEF N

\* So it is with fields, errors included: the loop of Unmarshal ends.
LEMMA FieldAtMoves ==
    ASSUME NEW b \in Text, NEW i \in 1 .. Len(b)
    PROVE  FieldAt(b, i)[2] \in i + 1 .. Len(b) + 1
  <1> DEFINE N == Len(b)
             tag == DecodeVarint(b, i)
             v == DecodeVarint(b, tag[2])
  <1>1. N \in Nat /\ i \in 1 .. N + 1
    BY DEF Text
  <1>2. tag # Nil => tag[2] \in i + 1 .. N + 1
    BY <1>1, DecodeMoves
  <1>3. tag # Nil => tag[2] \in 1 .. N + 1
    BY <1>1, <1>2
  <1>4. tag # Nil /\ v # Nil => v[1] \in Nat /\ v[2] \in tag[2] + 1 .. N + 1
    BY <1>3, DecodeMoves
  <1>5. \/ FieldAt(b, i)[2] = N + 1
        \/ tag # Nil /\ v # Nil /\ FieldAt(b, i)[2] = v[2]
        \/ tag # Nil /\ v # Nil /\ v[2] + v[1] <= N + 1 /\ FieldAt(b, i)[2] = v[2] + v[1]
    BY DEF FieldAt
  <1> HIDE DEF N, tag, v
  <1>6. CASE FieldAt(b, i)[2] = N + 1
    BY <1>1, <1>6 DEF N
  <1>7. CASE tag # Nil /\ v # Nil /\ FieldAt(b, i)[2] = v[2]
    <2>1. v[2] \in i + 1 .. N + 1
      BY <1>1, <1>2, <1>4, <1>7
    <2> QED
      BY <1>7, <2>1 DEF N
  <1>8. CASE tag # Nil /\ v # Nil /\ v[2] + v[1] <= N + 1 /\ FieldAt(b, i)[2] = v[2] + v[1]
    <2>1. v[2] + v[1] \in i + 1 .. N + 1
      BY <1>1, <1>2, <1>4, <1>8
    <2> QED
      BY <1>8, <2>1 DEF N
  <1> QED
    BY <1>5, <1>6, <1>7, <1>8

-----------------------------------------------------------------------------
\* The function of Fields: the fields from each place on.
From(b) ==
    CHOOSE from : from =
        [i \in 1 .. Len(b) + 1 |->
            IF i > Len(b) THEN Nil ELSE <<FieldAt(b, i)[1]>> \o from[FieldAt(b, i)[2]]]

\* It is the function its recursion describes.
LEMMA FromIs ==
    ASSUME NEW b \in Text
    PROVE  /\ Fields(b) = From(b)[1]
           /\ From(b)[Len(b) + 1] = Nil
           /\ \A i \in 1 .. Len(b) :
                  From(b)[i] = <<FieldAt(b, i)[1]>> \o From(b)[FieldAt(b, i)[2]]
           /\ \A i \in 1 .. Len(b) + 1 : From(b)[i] \in Seq({FieldAt(b, j)[1] : j \in 1 .. Len(b)})
  <1> DEFINE N == Len(b)
             D == 1 .. N + 1
             F == {FieldAt(b, j)[1] : j \in 1 .. N}
             S == Seq(F)
             stop == {N + 1}
             base == [i \in D |-> Nil]
             next == [i \in D |-> IF i = N + 1 THEN i ELSE FieldAt(b, i)[2]]
             step == [p \in D \X S |-> IF p[1] = N + 1 THEN Nil ELSE <<FieldAt(b, p[1])[1]>> \o p[2]]
             rank == [i \in D |-> N + 1 - i]
  <1>1. N \in Nat
    BY DEF Text
  <1>2. \A i \in D : i # N + 1 => i \in 1 .. N /\ FieldAt(b, i)[2] \in i + 1 .. N + 1 /\ FieldAt(b, i)[2] \in D
    <2> SUFFICES ASSUME NEW i \in D, i # N + 1
                 PROVE  i \in 1 .. N /\ FieldAt(b, i)[2] \in i + 1 .. N + 1 /\ FieldAt(b, i)[2] \in D
      OBVIOUS
    <2>1. i \in 1 .. N
      BY <1>1
    <2>2. FieldAt(b, i)[2] \in i + 1 .. N + 1
      BY <2>1, FieldAtMoves
    <2> HIDE DEF N
    <2> QED
      BY <1>1, <2>1, <2>2
  <1>3. Fields(b) = From(b)[1]
    BY DEF Fields, From
  <1>4. From(b) = CHOOSE from : from =
            [i \in D |-> IF i > N THEN Nil ELSE <<FieldAt(b, i)[1]>> \o from[FieldAt(b, i)[2]]]
    BY DEF From
  <1> HIDE DEF N
  <1>5. /\ Nil \in S /\ rank \in [D -> Nat] /\ stop \in SUBSET D /\ base \in [D -> S]
        /\ next \in [D -> D]
    BY <1>1, <1>2 DEF Nil
  <1>6. step \in [D \X S -> S]
    <2> SUFFICES ASSUME NEW p \in D \X S, p[1] # N + 1
                 PROVE  <<FieldAt(b, p[1])[1]>> \o p[2] \in S
      BY <1>5
    <2>1. p[1] \in 1 .. N /\ p[2] \in S
      BY <1>2
    <2>2. FieldAt(b, p[1])[1] \in F
      BY <2>1
    <2> HIDE DEF F
    <2> QED
      BY <2>1, <2>2
  <1>7. \A i \in D \ stop : rank[next[i]] < rank[i]
    BY <1>1, <1>2
  <1>8. \E f \in [D -> S] : Recurses(D, stop, base, next, step, f)
    <2> HIDE DEF D, S, stop, base, next, step, rank
    <2> QED
      BY <1>5, <1>6, <1>7, Recursion
  <1>9. PICK f \in [D -> S] : Recurses(D, stop, base, next, step, f)
    BY <1>8
  <1>10. ASSUME NEW i \in D
         PROVE  (IF i \in stop THEN base[i] ELSE step[<<i, f[next[i]]>>])
                = IF i > N THEN Nil ELSE <<FieldAt(b, i)[1]>> \o f[FieldAt(b, i)[2]]
    <2>1. CASE i = N + 1
      <3>1. i > N /\ i \in stop /\ base[i] = Nil
        BY <1>1, <2>1
      <3> HIDE DEF stop, base, next, step
      <3> QED
        BY <3>1
    <2>2. CASE i # N + 1
      <3>1. ~(i > N) /\ i \notin stop /\ next[i] = FieldAt(b, i)[2] /\ f[next[i]] \in S
        BY <1>1, <1>2, <2>2
      <3> DEFINE p == <<i, f[next[i]]>>
      <3>2. p \in D \X S /\ p[1] = i /\ p[2] = f[next[i]]
        BY <3>1
      <3> HIDE DEF p, S, F
      <3>3. step[p] = <<FieldAt(b, i)[1]>> \o f[next[i]]
        BY <2>2, <3>2
      <3> HIDE DEF D, stop, base, next, step
      <3> QED
        BY <3>1, <3>3 DEF p
    <2> QED
      BY <2>1, <2>2
  <1> DEFINE Eq(g) == g = [i \in D |-> IF i > N THEN Nil ELSE <<FieldAt(b, i)[1]>> \o g[FieldAt(b, i)[2]]]
  <1>11. Eq(f)
    <2> HIDE DEF D, S, stop, base, next, step
    <2> QED
      BY <1>9, <1>10 DEF Recurses
  <1>12. Eq(From(b))
    <2>1. \E g : Eq(g)
      BY <1>11
    <2>2. From(b) = CHOOSE g : Eq(g)
      BY <1>4
    <2> HIDE DEF Eq
    <2> QED
      BY <2>1, <2>2
  <1> DEFINE G == From(b)
  <1>13. G[N + 1] = Nil
    <2>1. N + 1 \in D /\ N + 1 > N
      BY <1>1
    <2> HIDE DEF D
    <2> QED
      BY <1>12, <2>1
  <1>14. \A i \in 1 .. N : G[i] = <<FieldAt(b, i)[1]>> \o G[FieldAt(b, i)[2]]
    <2> SUFFICES ASSUME NEW i \in 1 .. N
                 PROVE  G[i] = <<FieldAt(b, i)[1]>> \o G[FieldAt(b, i)[2]]
      OBVIOUS
    <2>1. i \in D /\ ~(i > N)
      BY <1>1
    <2> HIDE DEF D
    <2> QED
      BY <1>12, <2>1
  <1> HIDE DEF G, Eq
  <1>15. \A i \in D : G[i] \in S
    <2> DEFINE T == {k \in Nat : \A i \in D : N + 1 - i = k => G[i] \in S}
    <2>1. ASSUME NEW k \in Nat, \A h \in Nat : h < k => h \in T
          PROVE  k \in T
      <3> SUFFICES ASSUME NEW i \in D, N + 1 - i = k
                   PROVE  G[i] \in S
        OBVIOUS
      <3>1. CASE i = N + 1
        BY <1>5, <1>13, <3>1
      <3>2. CASE i # N + 1
        <4> DEFINE j == FieldAt(b, i)[2]
        <4>1. i \in 1 .. N /\ j \in i + 1 .. N + 1 /\ j \in D
          BY <1>2, <3>2
        <4> HIDE DEF j
        <4>2. N + 1 - j \in Nat /\ N + 1 - j < k
          BY <1>1, <4>1
        <4>3. G[j] \in S
          BY <2>1, <4>1, <4>2
        <4>4. FieldAt(b, i)[1] \in F
          BY <4>1
        <4> HIDE DEF F
        <4>5. <<FieldAt(b, i)[1]>> \o G[j] \in S
          BY <4>3, <4>4
        <4> HIDE DEF S
        <4> QED
          BY <1>14, <4>1, <4>5 DEF j
      <3> QED
        BY <3>1, <3>2
    <2>2. Nat \subseteq T
      <3> HIDE DEF T
      <3> QED
        BY <2>1, StrongInduction
    <2> SUFFICES ASSUME NEW i \in D
                 PROVE  G[i] \in S
      OBVIOUS
    <2>3. N + 1 - i \in Nat
      BY <1>1
    <2>4. N + 1 - i \in T
      BY <2>2, <2>3
    <2> HIDE DEF D, S
    <2> QED
      BY <2>4
  <1> QED
    BY <1>3, <1>13, <1>14, <1>15 DEF N, G

-----------------------------------------------------------------------------
\* The elements of a sequence.
Among(s) == {s[k] : k \in DOMAIN s}

\* Those of two sequences put together.
LEMMA AmongBoth ==
    ASSUME NEW R, NEW s \in Seq(R), NEW t \in Seq(R)
    PROVE  Among(s \o t) = Among(s) \cup Among(t)
  <1>1. /\ Len(s) \in Nat /\ Len(t) \in Nat /\ Len(s \o t) = Len(s) + Len(t)
        /\ DOMAIN s = 1 .. Len(s) /\ DOMAIN t = 1 .. Len(t) /\ DOMAIN (s \o t) = 1 .. Len(s) + Len(t)
    OBVIOUS
  <1>2. \A k \in 1 .. Len(s) : k \in DOMAIN (s \o t) /\ (s \o t)[k] = s[k]
    OBVIOUS
  <1>3. \A k \in 1 .. Len(t) : Len(s) + k \in DOMAIN (s \o t) /\ (s \o t)[Len(s) + k] = t[k]
    OBVIOUS
  <1>4. ASSUME NEW k \in DOMAIN (s \o t)
        PROVE  (s \o t)[k] \in Among(s) \cup Among(t)
    <2>1. CASE k <= Len(s)
      <3>1. k \in 1 .. Len(s)
        BY <1>1, <2>1
      <3> QED
        BY <1>1, <1>2, <3>1 DEF Among
    <2>2. CASE ~(k <= Len(s))
      <3> DEFINE j == k - Len(s)
      <3>1. j \in 1 .. Len(t) /\ Len(s) + j = k
        BY <1>1, <2>2
      <3> HIDE DEF j
      <3> QED
        BY <1>1, <1>3, <3>1 DEF Among
    <2> QED
      BY <2>1, <2>2
  <1>5. Among(s \o t) \subseteq Among(s) \cup Among(t)
    <2> SUFFICES ASSUME NEW f \in Among(s \o t)
                 PROVE  f \in Among(s) \cup Among(t)
      OBVIOUS
    <2>1. PICK k \in DOMAIN (s \o t) : f = (s \o t)[k]
      BY DEF Among
    <2> QED
      BY <1>4, <2>1
  <1>6. Among(s) \subseteq Among(s \o t)
    BY <1>1, <1>2, Zenon DEF Among
  <1>7. Among(t) \subseteq Among(s \o t)
    BY <1>1, <1>3, Zenon DEF Among
  <1> QED
    BY <1>5, <1>6, <1>7

\* The bytes x encode the fields F: wherever they are, these are read, and reading
\* goes on behind them.
Encodes(x, F) ==
    /\ x \in Text
    /\ \A b \in Text, i \in Nat :
           At(b, i, x) => Among(From(b)[i]) = F \cup Among(From(b)[i + Len(x)])

\* No bytes, no fields.
LEMMA EncodesNothing == Encodes(Nil, {})
  <1>1. Nil \in Text /\ Len(Nil) = 0
    BY DEF Nil, Text
  <1>2. \A i \in Nat : i + 0 = i
    OBVIOUS
  <1> QED
    BY <1>1, <1>2 DEF Encodes

\* Bytes put together encode the fields of each.
LEMMA EncodesBoth ==
    ASSUME NEW x, NEW F, Encodes(x, F), NEW y, NEW G, Encodes(y, G)
    PROVE  Encodes(x \o y, F \cup G)
  <1>1. x \in Text /\ y \in Text /\ x \o y \in Text
    BY DEF Encodes, Text
  <1>2. Len(x) \in Nat /\ Len(y) \in Nat /\ Len(x \o y) = Len(x) + Len(y)
    BY <1>1 DEF Text
  <1>3. ASSUME NEW b \in Text, NEW i \in Nat, At(b, i, x \o y)
        PROVE  Among(From(b)[i]) = (F \cup G) \cup Among(From(b)[i + Len(x \o y)])
    <2>1. At(b, i, x) /\ At(b, i + Len(x), y)
      BY <1>1, <1>3, AtBoth
    <2>2. Among(From(b)[i]) = F \cup Among(From(b)[i + Len(x)])
      BY <2>1 DEF Encodes
    <2>3. i + Len(x) \in Nat /\ (i + Len(x)) + Len(y) = i + Len(x \o y)
      BY <1>2
    <2>4. Among(From(b)[i + Len(x)]) = G \cup Among(From(b)[(i + Len(x)) + Len(y)])
      BY <2>1, <2>3 DEF Encodes
    <2> QED
      BY <2>2, <2>3, <2>4
  <1> QED
    BY <1>1, <1>3 DEF Encodes

\* One field, from what FieldAt finds.
LEMMA EncodesOne ==
    ASSUME NEW x \in Text, Len(x) > 0, NEW f,
           \A b \in Text, i \in Nat : At(b, i, x) => FieldAt(b, i) = <<f, i + Len(x)>>
    PROVE  Encodes(x, {f})
  <1> SUFFICES ASSUME NEW b \in Text, NEW i \in Nat, At(b, i, x)
               PROVE  Among(From(b)[i]) = {f} \cup Among(From(b)[i + Len(x)])
    BY DEF Encodes
  <1>1. Len(x) \in Nat /\ Len(b) \in Nat
    BY DEF Text
  <1>2. i > 0 /\ i + Len(x) <= Len(b) + 1
    BY DEF At
  <1>3. i \in 1 .. Len(b) /\ i + Len(x) \in 1 .. Len(b) + 1
    BY <1>1, <1>2
  <1> DEFINE R == {FieldAt(b, j)[1] : j \in 1 .. Len(b)}
             next == i + Len(x)
  <1>4. FieldAt(b, i)[1] = f /\ FieldAt(b, i)[2] = next
    OBVIOUS
  <1>5. f \in R
    BY <1>3, <1>4
  <1> HIDE DEF next
  <1>6. From(b)[i] = <<f>> \o From(b)[next]
    BY <1>3, <1>4, FromIs
  <1>7. From(b)[next] \in Seq(R)
    BY <1>3, FromIs DEF next
  <1> HIDE DEF R
  <1>8. <<f>> \in Seq(R) /\ Among(<<f>>) = {f}
    BY <1>5 DEF Among
  <1>9. Among(From(b)[i]) = {f} \cup Among(From(b)[next])
    <2>1. Among(<<f>> \o From(b)[next]) = Among(<<f>>) \cup Among(From(b)[next])
      <3> DEFINE s == <<f>>
                 u == From(b)[next]
      <3>1. s \in Seq(R) /\ u \in Seq(R)
        BY <1>7, <1>8
      <3> HIDE DEF s, u
      <3>2. Among(s \o u) = Among(s) \cup Among(u)
        BY <3>1, AmongBoth
      <3> QED
        BY <3>2 DEF s, u
    <2> QED
      BY <1>6, <1>8, <2>1, Zenon
  <1> QED
    BY <1>9 DEF next

\* The fields a value is read as: none if it is zero.
BytesFields(num, x) == {f \in {Field(num, Bytes, x)} : x # Nil}
IntFields(num, v)   == {f \in {Field(num, Varint, v)} : v # 0}
BoolFields(num, v)  == {f \in {Field(num, Varint, 1)} : v}

\* An embedded message is one field, of the size Size gives it.
LEMMA EncodesEmbedded ==
    ASSUME NEW num \in 1 .. 15, NEW x \in Text, Fits(Len(x))
    PROVE  /\ Encodes(Embedded(num, x), {Field(num, Bytes, x)})
           /\ Len(Embedded(num, x)) = EmbeddedSize(Len(x))
  <1> DEFINE n == Len(x)
             t == Tag(num, Bytes)
             e == EncodeVarint(n)
  <1>1. Bytes \in 0 .. 7
    BY DEF Bytes
  <1>2. t = <<8 * num + Bytes>> /\ t \in Text
    BY <1>1, TagIs
  <1>3. e \in Text /\ Len(e) \in Nat /\ Sov(n) = Len(e) /\ n \in Nat
    BY EncodeVarintBytes, SovIsLength DEF Text
  <1>4. Embedded(num, x) = (t \o e) \o x
    BY DEF Embedded
  <1> HIDE DEF n, t, e
  <1>5. Len(t) = 1
    BY <1>2
  <1>6. t \o e \in Text /\ (t \o e) \o x \in Text /\ Len((t \o e) \o x) = 1 + Len(e) + n
    BY <1>2, <1>3, <1>5 DEF Text, n
  <1>7. Len(Embedded(num, x)) > 0 /\ Len(Embedded(num, x)) = 1 + n + Len(e)
    BY <1>3, <1>4, <1>6
  <1>8. \A b \in Text, i \in Nat : At(b, i, Embedded(num, x)) =>
            FieldAt(b, i) = <<Field(num, Bytes, x), i + Len(Embedded(num, x))>>
    BY FieldAtBytes
  <1>9. Embedded(num, x) \in Text
    BY <1>4, <1>6
  <1> HIDE DEF t, e
  <1>10. Encodes(Embedded(num, x), {Field(num, Bytes, x)})
    BY <1>7, <1>8, <1>9, EncodesOne
  <1>11. EmbeddedSize(n) = 1 + n + Len(e)
    BY <1>3 DEF EmbeddedSize
  <1> QED
    BY <1>7, <1>10, <1>11 DEF n

\* So is a field of bytes that are not empty,
LEMMA EncodesBytes ==
    ASSUME NEW num \in 1 .. 15, NEW x \in Text, Fits(Len(x))
    PROVE  /\ Encodes(BytesField(num, x), BytesFields(num, x))
           /\ Len(BytesField(num, x)) = BytesSize(x)
  <1>1. CASE x = Nil
    <2>1. BytesField(num, x) = Nil /\ BytesFields(num, x) = {} /\ BytesSize(x) = 0 /\ Len(Nil) = 0
      BY <1>1 DEF BytesField, BytesFields, BytesSize, Nil
    <2> QED
      BY <2>1, EncodesNothing
  <1>2. CASE x # Nil
    <2>1. /\ BytesField(num, x) = Embedded(num, x) /\ BytesFields(num, x) = {Field(num, Bytes, x)}
          /\ BytesSize(x) = EmbeddedSize(Len(x))
      BY <1>2 DEF BytesField, BytesFields, BytesSize
    <2> QED
      BY <2>1, EncodesEmbedded
  <1> QED
    BY <1>1, <1>2

\* of a number that is not zero,
LEMMA EncodesInt ==
    ASSUME NEW num \in 1 .. 15, NEW v, Fits(v)
    PROVE  /\ Encodes(IntField(num, v), IntFields(num, v))
           /\ Len(IntField(num, v)) = IntSize(v)
  <1>1. CASE v = 0
    <2>1. IntField(num, v) = Nil /\ IntFields(num, v) = {} /\ IntSize(v) = 0 /\ Len(Nil) = 0
      BY <1>1 DEF IntField, IntFields, IntSize, Nil
    <2> QED
      BY <2>1, EncodesNothing
  <1>2. CASE v # 0
    <2> DEFINE t == Tag(num, Varint)
               e == EncodeVarint(v)
    <2>1. Varint \in 0 .. 7
      BY DEF Varint
    <2>2. t = <<8 * num + Varint>> /\ t \in Text
      BY <2>1, TagIs
    <2>3. e \in Text /\ Len(e) \in Nat /\ Sov(v) = Len(e)
      BY EncodeVarintBytes, SovIsLength DEF Fits
    <2>4. IntField(num, v) = t \o e /\ IntFields(num, v) = {Field(num, Varint, v)}
      BY <1>2 DEF IntField, IntFields
    <2>5. \A b \in Text, i \in Nat : At(b, i, t \o e) =>
              FieldAt(b, i) = <<Field(num, Varint, v), i + Len(t \o e)>>
      BY FieldAtInt
    <2>6. IntSize(v) = 1 + Len(e)
      BY <1>2, <2>3 DEF IntSize
    <2> HIDE DEF t, e
    <2>7. Len(t) = 1
      BY <2>2
    <2>8. t \o e \in Text /\ Len(t \o e) = 1 + Len(e)
      BY <2>2, <2>3, <2>7 DEF Text
    <2>9. Len(t \o e) > 0
      BY <2>3, <2>8
    <2>10. Encodes(t \o e, {Field(num, Varint, v)})
      BY <2>5, <2>8, <2>9, EncodesOne
    <2> QED
      BY <2>4, <2>6, <2>8, <2>10
  <1> QED
    BY <1>1, <1>2

\* and of a flag that is set.
LEMMA EncodesBool ==
    ASSUME NEW num \in 1 .. 15, NEW v \in BOOLEAN
    PROVE  /\ Encodes(BoolField(num, v), BoolFields(num, v))
           /\ Len(BoolField(num, v)) = BoolSize(v)
  <1>1. CASE v = FALSE
    <2>1. BoolField(num, v) = Nil /\ BoolFields(num, v) = {} /\ BoolSize(v) = 0 /\ Len(Nil) = 0
      BY <1>1 DEF BoolField, BoolFields, BoolSize, Nil
    <2> QED
      BY <2>1, EncodesNothing
  <1>2. CASE v = TRUE
    <2>1. EncodeVarint(1) = <<1>>
      BY ShortVarint
    <2>2. Fits(1)
      BY <2>1 DEF Fits
    <2>3. BoolField(num, v) = IntField(num, 1)
      <3>1. IntField(num, 1) = Tag(num, Varint) \o EncodeVarint(1)
        BY DEF IntField
      <3>2. BoolField(num, v) = Tag(num, Varint) \o <<1>>
        BY <1>2 DEF BoolField
      <3> QED
        BY <2>1, <3>1, <3>2, Zenon
    <2>4. BoolFields(num, v) = IntFields(num, 1)
      BY <1>2 DEF BoolFields, IntFields
    <2>5. Sov(1) = 1
      <3>1. Sov(1) = Len(EncodeVarint(1))
        BY SovIsLength
      <3>2. Len(<<1>>) = 1
        OBVIOUS
      <3> QED
        BY <2>1, <3>1, <3>2, Zenon
    <2>6. BoolSize(v) = IntSize(1)
      BY <1>2, <2>5 DEF BoolSize, IntSize
    <2> QED
      BY <2>2, <2>3, <2>4, <2>6, EncodesInt
  <1> QED
    BY <1>1, <1>2

\* All of a byte string.
LEMMA EncodesAll ==
    ASSUME NEW x, NEW F, Encodes(x, F)
    PROVE  Among(Fields(x)) = F /\ \E R : Fields(x) \in Seq(R)
  <1>1. x \in Text /\ Len(x) \in Nat
    BY DEF Encodes, Text
  <1>2. At(x, 1, x)
    <2>1. \A k \in 1 .. Len(x) : 1 + k - 1 = k
      BY <1>1
    <2> QED
      BY <1>1, <2>1 DEF At
  <1>3. Among(From(x)[1]) = F \cup Among(From(x)[1 + Len(x)])
    BY <1>1, <1>2 DEF Encodes
  <1>4. 1 + Len(x) = Len(x) + 1 /\ 1 \in 1 .. Len(x) + 1
    BY <1>1
  <1>5. Among(Nil) = {}
    BY DEF Among, Nil
  <1>6. Fields(x) = From(x)[1] /\ From(x)[Len(x) + 1] = Nil
    BY <1>1, FromIs
  <1>7. From(x)[1] \in Seq({FieldAt(x, j)[1] : j \in 1 .. Len(x)})
    BY <1>1, <1>4, FromIs
  <1> QED
    BY <1>3, <1>4, <1>5, <1>6, <1>7

-----------------------------------------------------------------------------
\* The greatest of some places is one of them.
LEMMA MaxIs ==
    ASSUME NEW n \in Nat, NEW S \in SUBSET (1 .. n), S # {}
    PROVE  Max(S) \in S
  <1> DEFINE Has(P) == \E x \in P : \A y \in P : x >= y
             T == {m \in Nat : \A P \in SUBSET (1 .. m) : P # {} => Has(P)}
  <1>1. 0 \in T
    <2>1. 1 .. 0 = {}
      OBVIOUS
    <2> HIDE DEF Has
    <2> QED
      BY <2>1
  <1>2. ASSUME NEW m \in Nat, m \in T
        PROVE  m + 1 \in T
    <2> SUFFICES ASSUME NEW P \in SUBSET (1 .. m + 1), P # {}
                 PROVE  Has(P)
      OBVIOUS
    <2>1. CASE m + 1 \in P
      BY <2>1
    <2>2. CASE m + 1 \notin P
      <3>1. P \in SUBSET (1 .. m)
        BY <2>2
      <3> HIDE DEF Has
      <3> QED
        BY <1>2, <3>1
    <2> QED
      BY <2>1, <2>2
  <1>3. Nat \subseteq T
    <2> HIDE DEF T
    <2> QED
      BY <1>1, <1>2, Induction
  <1>4. Has(S)
    <2> HIDE DEF Has
    <2> QED
      BY <1>3
  <1> QED
    BY <1>4, Zenon DEF Max

\* Fields A of one number, of one wire type and one value, which is zero if there
\* are none.
Row(A, num, wire, val, zero) ==
    /\ \A f \in A : f.num = num /\ f.wire = wire /\ f.val = val
    /\ A = {} => val = zero

\* Fields of one value are so.
LEMMA Rows ==
    /\ \A num, x : Row(BytesFields(num, x), num, Bytes, x, Nil)
    /\ \A num, v : Row(IntFields(num, v), num, Varint, v, 0)
    /\ \A num, v : \A f \in BoolFields(num, v) : f = Field(num, Varint, 1) /\ v
    /\ \A num : \A v \in BOOLEAN : v => BoolFields(num, v) # {}
  <1>1. ASSUME NEW num, NEW wire, NEW val, NEW zero, NEW A,
               A = {f \in {Field(num, wire, val)} : val # zero}
        PROVE  Row(A, num, wire, val, zero)
    <2>1. /\ Field(num, wire, val).num = num /\ Field(num, wire, val).wire = wire
          /\ Field(num, wire, val).val = val
      BY DEF Field
    <2>2. \A f \in A : f = Field(num, wire, val)
      BY <1>1
    <2>3. A = {} => val = zero
      BY <1>1
    <2> QED
      BY <2>1, <2>2, <2>3 DEF Row
  <1>2. \A num, x : Row(BytesFields(num, x), num, Bytes, x, Nil)
    BY <1>1 DEF BytesFields
  <1>3. \A num, v : Row(IntFields(num, v), num, Varint, v, 0)
    BY <1>1 DEF IntFields
  <1>4. \A num, v : \A f \in BoolFields(num, v) : f = Field(num, Varint, 1) /\ v
    BY DEF BoolFields
  <1>5. \A num : \A v \in BOOLEAN : v => BoolFields(num, v) # {}
    BY DEF BoolFields
  <1> QED
    BY <1>2, <1>3, <1>4, <1>5

\* The fields of one number have one value, which is zero if there are none.
Only(fs, num, val, zero) ==
    /\ \A f \in Among(fs) : f.num = num => f.val = val
    /\ (\A f \in Among(fs) : f.num # num) => val = zero

\* A case of the switch finds it.
LEMMA FieldValueIs ==
    ASSUME NEW R, NEW fs \in Seq(R), NEW num, NEW val, NEW zero,
           Only(fs, num, val, zero)
    PROVE  FieldValue(fs, num, zero) = val
  <1> DEFINE S == {i \in DOMAIN fs : fs[i].num = num}
  <1>1. CASE Given(fs, num)
    <2>1. Len(fs) \in Nat /\ DOMAIN fs = 1 .. Len(fs)
      OBVIOUS
    <2>2. S # {} /\ S \in SUBSET (1 .. Len(fs))
      BY <1>1, <2>1 DEF Given
    <2>3. FieldValue(fs, num, zero) = fs[Max(S)].val
      BY <1>1 DEF FieldValue
    <2> HIDE DEF S
    <2>4. Max(S) \in S
      BY <2>1, <2>2, MaxIs
    <2>5. fs[Max(S)] \in Among(fs) /\ fs[Max(S)].num = num
      BY <2>4 DEF S, Among
    <2> QED
      BY <2>3, <2>5 DEF Only
  <1>2. CASE ~Given(fs, num)
    <2>1. \A f \in Among(fs) : f.num # num
      BY <1>2 DEF Given, Among
    <2> QED
      BY <1>2, <2>1 DEF FieldValue, Only
  <1> QED
    BY <1>1, <1>2

\* A number is given if some field has it.
LEMMA GivenIs ==
    ASSUME NEW fs, NEW num
    PROVE  Given(fs, num) <=> \E f \in Among(fs) : f.num = num
  BY DEF Given, Among

\* Each field has a number, and the wire type of it.
Wired(fs, wires) ==
    \A f \in Among(fs) : f.num # 0 /\ (f.num \in DOMAIN wires => f.wire = wires[f.num])

\* Then the switch of Unmarshal finds no error.
LEMMA MalformedIs ==
    ASSUME NEW fs, NEW wires, Wired(fs, wires)
    PROVE  ~Malformed(fs, wires)
  BY DEF Malformed, Among, Wired

-----------------------------------------------------------------------------
\* Limit is large; that is all there is to know of it but its length.
LEMMA LimitIs == Limit \in Nat /\ Limit > 1000
  BY SMT DEF Limit

\* Lengths of messages fit, in four bytes.
LEMMA LengthsFit ==
    ASSUME NEW n \in Nat, n < 128 * Limit
    PROVE  Fits(n) /\ Len(EncodeVarint(n)) <= 4
  <1> DEFINE Below(m, c) == \A k \in Nat : k < m => Len(EncodeVarint(k)) \in 1 .. c
  <1>1. Below(128, 1)
    <2> SUFFICES ASSUME NEW k \in Nat, k < 128
                 PROVE  Len(EncodeVarint(k)) \in 1 .. 1
      OBVIOUS
    <2>1. EncodeVarint(k) = <<k>>
      BY ShortVarint
    <2>2. Len(<<k>>) = 1
      OBVIOUS
    <2> QED
      BY <2>1, <2>2
  <1>2. ASSUME NEW m \in Nat, NEW c \in Nat, Below(m, c), c > 0
        PROVE  Below(128 * m, c + 1)
    <2> SUFFICES ASSUME NEW k \in Nat, k < 128 * m
                 PROVE  Len(EncodeVarint(k)) \in 1 .. c + 1
      OBVIOUS
    <2>1. CASE k < 128
      BY <1>1, <1>2, <2>1
    <2>2. CASE k >= 128
      <3> DEFINE q == k \div 128  h == 128 + (k % 128)  e == EncodeVarint(q)
      <3>1. q \in Nat /\ q < m /\ h \in Byte
        BY Division DEF Byte
      <3>2. EncodeVarint(k) = <<h>> \o e
        BY <2>2, LongVarint
      <3>3. Len(e) \in 1 .. c
        BY <1>2, <3>1
      <3>4. e \in Text
        BY <3>1, EncodeVarintBytes
      <3> HIDE DEF h, e, q
      <3>5. Len(<<h>> \o e) = 1 + Len(e)
        BY <3>1, <3>4 DEF Text
      <3> QED
        BY <3>2, <3>3, <3>5
    <2> QED
      BY <2>1, <2>2
  <1> HIDE DEF Below
  <1>3. Below(128 * 128, 2)
    BY <1>1, <1>2
  <1>4. Below(Limit, 3)
    <2>1. 128 * 128 \in Nat /\ 2 > 0 /\ 2 + 1 = 3
      OBVIOUS
    <2> QED
      BY <1>2, <1>3, <2>1 DEF Limit
  <1>5. Below(128 * Limit, 4)
    BY <1>2, <1>4, LimitIs
  <1>6. Len(EncodeVarint(n)) \in 1 .. 4
    BY <1>5 DEF Below
  <1>7. Len(EncodeVarint(n)) \in 1 .. 10 /\ Len(EncodeVarint(n)) <= 4
    <2> DEFINE l == Len(EncodeVarint(n))
    <2>1. l \in 1 .. 4
      BY <1>6
    <2> HIDE DEF l
    <2>2. l \in 1 .. 10 /\ l <= 4
      BY <2>1
    <2> QED
      BY <2>2 DEF l
  <1> QED
    BY <1>7 DEF Fits

\* The bytes x encode the fields F, are n and fewer than m.
Coded(x, F, n, m) == Encodes(x, F) /\ Len(x) = n /\ n \in Nat /\ n <= m

\* Two of them put together.
LEMMA CodedBoth ==
    ASSUME NEW x, NEW A, NEW i, NEW k \in Nat, Coded(x, A, i, k),
           NEW y, NEW B, NEW j, NEW l \in Nat, Coded(y, B, j, l)
    PROVE  Coded(x \o y, A \cup B, i + j, k + l)
  <1>1. Encodes(x \o y, A \cup B)
    BY EncodesBoth DEF Coded
  <1>2. x \in Text /\ y \in Text
    BY DEF Coded, Encodes
  <1>3. Len(x \o y) = Len(x) + Len(y)
    BY <1>2 DEF Text
  <1>4. Len(x) = i /\ Len(y) = j /\ i \in Nat /\ j \in Nat /\ i <= k /\ j <= l
    BY DEF Coded
  <1>5. i + j \in Nat /\ i + j <= k + l
    BY <1>4
  <1> QED
    BY <1>1, <1>3, <1>4, <1>5 DEF Coded

\* Four of them.
LEMMA CodedFour ==
    ASSUME NEW x, NEW A, NEW i, NEW xs \in Nat, Coded(x, A, i, xs),
           NEW y, NEW B, NEW j, NEW ys \in Nat, Coded(y, B, j, ys),
           NEW z, NEW C, NEW k, NEW zs \in Nat, Coded(z, C, k, zs),
           NEW w, NEW D, NEW l, NEW ws \in Nat, Coded(w, D, l, ws)
    PROVE  Coded(((x \o y) \o z) \o w, ((A \cup B) \cup C) \cup D, ((i + j) + k) + l,
                 ((xs + ys) + zs) + ws)
  <1>1. xs + ys \in Nat /\ (xs + ys) + zs \in Nat
    OBVIOUS
  <1>2. Coded(x \o y, A \cup B, i + j, xs + ys)
    BY CodedBoth
  <1>3. Coded((x \o y) \o z, (A \cup B) \cup C, (i + j) + k, (xs + ys) + zs)
    BY <1>1, <1>2, CodedBoth
  <1> QED
    BY <1>1, <1>3, CodedBoth

\* One field of each kind, of at most 11 and Limit + 4 bytes.
LEMMA CodedFields ==
    ASSUME NEW num \in 1 .. 15
    PROVE  /\ \A x \in Short : /\ Coded(BytesField(num, x), BytesFields(num, x), BytesSize(x), Limit + 4)
                               /\ Row(BytesFields(num, x), num, Bytes, x, Nil)
           /\ \A v \in Number : /\ Coded(IntField(num, v), IntFields(num, v), IntSize(v), 11)
                                /\ Row(IntFields(num, v), num, Varint, v, 0)
           /\ \A v \in BOOLEAN : Coded(BoolField(num, v), BoolFields(num, v), BoolSize(v), 2)
  <1>1. ASSUME NEW n \in Nat, n < 128 * Limit
        PROVE  EmbeddedSize(n) \in Nat /\ EmbeddedSize(n) <= n + 5 /\ Fits(n)
    <2>1. Sov(n) = Len(EncodeVarint(n)) /\ Len(EncodeVarint(n)) \in Nat /\ Len(EncodeVarint(n)) <= 4
      BY <1>1, SovIsLength, LengthsFit, EncodeVarintBytes
    <2>2. EmbeddedSize(n) = 1 + n + Sov(n)
      BY DEF EmbeddedSize
    <2>3. Fits(n)
      BY <1>1, LengthsFit
    <2> QED
      BY <2>1, <2>2, <2>3
  <1>2. ASSUME NEW x \in Short
        PROVE  /\ Coded(BytesField(num, x), BytesFields(num, x), BytesSize(x), Limit + 4)
               /\ Row(BytesFields(num, x), num, Bytes, x, Nil)
    <2>1. x \in Text /\ Len(x) \in Nat /\ Len(x) < Limit
      BY DEF Short, Text
    <2>2. BytesSize(x) = 0 \/ BytesSize(x) = EmbeddedSize(Len(x))
      BY DEF BytesSize
    <2>3. EmbeddedSize(Len(x)) \in Nat /\ EmbeddedSize(Len(x)) <= Len(x) + 5 /\ Fits(Len(x))
      <3>1. Len(x) < 128 * Limit
        BY <2>1, LimitIs
      <3> QED
        BY <1>1, <2>1, <3>1
    <2>4. BytesSize(x) \in Nat /\ BytesSize(x) <= Limit + 4
      BY <2>1, <2>2, <2>3, LimitIs
    <2> QED
      BY <2>1, <2>3, <2>4, EncodesBytes, Rows DEF Coded
  <1>3. ASSUME NEW v \in Number
        PROVE  /\ Coded(IntField(num, v), IntFields(num, v), IntSize(v), 11)
               /\ Row(IntFields(num, v), num, Varint, v, 0)
    <2>1. v \in Nat /\ Fits(v) /\ Len(EncodeVarint(v)) \in 1 .. 10
      BY DEF Number, Fits
    <2>2. Sov(v) = Len(EncodeVarint(v))
      BY <2>1, SovIsLength
    <2>3. IntSize(v) = 0 \/ IntSize(v) = 1 + Sov(v)
      BY DEF IntSize
    <2>4. IntSize(v) \in Nat /\ IntSize(v) <= 11
      BY <2>1, <2>2, <2>3
    <2> QED
      BY <2>1, <2>4, EncodesInt, Rows DEF Coded
  <1>4. ASSUME NEW v \in BOOLEAN
        PROVE  Coded(BoolField(num, v), BoolFields(num, v), BoolSize(v), 2)
    <2>1. BoolSize(v) \in Nat /\ BoolSize(v) <= 2
      BY DEF BoolSize
    <2> QED
      BY <2>1, EncodesBool DEF Coded
  <1> QED
    BY <1>2, <1>3, <1>4

-----------------------------------------------------------------------------
VoteInfos ==
    [proposal_round : Number, proposal_id : Short, parent_round : Number, parent_id : Short]

\* Unmarshal undoes Marshal, and Size is right: of a vote info,
LEMMA VoteInfoRoundTrip ==
    ASSUME NEW m \in VoteInfos
    PROVE  /\ MarshalVoteInfo(m) \in Text /\ Len(MarshalVoteInfo(m)) = SizeVoteInfo(m)
           /\ SizeVoteInfo(m) <= 5 * Limit
           /\ UnmarshalVoteInfo(MarshalVoteInfo(m)) = <<m>>
  <1> DEFINE A1 == IntFields(1, m.proposal_round)
             A2 == BytesFields(2, m.proposal_id)
             A3 == IntFields(3, m.parent_round)
             A4 == BytesFields(4, m.parent_id)
             F == ((A1 \cup A2) \cup A3) \cup A4
             b == MarshalVoteInfo(m)
             fs == Fields(b)
  <1>1. /\ m.proposal_round \in Number /\ m.proposal_id \in Short
        /\ m.parent_round \in Number /\ m.parent_id \in Short
        /\ m = [ proposal_round |-> m.proposal_round, proposal_id |-> m.proposal_id,
                 parent_round |-> m.parent_round, parent_id |-> m.parent_id ]
    BY DEF VoteInfos
  <1>2. /\ Coded(IntField(1, m.proposal_round), A1, IntSize(m.proposal_round), 11)
        /\ Coded(BytesField(2, m.proposal_id), A2, BytesSize(m.proposal_id), Limit + 4)
        /\ Coded(IntField(3, m.parent_round), A3, IntSize(m.parent_round), 11)
        /\ Coded(BytesField(4, m.parent_id), A4, BytesSize(m.parent_id), Limit + 4)
    BY <1>1, CodedFields
  <1>3. /\ Row(A1, 1, Varint, m.proposal_round, 0) /\ Row(A2, 2, Bytes, m.proposal_id, Nil)
        /\ Row(A3, 3, Varint, m.parent_round, 0) /\ Row(A4, 4, Bytes, m.parent_id, Nil)
    BY Rows
  <1> HIDE DEF A1, A2, A3, A4
  <1>4. Coded(b, F, SizeVoteInfo(m), ((11 + (Limit + 4)) + 11) + (Limit + 4))
    <2>1. 11 \in Nat /\ Limit + 4 \in Nat
      BY LimitIs
    <2> QED
      BY <1>2, <2>1, CodedFour DEF MarshalVoteInfo, SizeVoteInfo
  <1>5. Encodes(b, F) /\ Len(b) = SizeVoteInfo(m) /\ b \in Text
    <2> HIDE DEF b
    <2> QED
      BY <1>4 DEF Coded, Encodes
  <1>6. SizeVoteInfo(m) <= 5 * Limit
    BY <1>4, LimitIs DEF Coded
  <1> HIDE DEF b
  <1>7. Among(fs) = F
    BY <1>5, EncodesAll
  <1>8. PICK R : fs \in Seq(R)
    BY <1>5, EncodesAll
  <1> HIDE DEF fs
  <1>9. /\ Only(fs, 1, m.proposal_round, 0) /\ Only(fs, 2, m.proposal_id, Nil)
        /\ Only(fs, 3, m.parent_round, 0) /\ Only(fs, 4, m.parent_id, Nil)
    BY <1>3, <1>7 DEF Row, Only
  <1>10. ~Malformed(fs, <<Varint, Bytes, Varint, Bytes>>)
    <2>1. Wired(fs, <<Varint, Bytes, Varint, Bytes>>)
      BY <1>3, <1>7 DEF Row, Wired
    <2> QED
      BY <2>1, MalformedIs
  <1>11. /\ FieldValue(fs, 1, 0) = m.proposal_round /\ FieldValue(fs, 2, Nil) = m.proposal_id
         /\ FieldValue(fs, 3, 0) = m.parent_round /\ FieldValue(fs, 4, Nil) = m.parent_id
    BY <1>8, <1>9, FieldValueIs
  <1>12. UnmarshalVoteInfo(b) = <<m>>
    BY <1>1, <1>10, <1>11 DEF UnmarshalVoteInfo, fs
  <1> QED
    BY <1>5, <1>6, <1>12 DEF b

-----------------------------------------------------------------------------
ProposalMessages ==
    [ module : Short, round : Number, id : Short, timestamp : Number, pid : Short,
      pk : Short, signature : Short, justify : Short ]

\* of a proposal,
LEMMA ProposalRoundTrip ==
    ASSUME NEW m \in ProposalMessages
    PROVE  /\ MarshalProposal(m) \in Text /\ Len(MarshalProposal(m)) = SizeProposal(m)
           /\ SizeProposal(m) <= 10 * Limit
           /\ UnmarshalProposal(MarshalProposal(m)) = <<m>>
  <1> DEFINE A1 == BytesFields(1, m.module)
             A2 == IntFields(2, m.round)
             A3 == BytesFields(3, m.id)
             A4 == IntFields(4, m.timestamp)
             A5 == BytesFields(5, m.pid)
             A6 == BytesFields(6, m.pk)
             A7 == BytesFields(7, m.signature)
             A8 == BytesFields(8, m.justify)
             F  == ((((((A1 \cup A2) \cup A3) \cup A4) \cup A5) \cup A6) \cup A7) \cup A8
             b  == MarshalProposal(m)
             fs == Fields(b)
             k  == Limit + 4
  <1>1. /\ m.module \in Short /\ m.round \in Number /\ m.id \in Short
        /\ m.timestamp \in Number /\ m.pid \in Short /\ m.pk \in Short
        /\ m.signature \in Short /\ m.justify \in Short
        /\ m = [ module |-> m.module, round |-> m.round, id |-> m.id,
                 timestamp |-> m.timestamp, pid |-> m.pid, pk |-> m.pk,
                 signature |-> m.signature, justify |-> m.justify ]
    BY DEF ProposalMessages
  <1>2. /\ Coded(BytesField(1, m.module), A1, BytesSize(m.module), k)
        /\ Coded(IntField(2, m.round), A2, IntSize(m.round), 11)
        /\ Coded(BytesField(3, m.id), A3, BytesSize(m.id), k)
        /\ Coded(IntField(4, m.timestamp), A4, IntSize(m.timestamp), 11)
        /\ Coded(BytesField(5, m.pid), A5, BytesSize(m.pid), k)
        /\ Coded(BytesField(6, m.pk), A6, BytesSize(m.pk), k)
        /\ Coded(BytesField(7, m.signature), A7, BytesSize(m.signature), k)
        /\ Coded(BytesField(8, m.justify), A8, BytesSize(m.justify), k)
    BY <1>1, CodedFields
  <1>3. /\ Row(A1, 1, Bytes, m.module, Nil)    /\ Row(A2, 2, Varint, m.round, 0)
        /\ Row(A3, 3, Bytes, m.id, Nil)        /\ Row(A4, 4, Varint, m.timestamp, 0)
        /\ Row(A5, 5, Bytes, m.pid, Nil)       /\ Row(A6, 6, Bytes, m.pk, Nil)
        /\ Row(A7, 7, Bytes, m.signature, Nil) /\ Row(A8, 8, Bytes, m.justify, Nil)
    BY Rows
  <1>4. 11 \in Nat /\ k \in Nat /\ k < 2 * Limit /\ Limit \in Nat
    BY LimitIs
  <1> HIDE DEF A1, A2, A3, A4, A5, A6, A7, A8, k
  <1>5. Coded(b, F, SizeProposal(m), (((((((k + 11) + k) + 11) + k) + k) + k) + k))
    <2>1. Coded(((BytesField(1, m.module) \o IntField(2, m.round)) \o BytesField(3, m.id))
                \o IntField(4, m.timestamp),
                ((A1 \cup A2) \cup A3) \cup A4,
                ((BytesSize(m.module) + IntSize(m.round)) + BytesSize(m.id)) + IntSize(m.timestamp),
                ((k + 11) + k) + 11)
      BY <1>2, <1>4, CodedFour
    <2> DEFINE x == ((BytesField(1, m.module) \o IntField(2, m.round)) \o BytesField(3, m.id))
                    \o IntField(4, m.timestamp)
               i == ((BytesSize(m.module) + IntSize(m.round)) + BytesSize(m.id))
                    + IntSize(m.timestamp)
               X == ((A1 \cup A2) \cup A3) \cup A4
               l == ((k + 11) + k) + 11
    <2>2. Coded(x, X, i, l) /\ l \in Nat
      BY <1>4, <2>1
    <2>3. /\ b = (((x \o BytesField(5, m.pid)) \o BytesField(6, m.pk))
                  \o BytesField(7, m.signature)) \o BytesField(8, m.justify)
          /\ SizeProposal(m) = (((i + BytesSize(m.pid)) + BytesSize(m.pk))
                                + BytesSize(m.signature)) + BytesSize(m.justify)
      BY DEF MarshalProposal, SizeProposal
    <2> HIDE DEF x, i, X, l, b
    <2>4. Coded(((x \o BytesField(5, m.pid)) \o BytesField(6, m.pk)) \o BytesField(7, m.signature),
                ((X \cup A5) \cup A6) \cup A7,
                ((i + BytesSize(m.pid)) + BytesSize(m.pk)) + BytesSize(m.signature),
                ((l + k) + k) + k)
      BY <1>2, <1>4, <2>2, CodedFour
    <2>5. ((l + k) + k) + k \in Nat
      BY <1>4, <2>2
    <2>6. Coded(b, ((((X \cup A5) \cup A6) \cup A7) \cup A8), SizeProposal(m), (((l + k) + k) + k) + k)
      <3>1. Coded((((x \o BytesField(5, m.pid)) \o BytesField(6, m.pk))
                   \o BytesField(7, m.signature)) \o BytesField(8, m.justify),
                  (((X \cup A5) \cup A6) \cup A7) \cup A8,
                  (((i + BytesSize(m.pid)) + BytesSize(m.pk)) + BytesSize(m.signature))
                      + BytesSize(m.justify),
                  (((l + k) + k) + k) + k)
        BY <1>2, <1>4, <2>4, <2>5, CodedBoth
      <3> QED
        BY <2>3, <3>1
    <2> QED
      BY <2>6 DEF X, l
  <1>6. Encodes(b, F) /\ Len(b) = SizeProposal(m) /\ b \in Text
    <2> HIDE DEF b
    <2> QED
      BY <1>5 DEF Coded, Encodes
  <1>7. SizeProposal(m) <= 10 * Limit
    BY <1>5, LimitIs DEF Coded, k
  <1> HIDE DEF b
  <1>8. Among(fs) = F
    BY <1>6, EncodesAll
  <1>9. PICK R : fs \in Seq(R)
    BY <1>6, EncodesAll
  <1> HIDE DEF fs
  <1>10. /\ Only(fs, 1, m.module, Nil)    /\ Only(fs, 2, m.round, 0)
         /\ Only(fs, 3, m.id, Nil)        /\ Only(fs, 4, m.timestamp, 0)
         /\ Only(fs, 5, m.pid, Nil)       /\ Only(fs, 6, m.pk, Nil)
         /\ Only(fs, 7, m.signature, Nil) /\ Only(fs, 8, m.justify, Nil)
    BY <1>3, <1>8 DEF Row, Only
  <1>11. ~Malformed(fs, <<Bytes, Varint, Bytes, Varint, Bytes, Bytes, Bytes, Bytes>>)
    <2>1. Wired(fs, <<Bytes, Varint, Bytes, Varint, Bytes, Bytes, Bytes, Bytes>>)
      BY <1>3, <1>8 DEF Row, Wired
    <2> QED
      BY <2>1, MalformedIs
  <1>12. /\ FieldValue(fs, 1, Nil) = m.module    /\ FieldValue(fs, 2, 0) = m.round
         /\ FieldValue(fs, 3, Nil) = m.id        /\ FieldValue(fs, 4, 0) = m.timestamp
         /\ FieldValue(fs, 5, Nil) = m.pid       /\ FieldValue(fs, 6, Nil) = m.pk
         /\ FieldValue(fs, 7, Nil) = m.signature /\ FieldValue(fs, 8, Nil) = m.justify
    BY <1>9, <1>10, FieldValueIs
  <1>13. UnmarshalProposal(b) = <<m>>
    BY <1>1, <1>11, <1>12 DEF UnmarshalProposal, fs
  <1> QED
    BY <1>6, <1>7, <1>13 DEF b

-----------------------------------------------------------------------------
\* An embedded message of at most c bytes.
LEMMA CodedEmbedded ==
    ASSUME NEW num \in 1 .. 15, NEW x \in Text, NEW c \in Nat, Len(x) <= c, c < 128 * Limit
    PROVE  Coded(Embedded(num, x), {Field(num, Bytes, x)}, EmbeddedSize(Len(x)), c + 5)
  <1> DEFINE n == Len(x)
  <1>1. n \in Nat /\ n <= c
    BY DEF Text
  <1>2. n < 128 * Limit
    BY <1>1, LimitIs
  <1> HIDE DEF n
  <1>3. Fits(n) /\ Len(EncodeVarint(n)) <= 4
    BY <1>1, <1>2, LengthsFit
  <1>4. Sov(n) = Len(EncodeVarint(n)) /\ Len(EncodeVarint(n)) \in Nat
    BY <1>1, SovIsLength, EncodeVarintBytes
  <1>5. EmbeddedSize(n) \in Nat /\ EmbeddedSize(n) <= c + 5
    BY <1>1, <1>3, <1>4 DEF EmbeddedSize
  <1> QED
    BY <1>3, <1>5, EncodesEmbedded DEF Coded, n

VoteMessages ==
    [ module : Short, vote_info : {Nil} \cup {<<info>> : info \in VoteInfos},
      commit_info : Short, timestamp : Number, pid : Short, pk : Short, signature : Short ]

\* of a vote, with a vote info or without,
LEMMA VoteRoundTrip ==
    ASSUME NEW m \in VoteMessages
    PROVE  /\ MarshalVote(m) \in Text /\ Len(MarshalVote(m)) = SizeVote(m)
           /\ SizeVote(m) <= 20 * Limit
           /\ UnmarshalVote(MarshalVote(m)) = <<m>>
  <1> DEFINE info == m.vote_info[1]
             x  == MarshalVoteInfo(info)
             p  == IF m.vote_info = Nil THEN Nil ELSE Embedded(2, x)
             ps == IF m.vote_info = Nil THEN 0 ELSE EmbeddedSize(SizeVoteInfo(info))
             A1 == BytesFields(1, m.module)
             A2 == {f \in {Field(2, Bytes, x)} : m.vote_info # Nil}
             A3 == BytesFields(3, m.commit_info)
             A4 == IntFields(4, m.timestamp)
             A5 == BytesFields(5, m.pid)
             A6 == BytesFields(6, m.pk)
             A7 == BytesFields(7, m.signature)
             F  == (((((A1 \cup A2) \cup A3) \cup A4) \cup A5) \cup A6) \cup A7
             b  == MarshalVote(m)
             fs == Fields(b)
             k  == Limit + 4
             pk == 5 * Limit + 5
  <1>1. /\ m.module \in Short /\ m.commit_info \in Short
        /\ m.timestamp \in Number /\ m.pid \in Short /\ m.pk \in Short
        /\ m.signature \in Short
        /\ m.vote_info # Nil => info \in VoteInfos /\ m.vote_info = <<info>>
        /\ m = [ module |-> m.module, vote_info |-> m.vote_info, commit_info |-> m.commit_info,
                 timestamp |-> m.timestamp, pid |-> m.pid, pk |-> m.pk,
                 signature |-> m.signature ]
    BY DEF VoteMessages
  <1>2. /\ Coded(BytesField(1, m.module), A1, BytesSize(m.module), k)
        /\ Coded(BytesField(3, m.commit_info), A3, BytesSize(m.commit_info), k)
        /\ Coded(IntField(4, m.timestamp), A4, IntSize(m.timestamp), 11)
        /\ Coded(BytesField(5, m.pid), A5, BytesSize(m.pid), k)
        /\ Coded(BytesField(6, m.pk), A6, BytesSize(m.pk), k)
        /\ Coded(BytesField(7, m.signature), A7, BytesSize(m.signature), k)
    BY <1>1, CodedFields
  <1>3. Coded(p, A2, ps, pk)
    <2>1. CASE m.vote_info = Nil
      <3>1. p = Nil /\ ps = 0 /\ A2 = {} /\ Len(Nil) = 0
        BY <2>1 DEF Nil
      <3>2. pk \in Nat
        BY LimitIs
      <3> HIDE DEF p, ps, A2, pk
      <3> QED
        BY <3>1, <3>2, EncodesNothing DEF Coded
    <2>2. CASE m.vote_info # Nil
      <3>1. /\ x \in Text /\ Len(x) = SizeVoteInfo(info) /\ SizeVoteInfo(info) <= 5 * Limit
        BY <1>1, <2>2, VoteInfoRoundTrip
      <3>2. p = Embedded(2, x) /\ ps = EmbeddedSize(SizeVoteInfo(info)) /\ A2 = {Field(2, Bytes, x)}
        BY <2>2
      <3>3. 5 * Limit \in Nat /\ 5 * Limit < 128 * Limit
        BY LimitIs
      <3> HIDE DEF p, ps, A2, x, info
      <3>4. Coded(Embedded(2, x), {Field(2, Bytes, x)}, EmbeddedSize(Len(x)), 5 * Limit + 5)
        BY <3>1, <3>3, CodedEmbedded
      <3> QED
        BY <3>1, <3>2, <3>4
    <2> QED
      BY <2>1, <2>2
  <1>4. /\ Row(A1, 1, Bytes, m.module, Nil)
        /\ Row(A3, 3, Bytes, m.commit_info, Nil) /\ Row(A4, 4, Varint, m.timestamp, 0)
        /\ Row(A5, 5, Bytes, m.pid, Nil)         /\ Row(A6, 6, Bytes, m.pk, Nil)
        /\ Row(A7, 7, Bytes, m.signature, Nil)
    BY Rows
  <1>5. /\ \A f \in A2 : f.num = 2 /\ f.wire = Bytes /\ f.val = x
        /\ A2 # {} <=> m.vote_info # Nil
    <2>1. \A f \in A2 : f = Field(2, Bytes, x)
      OBVIOUS
    <2>2. A2 # {} <=> m.vote_info # Nil
      OBVIOUS
    <2>3. Field(2, Bytes, x).num = 2 /\ Field(2, Bytes, x).wire = Bytes /\ Field(2, Bytes, x).val = x
      BY DEF Field
    <2> HIDE DEF A2, x
    <2> QED
      BY <2>1, <2>2, <2>3
  <1>6. 11 \in Nat /\ k \in Nat /\ pk \in Nat
    BY LimitIs
  <1>7. /\ b = ((((((BytesField(1, m.module) \o p) \o BytesField(3, m.commit_info))
                 \o IntField(4, m.timestamp)) \o BytesField(5, m.pid)) \o BytesField(6, m.pk))
                 \o BytesField(7, m.signature))
        /\ SizeVote(m) = ((((((BytesSize(m.module) + ps) + BytesSize(m.commit_info))
                 + IntSize(m.timestamp)) + BytesSize(m.pid)) + BytesSize(m.pk))
                 + BytesSize(m.signature))
    BY DEF MarshalVote, SizeVote
  <1>8. UnmarshalVote(b) =
            LET inf == IF Given(fs, 2) THEN UnmarshalVoteInfo(FieldValue(fs, 2, Nil)) ELSE Nil
            IN  IF \/ Malformed(fs, <<Bytes, Bytes, Bytes, Varint, Bytes, Bytes, Bytes>>)
                   \/ Given(fs, 2) /\ inf = Nil
                  THEN Nil
                  ELSE <<[ module      |-> FieldValue(fs, 1, Nil), vote_info |-> inf,
                           commit_info |-> FieldValue(fs, 3, Nil), timestamp |-> FieldValue(fs, 4, 0),
                           pid         |-> FieldValue(fs, 5, Nil), pk        |-> FieldValue(fs, 6, Nil),
                           signature   |-> FieldValue(fs, 7, Nil) ]>>
    BY DEF UnmarshalVote
  <1> HIDE DEF A1, A2, A3, A4, A5, A6, A7, k, p, ps, pk, b
  <1>9. Coded(b, F, SizeVote(m), ((((((k + pk) + k) + 11) + k) + k) + k))
    <2> DEFINE y == ((BytesField(1, m.module) \o p) \o BytesField(3, m.commit_info))
                    \o IntField(4, m.timestamp)
               i == ((BytesSize(m.module) + ps) + BytesSize(m.commit_info)) + IntSize(m.timestamp)
               X == ((A1 \cup A2) \cup A3) \cup A4
               l == ((k + pk) + k) + 11
    <2>1. Coded(y, X, i, l)
      BY <1>2, <1>3, <1>6, CodedFour
    <2>2. l \in Nat
      BY <1>6
    <2>3. /\ b = ((y \o BytesField(5, m.pid)) \o BytesField(6, m.pk)) \o BytesField(7, m.signature)
          /\ SizeVote(m) = ((i + BytesSize(m.pid)) + BytesSize(m.pk)) + BytesSize(m.signature)
      BY <1>7
    <2> HIDE DEF y, i, X, l
    <2>4. Coded(((y \o BytesField(5, m.pid)) \o BytesField(6, m.pk)) \o BytesField(7, m.signature),
                ((X \cup A5) \cup A6) \cup A7,
                ((i + BytesSize(m.pid)) + BytesSize(m.pk)) + BytesSize(m.signature),
                ((l + k) + k) + k)
      BY <1>2, <1>6, <2>1, <2>2, CodedFour
    <2> QED
      BY <2>3, <2>4 DEF X, l
  <1>10. Encodes(b, F) /\ Len(b) = SizeVote(m) /\ b \in Text
    BY <1>9 DEF Coded, Encodes
  <1>11. SizeVote(m) <= 20 * Limit
    BY <1>9, LimitIs DEF Coded, k, pk
  <1>12. Among(fs) = F
    BY <1>10, EncodesAll
  <1>13. PICK R : fs \in Seq(R)
    BY <1>10, EncodesAll
  <1> HIDE DEF fs
  <1>14. /\ Only(fs, 1, m.module, Nil)
         /\ Only(fs, 3, m.commit_info, Nil) /\ Only(fs, 4, m.timestamp, 0)
         /\ Only(fs, 5, m.pid, Nil)         /\ Only(fs, 6, m.pk, Nil)
         /\ Only(fs, 7, m.signature, Nil)
    BY <1>4, <1>5, <1>12 DEF Row, Only
  <1>15. ~Malformed(fs, <<Bytes, Bytes, Bytes, Varint, Bytes, Bytes, Bytes>>)
    <2>1. Wired(fs, <<Bytes, Bytes, Bytes, Varint, Bytes, Bytes, Bytes>>)
      BY <1>4, <1>5, <1>12 DEF Row, Wired
    <2> QED
      BY <2>1, MalformedIs
  <1>16. Given(fs, 2) <=> m.vote_info # Nil
    <2>1. Given(fs, 2) <=> \E f \in Among(fs) : f.num = 2
      BY GivenIs
    <2>2. \A f \in Among(fs) : f.num = 2 => f \in A2
      BY <1>4, <1>12 DEF Row
    <2>3. \A f \in A2 : f \in Among(fs) /\ f.num = 2
      BY <1>5, <1>12
    <2> QED
      BY <1>5, <2>1, <2>2, <2>3
  <1>17. m.vote_info # Nil => UnmarshalVoteInfo(FieldValue(fs, 2, Nil)) = <<info>>
    <2> SUFFICES ASSUME m.vote_info # Nil
                 PROVE  UnmarshalVoteInfo(FieldValue(fs, 2, Nil)) = <<info>>
      OBVIOUS
    <2>1. Only(fs, 2, x, Nil)
      <3> HIDE DEF x
      <3>1. \A f \in Among(fs) : f.num = 2 => f \in A2
        BY <1>4, <1>12 DEF Row
      <3>2. \A f \in A2 : f \in Among(fs) /\ f.num = 2
        BY <1>5, <1>12
      <3> QED
        BY <1>5, <3>1, <3>2 DEF Only, x
    <2>2. FieldValue(fs, 2, Nil) = x
      <3> HIDE DEF x
      <3> QED
        BY <1>13, <2>1, FieldValueIs
    <2>3. UnmarshalVoteInfo(x) = <<info>>
      BY <1>1, VoteInfoRoundTrip
    <2> QED
      BY <2>2, <2>3
  <1>18. /\ FieldValue(fs, 1, Nil) = m.module
         /\ FieldValue(fs, 3, Nil) = m.commit_info /\ FieldValue(fs, 4, 0) = m.timestamp
         /\ FieldValue(fs, 5, Nil) = m.pid         /\ FieldValue(fs, 6, Nil) = m.pk
         /\ FieldValue(fs, 7, Nil) = m.signature
    BY <1>13, <1>14, FieldValueIs
  <1>19. UnmarshalVote(b) = <<m>>
    <2>1. CASE m.vote_info = Nil
      <3> HIDE DEF info
      <3> QED
        BY <1>1, <1>8, <1>15, <1>16, <1>18, <2>1
    <2>2. CASE m.vote_info # Nil
      <3>1. m.vote_info = <<info>> /\ <<info>> # Nil
        BY <1>1, <2>2
      <3> HIDE DEF info
      <3> QED
        BY <1>1, <1>8, <1>15, <1>16, <1>17, <1>18, <2>2, <3>1
    <2> QED
      BY <2>1, <2>2
  <1> QED
    BY <1>10, <1>11, <1>19 DEF b

-----------------------------------------------------------------------------
TimeoutMessages ==
    [ module : Short, round : Number, parent_round : Number, parent_id : Short, index : Number,
      timestamp : Number, pid : Short, pk : Short, signature : Short ]

\* of a timeout,
LEMMA TimeoutRoundTrip ==
    ASSUME NEW m \in TimeoutMessages
    PROVE  /\ MarshalTimeout(m) \in Text /\ Len(MarshalTimeout(m)) = SizeTimeout(m)
           /\ SizeTimeout(m) <= 10 * Limit
           /\ UnmarshalTimeout(MarshalTimeout(m)) = <<m>>
  <1> DEFINE A1 == BytesFields(1, m.module)
             A2 == IntFields(2, m.round)
             A3 == IntFields(3, m.parent_round)
             A4 == BytesFields(4, m.parent_id)
             A5 == IntFields(5, m.index)
             A6 == IntFields(6, m.timestamp)
             A7 == BytesFields(7, m.pid)
             A8 == BytesFields(8, m.pk)
             A9 == BytesFields(9, m.signature)
             F  == (((((((A1 \cup A2) \cup A3) \cup A4) \cup A5) \cup A6) \cup A7) \cup A8) \cup A9
             b  == MarshalTimeout(m)
             fs == Fields(b)
             k  == Limit + 4
  <1>1. /\ m.module \in Short /\ m.round \in Number /\ m.parent_round \in Number
        /\ m.parent_id \in Short /\ m.index \in Number /\ m.timestamp \in Number
        /\ m.pid \in Short /\ m.pk \in Short /\ m.signature \in Short
        /\ m = [ module |-> m.module, round |-> m.round, parent_round |-> m.parent_round,
                 parent_id |-> m.parent_id, index |-> m.index, timestamp |-> m.timestamp,
                 pid |-> m.pid, pk |-> m.pk, signature |-> m.signature ]
    BY DEF TimeoutMessages
  <1>2. /\ Coded(BytesField(1, m.module), A1, BytesSize(m.module), k)
        /\ Coded(IntField(2, m.round), A2, IntSize(m.round), 11)
        /\ Coded(IntField(3, m.parent_round), A3, IntSize(m.parent_round), 11)
        /\ Coded(BytesField(4, m.parent_id), A4, BytesSize(m.parent_id), k)
        /\ Coded(IntField(5, m.index), A5, IntSize(m.index), 11)
        /\ Coded(IntField(6, m.timestamp), A6, IntSize(m.timestamp), 11)
        /\ Coded(BytesField(7, m.pid), A7, BytesSize(m.pid), k)
        /\ Coded(BytesField(8, m.pk), A8, BytesSize(m.pk), k)
        /\ Coded(BytesField(9, m.signature), A9, BytesSize(m.signature), k)
    BY <1>1, CodedFields
  <1>3. /\ Row(A1, 1, Bytes, m.module, Nil)        /\ Row(A2, 2, Varint, m.round, 0)
        /\ Row(A3, 3, Varint, m.parent_round, 0)   /\ Row(A4, 4, Bytes, m.parent_id, Nil)
        /\ Row(A5, 5, Varint, m.index, 0)          /\ Row(A6, 6, Varint, m.timestamp, 0)
        /\ Row(A7, 7, Bytes, m.pid, Nil)           /\ Row(A8, 8, Bytes, m.pk, Nil)
        /\ Row(A9, 9, Bytes, m.signature, Nil)
    BY Rows
  <1>4. 11 \in Nat /\ k \in Nat
    BY LimitIs
  <1> HIDE DEF A1, A2, A3, A4, A5, A6, A7, A8, A9, k
  <1>5. Coded(b, F, SizeTimeout(m), ((((((((k + 11) + 11) + k) + 11) + 11) + k) + k) + k))
    <2> DEFINE x == ((BytesField(1, m.module) \o IntField(2, m.round)) \o IntField(3, m.parent_round))
                    \o BytesField(4, m.parent_id)
               i == ((BytesSize(m.module) + IntSize(m.round)) + IntSize(m.parent_round))
                    + BytesSize(m.parent_id)
               X == ((A1 \cup A2) \cup A3) \cup A4
               l == ((k + 11) + 11) + k
               y == ((x \o IntField(5, m.index)) \o IntField(6, m.timestamp)) \o BytesField(7, m.pid)
               j == ((i + IntSize(m.index)) + IntSize(m.timestamp)) + BytesSize(m.pid)
               Y == ((X \cup A5) \cup A6) \cup A7
               h == ((l + 11) + 11) + k
    <2>1. Coded(x, X, i, l)
      BY <1>2, <1>4, CodedFour
    <2>2. l \in Nat /\ h \in Nat
      BY <1>4
    <2>3. /\ b = (y \o BytesField(8, m.pk)) \o BytesField(9, m.signature)
          /\ SizeTimeout(m) = (j + BytesSize(m.pk)) + BytesSize(m.signature)
      BY DEF MarshalTimeout, SizeTimeout
    <2>4. F = (Y \cup A8) \cup A9
      OBVIOUS
    <2>5. h = ((((((k + 11) + 11) + k) + 11) + 11) + k)
      OBVIOUS
    <2> HIDE DEF x, i, X, l, F, b
    <2>6. Coded(y, Y, j, h)
      BY <1>2, <1>4, <2>1, <2>2, CodedFour
    <2> HIDE DEF y, j, Y, h
    <2>7. Coded(y \o BytesField(8, m.pk), Y \cup A8, j + BytesSize(m.pk), h + k)
      BY <1>2, <1>4, <2>2, <2>6, CodedBoth
    <2>8. h + k \in Nat
      BY <1>4, <2>2
    <2>9. Coded((y \o BytesField(8, m.pk)) \o BytesField(9, m.signature), (Y \cup A8) \cup A9,
                (j + BytesSize(m.pk)) + BytesSize(m.signature), (h + k) + k)
      BY <1>2, <1>4, <2>7, <2>8, CodedBoth
    <2> QED
      BY <2>3, <2>4, <2>5, <2>9
  <1>6. Encodes(b, F) /\ Len(b) = SizeTimeout(m) /\ b \in Text
    <2> HIDE DEF b
    <2> QED
      BY <1>5 DEF Coded, Encodes
  <1>7. SizeTimeout(m) <= 10 * Limit
    BY <1>5, LimitIs DEF Coded, k
  <1> HIDE DEF b
  <1>8. Among(fs) = F
    BY <1>6, EncodesAll
  <1>9. PICK R : fs \in Seq(R)
    BY <1>6, EncodesAll
  <1> HIDE DEF fs
  <1>10. /\ Only(fs, 1, m.module, Nil)      /\ Only(fs, 2, m.round, 0)
         /\ Only(fs, 3, m.parent_round, 0)  /\ Only(fs, 4, m.parent_id, Nil)
         /\ Only(fs, 5, m.index, 0)         /\ Only(fs, 6, m.timestamp, 0)
         /\ Only(fs, 7, m.pid, Nil)         /\ Only(fs, 8, m.pk, Nil)
         /\ Only(fs, 9, m.signature, Nil)
    BY <1>3, <1>8 DEF Row, Only
  <1>11. ~Malformed(fs, <<Bytes, Varint, Varint, Bytes, Varint, Varint, Bytes, Bytes, Bytes>>)
    <2>1. Wired(fs, <<Bytes, Varint, Varint, Bytes, Varint, Varint, Bytes, Bytes, Bytes>>)
      BY <1>3, <1>8 DEF Row, Wired
    <2> QED
      BY <2>1, MalformedIs
  <1>12. /\ FieldValue(fs, 1, Nil) = m.module      /\ FieldValue(fs, 2, 0) = m.round
         /\ FieldValue(fs, 3, 0) = m.parent_round  /\ FieldValue(fs, 4, Nil) = m.parent_id
         /\ FieldValue(fs, 5, 0) = m.index         /\ FieldValue(fs, 6, 0) = m.timestamp
         /\ FieldValue(fs, 7, Nil) = m.pid         /\ FieldValue(fs, 8, Nil) = m.pk
         /\ FieldValue(fs, 9, Nil) = m.signature
    BY <1>9, <1>10, FieldValueIs
  <1>13. UnmarshalTimeout(b) = <<m>>
    BY <1>1, <1>11, <1>12 DEF UnmarshalTimeout, fs
  <1> QED
    BY <1>6, <1>7, <1>13 DEF b

-----------------------------------------------------------------------------
Sums ==
    {[kind |-> "proposal", msg |-> m] : m \in ProposalMessages}
    \cup {[kind |-> "vote", msg |-> m] : m \in VoteMessages}
    \cup {[kind |-> "timeout", msg |-> m] : m \in TimeoutMessages}

\* of the sum of a message,
LEMMA SumRoundTrip ==
    ASSUME NEW s \in Sums
    PROVE  \E num \in 2 .. 4, x \in Text :
               /\ MarshalSum(s) = Embedded(num, x) /\ SizeSum(s) = EmbeddedSize(Len(x))
               /\ Len(x) <= 20 * Limit
               /\ UnmarshalSum(Field(num, Bytes, x)) = <<s>>
  <1>0. \A l : l <= 10 * Limit /\ l \in Nat => l <= 20 * Limit
    BY LimitIs
  <1>1. ASSUME NEW m \in ProposalMessages, s = [kind |-> "proposal", msg |-> m]
        PROVE  \E num \in 2 .. 4, x \in Text :
                   /\ MarshalSum(s) = Embedded(num, x) /\ SizeSum(s) = EmbeddedSize(Len(x))
                   /\ Len(x) <= 20 * Limit
                   /\ UnmarshalSum(Field(num, Bytes, x)) = <<s>>
    <2> DEFINE x == MarshalProposal(m)
    <2>1. x \in Text /\ Len(x) = SizeProposal(m) /\ Len(x) <= 10 * Limit /\ UnmarshalProposal(x) = <<m>>
      BY ProposalRoundTrip
    <2>2. s.kind = "proposal" /\ s.msg = m
      BY <1>1
    <2>3. Len(x) <= 20 * Limit
      BY <1>0, <2>1 DEF Text
    <2>4. MarshalSum(s) = Embedded(2, x) /\ SizeSum(s) = EmbeddedSize(SizeProposal(m))
      BY <2>2 DEF MarshalSum, SizeSum
    <2> HIDE DEF x
    <2>5. <<m>> # Nil
      BY DEF Nil
    <2>6. UnmarshalSum(Field(2, Bytes, x)) = <<[kind |-> "proposal", msg |-> m]>>
      BY <2>1, <2>5 DEF UnmarshalSum, Field
    <2> QED
      BY <1>1, <2>1, <2>3, <2>4, <2>6
  <1>2. ASSUME NEW m \in VoteMessages, s = [kind |-> "vote", msg |-> m]
        PROVE  \E num \in 2 .. 4, x \in Text :
                   /\ MarshalSum(s) = Embedded(num, x) /\ SizeSum(s) = EmbeddedSize(Len(x))
                   /\ Len(x) <= 20 * Limit
                   /\ UnmarshalSum(Field(num, Bytes, x)) = <<s>>
    <2> DEFINE x == MarshalVote(m)
    <2>1. x \in Text /\ Len(x) = SizeVote(m) /\ Len(x) <= 20 * Limit /\ UnmarshalVote(x) = <<m>>
      BY VoteRoundTrip
    <2>2. s.kind = "vote" /\ s.msg = m
      BY <1>2
    <2>4. MarshalSum(s) = Embedded(3, x) /\ SizeSum(s) = EmbeddedSize(SizeVote(m))
      BY <2>2 DEF MarshalSum, SizeSum
    <2> HIDE DEF x
    <2>5. <<m>> # Nil
      BY DEF Nil
    <2>6. UnmarshalSum(Field(3, Bytes, x)) = <<[kind |-> "vote", msg |-> m]>>
      BY <2>1, <2>5 DEF UnmarshalSum, Field
    <2> QED
      BY <1>2, <2>1, <2>4, <2>6
  <1>3. ASSUME NEW m \in TimeoutMessages, s = [kind |-> "timeout", msg |-> m]
        PROVE  \E num \in 2 .. 4, x \in Text :
                   /\ MarshalSum(s) = Embedded(num, x) /\ SizeSum(s) = EmbeddedSize(Len(x))
                   /\ Len(x) <= 20 * Limit
                   /\ UnmarshalSum(Field(num, Bytes, x)) = <<s>>
    <2> DEFINE x == MarshalTimeout(m)
    <2>1. x \in Text /\ Len(x) = SizeTimeout(m) /\ Len(x) <= 10 * Limit /\ UnmarshalTimeout(x) = <<m>>
      BY TimeoutRoundTrip
    <2>2. s.kind = "timeout" /\ s.msg = m
      BY <1>3
    <2>3. Len(x) <= 20 * Limit
      BY <1>0, <2>1 DEF Text
    <2>4. MarshalSum(s) = Embedded(4, x) /\ SizeSum(s) = EmbeddedSize(SizeTimeout(m))
      BY <2>2 DEF MarshalSum, SizeSum
    <2> HIDE DEF x
    <2>5. <<m>> # Nil
      BY DEF Nil
    <2>6. UnmarshalSum(Field(4, Bytes, x)) = <<[kind |-> "timeout", msg |-> m]>>
      BY <2>1, <2>5 DEF UnmarshalSum, Field
    <2> QED
      BY <1>3, <2>1, <2>3, <2>4, <2>6
  <1> QED
    BY <1>1, <1>2, <1>3 DEF Sums

-----------------------------------------------------------------------------
\* A buffer of the right size is filled from its start.
LEMMA BufferedIs ==
    ASSUME NEW b \in Text, NEW n, n = Len(b)
    PROVE  Buffered(n, b) = b
  <1>1. Len(b) \in Nat /\ n - Len(b) = 0
    BY DEF Text
  <1>2. [i \in 1 .. 0 |-> 0] = <<>>
    OBVIOUS
  <1>3. <<>> \o b = b
    BY DEF Text
  <1>4. SubSeq(b, 1, Len(b)) = b
    BY DEF Text
  <1>5. ~(0 < 0)
    OBVIOUS
  <1> QED
    BY <1>1, <1>2, <1>3, <1>4, <1>5 DEF Buffered

WireMessages == [module : Short, sum : Sums]

\* Unmarshal undoes Marshal, of every message of consensus: zero rounds, empty and long
\* byte strings, whatever the bytes of varints and lengths are.
THEOREM MessageRoundTrip ==
    ASSUME NEW m \in WireMessages
    PROVE  /\ MarshalMessage(m) \in Text /\ Len(MarshalMessage(m)) <= 30 * Limit
           /\ Len(MarshalMessage(m)) > 0
           /\ UnmarshalMessage(MarshalMessage(m)) = <<m>>
  <1>1. m.module \in Short /\ m.sum \in Sums /\ m = [module |-> m.module, sum |-> m.sum]
    BY DEF WireMessages
  <1>2. PICK num \in 2 .. 4, x \in Text :
            /\ MarshalSum(m.sum) = Embedded(num, x) /\ SizeSum(m.sum) = EmbeddedSize(Len(x))
            /\ Len(x) <= 20 * Limit
            /\ UnmarshalSum(Field(num, Bytes, x)) = <<m.sum>>
    BY <1>1, SumRoundTrip
  <1> DEFINE A1 == BytesFields(1, m.module)
             g  == Field(num, Bytes, x)
             F  == A1 \cup {g}
             b  == BytesField(1, m.module) \o MarshalSum(m.sum)
             n  == BytesSize(m.module) + SizeSum(m.sum)
             fs == Fields(b)
             sums == {i \in DOMAIN fs : fs[i].num \in 2 .. 4}
             k  == Limit + 4
             c  == 20 * Limit
  <1>3. k \in Nat /\ c + 5 \in Nat /\ c \in Nat /\ c < 128 * Limit
    BY LimitIs
  <1>4. Coded(BytesField(1, m.module), A1, BytesSize(m.module), k)
    BY <1>1, CodedFields
  <1>5. Row(A1, 1, Bytes, m.module, Nil)
    BY Rows
  <1>6. g.num = num /\ g.wire = Bytes /\ num \in 1 .. 15
    BY DEF Field
  <1>7. MarshalMessage(m) = Buffered(n, b)
    BY DEF MarshalMessage
  <1>8. Len(x) <= c
    BY <1>2
  <1> HIDE DEF A1, c
  <1>9. Coded(MarshalSum(m.sum), {g}, SizeSum(m.sum), c + 5)
    BY <1>2, <1>3, <1>6, <1>8, CodedEmbedded
  <1> HIDE DEF g, k
  <1>10. Coded(b, F, n, k + (c + 5))
    BY <1>3, <1>4, <1>9, CodedBoth
  <1> HIDE DEF b, n
  <1>11. Encodes(b, F) /\ Len(b) = n /\ b \in Text
    BY <1>10 DEF Coded, Encodes
  <1>12. Len(b) <= 30 * Limit
    BY <1>10, <1>11, LimitIs DEF Coded, k, c
  <1>13. MarshalMessage(m) = b
    BY <1>7, <1>11, BufferedIs
  <1>14. Among(fs) = F
    BY <1>11, EncodesAll
  <1>15. PICK R : fs \in Seq(R)
    BY <1>11, EncodesAll
  <1>16. UnmarshalMessage(b) =
             LET sum == IF sums = {} THEN <<NoSum>> ELSE UnmarshalSum(fs[Max(sums)])
             IN  IF Malformed(fs, <<Bytes, Bytes, Bytes, Bytes>>) \/ sum = Nil
                   THEN Nil
                   ELSE <<[module |-> FieldValue(fs, 1, Nil), sum |-> sum[1]]>>
    BY DEF UnmarshalMessage
  <1>17. Len(b) > 0
    <2>1. b # Nil
      <3>1. g \in Among(fs)
        BY <1>14
      <3>2. Among(Fields(Nil)) = {}
        BY EncodesNothing, EncodesAll
      <3> QED
        BY <3>1, <3>2
    <2> QED
      BY <1>11, <2>1 DEF Nil, Text
  <1> HIDE DEF fs
  <1>18. FieldValue(fs, 1, Nil) = m.module
    <2>1. Only(fs, 1, m.module, Nil)
      BY <1>5, <1>6, <1>14 DEF Row, Only
    <2> QED
      BY <1>15, <2>1, FieldValueIs
  <1>19. ~Malformed(fs, <<Bytes, Bytes, Bytes, Bytes>>)
    <2>1. Wired(fs, <<Bytes, Bytes, Bytes, Bytes>>)
      BY <1>5, <1>6, <1>14 DEF Row, Wired
    <2> QED
      BY <2>1, MalformedIs
  <1>20. sums # {} /\ fs[Max(sums)] = g
    <2>1. Len(fs) \in Nat /\ DOMAIN fs = 1 .. Len(fs)
      BY <1>15
    <2>2. PICK i \in DOMAIN fs : fs[i] = g
      BY <1>14 DEF Among
    <2>3. i \in sums
      BY <1>6, <2>2
    <2>4. sums \in SUBSET (1 .. Len(fs))
      BY <2>1
    <2>5. \A j \in sums : fs[j] \in Among(fs) /\ fs[j].num # 1
      BY DEF Among
    <2>6. \A j \in sums : fs[j] = g
      BY <1>5, <1>14, <2>5 DEF Row
    <2> HIDE DEF sums
    <2>7. Max(sums) \in sums
      BY <2>1, <2>3, <2>4, MaxIs
    <2> QED
      BY <2>3, <2>6, <2>7
  <1> HIDE DEF sums
  <1>21. UnmarshalSum(g) = <<m.sum>> /\ <<m.sum>> # Nil
    BY <1>2 DEF g, Nil
  <1>22. UnmarshalMessage(b) = <<m>>
    BY <1>1, <1>16, <1>18, <1>19, <1>20, <1>21
  <1> QED
    BY <1>11, <1>12, <1>13, <1>17, <1>22

-----------------------------------------------------------------------------
PacketMsgs ==
    [ log_id : Short, channel_id : Number, module : Short, eof : BOOLEAN,
      data : {x \in Text : Len(x) <= 30 * Limit} ]

\* Unmarshal undoes Marshal, and Size is right: of the message of a packet,
LEMMA PacketMsgRoundTrip ==
    ASSUME NEW m \in PacketMsgs
    PROVE  /\ MarshalPacketMsg(m) \in Text /\ Len(MarshalPacketMsg(m)) = SizePacketMsg(m)
           /\ SizePacketMsg(m) <= 40 * Limit
           /\ UnmarshalPacketMsg(MarshalPacketMsg(m)) = <<m>>
  <1> DEFINE A1 == BytesFields(1, m.log_id)
             A2 == IntFields(2, m.channel_id)
             A3 == BytesFields(3, m.module)
             A4 == BoolFields(4, m.eof)
             A5 == BytesFields(5, m.data)
             F  == (((A1 \cup A2) \cup A3) \cup A4) \cup A5
             b  == MarshalPacketMsg(m)
             fs == Fields(b)
             k  == Limit + 4
             c  == 30 * Limit
  <1>1. /\ m.log_id \in Short /\ m.channel_id \in Number /\ m.module \in Short /\ m.eof \in BOOLEAN
        /\ m.data \in Text /\ Len(m.data) <= c
        /\ m = [ log_id |-> m.log_id, channel_id |-> m.channel_id, module |-> m.module,
                 eof |-> m.eof, data |-> m.data ]
    BY DEF PacketMsgs
  <1>2. /\ Coded(BytesField(1, m.log_id), A1, BytesSize(m.log_id), k)
        /\ Coded(IntField(2, m.channel_id), A2, IntSize(m.channel_id), 11)
        /\ Coded(BytesField(3, m.module), A3, BytesSize(m.module), k)
        /\ Coded(BoolField(4, m.eof), A4, BoolSize(m.eof), 2)
    BY <1>1, CodedFields
  <1>3. 11 \in Nat /\ k \in Nat /\ c \in Nat /\ c < 128 * Limit /\ c + 5 \in Nat
    BY LimitIs
  <1> HIDE DEF c
  <1>4. Coded(BytesField(5, m.data), A5, BytesSize(m.data), c + 5)
    <2>1. CASE m.data = Nil
      <3>1. /\ BytesField(5, m.data) = Nil /\ A5 = {} /\ BytesSize(m.data) = 0 /\ Len(Nil) = 0
        BY <2>1 DEF BytesField, BytesFields, BytesSize, Nil
      <3> HIDE DEF A5
      <3> QED
        BY <1>3, <3>1, EncodesNothing DEF Coded
    <2>2. CASE m.data # Nil
      <3>1. /\ BytesField(5, m.data) = Embedded(5, m.data) /\ A5 = {Field(5, Bytes, m.data)}
            /\ BytesSize(m.data) = EmbeddedSize(Len(m.data))
        BY <2>2 DEF BytesField, BytesFields, BytesSize
      <3> HIDE DEF A5
      <3> QED
        BY <1>1, <1>3, <3>1, CodedEmbedded
    <2> QED
      BY <2>1, <2>2
  <1>5. /\ Row(A1, 1, Bytes, m.log_id, Nil) /\ Row(A2, 2, Varint, m.channel_id, 0)
        /\ Row(A3, 3, Bytes, m.module, Nil) /\ Row(A5, 5, Bytes, m.data, Nil)
    BY Rows
  <1>6. /\ \A f \in A4 : f.num = 4 /\ f.wire = Varint /\ f.val = 1
        /\ A4 # {} <=> m.eof
    <2>1. /\ Field(4, Varint, 1).num = 4 /\ Field(4, Varint, 1).wire = Varint
          /\ Field(4, Varint, 1).val = 1
      BY DEF Field
    <2>2. \A f \in A4 : f = Field(4, Varint, 1)
      BY DEF BoolFields
    <2>3. A4 # {} <=> m.eof
      BY DEF BoolFields
    <2> HIDE DEF A4
    <2> QED
      BY <2>1, <2>2, <2>3
  <1> HIDE DEF A1, A2, A3, A4, A5, k
  <1>7. Coded(b, F, SizePacketMsg(m), (((k + 11) + k) + 2) + (c + 5))
    <2>1. Coded(((BytesField(1, m.log_id) \o IntField(2, m.channel_id)) \o BytesField(3, m.module))
                \o BoolField(4, m.eof),
                ((A1 \cup A2) \cup A3) \cup A4,
                ((BytesSize(m.log_id) + IntSize(m.channel_id)) + BytesSize(m.module)) + BoolSize(m.eof),
                ((k + 11) + k) + 2)
      BY <1>2, <1>3, CodedFour
    <2>2. ((k + 11) + k) + 2 \in Nat
      BY <1>3
    <2> QED
      BY <1>3, <1>4, <2>1, <2>2, CodedBoth DEF MarshalPacketMsg, SizePacketMsg
  <1>8. Encodes(b, F) /\ Len(b) = SizePacketMsg(m) /\ b \in Text
    <2> HIDE DEF b
    <2> QED
      BY <1>7 DEF Coded, Encodes
  <1>9. SizePacketMsg(m) <= 40 * Limit
    BY <1>7, LimitIs DEF Coded, k, c
  <1> HIDE DEF b
  <1>10. Among(fs) = F
    BY <1>8, EncodesAll
  <1>11. PICK R : fs \in Seq(R)
    BY <1>8, EncodesAll
  <1> HIDE DEF fs
  <1> DEFINE one == IF m.eof THEN 1 ELSE 0
  <1>12. /\ Only(fs, 1, m.log_id, Nil) /\ Only(fs, 2, m.channel_id, 0)
         /\ Only(fs, 3, m.module, Nil) /\ Only(fs, 4, one, 0)
         /\ Only(fs, 5, m.data, Nil)
    BY <1>5, <1>6, <1>10 DEF Row, Only
  <1>13. ~Malformed(fs, <<Bytes, Varint, Bytes, Varint, Bytes>>)
    <2>1. Wired(fs, <<Bytes, Varint, Bytes, Varint, Bytes>>)
      BY <1>5, <1>6, <1>10 DEF Row, Wired
    <2> QED
      BY <2>1, MalformedIs
  <1>14. (one # 0) = m.eof
    BY <1>1
  <1> HIDE DEF one
  <1>15. /\ FieldValue(fs, 1, Nil) = m.log_id /\ FieldValue(fs, 2, 0) = m.channel_id
         /\ FieldValue(fs, 3, Nil) = m.module /\ FieldValue(fs, 4, 0) = one
         /\ FieldValue(fs, 5, Nil) = m.data
    BY <1>11, <1>12, FieldValueIs
  <1>16. UnmarshalPacketMsg(b) = <<m>>
    BY <1>1, <1>13, <1>14, <1>15 DEF UnmarshalPacketMsg, fs
  <1> QED
    BY <1>8, <1>9, <1>16 DEF b

\* and of every packet that carries a message.
THEOREM PacketRoundTrip ==
    ASSUME NEW m \in PacketMsgs
    PROVE  /\ MarshalPacket(m) \in Text
           /\ UnmarshalPacket(MarshalPacket(m)) = <<m>>
  <1> DEFINE x  == MarshalPacketMsg(m)
             g  == Field(3, Bytes, x)
             b  == Embedded(3, x)
             fs == Fields(b)
  <1>1. /\ x \in Text /\ Len(x) = SizePacketMsg(m) /\ Len(x) <= 40 * Limit
        /\ UnmarshalPacketMsg(x) = <<m>>
    BY PacketMsgRoundTrip
  <1>2. MarshalPacket(m) = Buffered(EmbeddedSize(SizePacketMsg(m)), b)
    BY DEF MarshalPacket
  <1>3. g.num = 3 /\ g.wire = Bytes /\ g.val = x
    BY DEF Field
  <1>4. 40 * Limit \in Nat /\ 40 * Limit < 128 * Limit
    BY LimitIs
  <1> HIDE DEF x
  <1>5. Coded(b, {g}, EmbeddedSize(Len(x)), 40 * Limit + 5)
    BY <1>1, <1>4, CodedEmbedded
  <1> HIDE DEF g, b
  <1>6. Encodes(b, {g}) /\ Len(b) = EmbeddedSize(SizePacketMsg(m)) /\ b \in Text
    BY <1>1, <1>5 DEF Coded, Encodes
  <1>7. MarshalPacket(m) = b
    BY <1>2, <1>6, BufferedIs
  <1>8. Among(fs) = {g}
    BY <1>6, EncodesAll
  <1>9. PICK R : fs \in Seq(R)
    BY <1>6, EncodesAll
  <1>10. UnmarshalPacket(b) =
             IF Malformed(fs, [n \in {3} |-> Bytes]) THEN Nil
             ELSE IF ~Given(fs, 3) THEN <<EmptyPacketMsg>>
             ELSE UnmarshalPacketMsg(FieldValue(fs, 3, Nil))
    BY DEF UnmarshalPacket
  <1> HIDE DEF fs
  <1>11. Only(fs, 3, x, Nil) /\ Wired(fs, [n \in {3} |-> Bytes])
    BY <1>3, <1>8 DEF Only, Wired
  <1>12. Given(fs, 3)
    BY <1>3, <1>8, GivenIs
  <1>13. FieldValue(fs, 3, Nil) = x
    BY <1>9, <1>11, FieldValueIs
  <1>14. ~Malformed(fs, [n \in {3} |-> Bytes])
    BY <1>11, MalformedIs
  <1>15. UnmarshalPacket(b) = <<m>>
    BY <1>1, <1>10, <1>12, <1>13, <1>14
  <1> QED
    BY <1>6, <1>7, <1>15

-----------------------------------------------------------------------------
\* A message of the sender's own queue: what a handler made, with host and time.
OwnMsgs == {Stamped(m, host, now) : m \in Queued, host \in Hosts, now \in Times}

\* Its protobuf, as Sign puts it together again, and the message that is sent as
\* the k-th.
Proto(m) ==
    CASE m.kind = "proposal" -> ProtoProposal(m)
      [] m.kind = "vote"     -> ProtoVote(m)
      [] m.kind = "timeout"  -> ProtoTimeout(m)
Part(m) == SignedPart(Proto(m), PublicKey)
Sent(m, k) ==
    [ module |-> ConsensusModule,
      sum |-> [kind |-> m.kind, msg |-> [Part(m) EXCEPT !.signature = SignatureOf(k)]] ]

\* What is signed of a message; of the k-th of the sender's own queue o, what the
\* connection gets and the packet that carries it.
SignedText(m)  == [pk |-> PublicKey, text |-> JSON(m.kind, Part(m))]
Data(o, k)     == MarshalMessage(Sent(o[k], k))
Packet(o, k)   == PacketOf(Data(o, k))

\* Every message scheduled is signed, under its own number.
Signatures ==
    /\ own \in Seq(OwnMsgs) /\ Len(own) <= MaxMessages
    /\ signed \in Seq({SignedText(m) : m \in OwnMsgs}) /\ Len(signed) = Len(own)
    /\ \A k \in 1 .. Len(own) : signed[k] = SignedText(own[k])

\* What is under way is a run of the last messages: first, from the end, those in
\* the queue, before them those in packets, before them those read.
Sending ==
    /\ sendQueue \in Seq(Text)
    /\ \A i \in 1 .. Len(sendQueue) : sendQueue[i] = Data(own, Len(own) - Len(sendQueue) + i)

Streaming ==
    /\ stream \in Seq(Text) /\ buffer \in Text
    /\ \A i \in 1 .. Len(stream) :
           stream[i] = MarshalPacket(Packet(own, Len(own) - Len(sendQueue) - Len(stream) + i))

Reading ==
    /\ reading \in BOOLEAN /\ read \in Nat
    /\ read + Len(stream) + Len(sendQueue) <= Len(own)
    /\ reading => read + Len(stream) + Len(sendQueue) = Len(own)

\* A packet is with its goroutine or its message in the receiver's queue.
Handled ==
    /\ \A h \in handling : \E n \in 1 .. read : h = <<n, <<Packet(own, n)>>>>
    /\ \A g \in got : \E n \in 1 .. read : g = <<n, Content(own[n])>>
    /\ \A h \in handling, g \in got : h[1] # g[1]
    /\ \A n \in 1 .. read : (\E h \in handling : h[1] = n) \/ (\E g \in got : g[1] = n)

IInv == Signatures /\ Sending /\ Streaming /\ Reading /\ Handled

-----------------------------------------------------------------------------
\* The messages of the sender's own queue by their kinds.
OwnProposals ==
    [ kind : {"proposal"}, round : Number, id : Short \ {Nil}, justify : Short,
      sender : Short, timestamp : Number ]
OwnVotes ==
    [ kind : {"vote"}, round : Number, id : Short, parent_round : Number, parent_id : Short,
      commit_info : {Nil}, to : Short, sender : Short, timestamp : Number ]
OwnTimeouts ==
    [ kind : {"timeout"}, round : Number, index : Number, parent_round : Number,
      parent_id : Short, sender : Short, timestamp : Number ]

\* There are no others.
LEMMA OwnMsgsAre ==
    OwnMsgs \subseteq OwnProposals \cup OwnVotes \cup OwnTimeouts
  <1> SUFFICES ASSUME NEW m \in Queued, NEW host \in Hosts, NEW now \in Times
               PROVE  Stamped(m, host, now) \in OwnProposals \cup OwnVotes \cup OwnTimeouts
    BY DEF OwnMsgs
  <1> DEFINE s == Stamped(m, host, now)
  <1>1. host \in Short /\ now \in Number /\ m \in Proposals \cup Votes \cup Timeouts
    BY MessagesAssumption
  <1>2. CASE m \in Proposals
    <2>1. s \in OwnProposals
      BY <1>1, <1>2 DEF Stamped, Proposals, OwnProposals
    <2> QED
      BY <2>1
  <1>3. CASE m \in Votes
    <2>1. s \in OwnVotes
      BY <1>1, <1>3 DEF Stamped, Votes, OwnVotes
    <2> QED
      BY <2>1
  <1>4. CASE m \in Timeouts
    <2>1. s \in OwnTimeouts
      BY <1>1, <1>4 DEF Stamped, Timeouts, OwnTimeouts
    <2> QED
      BY <2>1
  <1> QED
    BY <1>1, <1>2, <1>3, <1>4

\* Nil, the module and the key are byte strings a message may have.
LEMMA ConstantsAreShort ==
    /\ Nil \in Short /\ ConsensusModule \in Short /\ PublicKey \in Short
    /\ 0 \in Number
    /\ Nil \in Text /\ Len(Nil) = 0
  <1>1. Nil \in Text /\ Len(Nil) = 0
    BY DEF Nil, Text
  <1>2. ConsensusModule \in Text /\ Len(ConsensusModule) = 9
    BY DEF ConsensusModule, Text, Byte
  <1>3. 0 < Limit /\ 9 < Limit
    BY LimitIs
  <1>4. Fits(0)
    BY LimitIs, LengthsFit
  <1> HIDE DEF Nil, ConsensusModule
  <1> QED
    BY <1>1, <1>2, <1>3, <1>4, MessagesAssumption DEF Short, Number

\* What Sign makes of the protobuf of m, with s for a signature.
With(m, s) == [Part(m) EXCEPT !.signature = s]

\* All that is said below of the parts of a message of the sender's own queue.
Taken(m, s, Msgs) ==
    /\ Proto(m) \in Msgs /\ Part(m) \in Msgs /\ With(m, s) \in Msgs
    /\ With(m, s).signature = s /\ With(m, s).pk = PublicKey
    /\ VerifiedPart(With(m, s)) = Part(m)
    /\ ConsMsg(m.kind, With(m, s)) = <<Content(m)>>

\* So it is with a proposal, whose id goes with it,
LEMMA ProposalTaken ==
    ASSUME NEW m \in OwnProposals, NEW s \in Short
    PROVE  /\ Taken(m, s, ProposalMessages)
           /\ Part(m).id # Nil
  <1> DEFINE Of(pk, sig) ==
                 [ module : {ConsensusModule}, round : {m.round}, id : {m.id},
                   timestamp : {m.timestamp}, pid : {m.sender}, pk : {pk},
                   signature : {sig}, justify : {m.justify} ]
  <1>1. /\ m.round \in Number /\ m.id \in Short /\ m.justify \in Short
        /\ m.sender \in Short /\ m.timestamp \in Number /\ m.kind = "proposal"
        /\ m = [ kind |-> "proposal", round |-> m.round, id |-> m.id, justify |-> m.justify,
                 sender |-> m.sender, timestamp |-> m.timestamp ]
    BY DEF OwnProposals
  <1>2. Proto(m) \in Of(Nil, Nil)
    BY <1>1 DEF Proto, ProtoProposal, EmptyProposal
  <1>3. Part(m) \in Of(PublicKey, Nil)
    BY <1>2 DEF Part, SignedPart
  <1>4. With(m, s) \in Of(PublicKey, s)
    BY <1>3 DEF With
  <1>5. /\ Proto(m) \in ProposalMessages /\ Part(m) \in ProposalMessages
        /\ With(m, s) \in ProposalMessages
    BY <1>1, <1>2, <1>3, <1>4, ConstantsAreShort DEF ProposalMessages
  <1>6. With(m, s).signature = s /\ With(m, s).pk = PublicKey
    BY <1>4
  <1>7. VerifiedPart(With(m, s)) \in Of(PublicKey, Nil)
    BY <1>4 DEF VerifiedPart
  <1>8. VerifiedPart(With(m, s)) = Part(m)
    BY <1>3, <1>7
  <1>9. ConsMsg("proposal", With(m, s)) = <<m>>
    <2> DEFINE q == With(m, s)
               r == [ProposalMsg(m.round, m.id, m.justify) EXCEPT
                        !.sender = m.sender, !.timestamp = m.timestamp]
    <2>1. /\ q.round = m.round /\ q.id = m.id /\ q.justify = m.justify
          /\ q.pid = m.sender /\ q.timestamp = m.timestamp
      BY <1>4
    <2>2. r \in [ kind : {"proposal"}, round : {m.round}, id : {m.id}, justify : {m.justify},
                 sender : {m.sender}, timestamp : {m.timestamp} ]
      BY DEF ProposalMsg
    <2>3. r = m
      BY <1>1, <2>2
    <2> HIDE DEF q
    <2>4. ConsMsg("proposal", q) = <<r>>
      BY <2>1 DEF ConsMsg
    <2> QED
      BY <2>3, <2>4 DEF q
  <1>10. Content(m) = m
    BY <1>1 DEF Content
  <1>11. Part(m).id # Nil
    BY <1>3 DEF OwnProposals
  <1> HIDE DEF Of
  <1> QED
    BY <1>1, <1>5, <1>6, <1>8, <1>9, <1>10, <1>11 DEF Taken

\* with a vote, whose vote info is there,
LEMMA VoteTaken ==
    ASSUME NEW m \in OwnVotes, NEW s \in Short
    PROVE  /\ Taken(m, s, VoteMessages)
           /\ Part(m).vote_info # Nil
  <1> DEFINE info == [ proposal_round |-> m.round, proposal_id |-> m.id,
                       parent_round |-> m.parent_round, parent_id |-> m.parent_id ]
             Of(pk, sig) ==
                 [ module : {ConsensusModule}, vote_info : {<<info>>}, commit_info : {Nil},
                   timestamp : {m.timestamp}, pid : {m.sender}, pk : {pk}, signature : {sig} ]
  <1>1. /\ m.round \in Number /\ m.id \in Short /\ m.parent_round \in Number
        /\ m.parent_id \in Short /\ m.commit_info = Nil /\ m.to \in Short
        /\ m.sender \in Short /\ m.timestamp \in Number /\ m.kind = "vote"
        /\ m = [ kind |-> "vote", round |-> m.round, id |-> m.id, parent_round |-> m.parent_round,
                 parent_id |-> m.parent_id, commit_info |-> Nil, to |-> m.to,
                 sender |-> m.sender, timestamp |-> m.timestamp ]
    BY DEF OwnVotes
  <1>2. Proto(m) \in Of(Nil, Nil)
    BY <1>1 DEF Proto, ProtoVote, EmptyVote
  <1>3. Part(m) \in Of(PublicKey, Nil)
    BY <1>2 DEF Part, SignedPart
  <1>4. With(m, s) \in Of(PublicKey, s)
    BY <1>3 DEF With
  <1>5. info \in VoteInfos
    BY <1>1 DEF VoteInfos
  <1>6. /\ Proto(m) \in VoteMessages /\ Part(m) \in VoteMessages
        /\ With(m, s) \in VoteMessages
    <2> HIDE DEF info
    <2> QED
      BY <1>1, <1>2, <1>3, <1>4, <1>5, ConstantsAreShort DEF VoteMessages
  <1>7. With(m, s).signature = s /\ With(m, s).pk = PublicKey
    BY <1>4
  <1>8. VerifiedPart(With(m, s)) = Part(m)
    <2>1. VerifiedPart(With(m, s)) \in Of(PublicKey, Nil)
      BY <1>4 DEF VerifiedPart
    <2> QED
      BY <1>3, <2>1
  <1>9. <<info>> # Nil /\ <<info>>[1] = info
    BY DEF Nil
  <1>10. Content(m) = [ kind |-> "vote", round |-> m.round, id |-> m.id,
                        parent_round |-> m.parent_round, parent_id |-> m.parent_id,
                        commit_info |-> Nil, to |-> Nil,
                        sender |-> m.sender, timestamp |-> m.timestamp ]
    BY <1>1 DEF Content
  <1>11. ConsMsg("vote", With(m, s)) = <<Content(m)>>
    <2> DEFINE q == With(m, s)
    <2>1. q.vote_info = <<info>> /\ q.commit_info = Nil /\ q.pid = m.sender
          /\ q.timestamp = m.timestamp
      BY <1>4
    <2> HIDE DEF q
    <2>2. q.vote_info # Nil /\ q.vote_info[1] = info
      BY <1>9, <2>1
    <2> DEFINE r == [VoteMsg(info.proposal_round, info.proposal_id, info.parent_round,
                             info.parent_id, Nil) EXCEPT
                        !.commit_info = Nil, !.sender = m.sender, !.timestamp = m.timestamp]
    <2>3. ConsMsg("vote", q) = <<r>>
      BY <2>1, <2>2 DEF ConsMsg
    <2>4. r \in [ kind : {"vote"}, round : {m.round}, id : {m.id}, parent_round : {m.parent_round},
                 parent_id : {m.parent_id}, commit_info : {Nil}, to : {Nil},
                 sender : {m.sender}, timestamp : {m.timestamp} ]
      BY DEF VoteMsg
    <2> HIDE DEF r
    <2>5. r = Content(m)
      BY <1>10, <2>4
    <2> QED
      BY <2>3, <2>5 DEF q
  <1>12. Part(m).vote_info # Nil
    BY <1>3, <1>9
  <1> HIDE DEF Of
  <1> QED
    BY <1>1, <1>6, <1>7, <1>8, <1>11, <1>12 DEF Taken

\* with a timeout,
LEMMA TimeoutTaken ==
    ASSUME NEW m \in OwnTimeouts, NEW s \in Short
    PROVE  Taken(m, s, TimeoutMessages)
  <1> DEFINE Of(pk, sig) ==
                 [ module : {ConsensusModule}, round : {m.round}, parent_round : {m.parent_round},
                   parent_id : {m.parent_id}, index : {m.index}, timestamp : {m.timestamp},
                   pid : {m.sender}, pk : {pk}, signature : {sig} ]
  <1>1. /\ m.round \in Number /\ m.index \in Number /\ m.parent_round \in Number
        /\ m.parent_id \in Short /\ m.sender \in Short /\ m.timestamp \in Number
        /\ m.kind = "timeout"
        /\ m = [ kind |-> "timeout", round |-> m.round, index |-> m.index,
                 parent_round |-> m.parent_round, parent_id |-> m.parent_id,
                 sender |-> m.sender, timestamp |-> m.timestamp ]
    BY DEF OwnTimeouts
  <1>2. Proto(m) \in Of(Nil, Nil)
    BY <1>1 DEF Proto, ProtoTimeout, EmptyTimeout
  <1>3. Part(m) \in Of(PublicKey, Nil)
    BY <1>2 DEF Part, SignedPart
  <1>4. With(m, s) \in Of(PublicKey, s)
    BY <1>3 DEF With
  <1>5. /\ Proto(m) \in TimeoutMessages /\ Part(m) \in TimeoutMessages
        /\ With(m, s) \in TimeoutMessages
    BY <1>1, <1>2, <1>3, <1>4, ConstantsAreShort DEF TimeoutMessages
  <1>6. With(m, s).signature = s /\ With(m, s).pk = PublicKey
    BY <1>4
  <1>7. VerifiedPart(With(m, s)) \in Of(PublicKey, Nil)
    BY <1>4 DEF VerifiedPart
  <1>8. VerifiedPart(With(m, s)) = Part(m)
    BY <1>3, <1>7
  <1>9. ConsMsg("timeout", With(m, s)) = <<m>>
    <2> DEFINE q == With(m, s)
               r == [TimeoutMsg(m.round, m.parent_round, m.parent_id, m.index) EXCEPT
                        !.sender = m.sender, !.timestamp = m.timestamp]
    <2>1. /\ q.round = m.round /\ q.parent_round = m.parent_round
          /\ q.parent_id = m.parent_id /\ q.index = m.index
          /\ q.pid = m.sender /\ q.timestamp = m.timestamp
      BY <1>4
    <2>2. r \in [ kind : {"timeout"}, round : {m.round}, index : {m.index},
                 parent_round : {m.parent_round}, parent_id : {m.parent_id},
                 sender : {m.sender}, timestamp : {m.timestamp} ]
      BY DEF TimeoutMsg
    <2>3. r = m
      BY <1>1, <2>2
    <2> HIDE DEF q
    <2>4. ConsMsg("timeout", q) = <<r>>
      BY <2>1 DEF ConsMsg
    <2> QED
      BY <2>3, <2>4 DEF q
  <1>10. Content(m) = m
    BY <1>1 DEF Content
  <1> HIDE DEF Of
  <1> QED
    BY <1>1, <1>5, <1>6, <1>8, <1>9, <1>10 DEF Taken

\* and so with every message.
LEMMA MsgTaken ==
    ASSUME NEW m \in OwnMsgs, NEW s \in Short
    PROVE  \E Msgs :
               /\ Taken(m, s, Msgs)
               /\ \A p \in Msgs : [kind |-> m.kind, msg |-> p] \in Sums
  <1>1. CASE m \in OwnProposals
    <2>1. m.kind = "proposal"
      BY <1>1 DEF OwnProposals
    <2>2. \A p \in ProposalMessages : [kind |-> m.kind, msg |-> p] \in Sums
      BY <2>1 DEF Sums
    <2> QED
      BY <1>1, <2>2, ProposalTaken
  <1>2. CASE m \in OwnVotes
    <2>1. m.kind = "vote"
      BY <1>2 DEF OwnVotes
    <2>2. \A p \in VoteMessages : [kind |-> m.kind, msg |-> p] \in Sums
      BY <2>1 DEF Sums
    <2> QED
      BY <1>2, <2>2, VoteTaken
  <1>3. CASE m \in OwnTimeouts
    <2>1. m.kind = "timeout"
      BY <1>3 DEF OwnTimeouts
    <2>2. \A p \in TimeoutMessages : [kind |-> m.kind, msg |-> p] \in Sums
      BY <2>1 DEF Sums
    <2> QED
      BY <1>3, <2>2, TimeoutTaken
  <1> QED
    BY <1>1, <1>2, <1>3, OwnMsgsAre

\* The k-th signature is a byte string, and tells k.
LEMMA SignatureIs ==
    ASSUME NEW k \in 1 .. MaxMessages
    PROVE  /\ SignatureOf(k) \in Short /\ SignatureOf(k) # Nil
           /\ SignatureOf(k)[1] = k
  <1>1. /\ SignatureLength \in Nat /\ SignatureLength >= 1 /\ SignatureLength < Limit
        /\ k \in Byte
    BY MessagesAssumption, LimitIs DEF Byte
  <1>2. SignatureOf(k) \in Text /\ Len(SignatureOf(k)) = SignatureLength /\ SignatureOf(k)[1] = k
    BY <1>1 DEF SignatureOf, Text
  <1>3. SignatureOf(k) # Nil
    BY <1>1, <1>2, ConstantsAreShort
  <1> QED
    BY <1>1, <1>2, <1>3 DEF Short

\* Sign can read what ProtoFromConsMsg makes, and makes the signed text and message.
LEMMA SignIs ==
    ASSUME NEW m \in OwnMsgs, NEW k \in 1 .. MaxMessages
    PROVE  /\ UnmarshalMessage(ProtoFromConsMsg(m)) # Nil
           /\ Sign(ProtoFromConsMsg(m), k)
                  = [text |-> JSON(m.kind, Part(m)), message |-> MarshalMessage(Sent(m, k))]
  <1> DEFINE sum == [kind |-> m.kind, msg |-> Proto(m)]
             w == [module |-> ConsensusModule, sum |-> sum]
             b == ProtoFromConsMsg(m)
  <1>1. sum \in Sums
    BY SignatureIs, MsgTaken DEF Taken
  <1>2. w \in WireMessages
    <2> HIDE DEF sum
    <2> QED
      BY <1>1, ConstantsAreShort DEF WireMessages
  <1>3. b = MarshalMessage(w)
    BY DEF ProtoFromConsMsg, Proto
  <1>4. w.sum = sum /\ sum.kind = m.kind /\ sum.msg = Proto(m)
    OBVIOUS
  <1> HIDE DEF w, b, sum
  <1>5. UnmarshalMessage(b) = <<w>>
    BY <1>2, <1>3, MessageRoundTrip
  <1>6. <<w>> # Nil /\ <<w>>[1] = w
    BY DEF Nil
  <1>7. UnmarshalMessage(b)[1].sum = sum
    BY <1>4, <1>5, <1>6
  <1>8. Sign(b, k) = [ text |-> JSON(m.kind, Part(m)), message |-> MarshalMessage(Sent(m, k)) ]
    BY <1>4, <1>7, Zenon DEF Sign, Sent, Part
  <1> QED
    BY <1>5, <1>6, <1>8 DEF b

\* Whoever receives the k-th message can read it, finds in it what the sender
\* wrote, and it verifies.
LEMMA SentIs ==
    ASSUME NEW m \in OwnMsgs, NEW k \in 1 .. MaxMessages
    PROVE  /\ MarshalMessage(Sent(m, k)) \in Text
           /\ Len(MarshalMessage(Sent(m, k))) <= 30 * Limit
           /\ MarshalMessage(Sent(m, k)) # Nil
           /\ ConsMsgFromProto(MarshalMessage(Sent(m, k))) = <<Content(m)>>
           /\ k \in DOMAIN signed /\ signed[k] = SignedText(m)
                  => Verify(MarshalMessage(Sent(m, k)))
  <1> DEFINE s == SignatureOf(k)
             q == With(m, s)
             sum == [kind |-> m.kind, msg |-> q]
             w == Sent(m, k)
             b == MarshalMessage(w)
  <1>1. s \in Short /\ s # Nil /\ s[1] = k
    BY SignatureIs
  <1>2. w = [module |-> ConsensusModule, sum |-> sum]
    BY DEF Sent, With
  <1> HIDE DEF s
  <1>3. /\ q.signature = s /\ q.pk = PublicKey /\ VerifiedPart(q) = Part(m)
        /\ ConsMsg(m.kind, q) = <<Content(m)>>
        /\ sum \in Sums
    BY <1>1, MsgTaken DEF Taken
  <1> HIDE DEF q, w
  <1>4. w.module = ConsensusModule /\ w.sum = sum /\ sum.kind = m.kind /\ sum.msg = q
    BY <1>2
  <1>5. w \in WireMessages
    <2> HIDE DEF sum
    <2> QED
      BY <1>2, <1>3, ConstantsAreShort DEF WireMessages
  <1> HIDE DEF sum
  <1>6. /\ b \in Text /\ Len(b) <= 30 * Limit /\ Len(b) > 0
        /\ UnmarshalMessage(b) = <<w>>
    BY <1>5, MessageRoundTrip
  <1> HIDE DEF b
  <1>7. b # Nil
    BY <1>6, ConstantsAreShort
  <1>8. <<w>> # Nil /\ <<w>>[1] = w
    BY DEF Nil
  <1>9. ConsMsgFromProto(b) = <<Content(m)>>
    BY <1>3, <1>4, <1>6, <1>8, Zenon DEF ConsMsgFromProto
  <1>10. ASSUME k \in DOMAIN signed, signed[k] = SignedText(m)
         PROVE  Verify(b)
    <2>1. m.kind # "none"
      <3>1. NoSum.kind = "none"
        BY DEF NoSum
      <3>2. sum.kind \in {"proposal", "vote", "timeout"}
        BY <1>3 DEF Sums
      <3> QED
        BY <1>4, <3>2
    <2>2. sum # NoSum
      BY <1>4, <2>1 DEF NoSum
    <2>3. signed[k] = [pk |-> q.pk, text |-> JSON(m.kind, VerifiedPart(q))]
      BY <1>3, <1>10 DEF SignedText
    <2> QED
      BY <1>1, <1>3, <1>4, <1>6, <1>8, <1>10, <2>2, <2>3, Zenon DEF Verify, s
  <1> QED
    BY <1>6, <1>7, <1>9, <1>10 DEF b, w

\* So it is with the packet that carries it.
LEMMA PacketIs ==
    ASSUME NEW x \in Text, Len(x) <= 30 * Limit
    PROVE  /\ MarshalPacket(PacketOf(x)) \in Text
           /\ UnmarshalPacket(MarshalPacket(PacketOf(x))) = <<PacketOf(x)>>
  <1> DEFINE log == [i \in 1 .. 19 |-> 55]
  <1>1. log \in Text /\ Len(log) = 19
    BY DEF Text, Byte
  <1>2. log \in Short
    BY <1>1, LimitIs DEF Short
  <1> HIDE DEF log
  <1>3. PacketOf(x) = [ log_id |-> log, channel_id |-> 0, module |-> ConsensusModule,
                        eof |-> TRUE, data |-> x ]
    BY DEF PacketOf, ConsensusChannel, log
  <1>4. PacketOf(x) \in PacketMsgs
    BY <1>2, <1>3, ConstantsAreShort DEF PacketMsgs
  <1> QED
    BY <1>4, PacketRoundTrip

-----------------------------------------------------------------------------
\* The text that is signed has every field that is not zero, and so gives them all.
LEMMA JSONDomain ==
    ASSUME NEW kind, NEW p
    PROVE  DOMAIN JSON(kind, p) = {g \in DOMAIN Empty(kind) : p[g] # Empty(kind)[g]}
  BY Zenon DEF JSON

\* Two messages with one text have the same fields.
LEMMA JSONFixes ==
    ASSUME NEW kind, NEW p, NEW q, JSON(kind, p) = JSON(kind, q), NEW f \in DOMAIN Empty(kind)
    PROVE  p[f] = q[f]
  <1> DEFINE D(r) == {g \in DOMAIN Empty(kind) : r[g] # Empty(kind)[g]}
  <1>0. DOMAIN JSON(kind, p) = D(p) /\ DOMAIN JSON(kind, q) = D(q) /\ D(p) = D(q)
    <2>1. DOMAIN JSON(kind, p) = D(p)
      BY JSONDomain
    <2>2. DOMAIN JSON(kind, q) = D(q)
      BY JSONDomain
    <2> QED
      BY <2>1, <2>2
  <1>1. CASE p[f] # Empty(kind)[f]
    <2>1. f \in D(p) /\ f \in D(q)
      BY <1>0, <1>1
    <2>2. JSON(kind, p)[f] = p[f]
      BY <1>1, Zenon DEF JSON
    <2>3. q[f] # Empty(kind)[f]
      BY <2>1
    <2>4. JSON(kind, q)[f] = q[f]
      BY <2>3, Zenon DEF JSON
    <2> QED
      BY <2>2, <2>4
  <1>2. CASE p[f] = Empty(kind)[f]
    <2>1. ~(f \in D(p))
      BY <1>2
    <2>2. q[f] = Empty(kind)[f]
      BY <1>0, <2>1
    <2> QED
      BY <1>2, <2>2
  <1> QED
    BY <1>1, <1>2

\* A vote has a vote info, a proposal an id, and no other kind has such a field.
LEMMA TextTellsKind ==
    ASSUME NEW m \in OwnMsgs
    PROVE  /\ m.kind \in {"proposal", "vote", "timeout"}
           /\ m.kind = "proposal" <=> "id" \in DOMAIN JSON(m.kind, Part(m))
           /\ m.kind = "vote" <=> "vote_info" \in DOMAIN JSON(m.kind, Part(m))
  <1> DEFINE D == DOMAIN JSON(m.kind, Part(m))
  <1>1. CASE m \in OwnProposals
    <2>1. m.kind = "proposal"
      BY <1>1 DEF OwnProposals
    <2>2. Empty(m.kind) = EmptyProposal
      BY <2>1 DEF Empty
    <2>3. "id" \in DOMAIN EmptyProposal /\ ~("vote_info" \in DOMAIN EmptyProposal)
          /\ EmptyProposal["id"] = Nil
      BY DEF EmptyProposal
    <2>4. Part(m)["id"] # Nil
      BY <1>1, ConstantsAreShort, ProposalTaken
    <2>5. "id" \in D /\ ~("vote_info" \in D)
      BY <2>2, <2>3, <2>4, JSONDomain
    <2> QED
      BY <2>1, <2>5
  <1>2. CASE m \in OwnVotes
    <2>1. m.kind = "vote"
      BY <1>2 DEF OwnVotes
    <2>2. Empty(m.kind) = EmptyVote
      BY <2>1 DEF Empty
    <2>3. "vote_info" \in DOMAIN EmptyVote /\ ~("id" \in DOMAIN EmptyVote)
          /\ EmptyVote["vote_info"] = Nil
      BY DEF EmptyVote
    <2>4. Part(m)["vote_info"] # Nil
      BY <1>2, ConstantsAreShort, VoteTaken
    <2>5. "vote_info" \in D /\ ~("id" \in D)
      BY <2>2, <2>3, <2>4, JSONDomain
    <2> QED
      BY <2>1, <2>5
  <1>3. CASE m \in OwnTimeouts
    <2>1. m.kind = "timeout"
      BY <1>3 DEF OwnTimeouts
    <2>2. Empty(m.kind) = EmptyTimeout
      BY <2>1 DEF Empty
    <2>3. ~("vote_info" \in DOMAIN EmptyTimeout) /\ ~("id" \in DOMAIN EmptyTimeout)
      BY DEF EmptyTimeout
    <2>4. ~("vote_info" \in D) /\ ~("id" \in D)
      BY <2>2, <2>3, JSONDomain
    <2> QED
      BY <2>1, <2>4
  <1> QED
    BY <1>1, <1>2, <1>3, OwnMsgsAre

\* Two messages with one signed text are the same to the handlers.
LEMMA SignedTextFixes ==
    ASSUME NEW m \in OwnMsgs, NEW n \in OwnMsgs, SignedText(m) = SignedText(n)
    PROVE  Content(m) = Content(n)
  <1> DEFINE p == Part(m)
             q == Part(n)
  <1>1. JSON(m.kind, p) = JSON(n.kind, q)
    <2>1. SignedText(m).text = JSON(m.kind, p) /\ SignedText(n).text = JSON(n.kind, q)
      BY DEF SignedText
    <2> QED
      BY <2>1
  <1>2. m.kind = n.kind
    BY <1>1, TextTellsKind
  <1>3. \A f \in DOMAIN Empty(m.kind) : p[f] = q[f]
    BY <1>1, <1>2, JSONFixes
  <1> HIDE DEF p, q
  <1>4. CASE m \in OwnProposals
    <2>1. m.kind = "proposal" /\ n \in OwnProposals
      BY <1>2, <1>4, OwnMsgsAre DEF OwnProposals, OwnVotes, OwnTimeouts
    <2>2. p \in ProposalMessages /\ q \in ProposalMessages
      BY <1>4, <2>1, ConstantsAreShort, ProposalTaken DEF Taken, p, q
    <2>3. Empty(m.kind) = EmptyProposal
      BY <2>1 DEF Empty
    <2>4. /\ p.module = q.module /\ p.round = q.round /\ p.id = q.id
          /\ p.timestamp = q.timestamp /\ p.pid = q.pid /\ p.pk = q.pk
          /\ p.signature = q.signature /\ p.justify = q.justify
      BY <1>3, <2>3 DEF EmptyProposal
    <2>5. p = q
      BY <2>2, <2>4 DEF ProposalMessages
    <2>6. With(m, Nil) = With(n, Nil)
      BY <2>5 DEF With, p, q
    <2>7. /\ ConsMsg(m.kind, With(m, Nil)) = <<Content(m)>>
          /\ ConsMsg(n.kind, With(n, Nil)) = <<Content(n)>>
      BY <1>4, <2>1, ConstantsAreShort, ProposalTaken DEF Taken
    <2> QED
      BY <1>2, <2>6, <2>7
  <1>5. CASE m \in OwnVotes
    <2>1. m.kind = "vote" /\ n \in OwnVotes
      BY <1>2, <1>5, OwnMsgsAre DEF OwnProposals, OwnVotes, OwnTimeouts
    <2>2. p \in VoteMessages /\ q \in VoteMessages
      BY <1>5, <2>1, ConstantsAreShort, VoteTaken DEF Taken, p, q
    <2>3. Empty(m.kind) = EmptyVote
      BY <2>1 DEF Empty
    <2>4. /\ p.module = q.module /\ p.vote_info = q.vote_info
          /\ p.commit_info = q.commit_info /\ p.timestamp = q.timestamp
          /\ p.pid = q.pid /\ p.pk = q.pk /\ p.signature = q.signature
      BY <1>3, <2>3 DEF EmptyVote
    <2>5. p = q
      BY <2>2, <2>4 DEF VoteMessages
    <2>6. With(m, Nil) = With(n, Nil)
      BY <2>5 DEF With, p, q
    <2>7. /\ ConsMsg(m.kind, With(m, Nil)) = <<Content(m)>>
          /\ ConsMsg(n.kind, With(n, Nil)) = <<Content(n)>>
      BY <1>5, <2>1, ConstantsAreShort, VoteTaken DEF Taken
    <2> QED
      BY <1>2, <2>6, <2>7
  <1>6. CASE m \in OwnTimeouts
    <2>1. m.kind = "timeout" /\ n \in OwnTimeouts
      BY <1>2, <1>6, OwnMsgsAre DEF OwnProposals, OwnVotes, OwnTimeouts
    <2>2. p \in TimeoutMessages /\ q \in TimeoutMessages
      BY <1>6, <2>1, ConstantsAreShort, TimeoutTaken DEF Taken, p, q
    <2>3. Empty(m.kind) = EmptyTimeout
      BY <2>1 DEF Empty
    <2>4. /\ p.module = q.module /\ p.round = q.round /\ p.parent_round = q.parent_round
          /\ p.parent_id = q.parent_id /\ p.index = q.index /\ p.timestamp = q.timestamp
          /\ p.pid = q.pid /\ p.pk = q.pk /\ p.signature = q.signature
      BY <1>3, <2>3 DEF EmptyTimeout
    <2>5. p = q
      BY <2>2, <2>4 DEF TimeoutMessages
    <2>6. With(m, Nil) = With(n, Nil)
      BY <2>5 DEF With, p, q
    <2>7. /\ ConsMsg(m.kind, With(m, Nil)) = <<Content(m)>>
          /\ ConsMsg(n.kind, With(n, Nil)) = <<Content(n)>>
      BY <1>6, <2>1, ConstantsAreShort, TimeoutTaken DEF Taken
    <2> QED
      BY <1>2, <2>6, <2>7
  <1> QED
    BY <1>4, <1>5, <1>6, OwnMsgsAre

-----------------------------------------------------------------------------
\* Of every message signed, what is sent can be read at each stage of its way.
LEMMA DataIs ==
    ASSUME Signatures, NEW k \in 1 .. Len(own)
    PROVE  /\ own[k] \in OwnMsgs
           /\ Data(own, k) \in Text /\ Data(own, k) # Nil
           /\ ConsMsgFromProto(Data(own, k)) = <<Content(own[k])>>
           /\ Verify(Data(own, k))
           /\ MarshalPacket(Packet(own, k)) \in Text
           /\ UnmarshalPacket(MarshalPacket(Packet(own, k))) = <<Packet(own, k)>>
  <1>1. own[k] \in OwnMsgs /\ k \in 1 .. MaxMessages /\ k \in DOMAIN signed
        /\ signed[k] = SignedText(own[k])
    BY MessagesAssumption DEF Signatures
  <1>2. /\ Data(own, k) \in Text /\ Len(Data(own, k)) <= 30 * Limit /\ Data(own, k) # Nil
        /\ ConsMsgFromProto(Data(own, k)) = <<Content(own[k])>>
        /\ Verify(Data(own, k))
    BY <1>1, SentIs DEF Data
  <1>3. /\ MarshalPacket(Packet(own, k)) \in Text
        /\ UnmarshalPacket(MarshalPacket(Packet(own, k))) = <<Packet(own, k)>>
    BY <1>2, PacketIs DEF Packet
  <1> QED
    BY <1>1, <1>2, <1>3

\* At first nothing is under way.
LEMMA InitIInv ==
    Init => IInv
  <1> SUFFICES ASSUME Init
               PROVE  IInv
    OBVIOUS
  <1>1. Signatures
    BY MessagesAssumption DEF Init, Signatures
  <1>2. Sending
    BY DEF Init, Sending
  <1>3. Streaming
    BY ConstantsAreShort DEF Init, Streaming
  <1>4. Reading
    BY DEF Init, Reading
  <1>5. Handled
    BY DEF Init, Handled
  <1> QED
    BY <1>1, <1>2, <1>3, <1>4, <1>5 DEF IInv

\* A message more is signed and queued; nothing before it moves.
LEMMA ScheduleKeepsIInv ==
    ASSUME IInv, Schedule
    PROVE  IInv'
  <1>1. PICK m \in OwnMsgs :
            /\ Len(own) < MaxMessages
            /\ own' = Append(own, m)
            /\ UnmarshalMessage(ProtoFromConsMsg(m)) # Nil
                   => /\ signed' = Append(signed, [ pk |-> PublicKey,
                                text |-> Sign(ProtoFromConsMsg(m), Len(signed) + 1).text ])
                      /\ sendQueue' = Append(sendQueue,
                                Sign(ProtoFromConsMsg(m), Len(signed) + 1).message)
            /\ UNCHANGED <<stream, reading, buffer, read, handling, got>>
    BY DEF Schedule, OwnMsgs
  <1> DEFINE n == Len(own) + 1
  <1>2. /\ own \in Seq(OwnMsgs) /\ Len(own) \in Nat /\ Len(signed) = Len(own)
        /\ n \in 1 .. MaxMessages
    BY <1>1, MessagesAssumption DEF IInv, Signatures
  <1>3. /\ own' \in Seq(OwnMsgs) /\ Len(own') = n /\ own'[n] = m
        /\ \A k \in 1 .. Len(own) : own'[k] = own[k]
    BY <1>1, <1>2
  <1>4. /\ UnmarshalMessage(ProtoFromConsMsg(m)) # Nil
        /\ Sign(ProtoFromConsMsg(m), n)
               = [text |-> JSON(m.kind, Part(m)), message |-> MarshalMessage(Sent(m, n))]
    BY <1>2, SignIs
  <1>5. /\ signed' = Append(signed, SignedText(m))
        /\ sendQueue' = Append(sendQueue, MarshalMessage(Sent(m, n)))
    BY <1>1, <1>2, <1>4 DEF SignedText
  <1>6. Signatures'
    <2> DEFINE T == {SignedText(x) : x \in OwnMsgs}
    <2>1. signed \in Seq(T) /\ SignedText(m) \in T
      BY DEF IInv, Signatures
    <2> HIDE DEF T
    <2>2. signed' \in Seq(T) /\ Len(signed') = n /\ signed'[n] = SignedText(m)
          /\ \A k \in 1 .. Len(own) : signed'[k] = signed[k]
      BY <1>2, <1>5, <2>1
    <2>3. \A k \in 1 .. n : signed'[k] = SignedText(own'[k])
      <3>1. \A k \in 1 .. Len(own) : signed'[k] = SignedText(own'[k])
        BY <1>3, <2>2 DEF IInv, Signatures
      <3> QED
        BY <1>2, <1>3, <2>2, <3>1
    <2> QED
      BY <1>2, <1>3, <2>2, <2>3, MessagesAssumption DEF Signatures, T
  <1>7. \A k \in 1 .. Len(own) : Data(own', k) = Data(own, k)
    BY <1>3 DEF Data
  <1>8. Data(own', n) = MarshalMessage(Sent(m, n)) /\ Data(own', n) \in Text
    BY <1>2, <1>3, SentIs DEF Data
  <1>9. /\ sendQueue \in Seq(Text) /\ Len(sendQueue) \in Nat /\ Len(stream) \in Nat /\ read \in Nat
        /\ stream \in Seq(Text)
        /\ read + Len(stream) + Len(sendQueue) <= Len(own)
    BY DEF IInv, Sending, Streaming, Reading
  <1>10. /\ sendQueue' \in Seq(Text) /\ Len(sendQueue') = Len(sendQueue) + 1
         /\ sendQueue'[Len(sendQueue) + 1] = Data(own', n)
         /\ \A i \in 1 .. Len(sendQueue) : sendQueue'[i] = sendQueue[i]
    BY <1>5, <1>8, <1>9
  <1> DEFINE q == Len(sendQueue)  l == Len(stream)  o == Len(own)
  <1>11. q \in Nat /\ l \in Nat /\ o \in Nat /\ read \in Nat /\ read + l + q <= o
    BY <1>2, <1>9
  <1>12. Sending'
    <2>1. \A i \in 1 .. q : sendQueue[i] = Data(own, o - q + i)
      BY DEF IInv, Sending
    <2> HIDE DEF q, o
    <2>2. \A i \in 1 .. q : o - q + i \in 1 .. o /\ (o + 1) - (q + 1) + i = o - q + i
      BY <1>11
    <2>3. (o + 1) - (q + 1) + (q + 1) = n
      BY <1>11 DEF o
    <2>4. ASSUME NEW i \in 1 .. q + 1
          PROVE  sendQueue'[i] = Data(own', (o + 1) - (q + 1) + i)
      <3>1. CASE i \in 1 .. q
        <4>1. sendQueue'[i] = Data(own, o - q + i)
          BY <1>10, <2>1, <3>1 DEF q
        <4>2. Data(own', o - q + i) = Data(own, o - q + i)
          BY <1>7, <2>2, <3>1 DEF o
        <4> QED
          BY <2>2, <3>1, <4>1, <4>2
      <3>2. CASE i = q + 1
        BY <1>10, <2>3, <3>2 DEF q
      <3> QED
        BY <1>11, <3>1, <3>2
    <2> QED
      BY <1>3, <1>10, <2>4 DEF Sending, q, o
  <1>13. Streaming'
    <2>1. /\ \A i \in 1 .. l : stream[i] = MarshalPacket(Packet(own, o - q - l + i))
          /\ buffer \in Text
      BY DEF IInv, Streaming
    <2>2. stream' = stream /\ buffer' = buffer /\ Len(own') = o + 1 /\ Len(sendQueue') = q + 1
      BY <1>1, <1>3, <1>10
    <2> HIDE DEF q, o, l
    <2>3. \A i \in 1 .. l : /\ o - q - l + i \in 1 .. o
                            /\ (o + 1) - (q + 1) - l + i = o - q - l + i
      BY <1>11
    <2>4. \A i \in 1 .. l : Packet(own', o - q - l + i) = Packet(own, o - q - l + i)
      BY <1>7, <2>3 DEF Packet, o
    <2>5. \A i \in 1 .. l : stream[i] = MarshalPacket(Packet(own', (o + 1) - (q + 1) - l + i))
      BY <2>1, <2>3, <2>4
    <2>6. Len(stream') = l
      BY <2>2 DEF l
    <2> QED
      BY <1>9, <2>1, <2>2, <2>5, <2>6 DEF Streaming
  <1>14. Reading'
    <2>1. /\ reading' = reading /\ read' = read /\ Len(stream') = l
          /\ Len(own') = o + 1 /\ Len(sendQueue') = q + 1
      BY <1>1, <1>3, <1>10
    <2>2. reading \in BOOLEAN /\ (reading => read + l + q = o)
      BY DEF IInv, Reading
    <2> HIDE DEF q, o, l
    <2> QED
      BY <1>11, <2>1, <2>2 DEF Reading
  <1>15. Handled'
    <2>1. read' = read /\ handling' = handling /\ got' = got
      BY <1>1
    <2>2. \A k \in 1 .. read : /\ own'[k] = own[k] /\ Packet(own', k) = Packet(own, k)
      BY <1>3, <1>7, <1>11 DEF Packet
    <2> QED
      BY <2>1, <2>2 DEF IInv, Handled
  <1> QED
    BY <1>6, <1>12, <1>13, <1>14, <1>15 DEF IInv

\* The first of the queue is put into a packet, the last of the stream.
LEMMA WriteMsgKeepsIInv ==
    ASSUME IInv, WriteMsg
    PROVE  IInv'
  <1> DEFINE q == Len(sendQueue)  l == Len(stream)  o == Len(own)
  <1>1. /\ sendQueue # <<>> /\ sendQueue' = Tail(sendQueue)
        /\ stream' = Append(stream, MarshalPacket(PacketOf(Head(sendQueue))))
        /\ UNCHANGED <<own, signed, reading, buffer, read, handling, got>>
    BY DEF WriteMsg
  <1>2. /\ sendQueue \in Seq(Text) /\ stream \in Seq(Text)
        /\ q \in Nat /\ l \in Nat /\ o \in Nat /\ read \in Nat /\ read + l + q <= o
    BY DEF IInv, Signatures, Sending, Streaming, Reading
  <1>3. /\ q > 0 /\ Head(sendQueue) = sendQueue[1]
        /\ sendQueue' \in Seq(Text) /\ Len(sendQueue') = q - 1
        /\ \A i \in 1 .. q - 1 : sendQueue'[i] = sendQueue[i + 1]
    BY <1>1, <1>2
  <1>4. \A i \in 1 .. q : sendQueue[i] = Data(own, o - q + i)
    BY DEF IInv, Sending
  <1>5. \A i \in 1 .. l : stream[i] = MarshalPacket(Packet(own, o - q - l + i))
    BY DEF IInv, Streaming
  <1> DEFINE k == o - q + 1
  <1>6. k \in 1 .. o
    BY <1>2, <1>3
  <1>7. /\ PacketOf(Head(sendQueue)) = Packet(own, k)
        /\ MarshalPacket(Packet(own, k)) \in Text
    BY <1>2, <1>3, <1>4, <1>6, DataIs DEF Packet, IInv
  <1>8. /\ stream' \in Seq(Text) /\ Len(stream') = l + 1
        /\ stream'[l + 1] = MarshalPacket(Packet(own, k))
        /\ \A i \in 1 .. l : stream'[i] = stream[i]
    BY <1>1, <1>2, <1>7
  <1>9. own' = own
    BY <1>1
  <1> HIDE DEF q, l, o
  <1>10. Signatures'
    BY <1>1 DEF IInv, Signatures
  <1>11. Sending'
    <2>1. \A i \in 1 .. q - 1 : i + 1 \in 1 .. q /\ o - q + (i + 1) = o - (q - 1) + i
      BY <1>2, <1>3
    <2>2. \A i \in 1 .. q - 1 : sendQueue'[i] = Data(own, o - (q - 1) + i)
      BY <1>3, <1>4, <2>1
    <2> QED
      BY <1>3, <1>9, <2>2 DEF Sending, o
  <1>12. Streaming'
    <2>1. \A i \in 1 .. l : o - q - l + i = o - (q - 1) - (l + 1) + i
      BY <1>2
    <2>2. o - (q - 1) - (l + 1) + (l + 1) = k
      BY <1>2
    <2> HIDE DEF k
    <2>3. ASSUME NEW i \in 1 .. l + 1
          PROVE  stream'[i] = MarshalPacket(Packet(own, o - (q - 1) - (l + 1) + i))
      <3>1. CASE i \in 1 .. l
        BY <1>5, <1>8, <2>1, <3>1
      <3>2. CASE i = l + 1
        BY <1>8, <2>2, <3>2
      <3> QED
        BY <1>2, <3>1, <3>2
    <2>4. buffer' \in Text
      BY <1>1 DEF IInv, Streaming
    <2> QED
      BY <1>3, <1>8, <1>9, <2>3, <2>4 DEF Streaming, o
  <1>13. Reading'
    <2>1. reading' = reading /\ read' = read /\ Len(own') = o
      BY <1>1 DEF o
    <2>2. reading \in BOOLEAN /\ (reading => read + l + q = o)
      BY DEF IInv, Reading, q, l, o
    <2> QED
      BY <1>2, <1>3, <1>8, <2>1, <2>2 DEF Reading
  <1>14. Handled'
    <2>1. own' = own /\ read' = read /\ handling' = handling /\ got' = got
      BY <1>1
    <2> QED
      BY <2>1 DEF IInv, Handled
  <1> QED
    BY <1>10, <1>11, <1>12, <1>13, <1>14 DEF IInv

\* What the packet at the head of the stream is.
LEMMA HeadIs ==
    ASSUME IInv, reading, stream # <<>>
    PROVE  /\ read + 1 \in 1 .. Len(own)
           /\ Head(stream) \in Text
           /\ Head(stream) = MarshalPacket(Packet(own, read + 1))
           /\ UnmarshalPacket(Head(stream)) = <<Packet(own, read + 1)>>
  <1> DEFINE q == Len(sendQueue)  l == Len(stream)  o == Len(own)  k == read + 1
  <1>1. /\ q \in Nat /\ l \in Nat /\ o \in Nat /\ read \in Nat /\ read + l + q = o /\ l > 0
        /\ Head(stream) = stream[1]
    BY DEF IInv, Signatures, Sending, Streaming, Reading
  <1>2. stream[1] = MarshalPacket(Packet(own, o - q - l + 1))
    BY <1>1 DEF IInv, Streaming
  <1> HIDE DEF q, l, o
  <1>3. k \in 1 .. o /\ o - q - l + 1 = k
    BY <1>1
  <1> HIDE DEF k
  <1>4. Head(stream) = MarshalPacket(Packet(own, k))
    BY <1>1, <1>2, <1>3
  <1>5. /\ MarshalPacket(Packet(own, k)) \in Text
        /\ UnmarshalPacket(MarshalPacket(Packet(own, k))) = <<Packet(own, k)>>
    BY <1>3, DataIs DEF IInv, o
  <1> QED
    BY <1>3, <1>4, <1>5 DEF k, o

\* The packet goes to a goroutine under the next number, or reading ends.
LEMMA ReadMsgKeepsIInv ==
    ASSUME IInv, ReadMsg
    PROVE  IInv'
  <1> DEFINE q == Len(sendQueue)  l == Len(stream)  o == Len(own)  k == read + 1
             small == Len(Head(stream)) <= MaxPacketMsgSize
  <1>1. /\ reading /\ stream # <<>> /\ stream' = Tail(stream)
        /\ UNCHANGED <<own, signed, sendQueue, got>>
    BY DEF ReadMsg
  <1>2. /\ k \in 1 .. o /\ Head(stream) \in Text
        /\ UnmarshalPacket(Head(stream)) = <<Packet(own, k)>>
    BY <1>1, HeadIs
  <1>3. \/ reading' = FALSE /\ UNCHANGED <<buffer, read, handling>>
        \/ /\ buffer' = Head(stream) /\ read' = k /\ UNCHANGED reading
           /\ handling' = handling \cup {<<k, <<Packet(own, k)>>>>}
    BY <1>2, Zenon DEF ReadMsg
  <1>4. /\ stream \in Seq(Text)
        /\ q \in Nat /\ l \in Nat /\ o \in Nat /\ read \in Nat /\ read + l + q = o
        /\ reading \in BOOLEAN
    BY <1>1 DEF IInv, Signatures, Sending, Streaming, Reading
  <1>5. /\ l > 0 /\ stream' \in Seq(Text) /\ Len(stream') = l - 1
        /\ \A i \in 1 .. l - 1 : stream'[i] = stream[i + 1]
    BY <1>1, <1>4
  <1>6. own' = own /\ Len(own') = o /\ Len(sendQueue') = q /\ got' = got
    BY <1>1
  <1>7. \A i \in 1 .. l : stream[i] = MarshalPacket(Packet(own, o - q - l + i))
    BY DEF IInv, Streaming
  <1> HIDE DEF q, l, o
  <1>8. Signatures'
    BY <1>1 DEF IInv, Signatures
  <1>9. Sending'
    BY <1>1 DEF IInv, Sending
  <1>10. Streaming'
    <2>1. \A i \in 1 .. l - 1 : i + 1 \in 1 .. l /\ o - q - l + (i + 1) = o - q - (l - 1) + i
      BY <1>4
    <2>2. \A i \in 1 .. l - 1 : stream'[i] = MarshalPacket(Packet(own, o - q - (l - 1) + i))
      BY <1>5, <1>7, <2>1
    <2>3. buffer' \in Text
      BY <1>2, <1>3 DEF IInv, Streaming
    <2> QED
      BY <1>5, <1>6, <2>2, <2>3 DEF Streaming
  <1>11. Reading'
    <2>1. CASE reading' = FALSE /\ UNCHANGED <<buffer, read, handling>>
      <3>1. reading' \in BOOLEAN /\ ~reading'
        BY <2>1, Zenon
      <3>2. read' = read
        BY <2>1
      <3>3. read' \in Nat /\ read' + (l - 1) + q <= o
        BY <1>4, <3>2
      <3> QED
        BY <1>5, <1>6, <3>1, <3>3 DEF Reading
    <2>2. CASE read' = k /\ UNCHANGED reading
      BY <1>4, <1>5, <1>6, <2>2 DEF Reading
    <2> QED
      BY <1>3, <2>1, <2>2
  <1>12. Handled'
    <2>1. CASE UNCHANGED <<buffer, read, handling>>
      <3>1. own' = own /\ read' = read /\ handling' = handling /\ got' = got
        BY <1>6, <2>1
      <3> QED
        BY <3>1 DEF IInv, Handled
    <2>2. CASE read' = k /\ handling' = handling \cup {<<k, <<Packet(own, k)>>>>}
      <3> DEFINE new == <<k, <<Packet(own, k)>>>>
      <3>1. new[1] = k /\ \A j : <<j, <<Packet(own, j)>>>>[1] = j
        OBVIOUS
      <3>2. \A n \in 1 .. read : n \in 1 .. k /\ n # k
        BY <1>4
      <3>3. k \in 1 .. k /\ \A n \in 1 .. k : n \in 1 .. read \/ n = k
        BY <1>4
      <3>4. \A h \in handling' : \E n \in 1 .. k : h = <<n, <<Packet(own, n)>>>>
        <4> SUFFICES ASSUME NEW h \in handling'
                     PROVE  \E n \in 1 .. k : h = <<n, <<Packet(own, n)>>>>
          OBVIOUS
        <4>1. CASE h \in handling
          BY <3>2, <4>1 DEF IInv, Handled
        <4>2. CASE h = new
          BY <3>3, <4>2
        <4> QED
          BY <2>2, <4>1, <4>2
      <3>5. \A g \in got : (\E n \in 1 .. k : g = <<n, Content(own[n])>>) /\ g[1] # k
        <4> SUFFICES ASSUME NEW g \in got
                     PROVE  (\E n \in 1 .. k : g = <<n, Content(own[n])>>) /\ g[1] # k
          OBVIOUS
        <4>1. PICK n \in 1 .. read : g = <<n, Content(own[n])>>
          BY DEF IInv, Handled
        <4>2. g[1] = n
          BY <4>1
        <4> QED
          BY <3>2, <4>1, <4>2
      <3>6. \A h \in handling', g \in got : h[1] # g[1]
        BY <2>2, <3>1, <3>5 DEF IInv, Handled
      <3>7. \A n \in 1 .. k : (\E h \in handling' : h[1] = n) \/ (\E g \in got : g[1] = n)
        <4> SUFFICES ASSUME NEW n \in 1 .. k
                     PROVE  (\E h \in handling' : h[1] = n) \/ (\E g \in got : g[1] = n)
          OBVIOUS
        <4>1. CASE n = k
          <5>1. new \in handling'
            BY <2>2
          <5> QED
            BY <3>1, <4>1, <5>1
        <4>2. CASE n \in 1 .. read
          BY <2>2, <4>2 DEF IInv, Handled
        <4> QED
          BY <3>3, <4>1, <4>2
      <3> HIDE DEF k
      <3> QED
        BY <1>6, <2>2, <3>4, <3>5, <3>6, <3>7 DEF Handled
    <2> QED
      BY <1>3, <2>1, <2>2
  <1> QED
    BY <1>8, <1>9, <1>10, <1>11, <1>12 DEF IInv

\* A goroutine converts what is in its packet, without a panic.
LEMMA HandlePktIs ==
    ASSUME IInv, HandlePkt
    PROVE  /\ UNCHANGED <<own, signed, sendQueue, stream, reading, buffer, read>>
           /\ \E k \in 1 .. read :
                  /\ <<k, <<Packet(own, k)>>>> \in handling
                  /\ handling' = handling \ {<<k, <<Packet(own, k)>>>>}
                  /\ got' = got \cup {<<k, Content(own[k])>>}
  <1>1. UNCHANGED <<own, signed, sendQueue, stream, buffer, read>>
    BY DEF HandlePkt
  <1>2. PICK h \in handling :
            IF ForConsensus(h[2][1]) /\ Panics(h[2][1].data)
              THEN reading' = FALSE /\ handling' = {} /\ UNCHANGED got
              ELSE /\ handling' = handling \ {h}
                   /\ IF ForConsensus(h[2][1])
                        THEN HandleFunc(h[1], h[2][1].data) ELSE UNCHANGED got
                   /\ UNCHANGED reading
    BY Zenon DEF HandlePkt
  <1>3. PICK k \in 1 .. read : h = <<k, <<Packet(own, k)>>>>
    BY DEF IInv, Handled
  <1>4. /\ h[1] = k /\ h[2][1] = Packet(own, k)
    BY <1>3
  <1>5. k \in 1 .. Len(own)
    BY DEF IInv, Signatures, Sending, Streaming, Reading
  <1>6. /\ Packet(own, k).channel_id = ConsensusChannel
        /\ Packet(own, k).module = ConsensusModule
        /\ Packet(own, k).data = Data(own, k)
    BY DEF Packet, PacketOf
  <1>7. Data(own, k) # Nil /\ ConsMsgFromProto(Data(own, k)) = <<Content(own[k])>>
    BY <1>5, DataIs DEF IInv
  <1>8. <<Content(own[k])>> # Nil /\ <<Content(own[k])>>[1] = Content(own[k])
    BY DEF Nil
  <1>9. ForConsensus(Packet(own, k))
    BY <1>6, <1>7 DEF ForConsensus
  <1>10. ~Panics(Data(own, k))
    <2>1. ConsMsgFromProto(Data(own, k)) # Nil
      BY <1>7, <1>8
    <2> QED
      BY <2>1, Zenon DEF Panics, ConsMsgFromProto
  <1>11. /\ handling' = handling \ {h} /\ reading' = reading
         /\ HandleFunc(k, Data(own, k))
    BY <1>2, <1>4, <1>6, <1>9, <1>10
  <1>12. got' = got \cup {<<k, Content(own[k])>>}
    BY <1>7, <1>8, <1>11, Zenon DEF HandleFunc
  <1> QED
    BY <1>1, <1>3, <1>11, <1>12

\* It hands the message to the receiver's queue.
LEMMA HandlePktKeepsIInv ==
    ASSUME IInv, HandlePkt
    PROVE  IInv'
  <1>1. UNCHANGED <<own, signed, sendQueue, stream, reading, buffer, read>>
    BY HandlePktIs
  <1>2. PICK k \in 1 .. read :
            /\ <<k, <<Packet(own, k)>>>> \in handling
            /\ handling' = handling \ {<<k, <<Packet(own, k)>>>>}
            /\ got' = got \cup {<<k, Content(own[k])>>}
    BY HandlePktIs, Zenon
  <1> DEFINE h   == <<k, <<Packet(own, k)>>>>
             new == <<k, Content(own[k])>>
  <1>3. h \in handling /\ handling' = handling \ {h} /\ h[1] = k
    BY <1>2
  <1>4. got' = got \cup {new}
    BY <1>2
  <1>5. new[1] = k
    OBVIOUS
  <1>6. own' = own /\ read' = read
    BY <1>1
  <1>7. /\ \A x \in handling : \E n \in 1 .. read : x = <<n, <<Packet(own, n)>>>>
        /\ \A g \in got : \E n \in 1 .. read : g = <<n, Content(own[n])>>
    BY DEF IInv, Handled
  <1>8. \A x \in handling', g \in got' : x[1] # g[1]
    <2> SUFFICES ASSUME NEW x \in handling', NEW g \in got'
                 PROVE  x[1] # g[1]
      OBVIOUS
    <2>1. x \in handling /\ x # h
      BY <1>3
    <2>2. CASE g \in got
      BY <2>1, <2>2 DEF IInv, Handled
    <2>3. CASE g = new
      <3>1. PICK n \in 1 .. read : x = <<n, <<Packet(own, n)>>>>
        BY <1>7, <2>1
      <3>2. n # k
        BY <2>1, <3>1
      <3>3. x[1] = n
        BY <3>1
      <3> QED
        BY <1>5, <2>3, <3>2, <3>3
    <2> QED
      BY <1>4, <2>2, <2>3
  <1>9. \A n \in 1 .. read : (\E x \in handling' : x[1] = n) \/ (\E g \in got' : g[1] = n)
    <2> SUFFICES ASSUME NEW n \in 1 .. read
                 PROVE  (\E x \in handling' : x[1] = n) \/ (\E g \in got' : g[1] = n)
      OBVIOUS
    <2>1. CASE n = k
      <3>1. new \in got'
        BY <1>4
      <3> QED
        BY <1>5, <2>1, <3>1
    <2>2. CASE n # k
      <3>1. (\E x \in handling : x[1] = n) \/ (\E g \in got : g[1] = n)
        BY DEF IInv, Handled
      <3>2. \A x \in handling : x[1] = n => x \in handling'
        BY <1>3, <2>2
      <3>3. \A g \in got : g \in got'
        BY <1>4
      <3> QED
        BY <3>1, <3>2, <3>3
    <2> QED
      BY <2>1, <2>2
  <1>10. \A x \in handling' : \E n \in 1 .. read : x = <<n, <<Packet(own, n)>>>>
    BY <1>3, <1>7
  <1>11. \A g \in got' : \E n \in 1 .. read : g = <<n, Content(own[n])>>
    BY <1>4, <1>7
  <1>12. Handled'
    <2> HIDE DEF new
    <2> QED
      BY <1>6, <1>8, <1>9, <1>10, <1>11 DEF Handled
  <1>13. Signatures' /\ Sending'
    BY <1>1 DEF IInv, Signatures, Sending
  <1>14. Streaming' /\ Reading'
    BY <1>1 DEF IInv, Streaming, Reading
  <1> QED
    BY <1>12, <1>13, <1>14 DEF IInv

\* Nothing happens.
LEMMA StutteringKeepsIInv ==
    ASSUME IInv, UNCHANGED vars
    PROVE  IInv'
  <1>1. Signatures' /\ Sending'
    BY DEF vars, IInv, Signatures, Sending
  <1>2. Streaming' /\ Reading'
    BY DEF vars, IInv, Streaming, Reading
  <1>3. Handled'
    BY DEF vars, IInv, Handled
  <1> QED
    BY <1>1, <1>2, <1>3 DEF IInv

\* No step breaks the invariant.
LEMMA NextKeepsIInv ==
    IInv /\ [Next]_vars => IInv'
  BY ScheduleKeepsIInv, WriteMsgKeepsIInv, ReadMsgKeepsIInv, HandlePktKeepsIInv,
     StutteringKeepsIInv DEF Next

\* The inductive invariant: which message each byte string under way is, and where
\* the messages of each number are.
THEOREM MessagesInductive == Spec => []IInv
  BY InitIInv, NextKeepsIInv, PTL DEF Spec

\* The addressee of a vote, once taken out, stays out.
LEMMA ContentTwice ==
    ASSUME NEW m \in OwnMsgs
    PROVE  Content(Content(m)) = Content(m)
  <1>1. CASE m \in OwnVotes
    <2> DEFINE c == [m EXCEPT !.to = Nil]
               S == [ kind : {"vote"}, round : {m.round}, id : {m.id},
                      parent_round : {m.parent_round}, parent_id : {m.parent_id},
                      commit_info : {m.commit_info}, to : {Nil}, sender : {m.sender},
                      timestamp : {m.timestamp} ]
    <2>1. m.kind = "vote" /\ Content(m) = c
      BY <1>1 DEF OwnVotes, Content
    <2>2. c \in S
      BY <1>1 DEF OwnVotes
    <2> HIDE DEF c
    <2>3. c.kind = "vote" /\ [c EXCEPT !.to = Nil] \in S
      BY <2>2
    <2>4. [c EXCEPT !.to = Nil] = c
      BY <2>2, <2>3
    <2>5. Content(c) = c
      BY <2>3, <2>4 DEF Content
    <2> QED
      BY <2>1, <2>5
  <1>2. CASE m \in OwnProposals \cup OwnTimeouts
    <2>1. m.kind # "vote"
      BY <1>2 DEF OwnProposals, OwnTimeouts
    <2>2. Content(m) = m
      BY <2>1 DEF Content
    <2> QED
      BY <2>2
  <1> QED
    BY <1>1, <1>2, OwnMsgsAre

-----------------------------------------------------------------------------
\* What is under way is bytes, and every message is in one place only: messages
\* are counted from queue to stream to reader as sendRoutine and recvRoutine move them.
THEOREM MessagesTypeCorrect == Spec => []TypeOK
  <1>1. IInv => TypeOK
    <2> SUFFICES ASSUME IInv
                 PROVE  TypeOK
      OBVIOUS
    <2>1. \A b \in Text : \A i \in DOMAIN b : b[i] \in Byte
      BY DEF Text
    <2>2. /\ \A x \in ToSet(sendQueue) : x \in Text
          /\ \A x \in ToSet(stream) : x \in Text
          /\ buffer \in Text
      BY DEF IInv, Sending, Streaming, ToSet
    <2>3. \A b \in ToSet(sendQueue) \cup ToSet(stream) \cup {buffer} :
              \A i \in DOMAIN b : b[i] \in Byte
      BY <2>1, <2>2
    <2>4. Len(signed) <= Len(own)
      BY DEF IInv, Signatures
    <2>5. \A h \in handling : h[1] \in 1 .. read
      BY DEF IInv, Handled
    <2> QED
      BY <2>3, <2>4, <2>5 DEF TypeOK, IInv, Reading, Handled
  <1> QED
    BY <1>1, MessagesInductive, PTL

\* What a handler of the receiver gets is what the sender's own handlers get of the
\* same message: ProtoFromConsMsg, Sign, Marshal, the packet, Unmarshal and
\* ConsMsgFromProto lose and change nothing, whatever goroutine comes first.
THEOREM ReceiverSeesWhatSenderSees == Spec => []GotIsOwn
  <1>1. IInv => GotIsOwn
    <2> SUFFICES ASSUME IInv, NEW g \in got
                 PROVE  Content(g[2]) = Content(own[g[1]])
      BY DEF GotIsOwn
    <2>1. PICK n \in 1 .. read : g = <<n, Content(own[n])>>
      BY DEF IInv, Handled
    <2>2. g[1] = n /\ g[2] = Content(own[n])
      BY <2>1
    <2>3. own[n] \in OwnMsgs
      BY DEF IInv, Signatures, Sending, Streaming, Reading
    <2>4. Content(Content(own[n])) = Content(own[n])
      BY <2>3, ContentTwice
    <2> QED
      BY <2>2, <2>4
  <1> QED
    BY <1>1, MessagesInductive, PTL

\* Verify accepts every message that arrives: the text it builds from the bytes it
\* got is the one Sign built from the bytes it was given.
THEOREM WhatArrivesVerifies == Spec => []ReceivedVerifies
  <1>1. IInv => ReceivedVerifies
    <2> SUFFICES ASSUME IInv, NEW h \in handling
                 PROVE  Verify(h[2][1].data)
      BY DEF ReceivedVerifies
    <2>1. PICK n \in 1 .. read : h = <<n, <<Packet(own, n)>>>>
      BY DEF IInv, Handled
    <2>2. h[2][1] = Packet(own, n) /\ Packet(own, n).data = Data(own, n)
      BY <2>1 DEF Packet, PacketOf
    <2>3. n \in 1 .. Len(own)
      BY DEF IInv, Signatures, Sending, Streaming, Reading
    <2>4. Verify(Data(own, n))
      BY <2>3, DataIs DEF IInv
    <2> QED
      BY <2>2, <2>4
  <1> QED
    BY <1>1, MessagesInductive, PTL

\* A signature stands for one message only: json.Marshal leaves out zero fields, and
\* still no two messages, of one kind or of two, are signed as the same text.
THEOREM SignaturesFixContent == Spec => []SignatureFixesContent
  <1>1. IInv => SignatureFixesContent
    <2> SUFFICES ASSUME IInv, NEW i \in DOMAIN signed, NEW j \in DOMAIN signed,
                        signed[i] = signed[j]
                 PROVE  Content(own[i]) = Content(own[j])
      BY DEF SignatureFixesContent
    <2>1. i \in 1 .. Len(own) /\ j \in 1 .. Len(own)
      BY DEF IInv, Signatures
    <2>2. signed[i] = SignedText(own[i]) /\ signed[j] = SignedText(own[j])
      BY <2>1 DEF IInv, Signatures
    <2>3. own[i] \in OwnMsgs /\ own[j] \in OwnMsgs
      BY <2>1 DEF IInv, Signatures
    <2> QED
      BY <2>2, <2>3, SignedTextFixes
  <1> QED
    BY <1>1, MessagesInductive, PTL

-----------------------------------------------------------------------------
\* What has been read was not too large, and reading ends at what is.
Sized ==
    /\ \A j \in 1 .. read : ~TooLarge(j)
    /\ ~reading => read + 1 \in 1 .. Len(own) /\ TooLarge(read + 1)

\* The size that counts is that of the packet that is sent.
LEMMA TooLargeIs ==
    ASSUME Signatures, NEW k \in 1 .. Len(own)
    PROVE  TooLarge(k) <=> Len(MarshalPacket(Packet(own, k))) > MaxPacketMsgSize
  <1>1. own[k] \in OwnMsgs /\ k \in 1 .. MaxMessages
    BY MessagesAssumption DEF Signatures
  <1>2. Sign(ProtoFromConsMsg(own[k]), k)
            = [text |-> JSON(own[k].kind, Part(own[k])), message |-> Data(own, k)]
    BY <1>1, SignIs DEF Data
  <1>3. Sign(ProtoFromConsMsg(own[k]), k).message = Data(own, k)
    BY <1>2
  <1> QED
    BY <1>3 DEF TooLarge, Packet

LEMMA SizedKept == IInv /\ Sized /\ [Next]_vars => Sized'
  <1> SUFFICES ASSUME IInv, Sized, [Next]_vars
               PROVE  Sized'
    OBVIOUS
  <1>1. /\ read \in Nat /\ Len(own) \in Nat /\ read <= Len(own) /\ reading \in BOOLEAN
    BY DEF IInv, Signatures, Sending, Streaming, Reading
  <1>2. CASE Schedule
    <2>1. PICK x : own' = Append(own, x)
      BY <1>2 DEF Schedule
    <2>2. read' = read /\ reading' = reading
      BY <1>2 DEF Schedule
    <2>3. /\ Len(own') = Len(own) + 1
          /\ \A j \in 1 .. Len(own) : own'[j] = own[j]
      BY <2>1 DEF IInv, Signatures
    <2>4. \A j \in 1 .. Len(own) : TooLarge(j)' <=> TooLarge(j)
      BY <2>3 DEF TooLarge
    <2>5. \A j \in 1 .. read : ~TooLarge(j)'
      BY <1>1, <2>4 DEF Sized
    <2>6. ~reading => read + 1 \in 1 .. Len(own') /\ TooLarge(read + 1)'
      BY <1>1, <2>2, <2>3, <2>4 DEF Sized
    <2> QED
      BY <2>2, <2>5, <2>6 DEF Sized, TooLarge
  <1>3. CASE ReadMsg
    <2> DEFINE k == read + 1
    <2>1. own' = own /\ reading /\ stream # <<>>
      BY <1>3 DEF ReadMsg
    <2>2. /\ k \in 1 .. Len(own)
          /\ Head(stream) = MarshalPacket(Packet(own, k))
          /\ UnmarshalPacket(Head(stream)) = <<Packet(own, k)>>
      BY <2>1, HeadIs
    <2>3. <<Packet(own, k)>> # Nil
      BY DEF Nil
    <2>4. TooLarge(k) <=> Len(Head(stream)) > MaxPacketMsgSize
      BY <2>2, TooLargeIs DEF IInv
    <2>5. \/ TooLarge(k) /\ reading' = FALSE /\ read' = read
          \/ ~TooLarge(k) /\ reading' = reading /\ read' = k
      BY <1>3, <2>2, <2>3, <2>4, Zenon DEF ReadMsg
    <2>6. \A j : TooLarge(j)' <=> TooLarge(j)
      BY <2>1 DEF TooLarge
    <2>7. CASE TooLarge(k) /\ reading' = FALSE /\ read' = read
      <3>1. /\ \A j \in 1 .. read' : ~TooLarge(j)
            /\ read' + 1 \in 1 .. Len(own') /\ TooLarge(read' + 1)
        BY <2>1, <2>2, <2>7 DEF Sized
      <3> QED
        BY <2>1, <3>1 DEF Sized, TooLarge
    <2>8. CASE ~TooLarge(k) /\ reading' = reading /\ read' = k
      <3>1. \A j \in 1 .. read' : j \in 1 .. read \/ j = k
        BY <1>1, <2>8
      <3>2. \A j \in 1 .. read' : ~TooLarge(j)
        BY <2>8, <3>1 DEF Sized
      <3> QED
        BY <2>1, <2>8, <3>2 DEF Sized, TooLarge
    <2> QED
      BY <2>5, <2>7, <2>8
  <1>4. CASE WriteMsg \/ HandlePkt \/ UNCHANGED vars
    <2>1. own' = own /\ read' = read /\ reading' = reading
      BY <1>4, HandlePktIs DEF WriteMsg, vars
    <2> QED
      BY <2>1 DEF Sized, TooLarge
  <1> QED
    BY <1>2, <1>3, <1>4 DEF Next

\* The messages up to the first that recvRoutine finds too large get into the
\* receiver's queue, and no other: no step refuses or drops what another has made.
THEOREM OnlyTooLargeRefused == Spec => []GotUpToTooLarge
  <1>1. Init => Sized
    BY DEF Init, Sized
  <1>2. IInv /\ Sized /\ [Next]_vars => Sized'
    BY SizedKept
  <1>3. IInv /\ Sized => GotUpToTooLarge
    <2> SUFFICES ASSUME IInv, Sized, handling = {},
                        reading => sendQueue = <<>> /\ stream = <<>>
                 PROVE  {g[1] : g \in got}
                            = {k \in DOMAIN own : \A j \in 1 .. k : ~TooLarge(j)}
      BY DEF GotUpToTooLarge
    <2>1. /\ read \in Nat /\ Len(own) \in Nat /\ read <= Len(own)
          /\ DOMAIN own = 1 .. Len(own)
      BY DEF IInv, Signatures, Sending, Streaming, Reading
    <2>2. reading => read = Len(own)
      BY DEF IInv, Reading
    <2>3. ASSUME NEW g \in got
          PROVE  g[1] \in 1 .. read
      BY DEF IInv, Handled
    <2>4. ASSUME NEW n \in 1 .. read
          PROVE  \E g \in got : g[1] = n
      BY DEF IInv, Handled
    <2>5. {g[1] : g \in got} = 1 .. read
      BY <2>3, <2>4
    <2>6. ASSUME NEW k \in 1 .. read
          PROVE  k \in DOMAIN own /\ \A j \in 1 .. k : ~TooLarge(j)
      BY <2>1 DEF Sized
    <2>7. ASSUME NEW k \in DOMAIN own, \A j \in 1 .. k : ~TooLarge(j)
          PROVE  k \in 1 .. read
      <3>1. k <= read \/ read + 1 \in 1 .. k
        BY <2>1
      <3>2. CASE reading
        BY <2>1, <2>2, <3>2
      <3>3. CASE ~reading
        <4>1. TooLarge(read + 1)
          BY <3>3 DEF Sized
        <4>2. ~(read + 1 \in 1 .. k)
          BY <2>7, <4>1, Zenon
        <4> QED
          BY <2>1, <3>1, <4>2
      <3> QED
        BY <3>2, <3>3
    <2> QED
      BY <2>5, <2>6, <2>7
  <1> QED
    BY <1>1, <1>2, <1>3, MessagesInductive, PTL DEF Spec
=============================================================================
