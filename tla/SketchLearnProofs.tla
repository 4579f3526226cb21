------------------------- MODULE SketchLearnProofs --------------------------
(***************************************************************************)
(* Proofs about SketchLearn, for every set of keys, size of a sketch, hash *)
(* function, width of a counter and sequence of operations; and about      *)
(* Controller, for every traffic as well, whose sketch is shown to be the  *)
(* sums of what SketchLearn counts.                                        *)
(***************************************************************************)
EXTENDS SketchLearn, Controller, TotalsProofs, SequenceTheorems

LEMMA KeysFinite == IsFiniteSet(Key)
  BY CountersAssumption

-----------------------------------------------------------------------------
(* Counters that wrap *)

Cong(x, y) == \E q \in Int: x = y + q * (2 * Limit)

LEMMA LimitType == Limit \in Nat /\ Limit > 0
  BY CountersAssumption

LEMMA CongRefl == \A x \in Int: Cong(x, x)
<1> SUFFICES ASSUME NEW x \in Int PROVE Cong(x, x)  OBVIOUS
<1>1. x = x + 0 * (2 * Limit)  BY LimitType
<1>2. QED  BY <1>1 DEF Cong

LEMMA CongSym == \A x, y \in Int: Cong(x, y) => Cong(y, x)
<1> SUFFICES ASSUME NEW x \in Int, NEW y \in Int, Cong(x, y) PROVE Cong(y, x)  OBVIOUS
<1>1. PICK q \in Int: x = y + q * (2 * Limit)  BY DEF Cong
<1>2. y = x + (-q) * (2 * Limit)  BY <1>1, LimitType
<1>3. QED  BY <1>2 DEF Cong

LEMMA CongAdd ==
  ASSUME NEW x \in Int, NEW y \in Int, NEW u \in Int, NEW v \in Int, Cong(x, u), Cong(y, v)
  PROVE  Cong(x + y, u + v) /\ Cong(x - y, u - v)
<1>1. PICK q \in Int: x = u + q * (2 * Limit)  BY DEF Cong
<1>2. PICK r \in Int: y = v + r * (2 * Limit)  BY DEF Cong
<1>3. PICK m \in Int: m = 2 * Limit  BY LimitType
<1>4. x + y = (u + v) + (q + r) * m  BY <1>1, <1>2, <1>3
<1>5. x - y = (u - v) + (q - r) * m  BY <1>1, <1>2, <1>3
<1>6. QED  BY <1>3, <1>4, <1>5 DEF Cong

LEMMA CongTrans ==
  ASSUME NEW x \in Int, NEW y \in Int, NEW z \in Int, Cong(x, y), Cong(y, z)
  PROVE  Cong(x, z)
<1>1. PICK q \in Int: x = y + q * (2 * Limit)  BY DEF Cong
<1>2. PICK r \in Int: y = z + r * (2 * Limit)  BY DEF Cong
<1>3. PICK m \in Int: m = 2 * Limit  BY LimitType
<1>4. x = z + (q + r) * m  BY <1>1, <1>2, <1>3
<1>5. QED  BY <1>3, <1>4 DEF Cong

LEMMA WrapCong ==
  ASSUME NEW x \in Int
  PROVE  Wrap(x) \in Int32 /\ Cong(x, Wrap(x))
<1>1. PICK m \in Nat: m = 2 * Limit /\ m > 0  BY LimitType
<1>2. PICK y \in Int: y = x + Limit  BY LimitType
<1>3. y = m * (y \div m) + (y % m) /\ y \div m \in Int /\ y % m \in 0 .. m - 1  BY <1>1, <1>2
<1>4. Wrap(x) = (y % m) - Limit  BY <1>1, <1>2 DEF Wrap
<1>5. Wrap(x) \in Int32  BY <1>1, <1>3, <1>4, LimitType DEF Int32
<1>6. x = Wrap(x) + (y \div m) * m  BY <1>1, <1>2, <1>3, <1>4, LimitType
<1>7. QED  BY <1>1, <1>3, <1>5, <1>6 DEF Cong

\* Two values of 32 bits that are congruent are the same.
LEMMA CongSmall ==
  ASSUME NEW x \in Int32, NEW y \in Int32, Cong(x, y)
  PROVE  x = y
<1>1. PICK q \in Int: x = y + q * (2 * Limit)  BY DEF Cong
<1>2. PICK m \in Nat: m = 2 * Limit /\ m > 0  BY LimitType
<1>3. x - y < m /\ y - x < m /\ x \in Int /\ y \in Int  BY <1>2, LimitType DEF Int32
<1>4. x = y + q * m  BY <1>1, <1>2
<1>5. CASE q = 0  BY <1>3, <1>4, <1>5
<1>6. CASE q >= 1
  <2>1. q * m >= m  BY <1>2, <1>6
  <2>2. QED  BY <1>3, <1>4, <2>1
<1>7. CASE q <= -1
  <2>1. q * m <= -m  BY <1>2, <1>7
  <2>2. QED  BY <1>2, <1>3, <1>4, <2>1
<1>8. QED  BY <1>5, <1>6, <1>7

LEMMA WrapOfCong ==
  ASSUME NEW x \in Int, NEW y \in Int, Cong(x, y)
  PROVE  Wrap(x) = Wrap(y)
<1>1. Cong(x, Wrap(x)) /\ Cong(y, Wrap(y)) /\ Wrap(x) \in Int32 /\ Wrap(y) \in Int32  BY WrapCong
<1>2. Int32 \subseteq Int  BY LimitType DEF Int32
<1>3. Cong(Wrap(x), x)  BY <1>1, <1>2, CongSym
<1>4. Cong(Wrap(x), y)  BY <1>1, <1>2, <1>3, CongTrans
<1>5. Cong(Wrap(x), Wrap(y))  BY <1>1, <1>2, <1>4, CongTrans
<1>6. QED  BY <1>1, <1>5, CongSmall

LEMMA WrapOfSmall == \A x \in Int32: Wrap(x) = x
<1> SUFFICES ASSUME NEW x \in Int32 PROVE Wrap(x) = x  OBVIOUS
<1>1. x \in Int  BY LimitType DEF Int32
<1>2. Cong(x, Wrap(x)) /\ Wrap(x) \in Int32  BY <1>1, WrapCong
<1>3. QED  BY <1>2, CongSmall

\* The sum of sizes that wrap is the sum, wrapped.
LEMMA TotalLinear ==
  ASSUME NEW a \in [Key -> Int], NEW b \in [Key -> Int], NEW c \in [Key -> Int],
         NEW sign \in {1, -1}, \A k \in Key: Cong(c[k], a[k] + sign * b[k]),
         NEW T \in SUBSET Key
  PROVE  Cong(Total(c, T), Total(a, T) + sign * Total(b, T))
<1> DEFINE P == {S \in SUBSET Key: Cong(Total(c, S), Total(a, S) + sign * Total(b, S))}
<1>1. {} \in P
  <2>1. Total(a, {}) = 0 /\ Total(b, {}) = 0 /\ Total(c, {}) = 0  BY TotalOfNone
  <2>2. 0 + sign * 0 = 0 /\ Cong(0, 0)  BY CongRefl
  <2>3. QED  BY <2>1, <2>2
<1>2. ASSUME NEW S \in SUBSET Key, NEW x \in S, S \ {x} \in P PROVE S \in P
  <2> DEFINE R == S \ {x}
  <2>1. R \in SUBSET Key  OBVIOUS
  <2>2. PICK ta \in Int, tb \in Int, tc \in Int:
           ta = Total(a, R) /\ tb = Total(b, R) /\ tc = Total(c, R)
    BY <2>1, KeysFinite, TotalType
  <2>3. Cong(tc, ta + sign * tb)  BY <1>2, <2>2
  <2>4. PICK xa \in Int, xb \in Int, xc \in Int: xa = a[x] /\ xb = b[x] /\ xc = c[x]  OBVIOUS
  <2>5. Cong(xc, xa + sign * xb)  BY <2>4
  <2>6. Total(a, S) = xa + ta /\ Total(b, S) = xb + tb /\ Total(c, S) = xc + tc
    BY <2>2, <2>4, KeysFinite, TotalRemove
  <2>7. xa + sign * xb \in Int /\ ta + sign * tb \in Int  BY <2>2, <2>4
  <2>8. Cong(xc + tc, (xa + sign * xb) + (ta + sign * tb))
    BY <2>2, <2>3, <2>4, <2>5, <2>7, CongAdd
  <2>9. (xa + sign * xb) + (ta + sign * tb) = (xa + ta) + sign * (xb + tb)  BY <2>2, <2>4
  <2>10. QED  BY <2>6, <2>8, <2>9
<1>3. SUBSET Key \subseteq P
  <2> HIDE DEF P
  <2>1. QED  BY <1>1, <1>2, KeysFinite, KeysOneByOne
<1>4. QED  BY <1>3

-----------------------------------------------------------------------------
(* What a sketch should say *)

Sizes == [Key -> Int32]
Having(b, i) == {k \in InBucket(b): i \in BitsOf[k]}
Lacking(b, i) == {k \in InBucket(b): i \notin BitsOf[k]}

\* Counters f are the sums of sizes n, and those for clear bits of sizes z.
Sums(f, n, z) ==
    \A b \in Bucket:
        /\ f[b][<<"total", 0>>] = SumOf(n, InBucket(b))
        /\ \A i \in Bit: /\ f[b][<<"set", i>>] = SumOf(n, Having(b, i))
                         /\ f[b][<<"clear", i>>] = SumOf(z, Lacking(b, i))

LEMMA IntsOfSizes == \A n \in Sizes: n \in [Key -> Int]
<1>1. Int32 \subseteq Int  BY LimitType DEF Int32
<1>2. QED  BY <1>1 DEF Sizes

LEMMA SumOfType ==
  ASSUME NEW n \in Sizes, NEW T \in SUBSET Key
  PROVE  SumOf(n, T) \in Int32 /\ Cong(Total(n, T), SumOf(n, T)) /\ Total(n, T) \in Int
<1>1. Total(n, T) \in Int  BY IntsOfSizes, KeysFinite, TotalType
<1>2. QED  BY <1>1, WrapCong DEF SumOf

LEMMA BucketSets ==
  \A b, i: InBucket(b) \in SUBSET Key /\ Having(b, i) \in SUBSET Key /\ Lacking(b, i) \in SUBSET Key
  BY DEF InBucket, Having, Lacking

LEMMA CounterIs ==
  /\ <<"total", 0>> \in Counter /\ \A i \in Bit: <<"set", i>> \in Counter /\ <<"clear", i>> \in Counter
  /\ \A c \in Counter: \/ c = <<"total", 0>>
                       \/ \E i \in Bit: c = <<"set", i>> \/ c = <<"clear", i>>
  BY DEF Counter

LEMMA ZeroFits == 0 \in Int32
  BY LimitType DEF Int32

LEMMA EmptySums == Empty \in Array /\ NoSize \in Sizes /\ Sums(Empty, NoSize, NoSize)
<1>1. Empty \in Array  BY ZeroFits DEF Empty, Array
<1>2. NoSize \in Sizes  BY ZeroFits DEF NoSize, Sizes
<1>3. ASSUME NEW T \in SUBSET Key PROVE SumOf(NoSize, T) = 0
  <2> DEFINE P == {S \in SUBSET Key: Total(NoSize, S) = 0}
  <2>1. {} \in P  BY TotalOfNone
  <2>2. ASSUME NEW S \in SUBSET Key, NEW x \in S, S \ {x} \in P PROVE S \in P
    <3>1. Total(NoSize, S) = NoSize[x] + Total(NoSize, S \ {x})
      BY <1>2, IntsOfSizes, KeysFinite, TotalRemove
    <3>2. NoSize[x] = 0  BY DEF NoSize
    <3>3. QED  BY <2>2, <3>1, <3>2
  <2>3. SUBSET Key \subseteq P
    <3> HIDE DEF P
    <3>1. QED  BY <2>1, <2>2, KeysFinite, KeysOneByOne
  <2>4. Total(NoSize, T) = 0  BY <2>3
  <2>5. QED  BY <2>4, ZeroFits, WrapOfSmall DEF SumOf
<1>4. ASSUME NEW b \in Bucket PROVE \A c \in Counter: Empty[b][c] = 0  BY DEF Empty
<1>5. QED  BY <1>1, <1>2, <1>3, <1>4, CounterIs, BucketSets DEF Sums

\* A key counted once more.
LEMMA SumOfUpdate ==
  ASSUME NEW n \in Sizes, NEW k \in Key, NEW diff \in Int32, NEW T \in SUBSET Key
  PROVE  LET m == [n EXCEPT ![k] = Wrap(n[k] + diff)] IN
         /\ m \in Sizes
         /\ SumOf(m, T) = IF k \in T THEN Wrap(SumOf(n, T) + diff) ELSE SumOf(n, T)
<1> DEFINE m == [n EXCEPT ![k] = Wrap(n[k] + diff)]
           one == [j \in Key |-> IF j = k THEN diff ELSE 0]
<1>1. n[k] + diff \in Int /\ n \in [Key -> Int] /\ diff \in Int
  BY IntsOfSizes, LimitType DEF Int32
<1>2. Wrap(n[k] + diff) \in Int32 /\ Cong(n[k] + diff, Wrap(n[k] + diff))  BY <1>1, WrapCong
<1>3. m \in Sizes /\ m \in [Key -> Int]
  <2>1. m \in Sizes  BY <1>2 DEF Sizes
  <2>2. QED  BY <2>1, IntsOfSizes
<1>4. one \in [Key -> Int]  BY <1>1
<1>5. \A S \in SUBSET Key: Total(one, S) = IF k \in S THEN diff ELSE 0
  <2> DEFINE P == {S \in SUBSET Key: Total(one, S) = IF k \in S THEN diff ELSE 0}
  <2>1. {} \in P  BY TotalOfNone
  <2>2. ASSUME NEW S \in SUBSET Key, NEW x \in S, S \ {x} \in P PROVE S \in P
    <3>1. Total(one, S) = one[x] + Total(one, S \ {x})
      <4> HIDE DEF one
      <4>1. QED  BY <1>4, KeysFinite, TotalRemove
    <3>2. Total(one, S \ {x}) = IF k \in S \ {x} THEN diff ELSE 0  BY <2>2
    <3>3. one[x] = IF x = k THEN diff ELSE 0  OBVIOUS
    <3> HIDE DEF one
    <3>4. CASE x = k  BY <1>1, <3>1, <3>2, <3>3, <3>4
    <3>5. CASE x # k  BY <1>1, <3>1, <3>2, <3>3, <3>5
    <3>6. QED  BY <3>4, <3>5
  <2>3. SUBSET Key \subseteq P
    <3> HIDE DEF P
    <3>1. QED  BY <2>1, <2>2, KeysFinite, KeysOneByOne
  <2>4. QED  BY <2>3
<1>6. ASSUME NEW j \in Key PROVE Cong(m[j], n[j] + 1 * one[j])
  <2>1. CASE j = k
    <3>1. m[j] = Wrap(n[k] + diff) /\ n[j] + 1 * one[j] = n[k] + diff
      BY <1>1, <2>1 DEF Sizes
    <3>2. Wrap(n[k] + diff) \in Int  BY <1>2, LimitType DEF Int32
    <3>3. QED  BY <1>1, <1>2, <3>1, <3>2, CongSym
  <2>2. CASE j # k
    <3>1. m[j] = n[j] /\ n[j] + 1 * one[j] = n[j] /\ n[j] \in Int  BY <1>1, <2>2
    <3>2. QED  BY <3>1, CongRefl
  <2>3. QED  BY <2>1, <2>2
<1>7. Cong(Total(m, T), Total(n, T) + 1 * Total(one, T))
  <2> HIDE DEF m, one
  <2>1. QED  BY <1>1, <1>3, <1>4, <1>6, TotalLinear
<1>8. PICK tn \in Int, tm \in Int, s \in Int32:
         /\ tn = Total(n, T) /\ tm = Total(m, T) /\ s = SumOf(n, T) /\ Cong(tn, s)
         /\ SumOf(m, T) = Wrap(tm) /\ SumOf(n, T) = Wrap(tn)
  <2> HIDE DEF m
  <2>1. QED  BY <1>3, SumOfType DEF SumOf
<1>9. s \in Int  BY LimitType DEF Int32
<1>10. CASE k \in T
  <2>1. Cong(tm, tn + diff)  BY <1>1, <1>5, <1>7, <1>8, <1>10
  <2>2. Cong(tn + diff, s + diff)  BY <1>1, <1>8, <1>9, CongRefl, CongAdd
  <2>3. Cong(tm, s + diff)  BY <1>1, <1>8, <1>9, <2>1, <2>2, CongTrans
  <2>4. Wrap(tm) = Wrap(s + diff)  BY <1>1, <1>9, <2>3, WrapOfCong
  <2>5. QED  BY <1>3, <1>8, <1>10, <2>4
<1>11. CASE k \notin T
  <2>1. Cong(tm, tn)  BY <1>1, <1>5, <1>7, <1>8, <1>11
  <2>2. Wrap(tm) = Wrap(tn)  BY <1>8, <2>1, WrapOfCong
  <2>3. QED  BY <1>3, <1>8, <1>11, <2>2
<1>12. QED  BY <1>10, <1>11

LEMMA UpdateSums ==
  ASSUME NEW f \in Array, NEW n \in Sizes, NEW z \in Sizes, NEW k \in Key, NEW diff \in Int32
  PROVE  /\ Counted(f, k, diff) \in Array
         /\ Sums(f, n, z) => Sums(Counted(f, k, diff), [n EXCEPT ![k] = Wrap(n[k] + diff)], z)
<1> DEFINE g == Counted(f, k, diff)
           m == [n EXCEPT ![k] = Wrap(n[k] + diff)]
<1>1. \A b \in Bucket, c \in Counter: f[b][c] \in Int32 /\ Wrap(f[b][c] + diff) \in Int32
  <2>1. ASSUME NEW b \in Bucket, NEW c \in Counter PROVE f[b][c] \in Int32  BY DEF Array
  <2>2. ASSUME NEW b \in Bucket, NEW c \in Counter PROVE Wrap(f[b][c] + diff) \in Int32
    <3>1. f[b][c] + diff \in Int  BY <2>1, LimitType DEF Int32
    <3>2. QED  BY <3>1, WrapCong
  <2>3. QED  BY <2>1, <2>2
<1>2. ASSUME NEW b \in Bucket
      PROVE  /\ g[b] \in [Counter -> Int32]
             /\ \A c \in Counter: g[b][c] =
                  IF Hash[b[1]][k] = b[2] /\ (c[1] = "total" \/ (c[1] = "set" /\ c[2] \in BitsOf[k]))
                  THEN Wrap(f[b][c] + diff) ELSE f[b][c]
  BY <1>1 DEF Counted, Array
<1>3. g \in Array  BY <1>2 DEF Counted, Array
<1>4. ASSUME Sums(f, n, z), NEW b \in Bucket
      PROVE  /\ g[b][<<"total", 0>>] = SumOf(m, InBucket(b))
             /\ \A i \in Bit: /\ g[b][<<"set", i>>] = SumOf(m, Having(b, i))
                              /\ g[b][<<"clear", i>>] = SumOf(z, Lacking(b, i))
  <2>1. \A T \in SUBSET Key:
          SumOf(m, T) = IF k \in T THEN Wrap(SumOf(n, T) + diff) ELSE SumOf(n, T)
    BY SumOfUpdate
  <2>2. k \in InBucket(b) <=> Hash[b[1]][k] = b[2]  BY DEF InBucket
  <2>3. \A i \in Bit: k \in Having(b, i) <=> Hash[b[1]][k] = b[2] /\ i \in BitsOf[k]
    BY DEF InBucket, Having
  <2> HIDE DEF m, g
  <2>4. g[b][<<"total", 0>>] = SumOf(m, InBucket(b))
    BY <1>2, <1>4, <2>1, <2>2, CounterIs, BucketSets DEF Sums
  <2>5. ASSUME NEW i \in Bit
        PROVE  g[b][<<"set", i>>] = SumOf(m, Having(b, i)) /\ g[b][<<"clear", i>>] = SumOf(z, Lacking(b, i))
    BY <1>2, <1>4, <2>1, <2>3, CounterIs, BucketSets DEF Sums
  <2>6. QED  BY <2>4, <2>5
<1>5. Sums(f, n, z) => Sums(g, m, z)
  <2> HIDE DEF g, m
  <2>1. QED  BY <1>4 DEF Sums
<1>6. QED  BY <1>3, <1>5

\* The bits of a bucket's keys: a bit is set in some and clear in the others.
LEMMA BitSplits ==
  ASSUME NEW n \in Sizes, NEW b \in Bucket, NEW i \in Bit
  PROVE  Total(n, InBucket(b)) = Total(n, Having(b, i)) + Total(n, Lacking(b, i))
<1>1. InBucket(b) = Having(b, i) \cup Lacking(b, i) /\ Having(b, i) \cap Lacking(b, i) = {}
  BY DEF Having, Lacking
<1>2. QED  BY <1>1, IntsOfSizes, BucketSets, KeysFinite, TotalSplit

LEMMA CompletedSums ==
  ASSUME NEW f \in Array, NEW n \in Sizes, NEW z \in Sizes
  PROVE  Completed(f) \in Array /\ (Sums(f, n, z) => Sums(Completed(f), n, n))
<1> DEFINE g == Completed(f)
<1>1. ASSUME NEW b \in Bucket, NEW i \in Bit
      PROVE  /\ f[b][<<"total", 0>>] \in Int32 /\ f[b][<<"set", i>>] \in Int32
             /\ f[b][<<"total", 0>>] - f[b][<<"set", i>>] \in Int
             /\ Wrap(f[b][<<"total", 0>>] - f[b][<<"set", i>>]) \in Int32
  <2>1. f[b][<<"total", 0>>] \in Int32 /\ f[b][<<"set", i>>] \in Int32  BY CounterIs DEF Array
  <2>2. f[b][<<"total", 0>>] - f[b][<<"set", i>>] \in Int  BY <2>1, LimitType DEF Int32
  <2>3. QED  BY <2>1, <2>2, WrapCong
<1>2. ASSUME NEW b \in Bucket
      PROVE  /\ g[b] \in [Counter -> Int32]
             /\ g[b][<<"total", 0>>] = f[b][<<"total", 0>>]
             /\ \A i \in Bit: /\ g[b][<<"set", i>>] = f[b][<<"set", i>>]
                              /\ g[b][<<"clear", i>>] =
                                   Wrap(f[b][<<"total", 0>>] - f[b][<<"set", i>>])
  <2>1. g[b] = [c \in Counter |-> IF c[1] = "clear"
                 THEN Wrap(f[b][<<"total", 0>>] - f[b][<<"set", c[2]>>]) ELSE f[b][c]]
    BY DEF Completed
  <2>2. \A c \in Counter: f[b][c] \in Int32  BY DEF Array
  <2>3. \A c \in Counter: c[1] = "clear" => c[2] \in Bit  BY DEF Counter
  <2>4. \A c \in Counter: g[b][c] \in Int32
    <3> HIDE DEF g
    <3>1. QED  BY <1>1, <2>1, <2>2, <2>3
  <2> HIDE DEF g
  <2>5. QED  BY <2>1, <2>4, CounterIs
<1>3. g \in Array  BY <1>2 DEF Completed, Array
<1>4. ASSUME Sums(f, n, z), NEW b \in Bucket, NEW i \in Bit
      PROVE  g[b][<<"clear", i>>] = SumOf(n, Lacking(b, i))
  <2>1. PICK tt \in Int, th \in Int, tl \in Int, st \in Int32, sh \in Int32:
           /\ tt = Total(n, InBucket(b)) /\ th = Total(n, Having(b, i)) /\ tl = Total(n, Lacking(b, i))
           /\ st = SumOf(n, InBucket(b)) /\ sh = SumOf(n, Having(b, i))
           /\ Cong(tt, st) /\ Cong(th, sh) /\ SumOf(n, Lacking(b, i)) = Wrap(tl)
    BY BucketSets, SumOfType DEF SumOf
  <2>2. tl = tt - th  BY <2>1, BitSplits
  <2>3. st \in Int /\ sh \in Int  BY LimitType DEF Int32
  <2>4. Cong(tl, st - sh)  BY <2>1, <2>2, <2>3, CongAdd
  <2>5. Wrap(tl) = Wrap(st - sh)  BY <2>1, <2>3, <2>4, WrapOfCong
  <2>6. f[b][<<"total", 0>>] = st /\ f[b][<<"set", i>>] = sh  BY <1>4, <2>1 DEF Sums
  <2>7. QED  BY <1>2, <2>1, <2>5, <2>6
<1>5. Sums(f, n, z) => Sums(g, n, n)
  <2> HIDE DEF g
  <2>1. QED  BY <1>2, <1>4 DEF Sums
<1>6. QED  BY <1>3, <1>5

\* SKL_Merge and SKL_Diff.
LEMMA SumOfPlus ==
  ASSUME NEW n1 \in Sizes, NEW n2 \in Sizes, NEW sign \in {1, -1}
  PROVE  /\ Plus(n1, sign, n2) \in Sizes
         /\ \A T \in SUBSET Key:
               SumOf(Plus(n1, sign, n2), T) = Wrap(SumOf(n1, T) + sign * SumOf(n2, T))
<1> DEFINE m == Plus(n1, sign, n2)
<1>1. n1 \in [Key -> Int] /\ n2 \in [Key -> Int]  BY IntsOfSizes
<1>2. \A k \in Key: n1[k] + sign * n2[k] \in Int  BY <1>1
<1>3. \A k \in Key: /\ Wrap(n1[k] + sign * n2[k]) \in Int32
                    /\ Cong(n1[k] + sign * n2[k], Wrap(n1[k] + sign * n2[k]))  BY <1>2, WrapCong
<1>4. m = [k \in Key |-> Wrap(n1[k] + sign * n2[k])]
  <2>1. DOMAIN n1 = Key  BY <1>1
  <2>2. QED  BY <2>1 DEF Plus
<1>5. m \in Sizes  BY <1>3, <1>4 DEF Sizes
<1> HIDE DEF m
<1>6. m \in [Key -> Int]  BY <1>5, IntsOfSizes
<1>7. \A k \in Key: Cong(m[k], n1[k] + sign * n2[k])
  <2>1. ASSUME NEW k \in Key PROVE Cong(m[k], n1[k] + sign * n2[k])
    <3>1. m[k] = Wrap(n1[k] + sign * n2[k])  BY <1>4
    <3>2. m[k] \in Int  BY <1>6
    <3>3. QED  BY <1>2, <1>3, <3>1, <3>2, CongSym
  <2>2. QED  BY <2>1
<1>8. ASSUME NEW T \in SUBSET Key
      PROVE  SumOf(m, T) = Wrap(SumOf(n1, T) + sign * SumOf(n2, T))
  <2>1. Cong(Total(m, T), Total(n1, T) + sign * Total(n2, T))
    BY <1>1, <1>6, <1>7, TotalLinear
  <2>2. PICK t1 \in Int, t2 \in Int, t \in Int, u1 \in Int32, u2 \in Int32:
           /\ t1 = Total(n1, T) /\ t2 = Total(n2, T) /\ t = Total(m, T)
           /\ u1 = SumOf(n1, T) /\ u2 = SumOf(n2, T)
           /\ Cong(t1, u1) /\ Cong(t2, u2) /\ SumOf(m, T) = Wrap(t)
    BY <1>5, SumOfType DEF SumOf
  <2>3. u1 \in Int /\ u2 \in Int  BY LimitType DEF Int32
  <2>4. Cong(t1 + t2, u1 + u2) /\ Cong(t1 - t2, u1 - u2)  BY <2>2, <2>3, CongAdd
  <2>5. Cong(t1 + sign * t2, u1 + sign * u2)
    <3>1. CASE sign = 1
      <4>1. t1 + sign * t2 = t1 + t2 /\ u1 + sign * u2 = u1 + u2  BY <2>2, <2>3, <3>1
      <4>2. QED  BY <2>4, <4>1
    <3>2. CASE sign = -1
      <4>1. t1 + sign * t2 = t1 - t2 /\ u1 + sign * u2 = u1 - u2  BY <2>2, <2>3, <3>2
      <4>2. QED  BY <2>4, <4>1
    <3>3. QED  BY <3>1, <3>2
  <2>6. t1 + sign * t2 \in Int /\ u1 + sign * u2 \in Int  BY <2>2, <2>3
  <2>7. Cong(t, u1 + sign * u2)  BY <2>1, <2>2, <2>5, <2>6, CongTrans
  <2>8. QED  BY <2>2, <2>6, <2>7, WrapOfCong
<1>9. QED  BY <1>5, <1>8 DEF m

LEMMA PlusSums ==
  ASSUME NEW f1 \in Array, NEW f2 \in Array, NEW n1 \in Sizes, NEW n2 \in Sizes,
         NEW z1 \in Sizes, NEW z2 \in Sizes, NEW sign \in {1, -1}
  PROVE  LET g == [b \in Bucket |-> Plus(f1[b], sign, f2[b])] IN
         /\ g \in Array
         /\ Sums(f1, n1, z1) /\ Sums(f2, n2, z2)
               => Sums(g, Plus(n1, sign, n2), Plus(z1, sign, z2))
<1> DEFINE g == [b \in Bucket |-> Plus(f1[b], sign, f2[b])]
           n == Plus(n1, sign, n2)
           z == Plus(z1, sign, z2)
<1>1. ASSUME NEW b \in Bucket, NEW c \in Counter PROVE Wrap(f1[b][c] + sign * f2[b][c]) \in Int32
  <2>1. f1[b][c] \in Int32 /\ f2[b][c] \in Int32  BY DEF Array
  <2>2. f1[b][c] + sign * f2[b][c] \in Int  BY <2>1, LimitType DEF Int32
  <2>3. QED  BY <2>2, WrapCong
<1>2. ASSUME NEW b \in Bucket
      PROVE  g[b] = [c \in Counter |-> Wrap(f1[b][c] + sign * f2[b][c])]
  <2>1. DOMAIN f1[b] = Counter  BY DEF Array
  <2>2. QED  BY <2>1 DEF Plus
<1>3. g \in Array  BY <1>1, <1>2 DEF Array
<1>4. \A T \in SUBSET Key: /\ SumOf(n, T) = Wrap(SumOf(n1, T) + sign * SumOf(n2, T))
                           /\ SumOf(z, T) = Wrap(SumOf(z1, T) + sign * SumOf(z2, T))
  BY SumOfPlus
<1> HIDE DEF g, n, z
<1>5. ASSUME Sums(f1, n1, z1), Sums(f2, n2, z2), NEW b \in Bucket
      PROVE  /\ g[b][<<"total", 0>>] = SumOf(n, InBucket(b))
             /\ \A i \in Bit: /\ g[b][<<"set", i>>] = SumOf(n, Having(b, i))
                              /\ g[b][<<"clear", i>>] = SumOf(z, Lacking(b, i))
  <2>1. g[b][<<"total", 0>>] = Wrap(f1[b][<<"total", 0>>] + sign * f2[b][<<"total", 0>>])
    BY <1>2, CounterIs
  <2>2. g[b][<<"total", 0>>] = SumOf(n, InBucket(b))
    BY <1>4, <1>5, <2>1, BucketSets DEF Sums
  <2>3. ASSUME NEW i \in Bit
        PROVE  /\ g[b][<<"set", i>>] = SumOf(n, Having(b, i))
               /\ g[b][<<"clear", i>>] = SumOf(z, Lacking(b, i))
    <3>1. /\ g[b][<<"set", i>>] = Wrap(f1[b][<<"set", i>>] + sign * f2[b][<<"set", i>>])
          /\ g[b][<<"clear", i>>] = Wrap(f1[b][<<"clear", i>>] + sign * f2[b][<<"clear", i>>])
      BY <1>2, CounterIs
    <3>2. QED  BY <1>4, <1>5, <3>1, BucketSets DEF Sums
  <2>4. QED  BY <2>2, <2>3
<1>6. Sums(f1, n1, z1) /\ Sums(f2, n2, z2) => Sums(g, n, z)  BY <1>5 DEF Sums
<1>7. QED  BY <1>3, <1>6 DEF g, n, z

\* The check of SKL_ReadFile passes on a sketch that is complete.
LEMMA ConsistentSums ==
  ASSUME NEW f \in Array, NEW n \in Sizes, Sums(f, n, n)
  PROVE  Consistent(f)
<1>1. ASSUME NEW b \in Bucket, NEW i \in Bit
      PROVE  f[b][<<"total", 0>>] = Wrap(f[b][<<"set", i>>] + f[b][<<"clear", i>>])
  <2>1. PICK tt \in Int, th \in Int, tl \in Int, sh \in Int32, sl \in Int32:
           /\ tt = Total(n, InBucket(b)) /\ th = Total(n, Having(b, i)) /\ tl = Total(n, Lacking(b, i))
           /\ sh = SumOf(n, Having(b, i)) /\ sl = SumOf(n, Lacking(b, i))
           /\ Cong(th, sh) /\ Cong(tl, sl) /\ SumOf(n, InBucket(b)) = Wrap(tt)
    BY BucketSets, SumOfType DEF SumOf
  <2>2. tt = th + tl  BY <2>1, BitSplits
  <2>3. sh \in Int /\ sl \in Int  BY LimitType DEF Int32
  <2>4. Cong(tt, sh + sl)  BY <2>1, <2>2, <2>3, CongAdd
  <2>5. Wrap(tt) = Wrap(sh + sl)  BY <2>1, <2>3, <2>4, WrapOfCong
  <2>6. /\ f[b][<<"total", 0>>] = Wrap(tt)
        /\ f[b][<<"set", i>>] = sh /\ f[b][<<"clear", i>>] = sl  BY <2>1 DEF Sums
  <2>7. QED  BY <2>5, <2>6
<1>2. QED  BY <1>1 DEF Consistent

-----------------------------------------------------------------------------
(* The inductive invariant *)

\* The counters of a buffer; those that are not in it are 0.
Unpacked(packed) ==
    [b \in Bucket |-> [c \in Counter |-> IF <<b, c>> \in DOMAIN packed THEN packed[<<b, c>>] ELSE 0]]

Origin == Sizes \X Sizes \X BOOLEAN

SketchTypes ==
    /\ counts \in [Sketch -> Array]
    /\ net \in [Sketch -> Sizes] /\ zeroNet \in [Sketch -> Sizes]
    /\ known \in [Sketch -> BOOLEAN]

SavedTypes ==
    /\ file \in Array /\ Unpacked(buf) \in Array
    /\ written \in [file: Origin, buf: Origin]
    /\ aborted \in BOOLEAN

SumsInv == \A s \in Sketch: known[s] => Sums(counts[s], net[s], zeroNet[s])

FileInv ==
    /\ written.file[3] => Sums(file, written.file[1], written.file[2])
    /\ aborted => ~ Consistent(file)

BufInv == written.buf[3] => Sums(Unpacked(buf), written.buf[1], written.buf[2])

IndInv == SketchTypes /\ SavedTypes /\ SumsInv /\ FileInv /\ BufInv

LEMMA InitInv == Init => IndInv
<1> SUFFICES ASSUME Init PROVE IndInv  OBVIOUS
<1>1. Unpacked(buf) = Empty
  BY DEF Init, Unpacked, Empty
<1>2. written = [file |-> <<NoSize, NoSize, TRUE>>, buf |-> <<NoSize, NoSize, TRUE>>]
  BY DEF Init
<1>3. SketchTypes /\ SavedTypes
  <2>1. SketchTypes  BY EmptySums DEF Init, SketchTypes
  <2>2. <<NoSize, NoSize, TRUE>> \in Origin  BY EmptySums DEF Origin
  <2>3. written \in [file: Origin, buf: Origin]
    <3> HIDE DEF Origin
    <3>1. QED  BY <1>2, <2>2
  <2>4. file \in Array /\ Unpacked(buf) \in Array /\ aborted \in BOOLEAN
    BY <1>1, EmptySums DEF Init
  <2>5. QED  BY <2>1, <2>3, <2>4 DEF SavedTypes
<1>4. SumsInv  BY EmptySums DEF Init, SumsInv
<1>5. FileInv /\ BufInv  BY <1>1, <1>2, EmptySums DEF Init, FileInv, BufInv
<1>6. QED  BY <1>3, <1>4, <1>5 DEF IndInv

\* What was printed or serialised is not touched.
LEMMA SavedKeeps ==
  ASSUME SavedTypes, FileInv, BufInv, UNCHANGED <<file, buf, aborted, written>>
  PROVE  SavedTypes' /\ FileInv' /\ BufInv'
<1>1. SavedTypes'  BY DEF SavedTypes, Unpacked, Origin
<1>2. FileInv'  BY DEF FileInv
<1>3. BufInv'  BY DEF BufInv, Unpacked
<1>4. QED  BY <1>1, <1>2, <1>3

\* A step that gives one sketch new counters and new ghosts.
LEMMA SketchStep ==
  ASSUME SketchTypes, SumsInv, NEW s \in Sketch,
         NEW f \in Array, NEW n \in Sizes, NEW z \in Sizes, NEW o \in BOOLEAN,
         o => Sums(f, n, z),
         counts' = [counts EXCEPT ![s] = f], net' = [net EXCEPT ![s] = n],
         zeroNet' = [zeroNet EXCEPT ![s] = z], known' = [known EXCEPT ![s] = o]
  PROVE  SketchTypes' /\ SumsInv'
<1>1. SketchTypes'  BY DEF SketchTypes
<1>2. ASSUME NEW t \in Sketch, known'[t] PROVE Sums(counts'[t], net'[t], zeroNet'[t])
  <2>1. CASE t = s
    <3>1. known'[t] = o /\ counts'[t] = f /\ net'[t] = n /\ zeroNet'[t] = z
      BY <2>1 DEF SketchTypes
    <3>2. QED  BY <1>2, <3>1
  <2>2. CASE t # s
    <3>1. /\ known'[t] = known[t] /\ counts'[t] = counts[t]
          /\ net'[t] = net[t] /\ zeroNet'[t] = zeroNet[t]  BY <2>2 DEF SketchTypes
    <3>2. QED  BY <1>2, <3>1 DEF SumsInv
  <2>3. QED  BY <2>1, <2>2
<1>3. SumsInv'  BY <1>2 DEF SumsInv
<1>4. QED  BY <1>1, <1>3

\* The counters and ghosts of one sketch.
LEMMA SketchHas ==
  ASSUME SketchTypes, SumsInv, NEW s \in Sketch
  PROVE  /\ counts[s] \in Array /\ net[s] \in Sizes /\ zeroNet[s] \in Sizes /\ known[s] \in BOOLEAN
         /\ known[s] => Sums(counts[s], net[s], zeroNet[s])
BY DEF SketchTypes, SumsInv

LEMMA UpdateKeeps ==
  ASSUME IndInv, NEW s \in Sketch, NEW k \in Key, NEW diff \in Size, Update(s, k, diff)
  PROVE  IndInv'
<1>1. PICK f \in Array, n \in Sizes, z \in Sizes, o \in BOOLEAN:
         /\ f = counts[s] /\ n = net[s] /\ z = zeroNet[s] /\ o = known[s]
         /\ o => Sums(f, n, z)
  BY SketchHas DEF IndInv
<1> DEFINE g == Counted(f, k, diff)
           m == [n EXCEPT ![k] = Wrap(n[k] + diff)]
<1>2. diff \in Int32  BY SketchAssumption
<1>3. g \in Array /\ m \in Sizes /\ (o => Sums(g, m, z))
  BY <1>1, <1>2, UpdateSums, SumOfUpdate, BucketSets
<1>4. /\ counts' = [counts EXCEPT ![s] = g] /\ net' = [net EXCEPT ![s] = m]
      /\ zeroNet' = [zeroNet EXCEPT ![s] = z] /\ known' = [known EXCEPT ![s] = o]
  <2>1. counts' = [counts EXCEPT ![s] = g]  BY <1>1 DEF Update
  <2>2. net' = [net EXCEPT ![s] = m]
    <3>1. net' = [net EXCEPT ![s] = [net[s] EXCEPT ![k] = Wrap(net[s][k] + diff)]]
      BY DEF Update
    <3>2. QED  BY <1>1, <3>1
  <2>3. zeroNet' = zeroNet /\ known' = known  BY DEF Update
  <2>4. QED  BY <1>1, <2>1, <2>2, <2>3 DEF IndInv, SketchTypes
<1> HIDE DEF g, m
<1>5. SketchTypes' /\ SumsInv'  BY <1>1, <1>3, <1>4, SketchStep DEF IndInv
<1>6. SavedTypes' /\ FileInv' /\ BufInv'  BY SavedKeeps DEF IndInv, Update
<1>7. QED  BY <1>5, <1>6 DEF IndInv

LEMMA CompleteKeeps ==
  ASSUME IndInv, NEW s \in Sketch, CompleteZeroes(s)
  PROVE  IndInv'
<1>1. PICK f \in Array, n \in Sizes, z \in Sizes, o \in BOOLEAN:
         /\ f = counts[s] /\ n = net[s] /\ z = zeroNet[s] /\ o = known[s]
         /\ o => Sums(f, n, z)
  BY SketchHas DEF IndInv
<1> DEFINE g == Completed(f)
<1>2. g \in Array /\ (o => Sums(g, n, n))  BY <1>1, CompletedSums
<1>3. /\ counts' = [counts EXCEPT ![s] = g] /\ net' = [net EXCEPT ![s] = n]
      /\ zeroNet' = [zeroNet EXCEPT ![s] = n] /\ known' = [known EXCEPT ![s] = o]
  <2>1. counts' = [counts EXCEPT ![s] = g] /\ zeroNet' = [zeroNet EXCEPT ![s] = n]
    BY <1>1 DEF CompleteZeroes
  <2>2. net' = net /\ known' = known  BY DEF CompleteZeroes
  <2>3. QED  BY <1>1, <2>1, <2>2 DEF IndInv, SketchTypes
<1> HIDE DEF g
<1>4. SketchTypes' /\ SumsInv'  BY <1>1, <1>2, <1>3, SketchStep DEF IndInv
<1>5. SavedTypes' /\ FileInv' /\ BufInv'  BY SavedKeeps DEF IndInv, CompleteZeroes
<1>6. QED  BY <1>4, <1>5 DEF IndInv

LEMMA ResetKeeps ==
  ASSUME IndInv, NEW s \in Sketch, Reset(s)
  PROVE  IndInv'
<1>1. SketchTypes' /\ SumsInv'  BY EmptySums, SketchStep DEF IndInv, Reset
<1>2. SavedTypes' /\ FileInv' /\ BufInv'  BY SavedKeeps DEF IndInv, Reset
<1>3. QED  BY <1>1, <1>2 DEF IndInv

LEMMA CopyKeeps ==
  ASSUME IndInv, NEW dst \in Sketch, NEW src \in Sketch, Copy(dst, src)
  PROVE  IndInv'
<1>1. PICK f \in Array, n \in Sizes, z \in Sizes, o \in BOOLEAN:
         /\ f = counts[src] /\ n = net[src] /\ z = zeroNet[src] /\ o = known[src]
         /\ o => Sums(f, n, z)
  BY SketchHas DEF IndInv
<1>2. SketchTypes' /\ SumsInv'  BY <1>1, SketchStep DEF IndInv, Copy
<1>3. SavedTypes' /\ FileInv' /\ BufInv'  BY SavedKeeps DEF IndInv, Copy
<1>4. QED  BY <1>2, <1>3 DEF IndInv

LEMMA CombineKeeps ==
  ASSUME IndInv, NEW dst \in Sketch, NEW src \in Sketch, NEW sign \in {1, -1},
         Combine(dst, src, sign)
  PROVE  IndInv'
<1>1. PICK f1 \in Array, n1 \in Sizes, z1 \in Sizes, o1 \in BOOLEAN:
         /\ f1 = counts[dst] /\ n1 = net[dst] /\ z1 = zeroNet[dst] /\ o1 = known[dst]
         /\ o1 => Sums(f1, n1, z1)
  BY SketchHas DEF IndInv
<1>2. PICK f2 \in Array, n2 \in Sizes, z2 \in Sizes, o2 \in BOOLEAN:
         /\ f2 = counts[src] /\ n2 = net[src] /\ z2 = zeroNet[src] /\ o2 = known[src]
         /\ o2 => Sums(f2, n2, z2)
  BY SketchHas DEF IndInv
<1> DEFINE g == [b \in Bucket |-> Plus(f1[b], sign, f2[b])]
           n == Plus(n1, sign, n2)
           z == Plus(z1, sign, z2)
           o == o1 /\ o2
<1>3. g \in Array /\ n \in Sizes /\ z \in Sizes /\ o \in BOOLEAN /\ (o => Sums(g, n, z))
  <2>1. n \in Sizes /\ z \in Sizes  BY SumOfPlus
  <2>2. g \in Array /\ (Sums(f1, n1, z1) /\ Sums(f2, n2, z2) => Sums(g, n, z))  BY PlusSums
  <2> HIDE DEF g, n, z
  <2>3. QED  BY <1>1, <1>2, <2>1, <2>2
<1>4. /\ counts' = [counts EXCEPT ![dst] = g] /\ net' = [net EXCEPT ![dst] = n]
      /\ zeroNet' = [zeroNet EXCEPT ![dst] = z] /\ known' = [known EXCEPT ![dst] = o]
  BY <1>1, <1>2 DEF Combine
<1> HIDE DEF g, n, z, o
<1>5. SketchTypes' /\ SumsInv'  BY <1>3, <1>4, SketchStep DEF IndInv
<1>6. SavedTypes' /\ FileInv' /\ BufInv'  BY SavedKeeps DEF IndInv, Combine
<1>7. QED  BY <1>5, <1>6 DEF IndInv

\* No sketch is touched.
LEMMA SketchesKeep ==
  ASSUME SketchTypes, SumsInv, UNCHANGED <<counts, net, zeroNet, known>>
  PROVE  SketchTypes' /\ SumsInv'
<1>1. SketchTypes'  BY DEF SketchTypes
<1>2. SumsInv'  BY DEF SumsInv
<1>3. QED  BY <1>1, <1>2

LEMMA PrintKeeps ==
  ASSUME IndInv, NEW s \in Sketch, PrintSketch(s)
  PROVE  IndInv'
<1>1. PICK f \in Array, n \in Sizes, z \in Sizes, o \in BOOLEAN:
         /\ f = counts[s] /\ n = net[s] /\ z = zeroNet[s] /\ o = known[s]
         /\ o => Sums(f, n, z)
  BY SketchHas DEF IndInv
<1>2. SketchTypes' /\ SumsInv'  BY SketchesKeep DEF IndInv, PrintSketch
<1>3. /\ file' = f /\ buf' = buf /\ aborted' = FALSE /\ aborted = FALSE
      /\ written' = [written EXCEPT !.file = <<n, z, o>>]
  BY <1>1 DEF PrintSketch, Another, IndInv, SavedTypes
<1>4. written'.file = <<n, z, o>> /\ written'.buf = written.buf
  BY <1>3 DEF IndInv, SavedTypes
<1>5. SavedTypes'
  <2>1. Unpacked(buf)' = Unpacked(buf)  BY <1>3 DEF Unpacked
  <2>2. <<n, z, o>> \in Origin  BY DEF Origin
  <2>3. QED  BY <1>3, <2>1, <2>2 DEF IndInv, SavedTypes, Origin
<1>6. FileInv'  BY <1>1, <1>3, <1>4 DEF FileInv
<1>7. BufInv'  BY <1>3, <1>4 DEF IndInv, BufInv, Unpacked
<1>8. QED  BY <1>2, <1>5, <1>6, <1>7 DEF IndInv

LEMMA ReadKeeps ==
  ASSUME IndInv, NEW s \in Sketch, ReadFile(s)
  PROVE  IndInv'
<1>1. CASE Consistent(file)
  <2>1. PICK n \in Sizes, z \in Sizes, o \in BOOLEAN: written.file = <<n, z, o>>
    BY DEF IndInv, SavedTypes, Origin
  <2>2. o => Sums(file, n, z)  BY <2>1 DEF IndInv, FileInv
  <2>3. PICK f \in Array: f = file  BY DEF IndInv, SavedTypes
  <2>4. /\ counts' = [counts EXCEPT ![s] = f] /\ net' = [net EXCEPT ![s] = n]
        /\ zeroNet' = [zeroNet EXCEPT ![s] = z] /\ known' = [known EXCEPT ![s] = o]
        /\ UNCHANGED <<file, buf, aborted, written>>
    BY <1>1, <2>1, <2>3 DEF ReadFile
  <2>5. SketchTypes' /\ SumsInv'  BY <2>2, <2>3, <2>4, SketchStep DEF IndInv
  <2>6. SavedTypes' /\ FileInv' /\ BufInv'  BY <2>4, SavedKeeps DEF IndInv
  <2>7. QED  BY <2>5, <2>6 DEF IndInv
<1>2. CASE ~ Consistent(file)
  <2>1. /\ aborted' = TRUE /\ UNCHANGED <<counts, net, zeroNet, known>>
        /\ UNCHANGED <<file, buf, written>>  BY <1>2 DEF ReadFile
  <2>2. SketchTypes' /\ SumsInv'  BY <2>1, SketchesKeep DEF IndInv
  <2>3. SavedTypes'  BY <2>1 DEF IndInv, SavedTypes, Unpacked, Origin
  <2>4. FileInv'
    <3>1. ~ Consistent(file')  BY <1>2, <2>1
    <3>2. QED  BY <2>1, <3>1 DEF IndInv, FileInv
  <2>5. BufInv'  BY <2>1 DEF IndInv, BufInv, Unpacked
  <2>6. QED  BY <2>2, <2>3, <2>4, <2>5 DEF IndInv
<1>3. QED  BY <1>1, <1>2

LEMMA SerializeKeeps ==
  ASSUME IndInv, NEW s \in Sketch, Serialize(s)
  PROVE  IndInv'
<1>1. PICK f \in Array, n \in Sizes, z \in Sizes, o \in BOOLEAN:
         /\ f = counts[s] /\ n = net[s] /\ z = zeroNet[s] /\ o = known[s]
         /\ o => Sums(f, n, z)
  BY SketchHas DEF IndInv
<1>2. SketchTypes' /\ SumsInv'  BY SketchesKeep DEF IndInv, Serialize
<1>3. /\ buf' = [x \in {y \in Bucket \X Counter: f[y[1]][y[2]] # 0} |-> f[x[1]][x[2]]]
      /\ UNCHANGED <<file, aborted>>
      /\ written' = [written EXCEPT !.buf = <<n, z, o>>]
  BY <1>1 DEF Serialize
<1>4. written'.buf = <<n, z, o>> /\ written'.file = written.file
  BY <1>3 DEF IndInv, SavedTypes
<1>5. Unpacked(buf') = f
  <2> DEFINE U == Unpacked(buf')
  <2>1. ASSUME NEW b \in Bucket, NEW c \in Counter PROVE U[b][c] = f[b][c]
    <3>1. U[b][c] = IF <<b, c>> \in DOMAIN buf' THEN buf'[<<b, c>>] ELSE 0
      BY DEF Unpacked
    <3>2. <<b, c>> \in DOMAIN buf' <=> f[b][c] # 0  BY <1>3
    <3>3. f[b][c] # 0 => buf'[<<b, c>>] = f[b][c]  BY <1>3
    <3>4. QED  BY <3>1, <3>2, <3>3
  <2>2. \A b \in Bucket: U[b] = [c \in Counter |-> U[b][c]]  BY DEF Unpacked
  <2>3. U = [b \in Bucket |-> U[b]]  BY DEF Unpacked
  <2>4. f = [b \in Bucket |-> [c \in Counter |-> f[b][c]]]  BY DEF Array
  <2> HIDE DEF U
  <2>5. \A b \in Bucket: U[b] = [c \in Counter |-> f[b][c]]  BY <2>1, <2>2
  <2>6. U = f  BY <2>3, <2>4, <2>5
  <2>7. QED  BY <2>6 DEF U
<1>6. SavedTypes'
  <2>1. <<n, z, o>> \in Origin  BY DEF Origin
  <2>2. QED  BY <1>3, <1>5, <2>1 DEF IndInv, SavedTypes, Origin
<1>7. FileInv'  BY <1>3, <1>4 DEF IndInv, FileInv
<1>8. BufInv'  BY <1>1, <1>4, <1>5 DEF BufInv
<1>9. QED  BY <1>2, <1>6, <1>7, <1>8 DEF IndInv

LEMMA DeserializeKeeps ==
  ASSUME IndInv, NEW s \in Sketch, Deserialize(s)
  PROVE  IndInv'
<1>1. PICK f \in Array, n \in Sizes, z \in Sizes, o \in BOOLEAN:
         /\ f = counts[s] /\ written.buf = <<n, z, o>>
  BY SketchHas DEF IndInv, SavedTypes, Origin
<1>2. PICK u \in Array: u = Unpacked(buf)  BY DEF IndInv, SavedTypes
<1>3. o => Sums(u, n, z)  BY <1>1, <1>2 DEF IndInv, BufInv
<1> DEFINE g == [b \in Bucket |-> [c \in Counter |->
                    IF <<b, c>> \in DOMAIN buf THEN u[b][c] ELSE f[b][c]]]
           p == o /\ f = Empty
<1>4. /\ counts' = [counts EXCEPT ![s] = g] /\ net' = [net EXCEPT ![s] = n]
      /\ zeroNet' = [zeroNet EXCEPT ![s] = z] /\ known' = [known EXCEPT ![s] = p]
  <2>1. counts' = [counts EXCEPT ![s] = [b \in Bucket |-> [c \in Counter |->
             IF <<b, c>> \in DOMAIN buf THEN buf[<<b, c>>] ELSE f[b][c]]]]
    BY <1>1 DEF Deserialize
  <2>2. \A b \in Bucket, c \in Counter: <<b, c>> \in DOMAIN buf => u[b][c] = buf[<<b, c>>]
    BY <1>2 DEF Unpacked
  <2>3. g = [b \in Bucket |-> [c \in Counter |->
             IF <<b, c>> \in DOMAIN buf THEN buf[<<b, c>>] ELSE f[b][c]]]
    BY <2>2
  <2>4. counts' = [counts EXCEPT ![s] = g]
    <3> HIDE DEF g
    <3>1. QED  BY <2>1, <2>3
  <2>5. net' = [net EXCEPT ![s] = n] /\ zeroNet' = [zeroNet EXCEPT ![s] = z]
    BY <1>1 DEF Deserialize
  <2>6. known' = [known EXCEPT ![s] = p]
    <3>1. known' = [known EXCEPT ![s] = written.buf[3] /\ counts[s] = Empty]  BY DEF Deserialize
    <3>2. (written.buf[3] /\ counts[s] = Empty) = p  BY <1>1
    <3> HIDE DEF p
    <3>3. QED  BY <3>1, <3>2
  <2>7. QED  BY <2>4, <2>5, <2>6
<1>5. g \in Array
  <2>1. \A b \in Bucket, c \in Counter: u[b][c] \in Int32 /\ f[b][c] \in Int32  BY DEF Array
  <2>2. QED  BY <2>1 DEF Array
<1>6. ASSUME f = Empty PROVE g = u
  <2>1. \A b \in Bucket, c \in Counter: <<b, c>> \notin DOMAIN buf => u[b][c] = 0
    BY <1>2 DEF Unpacked
  <2>2. \A b \in Bucket, c \in Counter: f[b][c] = 0  BY <1>6 DEF Empty
  <2>3. u = [b \in Bucket |-> [c \in Counter |-> u[b][c]]]  BY DEF Array
  <2>4. g = [b \in Bucket |-> [c \in Counter |-> u[b][c]]]  BY <2>1, <2>2
  <2>5. QED  BY <2>3, <2>4
<1>7. p \in BOOLEAN /\ (p => Sums(g, n, z))  BY <1>3, <1>6
<1> HIDE DEF g, p
<1>8. SketchTypes' /\ SumsInv'  BY <1>1, <1>4, <1>5, <1>7, SketchStep DEF IndInv
<1>9. SavedTypes' /\ FileInv' /\ BufInv'  BY SavedKeeps DEF IndInv, Deserialize
<1>10. QED  BY <1>8, <1>9 DEF IndInv

LEMMA NextKeeps == IndInv /\ [Next]_vars => IndInv'
<1> SUFFICES ASSUME IndInv, [Next]_vars PROVE IndInv'  OBVIOUS
<1>1. ASSUME NEW s \in Sketch, NEW k \in Key, NEW diff \in Size, Update(s, k, diff) PROVE IndInv'
  BY <1>1, UpdateKeeps
<1>2. ASSUME NEW s \in Sketch, CompleteZeroes(s) PROVE IndInv'  BY <1>2, CompleteKeeps
<1>3. ASSUME NEW s \in Sketch, Reset(s) PROVE IndInv'  BY <1>3, ResetKeeps
<1>4. ASSUME NEW s \in Sketch, PrintSketch(s) PROVE IndInv'  BY <1>4, PrintKeeps
<1>5. ASSUME NEW s \in Sketch, ReadFile(s) PROVE IndInv'  BY <1>5, ReadKeeps
<1>6. ASSUME NEW s \in Sketch, Serialize(s) PROVE IndInv'  BY <1>6, SerializeKeeps
<1>7. ASSUME NEW s \in Sketch, Deserialize(s) PROVE IndInv'  BY <1>7, DeserializeKeeps
<1>8. ASSUME NEW dst \in Sketch, NEW src \in Sketch, Copy(dst, src) PROVE IndInv'
  BY <1>8, CopyKeeps
<1>9. ASSUME NEW dst \in Sketch, NEW src \in Sketch, Merge(dst, src) \/ Diff(dst, src) PROVE IndInv'
  BY <1>9, CombineKeeps DEF Merge, Diff
<1>10. ASSUME UNCHANGED vars PROVE IndInv'
  <2>1. SketchTypes' /\ SumsInv'  BY <1>10, SketchesKeep DEF IndInv, vars, ghosts
  <2>2. SavedTypes' /\ FileInv' /\ BufInv'  BY <1>10, SavedKeeps DEF IndInv, vars, ghosts
  <2>3. QED  BY <2>1, <2>2 DEF IndInv
<1>11. QED
  BY <1>1, <1>2, <1>3, <1>4, <1>5, <1>6, <1>7, <1>8, <1>9, <1>10 DEF Next

-----------------------------------------------------------------------------
(* The theorems *)

\* Every counter has 32 bits and the inductive invariant holds.
THEOREM Invariance == Spec => []IndInv
<1>1. Init => IndInv  BY InitInv
<1>2. IndInv /\ [Next]_vars => IndInv'  BY NextKeeps
<1>3. QED  BY <1>1, <1>2, PTL DEF Spec

LEMMA SumsHold == IndInv => CountersAreSums
  BY DEF IndInv, SumsInv, Sums, Having, Lacking, CountersAreSums

\* Whatever operations led to a sketch, its counters are the sums, modulo 2^32,
\* of the sizes of the keys that belong to them.
THEOREM CountersAreSumsHolds == Spec => []CountersAreSums
  BY Invariance, SumsHold, PTL

LEMMA AcceptedHolds == IndInv => AcceptsCompleted
<1> SUFFICES ASSUME IndInv, aborted, written.file[1] = written.file[2], written.file[3] PROVE FALSE
  BY DEF AcceptsCompleted
<1>1. PICK n \in Sizes: n = written.file[1]  BY DEF IndInv, SavedTypes, Origin
<1>2. file \in Array /\ Sums(file, n, n) /\ ~ Consistent(file)
  BY <1>1 DEF IndInv, SavedTypes, FileInv
<1>3. QED  BY <1>2, ConsistentSums

\* SKL_ReadFile accepts what was printed of a sketch that was completed after its
\* last operation, also when counters have wrapped.
THEOREM AcceptsCompletedHolds == Spec => []AcceptsCompleted
  BY Invariance, AcceptedHolds, PTL

-----------------------------------------------------------------------------
(* Sketches in which nothing overflows and nothing is negative *)

NoOverflow(n) == n \in Sizes /\ n \in [Key -> Nat] /\ Total(n, Key) < Limit

LEMMA SumsOfPlain ==
  ASSUME NEW n, NoOverflow(n), NEW T \in SUBSET Key
  PROVE  /\ SumOf(n, T) \in Nat /\ SumOf(n, T) = Total(n, T)
         /\ \A k \in T: n[k] <= SumOf(n, T)
<1>1. n \in [Key -> Nat] /\ n \in [Key -> Int] /\ Total(n, Key) < Limit
  BY DEF NoOverflow
<1>2. Key = T \cup (Key \ T) /\ T \cap (Key \ T) = {} /\ Key \ T \in SUBSET Key /\ Key \in SUBSET Key
  OBVIOUS
<1>3. Total(n, Key) = Total(n, T) + Total(n, Key \ T)  BY <1>1, <1>2, KeysFinite, TotalSplit
<1>4. Total(n, T) \in Nat /\ Total(n, Key \ T) \in Nat /\ \A k \in T: n[k] <= Total(n, T)
  BY <1>1, <1>2, KeysFinite, TotalCovers
<1>5. Total(n, T) \in Int32  BY <1>1, <1>3, <1>4, LimitType DEF Int32
<1>6. SumOf(n, T) = Total(n, T)  BY <1>5, WrapOfSmall DEF SumOf
<1>7. QED  BY <1>4, <1>6

\* The place in row r that k is counted at.
LEMMA PlaceOf ==
  ASSUME NEW k \in Key, NEW r \in Row
  PROVE  <<r, Hash[r][k]>> \in Bucket /\ k \in InBucket(<<r, Hash[r][k]>>)
<1>1. Hash[r][k] \in 0 .. Width - 1  BY CountersAssumption
<1>2. QED  BY <1>1 DEF Bucket, InBucket

\* Each counter that k counts towards is at least its size.
LEMMA CountersCover ==
  ASSUME NEW f \in Array, NEW n, NoOverflow(n), Sums(f, n, n), NEW k \in Key, NEW r \in Row,
         NEW b, b = <<r, Hash[r][k]>>
  PROVE  /\ f[b][<<"total", 0>>] \in Nat /\ n[k] <= f[b][<<"total", 0>>]
         /\ \A i \in BitsOf[k]: f[b][<<"set", i>>] \in Nat /\ n[k] <= f[b][<<"set", i>>]
         /\ \A i \in Bit \ BitsOf[k]: f[b][<<"clear", i>>] \in Nat /\ n[k] <= f[b][<<"clear", i>>]
<1>1. b \in Bucket /\ k \in InBucket(b) /\ BitsOf[k] \subseteq Bit
  BY PlaceOf, CountersAssumption
<1>2. \A i: /\ i \in BitsOf[k] => k \in Having(b, i)
            /\ i \notin BitsOf[k] => k \in Lacking(b, i)  BY <1>1 DEF Having, Lacking
<1>3. \A T \in SUBSET Key: SumOf(n, T) \in Nat /\ (k \in T => n[k] <= SumOf(n, T))
  BY SumsOfPlain
<1>4. /\ f[b][<<"total", 0>>] = SumOf(n, InBucket(b))
      /\ \A i \in Bit: /\ f[b][<<"set", i>>] = SumOf(n, Having(b, i))
                       /\ f[b][<<"clear", i>>] = SumOf(n, Lacking(b, i))
  BY <1>1 DEF Sums
<1>5. QED  BY <1>1, <1>2, <1>3, <1>4, BucketSets

LEMMA EstimateCovers ==
  ASSUME NEW f \in Array, NEW n, NoOverflow(n), Sums(f, n, n), NEW k \in Key
  PROVE  Estimate(f, k) \in Nat /\ n[k] <= Estimate(f, k)
<1> DEFINE at(r) == {f[<<r, Hash[r][k]>>][c]:
                        c \in {<<"total", 0>>} \cup ({"set"} \X BitsOf[k])
                                               \cup ({"clear"} \X (Bit \ BitsOf[k]))}
           E == UNION {at(r): r \in Row}
<1>1. ASSUME NEW r \in Row PROVE \A e \in at(r): e \in Nat /\ n[k] <= e
  <2>1. PICK b: b = <<r, Hash[r][k]>>  OBVIOUS
  <2>2. /\ f[b][<<"total", 0>>] \in Nat /\ n[k] <= f[b][<<"total", 0>>]
        /\ \A i \in BitsOf[k]: f[b][<<"set", i>>] \in Nat /\ n[k] <= f[b][<<"set", i>>]
        /\ \A i \in Bit \ BitsOf[k]: f[b][<<"clear", i>>] \in Nat /\ n[k] <= f[b][<<"clear", i>>]
    BY <2>1, CountersCover
  <2>3. ASSUME NEW c \in {<<"total", 0>>} \cup ({"set"} \X BitsOf[k]) \cup ({"clear"} \X (Bit \ BitsOf[k]))
        PROVE  f[b][c] \in Nat /\ n[k] <= f[b][c]
    <3>1. \/ c = <<"total", 0>>
          \/ \E i \in BitsOf[k]: c = <<"set", i>>
          \/ \E i \in Bit \ BitsOf[k]: c = <<"clear", i>>  OBVIOUS
    <3>2. QED  BY <2>2, <3>1
  <2>4. QED  BY <2>1, <2>3
<1>2. \A e \in E: e \in Nat /\ n[k] <= e  BY <1>1
<1>3. E # {}
  <2>1. 1 \in Row  BY CountersAssumption DEF Row
  <2>2. PICK e: e = f[<<1, Hash[1][k]>>][<<"total", 0>>]  OBVIOUS
  <2>3. e \in at(1)  BY <2>2, Zenon
  <2> HIDE DEF at
  <2>4. e \in E  BY <2>1, <2>3
  <2>5. QED  BY <2>4
<1>4. Estimate(f, k) = Min(E)  BY DEF Estimate
<1> HIDE DEF E
<1>5. \E x \in E: \A y \in E: x <= y
  <2>1. E \in SUBSET Nat  BY <1>2
  <2>2. QED  BY <1>3, <2>1, LeastNumber
<1>6. Min(E) \in E  BY <1>5 DEF Min
<1>7. QED  BY <1>2, <1>4, <1>6

\* What a sketch that is known, complete and plain gives.
LEMMA PlainSketch ==
  ASSUME IndInv, NEW s \in Sketch, known[s], zeroNet[s] = net[s], Plain(s)
  PROVE  counts[s] \in Array /\ NoOverflow(net[s]) /\ Sums(counts[s], net[s], net[s])
<1>1. PICK f \in Array, n \in Sizes: f = counts[s] /\ n = net[s] /\ Sums(f, n, n)
  BY SketchHas DEF IndInv
<1>2. (\A k \in Key: n[k] >= 0) /\ Total(n, Key) < Limit  BY <1>1 DEF Plain
<1>3. n \in [Key -> Int]  BY IntsOfSizes
<1>4. n \in [Key -> Nat]  BY <1>2, <1>3
<1>5. QED  BY <1>1, <1>2, <1>4 DEF NoOverflow

LEMMA EstimatesCover == IndInv => NeverUnderestimates
<1> SUFFICES ASSUME IndInv, NEW s \in Sketch, known[s], zeroNet[s] = net[s], Plain(s),
                    NEW k \in Key
             PROVE  Estimate(counts[s], k) >= net[s][k]
  BY DEF NeverUnderestimates
<1>1. PICK f, n: f \in Array /\ f = counts[s] /\ n = net[s] /\ NoOverflow(n) /\ Sums(f, n, n)
  BY PlainSketch
<1>2. Estimate(f, k) \in Nat /\ n[k] <= Estimate(f, k)  BY <1>1, EstimateCovers
<1>3. n[k] \in Nat  BY <1>1 DEF NoOverflow
<1>4. QED  BY <1>1, <1>2, <1>3

\* The estimate of a completed sketch is never below what was counted.
THEOREM NeverUnderestimatesHolds == Spec => []NeverUnderestimates
  BY Invariance, EstimatesCover, PTL

\* A flow with more than all but 1/d of its bucket makes every bit certain there.
LEMMA MajoritySure ==
  ASSUME NEW f \in Array, NEW n, NoOverflow(n), Sums(f, n, n), NEW k \in Key, NEW r \in Row,
         NEW b, b = <<r, Hash[r][k]>>, NEW q \in {2, 3},
         q * n[k] > (q - 1) * f[b][<<"total", 0>>]
  PROVE  k \in Sure(f, q)
<1>1. b \in Bucket /\ Hash[b[1]][k] = b[2]  BY PlaceOf
<1>2. PICK t \in Nat: t = f[b][<<"total", 0>>]  BY CountersCover
<1>3. PICK x \in Nat: x = n[k] /\ x <= t  BY <1>2, CountersCover DEF NoOverflow
<1>4. q * x > (q - 1) * t  BY <1>2, <1>3
<1>5. ASSUME NEW i \in Bit
      PROVE  /\ LooksSet(f, b, i, q) <=> i \in BitsOf[k]
             /\ LooksSet(f, b, i, q) \/ LooksClear(f, b, i, q)
  <2>1. PICK s \in Nat, c \in Nat: s = f[b][<<"set", i>>] /\ c = f[b][<<"clear", i>>] /\ t = s + c
    <3>1. /\ t = Total(n, InBucket(b))
          /\ f[b][<<"set", i>>] = Total(n, Having(b, i)) /\ f[b][<<"set", i>>] \in Nat
          /\ f[b][<<"clear", i>>] = Total(n, Lacking(b, i)) /\ f[b][<<"clear", i>>] \in Nat
      BY <1>1, <1>2, BucketSets, SumsOfPlain DEF Sums
    <3>2. Total(n, InBucket(b)) = Total(n, Having(b, i)) + Total(n, Lacking(b, i))
      BY <1>1, BitSplits DEF NoOverflow
    <3>3. QED  BY <3>1, <3>2
  <2>2. LooksSet(f, b, i, q) <=> q * s >= (q - 1) * t  BY <1>2, <2>1 DEF LooksSet
  <2>3. LooksClear(f, b, i, q) <=> ~ LooksSet(f, b, i, q) /\ q * c >= (q - 1) * t
    BY <1>2, <2>1 DEF LooksClear
  <2>4. CASE i \in BitsOf[k]
    <3>1. x <= s  BY <1>3, <2>1, <2>4, CountersCover
    <3>2. q * s >= (q - 1) * t
      <4>1. CASE q = 2  BY <1>4, <3>1, <4>1
      <4>2. CASE q = 3  BY <1>4, <3>1, <4>2
      <4>3. QED  BY <4>1, <4>2
    <3>3. QED  BY <2>2, <2>4, <3>2
  <2>5. CASE i \notin BitsOf[k]
    <3>1. x <= c  BY <1>3, <2>1, <2>5, CountersCover
    <3>2. ~ (q * s >= (q - 1) * t) /\ q * c >= (q - 1) * t
      <4>1. CASE q = 2  BY <1>4, <2>1, <3>1, <4>1
      <4>2. CASE q = 3  BY <1>4, <2>1, <3>1, <4>2
      <4>3. QED  BY <4>1, <4>2
    <3>3. QED  BY <2>2, <2>3, <2>5, <3>2
  <2>6. QED  BY <2>4, <2>5
<1>6. Certain(f, b, q) = Bit  BY <1>5 DEF Certain
<1>7. q * Estimate(f, k) >= f[b][<<"total", 0>>]
  <2>1. PICK e \in Nat: e = Estimate(f, k) /\ x <= e  BY <1>3, EstimateCovers
  <2>2. q * e >= t
    <3>1. CASE q = 2  BY <1>4, <2>1, <3>1
    <3>2. CASE q = 3  BY <1>4, <2>1, <3>2
    <3>3. QED  BY <3>1, <3>2
  <2>3. QED  BY <1>2, <2>1, <2>2
<1>8. MayGuess(f, b, k, q)  BY <1>1, <1>5, <1>6, <1>7 DEF MayGuess
<1>9. QED  BY <1>1, <1>6, <1>8 DEF Sure

LEMMA MajoritiesFound == IndInv => MajorityFound
<1> SUFFICES ASSUME IndInv, NEW s \in Sketch, known[s], zeroNet[s] = net[s], Plain(s),
                    NEW k \in Key, NEW r \in Row, NEW q \in {2, 3},
                    q * net[s][k] > (q - 1) * counts[s][<<r, Hash[r][k]>>][<<"total", 0>>]
             PROVE  k \in Sure(counts[s], q)
  BY DEF MajorityFound
<1>1. PICK f, n: f \in Array /\ f = counts[s] /\ n = net[s] /\ NoOverflow(n) /\ Sums(f, n, n)
  BY PlainSketch
<1>2. PICK b: b = <<r, Hash[r][k]>>  OBVIOUS
<1>3. q * n[k] > (q - 1) * f[b][<<"total", 0>>]  BY <1>1, <1>2
<1>4. k \in Sure(f, q)  BY <1>1, <1>2, <1>3, MajoritySure
<1>5. QED  BY <1>1, <1>4

\* SKL_Identify_Thresh with a threshold of 1/d finds every flow that has more
\* than all but 1/d of one of its buckets.
THEOREM MajorityFoundHolds == Spec => []MajorityFound
  BY Invariance, MajoritiesFound, PTL

-----------------------------------------------------------------------------
(* Sizes that are not wrapped *)

Flows == [Key -> Int]
Wrapped(m) == [k \in Key |-> Wrap(m[k])]

LEMMA WrappedSizes ==
  ASSUME NEW m \in Flows
  PROVE  /\ Wrapped(m) \in Sizes
         /\ \A k \in Key: Wrapped(m)[k] = Wrap(m[k])
<1>1. \A k \in Key: m[k] \in Int  BY DEF Flows
<1>2. \A k \in Key: Wrap(m[k]) \in Int32  BY <1>1, WrapCong
<1>3. QED  BY <1>2 DEF Wrapped, Sizes

LEMMA WrapTwice ==
  ASSUME NEW x \in Int, NEW y \in Int
  PROVE  /\ Wrap(x) \in Int32 /\ Wrap(y) \in Int32 /\ Int32 \subseteq Int
         /\ Wrap(x + Wrap(y)) = Wrap(x + y) /\ Wrap(Wrap(x) + Wrap(y)) = Wrap(x + y)
<1>1. Int32 \subseteq Int  BY LimitType DEF Int32
<1>2. /\ Wrap(x) \in Int32 /\ Wrap(y) \in Int32 /\ Wrap(x) \in Int /\ Wrap(y) \in Int
      /\ Cong(x, Wrap(x)) /\ Cong(y, Wrap(y)) /\ Cong(x, x)
  BY <1>1, WrapCong, CongRefl
<1>3. PICK u \in Int, v \in Int: u = Wrap(x) /\ v = Wrap(y)  BY <1>2
<1>4. Cong(x + y, x + v) /\ Cong(x + y, u + v)  BY <1>2, <1>3, CongAdd
<1>5. Wrap(x + y) = Wrap(x + v)
  <2>1. x + y \in Int /\ x + v \in Int  BY <1>3
  <2>2. QED  BY <1>4, <2>1, WrapOfCong
<1>6. Wrap(x + y) = Wrap(u + v)
  <2>1. x + y \in Int /\ u + v \in Int  BY <1>3
  <2>2. QED  BY <1>4, <2>1, WrapOfCong
<1>7. QED  BY <1>1, <1>2, <1>3, <1>5, <1>6

\* Counting a size and counting it wrapped is the same.
LEMMA CountedWrapped ==
  ASSUME NEW f \in Array, NEW k \in Key, NEW diff \in Int
  PROVE  Counted(f, k, diff) = Counted(f, k, Wrap(diff))
<1>1. ASSUME NEW b \in Bucket, NEW c \in Counter
      PROVE  Wrap(f[b][c] + diff) = Wrap(f[b][c] + Wrap(diff))
  <2>1. f[b][c] \in Int  BY LimitType DEF Array, Int32
  <2>2. QED  BY <2>1, WrapTwice
<1>2. QED  BY <1>1 DEF Counted

\* The flows m with diff more for k.
More(m, k, diff) == [m EXCEPT ![k] = @ + diff]

LEMMA MoreFlows ==
  ASSUME NEW m \in Flows, NEW k \in Key, NEW diff \in Int
  PROVE  /\ More(m, k, diff) \in Flows
         /\ Wrapped(More(m, k, diff)) = [Wrapped(m) EXCEPT ![k] = Wrap(Wrapped(m)[k] + Wrap(diff))]
<1>1. m[k] \in Int /\ More(m, k, diff) \in Flows  BY DEF Flows, More
<1>2. \A j \in Key: More(m, k, diff)[j] = IF j = k THEN m[k] + diff ELSE m[j]  BY DEF Flows, More
<1>3. Wrap(m[k] + diff) = Wrap(Wrap(m[k]) + Wrap(diff))  BY <1>1, WrapTwice
<1>4. Wrapped(m)[k] = Wrap(m[k])  BY DEF Wrapped
<1>5. \A j \in Key: Wrapped(More(m, k, diff))[j]
                      = [Wrapped(m) EXCEPT ![k] = Wrap(Wrapped(m)[k] + Wrap(diff))][j]
  BY <1>2, <1>3, <1>4 DEF Wrapped
<1>6. QED  BY <1>1, <1>5 DEF Wrapped

LEMMA CountedSums ==
  ASSUME NEW f \in Array, NEW m \in Flows, NEW z \in Sizes, NEW k \in Key, NEW diff \in Int
  PROVE  /\ Counted(f, k, diff) \in Array
         /\ Sums(f, Wrapped(m), z) => Sums(Counted(f, k, diff), Wrapped(More(m, k, diff)), z)
<1>1. PICK w \in Int32: w = Wrap(diff)  BY WrapTwice
<1>2. Counted(f, k, diff) = Counted(f, k, w)  BY <1>1, CountedWrapped
<1>3. PICK n \in Sizes: n = Wrapped(m)  BY WrappedSizes
<1>4. Wrapped(More(m, k, diff)) = [n EXCEPT ![k] = Wrap(n[k] + w)]  BY <1>1, <1>3, MoreFlows
<1>5. Counted(f, k, w) \in Array  BY UpdateSums
<1>6. Sums(f, n, z) => Sums(Counted(f, k, w), [n EXCEPT ![k] = Wrap(n[k] + w)], z)  BY UpdateSums
<1>7. QED  BY <1>2, <1>3, <1>4, <1>5, <1>6

\* Sums say what every counter is.
LEMMA SumsDetermine ==
  ASSUME NEW f \in Array, NEW g \in Array, NEW n, NEW z, Sums(f, n, z), Sums(g, n, z)
  PROVE  f = g
<1>1. ASSUME NEW b \in Bucket, NEW c \in Counter PROVE f[b][c] = g[b][c]
  <2>1. f[b][<<"total", 0>>] = g[b][<<"total", 0>>]  BY DEF Sums
  <2>2. ASSUME NEW i \in Bit
        PROVE  f[b][<<"set", i>>] = g[b][<<"set", i>>] /\ f[b][<<"clear", i>>] = g[b][<<"clear", i>>]
    BY DEF Sums
  <2>3. QED  BY <2>1, <2>2, CounterIs
<1>2. \A b \in Bucket: f[b] = g[b]
  <2>1. ASSUME NEW b \in Bucket PROVE f[b] = g[b]
    <3>1. f[b] \in [Counter -> Int32] /\ g[b] \in [Counter -> Int32]  BY DEF Array
    <3>2. QED  BY <1>1, <3>1
  <2>2. QED  BY <2>1
<1>3. QED  BY <1>2 DEF Array

-----------------------------------------------------------------------------
(* The sketch of some flows *)

SketchFolds(F, m) ==
    F = [s \in SUBSET Key |->
           IF s = {} THEN Empty ELSE Counted(F[s \ {Chosen(s)}], Chosen(s), m[Chosen(s)])]

LEMMA SketchIsFold ==
  ASSUME NEW m
  PROVE  SketchOf(m) = Completed((CHOOSE F: SketchFolds(F, m))[Key])
BY DEF SketchOf, FoldSet, MapThenFoldSet, SketchFolds, Chosen

LEMMA SketchFoldExists ==
  ASSUME NEW m \in Flows
  PROVE  \E F: SketchFolds(F, m)
<1> DEFINE step == [x \in Array \X Key |-> Counted(x[1], x[2], m[x[2]])]
           pick == [s \in SUBSET Key |-> Chosen(s)]
<1>1. step \in [Array \X Key -> Array]
  <2>1. ASSUME NEW f \in Array, NEW k \in Key PROVE Counted(f, k, m[k]) \in Array
    <3>1. m[k] \in Int /\ NoSize \in Sizes  BY EmptySums DEF Flows
    <3>2. QED  BY <3>1, CountedSums
  <2>2. QED  BY <2>1
<1>2. \A s \in SUBSET Key: s # {} => pick[s] \in s  BY DEF Chosen
<1>3. Empty \in Array  BY EmptySums
<1>4. PICK F \in [SUBSET Key -> Array]: FoldsUp(F, Empty, step, pick, Key)
  <2> HIDE DEF step, pick
  <2>1. QED  BY <1>1, <1>2, <1>3, KeysFinite, FoldTyped
<1>5. ASSUME NEW s \in SUBSET Key
      PROVE  F[s] = IF s = {} THEN Empty ELSE Counted(F[s \ {Chosen(s)}], Chosen(s), m[Chosen(s)])
  <2>1. F[s] = IF s = {} THEN Empty ELSE step[<<F[s \ {pick[s]}], pick[s]>>]
    <3> HIDE DEF step, pick
    <3>1. QED  BY <1>4 DEF FoldsUp
  <2>2. ASSUME s # {} PROVE step[<<F[s \ {pick[s]}], pick[s]>>]
                              = Counted(F[s \ {Chosen(s)}], Chosen(s), m[Chosen(s)])
    <3>1. pick[s] = Chosen(s) /\ Chosen(s) \in Key  BY <1>2, <2>2
    <3>2. F[s \ {Chosen(s)}] \in Array  OBVIOUS
    <3> HIDE DEF pick
    <3>3. QED  BY <3>1, <3>2
  <2> HIDE DEF step, pick
  <2>3. QED  BY <2>1, <2>2
<1>6. F = [s \in SUBSET Key |-> F[s]]  OBVIOUS
<1>7. SketchFolds(F, m)  BY <1>5, <1>6 DEF SketchFolds
<1>8. QED  BY <1>7

\* The flows m of the keys in s.
Only(m, s) == [k \in Key |-> IF k \in s THEN m[k] ELSE 0]

LEMMA SketchSums ==
  ASSUME NEW m \in Flows
  PROVE  SketchOf(m) \in Array /\ Sums(SketchOf(m), Wrapped(m), Wrapped(m))
<1>1. PICK F: SketchFolds(F, m) /\ SketchOf(m) = Completed(F[Key])
  BY SketchFoldExists, SketchIsFold
<1> DEFINE P == {s \in SUBSET Key: F[s] \in Array /\ Sums(F[s], Wrapped(Only(m, s)), NoSize)}
<1>2. ASSUME NEW s \in SUBSET Key, \A r \in SUBSET s: r # s => r \in P
      PROVE  s \in P
  <2>1. F[s] = IF s = {} THEN Empty ELSE Counted(F[s \ {Chosen(s)}], Chosen(s), m[Chosen(s)])
    BY <1>1 DEF SketchFolds
  <2>2. CASE s = {}
    <3>1. Only(m, s) = NoSize  BY <2>2 DEF Only, NoSize
    <3>2. Wrapped(NoSize) = NoSize
      <4>1. Wrap(0) = 0  BY ZeroFits, WrapOfSmall
      <4>2. QED  BY <4>1 DEF Wrapped, NoSize
    <3>3. QED  BY <2>1, <2>2, <3>1, <3>2, EmptySums
  <2>3. CASE s # {}
    <3>1. PICK x \in s: x = Chosen(s)  BY <2>3 DEF Chosen
    <3>2. s \ {x} \in P  BY <1>2
    <3>3. PICK f \in Array: f = F[s \ {x}] /\ Sums(f, Wrapped(Only(m, s \ {x})), NoSize)  BY <3>2
    <3>4. x \in Key /\ m[x] \in Int /\ Only(m, s \ {x}) \in Flows  BY DEF Flows, Only
    <3>5. More(Only(m, s \ {x}), x, m[x]) = Only(m, s)
      <4>1. \A k \in Key: More(Only(m, s \ {x}), x, m[x])[k] = IF k = x THEN 0 + m[x] ELSE Only(m, s)[k]
        BY <3>4 DEF More, Only
      <4>2. Only(m, s)[x] = m[x] /\ 0 + m[x] = m[x]  BY <3>4 DEF Only
      <4>3. \A k \in Key: More(Only(m, s \ {x}), x, m[x])[k] = Only(m, s)[k]  BY <4>1, <4>2
      <4>4. QED  BY <4>3 DEF More, Only
    <3>6. PICK q \in Flows: q = Only(m, s \ {x})  BY <3>4
    <3>7. PICK e \in Int: e = m[x]  BY <3>4
    <3>8. Counted(f, x, e) \in Array /\ Sums(Counted(f, x, e), Wrapped(More(q, x, e)), NoSize)
      BY <3>3, <3>4, <3>6, CountedSums, EmptySums
    <3>9. F[s] = Counted(f, x, e)  BY <2>1, <2>3, <3>1, <3>3, <3>7
    <3>10. QED  BY <3>5, <3>6, <3>7, <3>8, <3>9
  <2>4. QED  BY <2>2, <2>3
<1>3. SUBSET Key \subseteq P
  <2> HIDE DEF P
  <2>1. QED  BY <1>2, KeysFinite, SubsetInduction
<1>4. Only(m, Key) = m  BY DEF Only, Flows
<1>5. F[Key] \in Array /\ Sums(F[Key], Wrapped(m), NoSize)
  <2>1. Key \in P  BY <1>3
  <2>2. QED  BY <1>4, <2>1
<1>6. PICK f \in Array, n \in Sizes: f = F[Key] /\ n = Wrapped(m)  BY <1>5, WrappedSizes
<1>7. Completed(f) \in Array /\ Sums(Completed(f), n, n)  BY <1>5, <1>6, EmptySums, CompletedSums
<1>8. QED  BY <1>1, <1>6, <1>7

\* A sketch whose counters are the sums of flows m is what SketchOf makes of them.
LEMMA SketchIs ==
  ASSUME NEW m \in Flows, NEW f \in Array, Sums(f, Wrapped(m), Wrapped(m))
  PROVE  f = SketchOf(m)
BY SketchSums, SumsDetermine

-----------------------------------------------------------------------------
(* Folds of a list *)

Entry == [key: Key, size: Int]

LEMMA PrefixSteps ==
  ASSUME NEW n \in Nat, NEW i \in 0 .. n - 1
  PROVE  /\ 1 .. i + 1 \in SUBSET (1 .. n) /\ 1 .. i + 1 # {} /\ i + 1 \in 1 .. n
         /\ Max(1 .. i + 1) = i + 1 /\ (1 .. i + 1) \ {i + 1} = 1 .. i
<1>1. i \in Nat /\ i + 1 <= n  OBVIOUS
<1>2. Max(1 .. i + 1) = i + 1  BY <1>1, LargestOf
<1>3. QED  BY <1>1, <1>2

\* The equation of FoldLeft, the step a function of a value and a place.
LeftFolds(F, base, step, n) ==
    \A s \in SUBSET (1 .. n): F[s] = IF s = {} THEN base ELSE step[<<F[s \ {Max(s)}], Max(s)>>]

LEMMA LeftFold ==
  ASSUME NEW n \in Nat, NEW V, NEW base \in V, NEW step \in [V \X (1 .. n) -> V]
  PROVE  \E F \in [SUBSET (1 .. n) -> V]: LeftFolds(F, base, step, n)
<1> DEFINE pick == [s \in SUBSET (1 .. n) |-> Max(s)]
<1>1. \A s \in SUBSET (1 .. n): s # {} => pick[s] \in s  BY LargestOf
<1>2. IsFiniteSet(1 .. n)  BY FS_Interval
<1>3. PICK F \in [SUBSET (1 .. n) -> V]: FoldsUp(F, base, step, pick, 1 .. n)
  <2> HIDE DEF pick
  <2>1. QED  BY <1>1, <1>2, FoldTyped
<1>4. ASSUME NEW s \in SUBSET (1 .. n)
      PROVE  F[s] = IF s = {} THEN base ELSE step[<<F[s \ {Max(s)}], Max(s)>>]
  <2>1. F[s] = IF s = {} THEN base ELSE step[<<F[s \ {pick[s]}], pick[s]>>]
    <3> HIDE DEF pick
    <3>1. QED  BY <1>3 DEF FoldsUp
  <2>2. pick[s] = Max(s)  OBVIOUS
  <2> HIDE DEF pick
  <2>3. QED  BY <2>1, <2>2
<1>5. QED  BY <1>4 DEF LeftFolds

\* remove_large, flow by flow.
RemovalsUp(F, f, list) ==
    F = [s \in SUBSET DOMAIN list |->
           IF s = {} THEN f ELSE Counted(F[s \ {Max(s)}], list[Max(s)].key, - list[Max(s)].size)]

LEMMA RemovalIsFold ==
  ASSUME NEW f, NEW list
  PROVE  RemoveLarge(f, list) = Completed((CHOOSE F: RemovalsUp(F, f, list))[DOMAIN list])
BY DEF RemoveLarge, FoldLeft, MapThenFoldSet, RemovalsUp

LEMMA RemovalsExist ==
  ASSUME NEW f \in Array, NEW list \in Seq(Entry)
  PROVE  \E F: RemovalsUp(F, f, list)
<1> DEFINE step == [x \in Array \X DOMAIN list |-> Counted(x[1], list[x[2]].key, - list[x[2]].size)]
<1>1. PICK n \in Nat: n = Len(list) /\ DOMAIN list = 1 .. n  OBVIOUS
<1>2. step \in [Array \X (1 .. n) -> Array]
  <2>1. ASSUME NEW g \in Array, NEW i \in DOMAIN list
        PROVE  Counted(g, list[i].key, - list[i].size) \in Array
    <3>1. list[i] \in Entry  OBVIOUS
    <3>2. list[i].key \in Key /\ - list[i].size \in Int  BY <3>1 DEF Entry
    <3>3. NoSize \in Flows /\ NoSize \in Sizes  BY EmptySums DEF NoSize, Flows
    <3>4. QED  BY <3>2, <3>3, CountedSums
  <2>2. QED  BY <1>1, <2>1
<1>3. PICK F \in [SUBSET (1 .. n) -> Array]: LeftFolds(F, f, step, n)
  <2> HIDE DEF step
  <2>1. QED  BY <1>2, LeftFold
<1>4. ASSUME NEW s \in SUBSET (1 .. n), s # {}
      PROVE  step[<<F[s \ {Max(s)}], Max(s)>>]
               = Counted(F[s \ {Max(s)}], list[Max(s)].key, - list[Max(s)].size)
  <2>1. PICK i \in 1 .. n: i = Max(s)  BY <1>4, LargestOf
  <2>2. F[s \ {i}] \in Array  OBVIOUS
  <2>3. QED  BY <1>1, <2>1, <2>2
<1>5. \A s \in SUBSET (1 .. n):
         F[s] = IF s = {} THEN f ELSE Counted(F[s \ {Max(s)}], list[Max(s)].key, - list[Max(s)].size)
  <2> HIDE DEF step
  <2>1. QED  BY <1>3, <1>4 DEF LeftFolds
<1>6. F = [s \in SUBSET (1 .. n) |-> F[s]]  OBVIOUS
<1>7. RemovalsUp(F, f, list)  BY <1>1, <1>5, <1>6 DEF RemovalsUp
<1>8. QED  BY <1>7

\* What is taken, flow by flow.
Tally(t, list) == FoldLeft(LAMBDA m, x: [m EXCEPT ![x.key] = @ + x.size], t, list)

TalliesUp(F, t, list) ==
    F = [s \in SUBSET DOMAIN list |->
           IF s = {} THEN t
           ELSE [F[s \ {Max(s)}] EXCEPT ![list[Max(s)].key] = @ + list[Max(s)].size]]

LEMMA TallyIsFold ==
  ASSUME NEW t, NEW list
  PROVE  Tally(t, list) = (CHOOSE F: TalliesUp(F, t, list))[DOMAIN list]
BY DEF Tally, FoldLeft, MapThenFoldSet, TalliesUp

\* The lists of flows that are recorded.
RecordsUp(F, r, list) ==
    F = [s \in SUBSET DOMAIN list |->
           IF s = {} THEN r ELSE RecordOne(F[s \ {Max(s)}], list[Max(s)])]

Records(r, list) == FoldLeft(RecordOne, r, list)

LEMMA RecordIsFold ==
  ASSUME NEW r, NEW list
  PROVE  Records(r, list) = (CHOOSE F: RecordsUp(F, r, list))[DOMAIN list]
BY DEF Records, FoldLeft, MapThenFoldSet, RecordsUp

LEMMA RecordFlowsIs ==
  ASSUME RecordFlows
  PROVE  /\ detected' = Records(detected, list_ret)
         /\ taken' = Tally(taken, list_ret)
<1>1. detected' = Records(detected, list_ret)  BY DEF RecordFlows, Records, FoldLeft, MapThenFoldSet
<1>2. taken' = Tally(taken, list_ret)  BY DEF RecordFlows, Tally, FoldLeft, MapThenFoldSet
<1>3. QED  BY <1>1, <1>2

\* Induction up to n.
LEMMA UpTo ==
  ASSUME NEW n \in Nat, NEW P, 0 \in P, \A i \in 0 .. n - 1: i \in P => i + 1 \in P
  PROVE  0 .. n \subseteq P
<1> DEFINE Bad == {i \in 0 .. n: i \notin P}
<1>1. SUFFICES ASSUME Bad # {} PROVE FALSE  OBVIOUS
<1>2. PICK i \in Bad: \A j \in Bad: i <= j
  <2>1. Bad \in SUBSET Nat  OBVIOUS
  <2> HIDE DEF Bad
  <2>2. QED  BY <1>1, <2>1, LeastNumber
<1>3. i # 0 /\ i \in 1 .. n  OBVIOUS
<1>4. i - 1 \in 0 .. n - 1 /\ i - 1 \notin Bad /\ (i - 1) + 1 = i  BY <1>2, <1>3
<1>5. QED  BY <1>4

LEMMA TalliesExist ==
  ASSUME NEW t \in Flows, NEW list \in Seq(Entry)
  PROVE  \E F \in [SUBSET DOMAIN list -> Flows]: TalliesUp(F, t, list)
<1> DEFINE step == [x \in Flows \X DOMAIN list |-> [x[1] EXCEPT ![list[x[2]].key] = @ + list[x[2]].size]]
<1>1. PICK n \in Nat: n = Len(list) /\ DOMAIN list = 1 .. n  OBVIOUS
<1>2. step \in [Flows \X (1 .. n) -> Flows]
  <2>1. ASSUME NEW g \in Flows, NEW i \in DOMAIN list
        PROVE  [g EXCEPT ![list[i].key] = @ + list[i].size] \in Flows
    <3>1. list[i] \in Entry  OBVIOUS
    <3>2. list[i].key \in Key /\ list[i].size \in Int  BY <3>1 DEF Entry
    <3>3. QED  BY <3>2, MoreFlows DEF More
  <2>2. QED  BY <1>1, <2>1
<1>3. PICK F \in [SUBSET (1 .. n) -> Flows]: LeftFolds(F, t, step, n)
  <2> HIDE DEF step
  <2>1. QED  BY <1>2, LeftFold
<1>4. ASSUME NEW s \in SUBSET (1 .. n), s # {}
      PROVE  step[<<F[s \ {Max(s)}], Max(s)>>]
               = [F[s \ {Max(s)}] EXCEPT ![list[Max(s)].key] = @ + list[Max(s)].size]
  <2>1. PICK i \in 1 .. n: i = Max(s)  BY <1>4, LargestOf
  <2>2. F[s \ {i}] \in Flows  OBVIOUS
  <2>3. QED  BY <1>1, <2>1, <2>2
<1>5. \A s \in SUBSET (1 .. n):
         F[s] = IF s = {} THEN t
                ELSE [F[s \ {Max(s)}] EXCEPT ![list[Max(s)].key] = @ + list[Max(s)].size]
  <2> HIDE DEF step
  <2>1. QED  BY <1>3, <1>4 DEF LeftFolds
<1>6. F = [s \in SUBSET (1 .. n) |-> F[s]]  OBVIOUS
<1>7. TalliesUp(F, t, list)  BY <1>1, <1>5, <1>6 DEF TalliesUp
<1>8. QED  BY <1>1, <1>7

LEMMA RecordsExist ==
  ASSUME NEW r \in Seq(Entry), NEW list \in Seq(Entry)
  PROVE  \E F: RecordsUp(F, r, list)
<1> DEFINE step == [x \in Seq(Entry) \X DOMAIN list |-> RecordOne(x[1], list[x[2]])]
<1>1. PICK n \in Nat: n = Len(list) /\ DOMAIN list = 1 .. n  OBVIOUS
<1>2. step \in [Seq(Entry) \X (1 .. n) -> Seq(Entry)]
  <2>1. ASSUME NEW g \in Seq(Entry), NEW i \in DOMAIN list
        PROVE  RecordOne(g, list[i]) \in Seq(Entry)
    <3>1. list[i] \in Entry  OBVIOUS
    <3>2. QED  BY <3>1 DEF RecordOne
  <2>2. QED  BY <1>1, <2>1
<1>3. PICK F \in [SUBSET (1 .. n) -> Seq(Entry)]: LeftFolds(F, r, step, n)
  <2> HIDE DEF step
  <2>1. QED  BY <1>2, LeftFold
<1>4. ASSUME NEW s \in SUBSET (1 .. n), s # {}
      PROVE  step[<<F[s \ {Max(s)}], Max(s)>>] = RecordOne(F[s \ {Max(s)}], list[Max(s)])
  <2>1. PICK i \in 1 .. n: i = Max(s)  BY <1>4, LargestOf
  <2>2. F[s \ {i}] \in Seq(Entry)  OBVIOUS
  <2>3. QED  BY <1>1, <2>1, <2>2
<1>5. \A s \in SUBSET (1 .. n):
         F[s] = IF s = {} THEN r ELSE RecordOne(F[s \ {Max(s)}], list[Max(s)])
  <2> HIDE DEF step
  <2>1. QED  BY <1>3, <1>4 DEF LeftFolds
<1>6. F = [s \in SUBSET (1 .. n) |-> F[s]]  OBVIOUS
<1>7. RecordsUp(F, r, list)  BY <1>1, <1>5, <1>6 DEF RecordsUp
<1>8. QED  BY <1>7

-----------------------------------------------------------------------------
(* The same, prefix by prefix *)

\* g[i] is what is left of the sketch f, g[i] is the tally, ... after i flows.
RemovedBy(g, f, list) ==
    /\ g[0] = f
    /\ \A i \in 0 .. Len(list) - 1: g[i + 1] = Counted(g[i], list[i + 1].key, - list[i + 1].size)

TalliedBy(g, t, list) ==
    /\ g \in [0 .. Len(list) -> Flows] /\ g[0] = t
    /\ \A i \in 0 .. Len(list) - 1: g[i + 1] = More(g[i], list[i + 1].key, list[i + 1].size)

RecordedBy(g, r, list) ==
    /\ g[0] = r
    /\ \A i \in 0 .. Len(list) - 1: g[i + 1] = RecordOne(g[i], list[i + 1])

LEMMA RemoveLargeSteps ==
  ASSUME NEW f \in Array, NEW list \in Seq(Entry)
  PROVE  \E g: RemovedBy(g, f, list) /\ RemoveLarge(f, list) = Completed(g[Len(list)])
<1>1. PICK F: RemovalsUp(F, f, list) /\ RemoveLarge(f, list) = Completed(F[DOMAIN list])
  BY RemovalsExist, RemovalIsFold
<1>2. PICK n \in Nat: n = Len(list) /\ DOMAIN list = 1 .. n  OBVIOUS
<1> DEFINE g == [i \in 0 .. n |-> F[1 .. i]]
<1>3. g[0] = f
  <2>1. g[0] = F[{}]  OBVIOUS
  <2>2. F[{}] = f  BY <1>1 DEF RemovalsUp
  <2>3. QED  BY <2>1, <2>2
<1>4. ASSUME NEW i \in 0 .. n - 1
      PROVE  g[i + 1] = Counted(g[i], list[i + 1].key, - list[i + 1].size)
  <2>1. g[i + 1] = F[1 .. i + 1] /\ g[i] = F[1 .. i]  OBVIOUS
  <2>2. F[1 .. i + 1] = Counted(F[1 .. i], list[i + 1].key, - list[i + 1].size)
    <3>1. PICK S \in SUBSET DOMAIN list: S = 1 .. i + 1 /\ S # {} /\ Max(S) = i + 1 /\ S \ {i + 1} = 1 .. i
      BY <1>2, PrefixSteps
    <3>2. F[S] = IF S = {} THEN f ELSE Counted(F[S \ {Max(S)}], list[Max(S)].key, - list[Max(S)].size)
      BY <1>1 DEF RemovalsUp
    <3>3. QED  BY <3>1, <3>2
  <2>3. QED  BY <2>1, <2>2
<1>5. g[n] = F[1 .. n]  OBVIOUS
<1>6. QED  BY <1>1, <1>2, <1>3, <1>4, <1>5 DEF RemovedBy

LEMMA TallySteps ==
  ASSUME NEW t \in Flows, NEW list \in Seq(Entry)
  PROVE  \E g: TalliedBy(g, t, list) /\ Tally(t, list) = g[Len(list)]
<1>1. PICK F: TalliesUp(F, t, list) /\ Tally(t, list) = F[DOMAIN list]
  BY TalliesExist, TallyIsFold
<1>2. PICK n \in Nat: n = Len(list) /\ DOMAIN list = 1 .. n  OBVIOUS
<1> DEFINE g == [i \in 0 .. n |-> F[1 .. i]]
<1>3. g[0] = t
  <2>1. g[0] = F[{}]  OBVIOUS
  <2>2. F[{}] = t  BY <1>1 DEF TalliesUp
  <2>3. QED  BY <2>1, <2>2
<1>4. ASSUME NEW i \in 0 .. n - 1
      PROVE  g[i + 1] = More(g[i], list[i + 1].key, list[i + 1].size)
  <2>1. g[i + 1] = F[1 .. i + 1] /\ g[i] = F[1 .. i]  OBVIOUS
  <2>2. F[1 .. i + 1] = [F[1 .. i] EXCEPT ![list[i + 1].key] = @ + list[i + 1].size]
    <3>1. PICK S \in SUBSET DOMAIN list: S = 1 .. i + 1 /\ S # {} /\ Max(S) = i + 1 /\ S \ {i + 1} = 1 .. i
      BY <1>2, PrefixSteps
    <3>2. F[S] = IF S = {} THEN t ELSE [F[S \ {Max(S)}] EXCEPT ![list[Max(S)].key] = @ + list[Max(S)].size]
      BY <1>1 DEF TalliesUp
    <3>3. QED  BY <3>1, <3>2
  <2>3. QED  BY <2>1, <2>2 DEF More
<1>5. g[n] = F[1 .. n]  OBVIOUS
<1> HIDE DEF g
<1>6. \A i \in 0 .. n: g[i] \in Flows
  <2> DEFINE P == {i \in 0 .. n: g[i] \in Flows}
  <2>1. 0 \in P  BY <1>3
  <2>2. ASSUME NEW i \in 0 .. n - 1, i \in P PROVE i + 1 \in P
    <3>1. i + 1 \in 1 .. n /\ list[i + 1] \in Entry  BY <1>2
    <3>2. list[i + 1].key \in Key /\ list[i + 1].size \in Int  BY <3>1 DEF Entry
    <3>3. g[i + 1] \in Flows
      <4>1. PICK m \in Flows: m = g[i]  BY <2>2
      <4>2. g[i + 1] = More(m, list[i + 1].key, list[i + 1].size)  BY <1>4, <4>1
      <4>3. QED  BY <3>2, <4>2, MoreFlows
    <3>4. QED  BY <3>1, <3>3
  <2>3. 0 .. n \subseteq P
    <3> HIDE DEF P
    <3>1. QED  BY <2>1, <2>2, UpTo
  <2>4. QED  BY <2>3
<1>7. g \in [0 .. n -> Flows]  BY <1>6 DEF g
<1>8. QED  BY <1>1, <1>2, <1>3, <1>4, <1>5, <1>7 DEF TalliedBy

LEMMA RecordSteps ==
  ASSUME NEW r \in Seq(Entry), NEW list \in Seq(Entry)
  PROVE  \E g: RecordedBy(g, r, list) /\ Records(r, list) = g[Len(list)]
<1>1. PICK F: RecordsUp(F, r, list) /\ Records(r, list) = F[DOMAIN list]
  BY RecordsExist, RecordIsFold
<1>2. PICK n \in Nat: n = Len(list) /\ DOMAIN list = 1 .. n  OBVIOUS
<1> DEFINE g == [i \in 0 .. n |-> F[1 .. i]]
<1>3. g[0] = r
  <2>1. g[0] = F[{}]  OBVIOUS
  <2>2. F[{}] = r  BY <1>1 DEF RecordsUp
  <2>3. QED  BY <2>1, <2>2
<1>4. ASSUME NEW i \in 0 .. n - 1
      PROVE  g[i + 1] = RecordOne(g[i], list[i + 1])
  <2>1. g[i + 1] = F[1 .. i + 1] /\ g[i] = F[1 .. i]  OBVIOUS
  <2>2. F[1 .. i + 1] = RecordOne(F[1 .. i], list[i + 1])
    <3>1. PICK S \in SUBSET DOMAIN list: S = 1 .. i + 1 /\ S # {} /\ Max(S) = i + 1 /\ S \ {i + 1} = 1 .. i
      BY <1>2, PrefixSteps
    <3>2. F[S] = IF S = {} THEN r ELSE RecordOne(F[S \ {Max(S)}], list[Max(S)])
      BY <1>1 DEF RecordsUp
    <3>3. QED  BY <3>1, <3>2
  <2>3. QED  BY <2>1, <2>2
<1>5. g[n] = F[1 .. n]  OBVIOUS
<1>6. QED  BY <1>1, <1>2, <1>3, <1>4, <1>5 DEF RecordedBy

-----------------------------------------------------------------------------
(* What removing and taking a list does *)

Less(m, t) == [k \in Key |-> m[k] - t[k]]

LEMMA LessFlows ==
  ASSUME NEW m \in Flows, NEW t \in Flows
  PROVE  Less(m, t) \in Flows
BY DEF Less, Flows

LEMMA LessMore ==
  ASSUME NEW m \in Flows, NEW t \in Flows, NEW k \in Key, NEW size \in Int
  PROVE  More(Less(m, t), k, - size) = Less(m, More(t, k, size))
<1>1. \A j \in Key: m[j] \in Int /\ t[j] \in Int  BY DEF Flows
<1>2. ASSUME NEW j \in Key PROVE More(Less(m, t), k, - size)[j] = Less(m, More(t, k, size))[j]
  <2>1. More(Less(m, t), k, - size)[j] = IF j = k THEN (m[k] - t[k]) + (- size) ELSE m[j] - t[j]
    BY DEF More, Less
  <2>2. More(t, k, size)[j] = IF j = k THEN t[k] + size ELSE t[j]  BY DEF More, Flows
  <2>3. Less(m, More(t, k, size))[j] = m[j] - (IF j = k THEN t[k] + size ELSE t[j])
    BY <2>2 DEF Less
  <2>4. QED  BY <1>1, <2>1, <2>3
<1>3. QED  BY <1>2 DEF More, Less

LEMMA EntryAt ==
  ASSUME NEW list \in Seq(Entry), NEW i \in 0 .. Len(list) - 1
  PROVE  list[i + 1] \in Entry /\ list[i + 1].key \in Key /\ list[i + 1].size \in Int
<1>1. i + 1 \in 1 .. Len(list)  OBVIOUS
<1>2. list[i + 1] \in Entry  BY <1>1
<1>3. QED  BY <1>2 DEF Entry

\* Removing a list from a sketch leaves the sketch of what the list leaves.
LEMMA RemoveLargeIs ==
  ASSUME NEW f \in Array, NEW m \in Flows, NEW t \in Flows, NEW list \in Seq(Entry),
         f = SketchOf(Less(m, t))
  PROVE  /\ Tally(t, list) \in Flows
         /\ RemoveLarge(f, list) \in Array
         /\ RemoveLarge(f, list) = SketchOf(Less(m, Tally(t, list)))
<1>1. PICK g: RemovedBy(g, f, list) /\ RemoveLarge(f, list) = Completed(g[Len(list)])
  BY RemoveLargeSteps
<1>2. PICK h: TalliedBy(h, t, list) /\ Tally(t, list) = h[Len(list)]  BY TallySteps
<1>3. PICK n \in Nat: n = Len(list)  OBVIOUS
<1>4. PICK z \in Sizes: z = Wrapped(Less(m, t)) /\ Sums(f, z, z)
  BY LessFlows, WrappedSizes, SketchSums
<1> DEFINE P == {i \in 0 .. n: g[i] \in Array /\ Sums(g[i], Wrapped(Less(m, h[i])), z)}
<1>5. 0 \in P
  <2>1. g[0] = f /\ h[0] = t  BY <1>1, <1>2 DEF RemovedBy, TalliedBy
  <2>2. QED  BY <1>4, <2>1
<1>6. ASSUME NEW i \in 0 .. n - 1, i \in P PROVE i + 1 \in P
  <2>1. PICK a \in Array: a = g[i] /\ Sums(a, Wrapped(Less(m, h[i])), z)  BY <1>6
  <2>2. PICK q \in Flows: q = h[i]
    <3>1. i \in 0 .. n  OBVIOUS
    <3>2. QED  BY <1>2, <1>3, <3>1 DEF TalliedBy
  <2>3. PICK k \in Key, size \in Int: k = list[i + 1].key /\ size = list[i + 1].size
    BY <1>3, EntryAt
  <2>4. g[i + 1] = Counted(a, k, - size) /\ h[i + 1] = More(q, k, size)
    BY <1>1, <1>2, <1>3, <2>1, <2>2, <2>3 DEF RemovedBy, TalliedBy
  <2>5. PICK l \in Flows: l = Less(m, q)  BY LessFlows
  <2>6. PICK minus \in Int: minus = - size  OBVIOUS
  <2>7. Counted(a, k, minus) \in Array /\ Sums(Counted(a, k, minus), Wrapped(More(l, k, minus)), z)
    BY <2>1, <2>2, <2>5, CountedSums
  <2>8. More(l, k, minus) = Less(m, More(q, k, size))  BY <2>5, <2>6, LessMore
  <2>9. i + 1 \in 0 .. n  OBVIOUS
  <2>10. QED  BY <2>4, <2>6, <2>7, <2>8, <2>9
<1>7. 0 .. n \subseteq P
  <2> HIDE DEF P
  <2>1. QED  BY <1>5, <1>6, UpTo
<1>8. PICK a \in Array: a = g[n] /\ Sums(a, Wrapped(Less(m, h[n])), z)
  <2>1. n \in P  BY <1>7
  <2>2. QED  BY <2>1
<1>9. PICK q \in Flows: q = h[n] /\ q = Tally(t, list)  BY <1>2, <1>3 DEF TalliedBy
<1>10. PICK w \in Sizes: w = Wrapped(Less(m, q))  BY LessFlows, WrappedSizes
<1>11. Completed(a) \in Array /\ Sums(Completed(a), w, w)  BY <1>8, <1>9, <1>10, CompletedSums
<1>12. Completed(a) = SketchOf(Less(m, q))  BY <1>10, <1>11, LessFlows, SketchIs
<1>13. QED  BY <1>1, <1>3, <1>8, <1>9, <1>11, <1>12

LEMMA TallyUnique ==
  ASSUME NEW t \in Flows, NEW list \in Seq(Entry), NEW g, TalliedBy(g, t, list)
  PROVE  Tally(t, list) = g[Len(list)]
<1>1. PICK h: TalliedBy(h, t, list) /\ Tally(t, list) = h[Len(list)]  BY TallySteps
<1>2. PICK n \in Nat: n = Len(list)  OBVIOUS
<1> DEFINE P == {i \in 0 .. n: g[i] = h[i]}
<1>3. 0 \in P  BY <1>1 DEF TalliedBy
<1>4. ASSUME NEW i \in 0 .. n - 1, i \in P PROVE i + 1 \in P
  <2>1. g[i + 1] = More(g[i], list[i + 1].key, list[i + 1].size)
        /\ h[i + 1] = More(h[i], list[i + 1].key, list[i + 1].size)
    BY <1>1, <1>2 DEF TalliedBy
  <2>2. i + 1 \in 0 .. n  OBVIOUS
  <2>3. QED  BY <1>4, <2>1, <2>2
<1>5. 0 .. n \subseteq P
  <2> HIDE DEF P
  <2>1. QED  BY <1>3, <1>4, UpTo
<1>6. n \in P  BY <1>5
<1>7. QED  BY <1>1, <1>2, <1>6

LEMMA TallyNone == \A t \in Flows: Tally(t, <<>>) = t
<1> SUFFICES ASSUME NEW t \in Flows PROVE Tally(t, <<>>) = t  OBVIOUS
<1>1. PICK h: TalliedBy(h, t, <<>>) /\ Tally(t, <<>>) = h[Len(<<>>)]
  <2>1. <<>> \in Seq(Entry)  OBVIOUS
  <2>2. QED  BY <2>1, TallySteps
<1>2. QED  BY <1>1 DEF TalliedBy

LEMMA TallyConcat ==
  ASSUME NEW t \in Flows, NEW s \in Seq(Entry), NEW u \in Seq(Entry)
  PROVE  Tally(t, s \o u) = Tally(Tally(t, s), u) /\ s \o u \in Seq(Entry) /\ Tally(t, s) \in Flows
<1>1. PICK g: TalliedBy(g, t, s) /\ Tally(t, s) = g[Len(s)]  BY TallySteps
<1>2. PICK n \in Nat, l \in Nat: n = Len(s) /\ l = Len(u)  OBVIOUS
<1>3. PICK q \in Flows: q = Tally(t, s)  BY <1>1, <1>2 DEF TalliedBy
<1>4. PICK h: TalliedBy(h, q, u) /\ Tally(q, u) = h[Len(u)]  BY TallySteps
<1>5. s \o u \in Seq(Entry) /\ Len(s \o u) = n + l  BY <1>2
<1> DEFINE e == [i \in 0 .. n + l |-> IF i <= n THEN g[i] ELSE h[i - n]]
<1>6. \A i \in 0 .. n: g[i] \in Flows  BY <1>1, <1>2 DEF TalliedBy
<1>7. \A i \in 0 .. l: h[i] \in Flows  BY <1>4, <1>2 DEF TalliedBy
<1>8. e \in [0 .. n + l -> Flows]
  <2>1. ASSUME NEW i \in 0 .. n + l PROVE (IF i <= n THEN g[i] ELSE h[i - n]) \in Flows
    <3>1. i <= n => i \in 0 .. n  OBVIOUS
    <3>2. ~ (i <= n) => i - n \in 0 .. l  OBVIOUS
    <3>3. QED  BY <1>6, <1>7, <3>1, <3>2
  <2>2. QED  BY <2>1
<1>9. e[0] = t
  <2>1. 0 \in 0 .. n + l /\ 0 <= n  OBVIOUS
  <2>2. g[0] = t  BY <1>1 DEF TalliedBy
  <2>3. QED  BY <2>1, <2>2
<1>10. ASSUME NEW i \in 0 .. (n + l) - 1
       PROVE  e[i + 1] = More(e[i], (s \o u)[i + 1].key, (s \o u)[i + 1].size)
  <2>1. CASE i + 1 <= n
    <3>1. i \in 0 .. n - 1 /\ i \in 0 .. n + l /\ i + 1 \in 0 .. n + l /\ i <= n  BY <2>1
    <3>2. e[i + 1] = g[i + 1] /\ e[i] = g[i]  BY <2>1, <3>1
    <3>3. (s \o u)[i + 1] = s[i + 1]  BY <1>2, <2>1
    <3> HIDE DEF e
    <3>4. QED  BY <1>1, <1>2, <3>1, <3>2, <3>3 DEF TalliedBy
  <2>2. CASE i + 1 > n
    <3>1. i - n \in 0 .. l - 1 /\ i \in 0 .. n + l /\ i + 1 \in 0 .. n + l /\ (i + 1) - n = (i - n) + 1
      BY <2>2
    <3>2. e[i + 1] = h[(i - n) + 1]  BY <2>2, <3>1
    <3>3. e[i] = h[i - n]
      <4>1. CASE i = n
        <5>1. e[i] = g[n]  BY <3>1, <4>1
        <5>2. h[0] = q /\ g[n] = q /\ i - n = 0  BY <1>1, <1>2, <1>3, <1>4, <4>1 DEF TalliedBy
        <5> HIDE DEF e
        <5>3. QED  BY <5>1, <5>2
      <4>2. CASE i > n  BY <3>1, <4>2
      <4>3. QED  BY <2>2, <3>1, <4>1, <4>2
    <3>4. (s \o u)[i + 1] = u[(i - n) + 1]  BY <1>2, <2>2, <3>1
    <3>5. h[(i - n) + 1] = More(h[i - n], u[(i - n) + 1].key, u[(i - n) + 1].size)
      BY <1>2, <1>4, <3>1 DEF TalliedBy
    <3> HIDE DEF e
    <3>6. QED  BY <3>2, <3>3, <3>4, <3>5
  <2>3. i + 1 <= n \/ i + 1 > n  OBVIOUS
  <2> HIDE DEF e
  <2>4. QED  BY <2>1, <2>2, <2>3
<1>11. e[n + l] = h[l]
  <2>1. n + l \in 0 .. n + l /\ (n + l) - n = l  OBVIOUS
  <2>2. CASE l = 0
    <3>1. e[n + l] = g[n]  BY <2>1, <2>2
    <3>2. h[0] = q /\ g[n] = q  BY <1>1, <1>2, <1>3, <1>4 DEF TalliedBy
    <3> HIDE DEF e
    <3>3. QED  BY <2>2, <3>1, <3>2
  <2>3. CASE l # 0  BY <2>1, <2>3
  <2>4. QED  BY <2>2, <2>3
<1> HIDE DEF e
<1>12. PICK x \in Seq(Entry): x = s \o u /\ Len(x) = n + l  BY <1>5
<1>13. TalliedBy(e, t, x)  BY <1>8, <1>9, <1>10, <1>12 DEF TalliedBy
<1>14. Tally(t, x) = e[n + l]  BY <1>12, <1>13, TallyUnique
<1>15. QED  BY <1>2, <1>3, <1>4, <1>5, <1>11, <1>12, <1>14

-----------------------------------------------------------------------------
(* Lists made of sets *)

\* The flows in D, each with its size.
EntriesOf(e, D) == {[key |-> k, size |-> e[k]]: k \in D}

LEMMA SeqOfSet ==
  ASSUME NEW S, IsFiniteSet(S)
  PROVE  LET s == SetToSeq(S) IN
         /\ s \in Seq(S)
         /\ \A i, j \in DOMAIN s: s[i] = s[j] => i = j
         /\ \A x \in S: \E i \in DOMAIN s: s[i] = x
<1> DEFINE s == SetToSeq(S)
<1>1. PICK n \in Nat: n = Cardinality(S)  BY FS_CardinalityType
<1>2. PICK f \in Bijection(1 .. n, S): TRUE  BY <1>1, FS_CardinalityType DEF ExistsBijection
<1>3. f \in [1 .. n -> S] /\ IsInjective(f)  BY <1>2 DEF Bijection, Injection, IsInjective
<1>4. s \in [1 .. n -> S] /\ IsInjective(s)  BY <1>1, <1>3 DEF SetToSeq
<1> HIDE DEF s
<1>5. s \in Injection(1 .. n, S)  BY <1>4 DEF Injection, IsInjective
<1>6. Cardinality(1 .. n) = n  BY FS_Interval
<1>7. s \in Surjection(1 .. n, S)  BY <1>1, <1>5, <1>6, FS_Injection
<1>8. \A x \in S: \E i \in 1 .. n: s[i] = x  BY <1>7 DEF Surjection
<1>9. s \in Seq(S) /\ DOMAIN s = 1 .. n  BY <1>4
<1>10. QED  BY <1>4, <1>8, <1>9 DEF IsInjective, s

LEMMA EntriesFinite ==
  ASSUME NEW D \in SUBSET Key, NEW e
  PROVE  IsFiniteSet(EntriesOf(e, D))
<1> DEFINE f == [k \in D |-> [key |-> k, size |-> e[k]]]
<1>1. f \in Surjection(D, EntriesOf(e, D))  BY DEF Surjection, EntriesOf
<1>2. IsFiniteSet(D)  BY KeysFinite, FS_Subset
<1> HIDE DEF f
<1>3. QED  BY <1>1, <1>2, FS_Surjection

\* Taking each flow in D once.
LEMMA TallyOnce ==
  ASSUME NEW t \in Flows, NEW D \in SUBSET Key, NEW e \in [D -> Int]
  PROVE  LET s == SetToSeq(EntriesOf(e, D)) IN
         /\ s \in Seq(EntriesOf(e, D)) /\ s \in Seq(Entry)
         /\ Tally(t, s) = [k \in Key |-> t[k] + (IF k \in D THEN e[k] ELSE 0)]
<1>1. PICK s: s = SetToSeq(EntriesOf(e, D))  OBVIOUS
<1>2. /\ s \in Seq(EntriesOf(e, D))
      /\ \A i, j \in DOMAIN s: s[i] = s[j] => i = j
      /\ \A x \in EntriesOf(e, D): \E i \in DOMAIN s: s[i] = x
  BY <1>1, EntriesFinite, SeqOfSet
<1>3. EntriesOf(e, D) \subseteq Entry  BY DEF EntriesOf, Entry
<1>4. s \in Seq(Entry)
  <2>1. PICK n \in Nat: s \in [1 .. n -> EntriesOf(e, D)]  BY <1>2, SeqDef
  <2>2. s \in [1 .. n -> Entry]  BY <1>3, <2>1
  <2>3. QED  BY <2>2, SeqDef
<1>5. PICK h: TalliedBy(h, t, s) /\ Tally(t, s) = h[Len(s)]  BY <1>4, TallySteps
<1>6. PICK n \in Nat: n = Len(s) /\ DOMAIN s = 1 .. n  BY <1>4
<1> DEFINE among(k, i) == \E j \in 1 .. i: s[j].key = k
           now(i) == [k \in Key |-> IF among(k, i) THEN t[k] + e[k] ELSE t[k]]
           P == {i \in 0 .. n: h[i] = now(i)}
<1>7. \A j \in 1 .. n: s[j].key \in D /\ s[j] = [key |-> s[j].key, size |-> e[s[j].key]]
  <2>1. ASSUME NEW j \in 1 .. n PROVE s[j].key \in D /\ s[j] = [key |-> s[j].key, size |-> e[s[j].key]]
    <3>1. s[j] \in EntriesOf(e, D)  BY <1>2, <1>6
    <3>2. QED  BY <3>1 DEF EntriesOf
  <2>2. QED  BY <2>1
<1>8. 0 \in P
  <2>1. now(0) = t  BY DEF Flows
  <2>2. h[0] = t  BY <1>5 DEF TalliedBy
  <2>3. QED  BY <2>1, <2>2
<1>9. ASSUME NEW i \in 0 .. n - 1, i \in P PROVE i + 1 \in P
  <2>1. i + 1 \in 1 .. n /\ i + 1 \in 0 .. n  OBVIOUS
  <2>2. PICK x \in D: x = s[i + 1].key /\ s[i + 1].size = e[x]
    <3>1. s[i + 1].key \in D /\ s[i + 1] = [key |-> s[i + 1].key, size |-> e[s[i + 1].key]]
      BY <1>7, <2>1
    <3>2. PICK x \in D: x = s[i + 1].key  BY <3>1
    <3>3. s[i + 1] = [key |-> x, size |-> e[x]]  BY <3>1, <3>2
    <3>4. s[i + 1].size = e[x]  BY <3>3
    <3>5. QED  BY <3>2, <3>4
  <2>3. h[i + 1] = More(now(i), x, e[x])  BY <1>5, <1>6, <1>9, <2>2 DEF TalliedBy
  <2>4. ~ among(x, i)
    <3>1. SUFFICES ASSUME NEW j \in 1 .. i, s[j].key = x PROVE FALSE  OBVIOUS
    <3>2. j \in 1 .. n /\ j # i + 1  OBVIOUS
    <3>3. s[j] = s[i + 1]  BY <1>7, <2>1, <2>2, <3>1, <3>2
    <3>4. QED  BY <1>2, <1>6, <2>1, <3>2, <3>3
  <2>5. \A k \in Key: among(k, i + 1) <=> among(k, i) \/ k = x
    <3>1. 1 .. i + 1 = 1 .. i \cup {i + 1}  OBVIOUS
    <3>2. QED  BY <2>2, <3>1
  <2>6. now(i)[x] = t[x]  BY <2>4
  <2>7. \A k \in Key: More(now(i), x, e[x])[k] = now(i + 1)[k]
    <3>1. ASSUME NEW k \in Key PROVE More(now(i), x, e[x])[k] = now(i + 1)[k]
      <4>1. More(now(i), x, e[x])[k] = IF k = x THEN t[x] + e[x] ELSE now(i)[k]
        BY <2>6 DEF More
      <4>2. now(i + 1)[k] = IF among(k, i + 1) THEN t[k] + e[k] ELSE t[k]  OBVIOUS
      <4>3. now(i)[k] = IF among(k, i) THEN t[k] + e[k] ELSE t[k]  OBVIOUS
      <4> HIDE DEF now, among
      <4>4. QED  BY <2>5, <4>1, <4>2, <4>3
    <3>2. QED  BY <3>1
  <2>8. More(now(i), x, e[x]) = now(i + 1)  BY <2>7 DEF More
  <2> HIDE DEF now
  <2>9. QED  BY <2>1, <2>3, <2>8
<1>10. 0 .. n \subseteq P
  <2> HIDE DEF P
  <2>1. QED  BY <1>8, <1>9, UpTo
<1>11. h[n] = now(n)
  <2>1. n \in P  BY <1>10
  <2> HIDE DEF now
  <2>2. QED  BY <2>1
<1>12. \A k \in Key: among(k, n) <=> k \in D
  <2>1. ASSUME NEW k \in D PROVE among(k, n)
    <3>1. [key |-> k, size |-> e[k]] \in EntriesOf(e, D)  BY DEF EntriesOf
    <3>2. PICK i \in DOMAIN s: s[i] = [key |-> k, size |-> e[k]]  BY <1>2, <3>1
    <3>3. QED  BY <1>6, <3>2
  <2>2. QED  BY <1>7, <2>1
<1>13. \A k \in Key: t[k] = t[k] + 0  BY DEF Flows
<1>14. now(n) = [k \in Key |-> t[k] + (IF k \in D THEN e[k] ELSE 0)]
  <2>1. \A k \in Key: (IF among(k, n) THEN t[k] + e[k] ELSE t[k]) = t[k] + (IF k \in D THEN e[k] ELSE 0)
    <3> HIDE DEF among
    <3>1. QED  BY <1>12, <1>13
  <2> HIDE DEF among
  <2>2. QED  BY <2>1
<1> HIDE DEF now
<1>15. QED  BY <1>1, <1>2, <1>4, <1>5, <1>6, <1>11, <1>14

-----------------------------------------------------------------------------
(* What has been recorded *)

\* The flows recorded in r are those with a size in t.
RecordsFit(r, t) ==
    /\ r \in Seq(Entry) /\ t \in [Key -> Nat]
    /\ {r[i].key: i \in DOMAIN r} = {k \in Key: t[k] > 0}
    /\ \A i, j \in DOMAIN r: r[i].key = r[j].key => i = j
    /\ \A i \in DOMAIN r: r[i].size <= t[r[i].key]

PosEntry == [key: Key, size: Nat \ {0}]

LEMMA RecordOneFits ==
  ASSUME NEW r, NEW t, RecordsFit(r, t), NEW x \in PosEntry
  PROVE  RecordsFit(RecordOne(r, x), More(t, x.key, x.size))
<1>1. PICK k \in Key, size \in Nat: k = x.key /\ size = x.size /\ size > 0 /\ x \in Entry
  BY DEF PosEntry, Entry
<1> DEFINE m == More(t, k, size)
<1>2. t \in [Key -> Nat] /\ r \in Seq(Entry)  BY DEF RecordsFit
<1>3. m \in [Key -> Nat]  BY <1>2 DEF More
<1>4. \A j \in Key: m[j] = IF j = k THEN t[k] + size ELSE t[j]  BY <1>2 DEF More
<1>5. \A j \in Key: m[j] >= t[j] /\ (m[j] > 0 <=> t[j] > 0 \/ j = k)  BY <1>1, <1>2, <1>4
<1>6. PICK n \in Nat: n = Len(r) /\ DOMAIN r = 1 .. n  BY <1>2
<1>7. \A i \in 1 .. n: r[i].key \in Key /\ r[i].size \in Int
  <2>1. \A i \in 1 .. n: r[i] \in Entry  BY <1>2, <1>6
  <2>2. QED  BY <2>1 DEF Entry
<1> HIDE DEF m
<1>8. CASE \E i \in DOMAIN r: r[i].key = k
  <2>1. RecordOne(r, x) = r  BY <1>1, <1>8 DEF RecordOne
  <2>2. t[k] > 0  BY <1>1, <1>8 DEF RecordsFit
  <2>3. {j \in Key: m[j] > 0} = {j \in Key: t[j] > 0}  BY <1>5, <2>2
  <2>4. \A i \in DOMAIN r: r[i].size <= m[r[i].key]
    <3>1. ASSUME NEW i \in 1 .. n PROVE r[i].size <= m[r[i].key]
      <4>1. PICK j \in Key, z \in Int: j = r[i].key /\ z = r[i].size  BY <1>7
      <4>2. z <= t[j]  BY <1>6, <4>1 DEF RecordsFit
      <4>3. m[j] >= t[j] /\ m[j] \in Nat /\ t[j] \in Nat  BY <1>2, <1>3, <1>5
      <4>4. z <= m[j]  BY <4>1, <4>2, <4>3
      <4>5. QED  BY <4>1, <4>4
    <3>2. QED  BY <1>6, <3>1
  <2>5. RecordsFit(r, m)  BY <1>3, <2>3, <2>4 DEF RecordsFit
  <2>6. QED  BY <1>1, <2>1, <2>5 DEF m
<1>9. CASE ~ \E i \in DOMAIN r: r[i].key = k
  <2>1. PICK q \in Seq(Entry): q = RecordOne(r, x) /\ q = Append(r, x)
    <3>1. RecordOne(r, x) = Append(r, x)  BY <1>1, <1>9 DEF RecordOne
    <3>2. Append(r, x) \in Seq(Entry)  BY <1>1, <1>2
    <3>3. QED  BY <3>1, <3>2
  <2>2. /\ DOMAIN q = 1 .. n + 1 /\ q[n + 1] = x /\ \A i \in 1 .. n: q[i] = r[i]
    BY <1>2, <1>6, <2>1
  <2>3. \A i \in 1 .. n + 1: i \in 1 .. n \/ i = n + 1  OBVIOUS
  <2>4. {q[i].key: i \in DOMAIN q} = {j \in Key: m[j] > 0}
    <3>1. {q[i].key: i \in DOMAIN q} = {r[i].key: i \in DOMAIN r} \cup {k}
      BY <1>1, <1>6, <2>2, <2>3
    <3>2. {r[i].key: i \in DOMAIN r} = {j \in Key: t[j] > 0}  BY DEF RecordsFit
    <3>3. QED  BY <1>5, <3>1, <3>2
  <2>5. \A i, j \in DOMAIN q: q[i].key = q[j].key => i = j
    <3>1. \A i, j \in 1 .. n: r[i].key = r[j].key => i = j  BY <1>6 DEF RecordsFit
    <3>2. \A i \in 1 .. n: r[i].key # k  BY <1>6, <1>9
    <3>3. QED  BY <1>1, <2>2, <2>3, <3>1, <3>2
  <2>6. \A i \in DOMAIN q: q[i].size <= m[q[i].key]
    <3>1. ASSUME NEW i \in 1 .. n PROVE q[i].size <= m[q[i].key]
      <4>1. PICK j \in Key, z \in Int: j = r[i].key /\ z = r[i].size  BY <1>7
      <4>2. z <= t[j]  BY <1>6, <4>1 DEF RecordsFit
      <4>3. m[j] >= t[j] /\ m[j] \in Nat /\ t[j] \in Nat  BY <1>2, <1>3, <1>5
      <4>4. z <= m[j]  BY <4>1, <4>2, <4>3
      <4>5. q[i] = r[i]  BY <2>2
      <4>6. QED  BY <4>1, <4>4, <4>5
    <3>2. q[n + 1].size <= m[q[n + 1].key]
      <4>1. m[k] = t[k] + size /\ t[k] \in Nat  BY <1>2, <1>4
      <4>2. size <= m[k]  BY <4>1
      <4>3. QED  BY <1>1, <2>2, <4>2
    <3>3. QED  BY <2>2, <2>3, <3>1, <3>2
  <2>7. RecordsFit(q, m)  BY <1>3, <2>4, <2>5, <2>6 DEF RecordsFit
  <2>8. QED  BY <1>1, <2>1, <2>7 DEF m
<1>10. QED  BY <1>8, <1>9

LEMMA RecordsFitAfter ==
  ASSUME NEW r, NEW t, RecordsFit(r, t), NEW list \in Seq(PosEntry)
  PROVE  RecordsFit(Records(r, list), Tally(t, list))
<1>1. PICK n \in Nat: n = Len(list) /\ DOMAIN list = 1 .. n /\ \A i \in 1 .. n: list[i] \in PosEntry
  OBVIOUS
<1>2. list \in Seq(Entry)
  <2>1. PosEntry \subseteq Entry  BY DEF PosEntry, Entry
  <2>2. list \in [1 .. n -> Entry]  BY <1>1, <2>1
  <2>3. QED  BY <2>2, SeqDef
<1>3. r \in Seq(Entry) /\ t \in Flows
  <2>1. t \in [Key -> Nat]  BY DEF RecordsFit
  <2>2. QED  BY <2>1 DEF RecordsFit, Flows
<1>4. PICK g: RecordedBy(g, r, list) /\ Records(r, list) = g[Len(list)]  BY <1>2, <1>3, RecordSteps
<1>5. PICK h: TalliedBy(h, t, list) /\ Tally(t, list) = h[Len(list)]  BY <1>2, <1>3, TallySteps
<1> DEFINE P == {i \in 0 .. n: RecordsFit(g[i], h[i])}
<1>6. 0 \in P
  <2>1. g[0] = r /\ h[0] = t  BY <1>4, <1>5 DEF RecordedBy, TalliedBy
  <2>2. QED  BY <2>1
<1>7. ASSUME NEW i \in 0 .. n - 1, i \in P PROVE i + 1 \in P
  <2>1. i + 1 \in 1 .. n /\ i + 1 \in 0 .. n  OBVIOUS
  <2>2. PICK x \in PosEntry: x = list[i + 1]  BY <1>1, <2>1
  <2>3. g[i + 1] = RecordOne(g[i], x) /\ h[i + 1] = More(h[i], x.key, x.size)
    BY <1>1, <1>4, <1>5, <2>2 DEF RecordedBy, TalliedBy
  <2>4. RecordsFit(g[i], h[i])  BY <1>7
  <2>5. RecordsFit(RecordOne(g[i], x), More(h[i], x.key, x.size))  BY <2>4, RecordOneFits
  <2>6. QED  BY <2>1, <2>3, <2>5
<1>8. 0 .. n \subseteq P
  <2> HIDE DEF P
  <2>1. QED  BY <1>6, <1>7, UpTo
<1>9. n \in P  BY <1>8
<1>10. QED  BY <1>1, <1>4, <1>5, <1>9

-----------------------------------------------------------------------------
(* The invariant of the controller *)

InferenceTypes ==
    /\ skl \in Array /\ skl_new \in Array /\ d \in Nat
    /\ list_tmp \in SUBSET Key /\ list_ret \in Seq(PosEntry)
    /\ traffic \in [Key -> Nat] /\ taken \in [Key -> Nat]

\* The sketch is the one of what was not taken, ...
SketchInv ==
    pc \in {"threshold", "identify", "estimate", "record", "report"} =>
        skl = SketchOf(Less(traffic, taken))

\* ... and its copy the one of what was neither taken nor accepted since.
CopyInv ==
    /\ pc \in {"identify", "estimate", "record"} =>
          skl_new = SketchOf(Less(traffic, Tally(taken, list_ret)))
    /\ pc = "threshold" /\ d > 2 => skl = skl_new

InferenceInv == InferenceTypes /\ SketchInv /\ CopyInv /\ RecordsFit(detected, taken)

LEMMA FlowsOfNats == \A t \in [Key -> Nat]: t \in Flows
  BY DEF Flows

LEMMA PosEntries == \A list \in Seq(PosEntry): list \in Seq(Entry)
<1> SUFFICES ASSUME NEW list \in Seq(PosEntry) PROVE list \in Seq(Entry)  OBVIOUS
<1>1. PICK n \in Nat: list \in [1 .. n -> PosEntry]  BY SeqDef
<1>2. PosEntry \subseteq Entry  BY DEF PosEntry, Entry
<1>3. list \in [1 .. n -> Entry]  BY <1>1, <1>2
<1>4. QED  BY <1>3, SeqDef

LEMMA NothingRecorded == RecordsFit(<<>>, NoFlows)
<1>1. NoFlows \in [Key -> Nat] /\ \A k \in Key: ~ (NoFlows[k] > 0)  BY DEF NoFlows
<1>2. <<>> \in Seq(Entry) /\ DOMAIN <<>> = {}  OBVIOUS
<1>3. QED  BY <1>1, <1>2 DEF RecordsFit

LEMMA InferenceInit == InitInference => InferenceInv
<1> SUFFICES ASSUME InitInference PROVE InferenceInv  OBVIOUS
<1>1. NoFlows \in [Key -> Nat]  BY DEF NoFlows
<1>2. InferenceTypes  BY <1>1, EmptySums DEF InitInference, InferenceTypes
<1>3. SketchInv /\ CopyInv  BY DEF InitInference, SketchInv, CopyInv
<1>4. RecordsFit(detected, taken)  BY NothingRecorded DEF InitInference
<1>5. QED  BY <1>2, <1>3, <1>4 DEF InferenceInv

LEMMA ReadIntervalKeeps == InferenceInv /\ ReadInterval => InferenceInv'
<1> SUFFICES ASSUME InferenceInv, ReadInterval PROVE InferenceInv'  OBVIOUS
<1>1. PICK tr \in Traffic: traffic' = tr /\ skl' = SketchOf(tr)  BY DEF ReadInterval
<1>2. tr \in [Key -> Nat] /\ tr \in Flows  BY TrafficAssumption, FlowsOfNats
<1>3. NoFlows \in [Key -> Nat]  BY DEF NoFlows
<1>4. InferenceTypes'
  <2>1. skl' \in Array  BY <1>1, <1>2, SketchSums
  <2>2. QED  BY <1>1, <1>2, <1>3, <2>1 DEF InferenceInv, InferenceTypes, ReadInterval
<1>5. SketchInv'
  <2>1. Less(tr, NoFlows) = tr
    <3>1. \A k \in Key: tr[k] - NoFlows[k] = tr[k]  BY <1>2 DEF NoFlows
    <3>2. QED  BY <1>2, <3>1 DEF Less
  <2>2. QED  BY <1>1, <2>1 DEF SketchInv, ReadInterval
<1>6. CopyInv'  BY DEF CopyInv, ReadInterval
<1>7. RecordsFit(detected, taken)'  BY NothingRecorded DEF ReadInterval
<1>8. QED  BY <1>4, <1>5, <1>6, <1>7 DEF InferenceInv

LEMMA StartDetectKeeps == InferenceInv /\ StartDetect => InferenceInv'
<1> SUFFICES ASSUME InferenceInv, StartDetect PROVE InferenceInv'  OBVIOUS
<1>1. InferenceTypes'  BY DEF InferenceInv, InferenceTypes, StartDetect, aux
<1>2. SketchInv'  BY DEF InferenceInv, SketchInv, StartDetect, aux
<1>3. CopyInv'
  <2>1. skl = SketchOf(Less(traffic, taken))  BY DEF InferenceInv, SketchInv, StartDetect
  <2>2. Tally(taken, <<>>) = taken  BY FlowsOfNats, TallyNone DEF InferenceInv, InferenceTypes
  <2>3. taken' = taken /\ traffic' = traffic /\ list_ret' = <<>> /\ skl_new' = skl /\ pc' = "identify"
    BY DEF StartDetect, aux
  <2>4. QED  BY <2>1, <2>2, <2>3 DEF CopyInv
<1>4. RecordsFit(detected, taken)'  BY DEF InferenceInv, StartDetect, aux
<1>5. QED  BY <1>1, <1>2, <1>3, <1>4 DEF InferenceInv

LEMMA RecordFlowsKeeps == InferenceInv /\ RecordFlows => InferenceInv'
<1> SUFFICES ASSUME InferenceInv, RecordFlows PROVE InferenceInv'  OBVIOUS
<1>1. PICK f \in Array, m \in Flows, t \in Flows, list \in Seq(PosEntry), r \in Seq(Entry):
         f = skl /\ m = traffic /\ t = taken /\ list = list_ret /\ r = detected
  BY FlowsOfNats DEF InferenceInv, InferenceTypes, RecordsFit
<1>2. list \in Seq(Entry)  BY PosEntries
<1>3. f = SketchOf(Less(m, t)) /\ skl_new = SketchOf(Less(m, Tally(t, list)))
  BY <1>1 DEF InferenceInv, SketchInv, CopyInv, RecordFlows
<1>4. RemoveLarge(f, list) \in Array /\ RemoveLarge(f, list) = SketchOf(Less(m, Tally(t, list)))
  BY <1>2, <1>3, RemoveLargeIs
<1>5. RecordsFit(Records(r, list), Tally(t, list))
  <2>1. RecordsFit(r, t)  BY <1>1 DEF InferenceInv
  <2>2. QED  BY <2>1, RecordsFitAfter
<1>6. /\ detected' = Records(r, list) /\ taken' = Tally(t, list) /\ skl' = RemoveLarge(f, list)
      /\ traffic' = m /\ list_ret' = list /\ skl_new' = skl_new /\ pc' = "threshold"
  BY <1>1, RecordFlowsIs DEF RecordFlows
<1>7. InferenceTypes'
  <2>1. taken' \in [Key -> Nat]  BY <1>5, <1>6 DEF RecordsFit
  <2>2. d' = d + 1 /\ list_tmp' = list_tmp  BY DEF RecordFlows
  <2>3. QED  BY <1>1, <1>4, <1>6, <2>1, <2>2 DEF InferenceInv, InferenceTypes
<1>8. SketchInv'  BY <1>4, <1>6 DEF SketchInv
<1>9. CopyInv'  BY <1>3, <1>4, <1>6 DEF CopyInv
<1>10. RecordsFit(detected, taken)'  BY <1>5, <1>6
<1>11. QED  BY <1>7, <1>8, <1>9, <1>10 DEF InferenceInv

LEMMA IdentifyKeeps == InferenceInv /\ Identify => InferenceInv'
<1> SUFFICES ASSUME InferenceInv, Identify PROVE InferenceInv'  OBVIOUS
<1>1. list_tmp' \in SUBSET Key  BY DEF Identify, Possible
<1>2. InferenceTypes'  BY <1>1 DEF InferenceInv, InferenceTypes, Identify, aux
<1>3. SketchInv'  BY DEF InferenceInv, SketchInv, Identify, aux
<1>4. CopyInv'
  <2>1. /\ skl_new' = skl_new /\ traffic' = traffic /\ taken' = taken /\ list_ret' = list_ret
        /\ pc = "identify" /\ pc' = "estimate"
    BY DEF Identify, aux
  <2>2. QED  BY <2>1 DEF InferenceInv, CopyInv
<1>5. RecordsFit(detected, taken)'  BY DEF InferenceInv, Identify, aux
<1>6. QED  BY <1>2, <1>3, <1>4, <1>5 DEF InferenceInv

LEMMA EstimateFlowsKeeps == InferenceInv /\ EstimateFlows => InferenceInv'
<1> SUFFICES ASSUME InferenceInv, EstimateFlows PROVE InferenceInv'  OBVIOUS
<1>1. PICK f \in Array, m \in Flows, t \in Flows, list \in Seq(PosEntry), D \in SUBSET Key:
         f = skl_new /\ m = traffic /\ t = taken /\ list = list_ret /\ D = list_tmp
  BY FlowsOfNats DEF InferenceInv, InferenceTypes
<1>2. PICK est \in Estimates:
         /\ list_ret' = list_ret \o SetToSeq({[key |-> k, size |-> est[k]]: k \in Accepted(est)})
         /\ skl_new' = RemoveLarge(skl_new,
                         SetToSeq({[key |-> k, size |-> SizeToRemove(est, k)]: k \in list_tmp}))
         /\ pc' = IF Again(est) THEN "identify" ELSE "record"
  BY DEF EstimateFlows
<1>3. est \in [D -> Nat]
  <2>1. PICK M: est \in [list_tmp -> 0 .. M]  BY DEF Estimates
  <2>2. QED  BY <1>1, <2>1
<1> DEFINE A == {k \in D: est[k] > 0}
           some == [k \in A |-> est[k]]
           u == SetToSeq(EntriesOf(some, A))
           v == SetToSeq(EntriesOf(est, D))
           q == Tally(t, list)
<1>4. list_ret' = list \o u
  <2>1. Accepted(est) = A  BY <1>1 DEF Accepted
  <2>2. EntriesOf(some, A) = {[key |-> k, size |-> est[k]]: k \in A}  BY DEF EntriesOf
  <2> HIDE DEF A, some
  <2>3. QED  BY <1>1, <1>2, <2>1, <2>2
<1>5. skl_new' = RemoveLarge(f, v)
  <2>1. EntriesOf(est, D) = {[key |-> k, size |-> SizeToRemove(est, k)]: k \in list_tmp}
    BY <1>1 DEF EntriesOf, SizeToRemove
  <2>2. QED  BY <1>1, <1>2, <2>1
<1>6. A \in SUBSET Key /\ some \in [A -> Int] /\ est \in [D -> Int]  BY <1>3
<1>7. some \in [A -> Nat \ {0}]  BY <1>3
<1>8. \A k \in D: k \in A => some[k] = est[k]  OBVIOUS
<1>9. \A k \in D: k \notin A => est[k] = 0  BY <1>3
<1> HIDE DEF A, some
<1>10. q \in Flows  BY PosEntries, TallyConcat
<1>11. /\ u \in Seq(EntriesOf(some, A)) /\ u \in Seq(Entry)
       /\ Tally(q, u) = [k \in Key |-> q[k] + (IF k \in A THEN some[k] ELSE 0)]
  <2> HIDE DEF q
  <2>1. QED  BY <1>6, <1>10, TallyOnce
<1>12. /\ v \in Seq(Entry)
       /\ Tally(q, v) = [k \in Key |-> q[k] + (IF k \in D THEN est[k] ELSE 0)]
  <2> HIDE DEF q
  <2>1. QED  BY <1>6, <1>10, TallyOnce
<1>13. Tally(q, u) = Tally(q, v)
  <2>1. A \subseteq D  BY DEF A
  <2>2. \A k \in Key: (IF k \in A THEN some[k] ELSE 0) = (IF k \in D THEN est[k] ELSE 0)
    BY <1>8, <1>9, <2>1
  <2> HIDE DEF q, u, v
  <2>3. QED  BY <1>11, <1>12, <2>2
<1>14. u \in Seq(PosEntry)
  <2>1. EntriesOf(some, A) \subseteq PosEntry  BY <1>6, <1>7 DEF EntriesOf, PosEntry
  <2>2. PICK n \in Nat: u \in [1 .. n -> EntriesOf(some, A)]
    <3> HIDE DEF u
    <3>1. QED  BY <1>11, SeqDef
  <2>3. u \in [1 .. n -> PosEntry]
    <3> HIDE DEF u
    <3>1. QED  BY <2>1, <2>2
  <2> HIDE DEF u
  <2>4. QED  BY <2>3, SeqDef
<1>15. list \o u \in Seq(PosEntry)
  <2> HIDE DEF u
  <2>1. QED  BY <1>14
<1>16. Tally(t, list \o u) = Tally(q, u)
  <2> HIDE DEF u
  <2>1. QED  BY <1>11, PosEntries, TallyConcat
<1>17. f = SketchOf(Less(m, q))
  BY <1>1 DEF InferenceInv, CopyInv, EstimateFlows
<1>18. RemoveLarge(f, v) \in Array /\ RemoveLarge(f, v) = SketchOf(Less(m, Tally(q, v)))
  <2> HIDE DEF q, v
  <2>1. QED  BY <1>10, <1>12, <1>17, RemoveLargeIs
<1> HIDE DEF q, u, v
<1>19. /\ skl' = skl /\ traffic' = m /\ taken' = t /\ d' = d /\ detected' = detected /\ list_tmp' = {}
       /\ pc = "estimate" /\ pc' \in {"identify", "record"}
  BY <1>1, <1>2 DEF EstimateFlows, aux
<1>20. InferenceTypes'
  BY <1>1, <1>4, <1>5, <1>15, <1>18, <1>19 DEF InferenceInv, InferenceTypes
<1>21. SketchInv'  BY <1>1, <1>19 DEF InferenceInv, SketchInv
<1>22. CopyInv'  BY <1>4, <1>5, <1>13, <1>16, <1>18, <1>19 DEF CopyInv
<1>23. RecordsFit(detected, taken)'  BY <1>1, <1>19 DEF InferenceInv
<1>24. QED  BY <1>20, <1>21, <1>22, <1>23 DEF InferenceInv

\* A step that ends a loop, or an interval.
LEMMA RestKeeps ==
  ASSUME InferenceInv, UNCHANGED <<skl, skl_new, d, list_tmp, list_ret, detected, aux>>,
         \/ pc' = pc
         \/ pc' \in {"interval", "done"}
         \/ pc \in {"threshold", "record"} /\ pc' = "report"
  PROVE  InferenceInv'
<1>1. InferenceTypes'  BY DEF InferenceInv, InferenceTypes, aux
<1>2. SketchInv'  BY DEF InferenceInv, SketchInv, aux
<1>3. CopyInv'  BY DEF InferenceInv, CopyInv, aux
<1>4. RecordsFit(detected, taken)'  BY DEF InferenceInv, aux
<1>5. QED  BY <1>1, <1>2, <1>3, <1>4 DEF InferenceInv

LEMMA NextInferenceKeeps == InferenceInv /\ [NextInference]_inferenceVars => InferenceInv'
<1> SUFFICES ASSUME InferenceInv, [NextInference]_inferenceVars PROVE InferenceInv'  OBVIOUS
<1>1. CASE ReadInterval  BY <1>1, ReadIntervalKeeps
<1>2. CASE AllRead  BY <1>2, RestKeeps DEF AllRead
<1>3. CASE StartDetect  BY <1>3, StartDetectKeeps
<1>4. CASE StopLow  BY <1>4, RestKeeps DEF StopLow
<1>5. CASE RecordFlows  BY <1>5, RecordFlowsKeeps
<1>6. CASE NoFlowFound  BY <1>6, RestKeeps DEF NoFlowFound
<1>7. CASE Report  BY <1>7, RestKeeps DEF Report
<1>8. CASE Identify  BY <1>8, IdentifyKeeps
<1>9. CASE EstimateFlows  BY <1>9, EstimateFlowsKeeps
<1>10. CASE UNCHANGED inferenceVars  BY <1>10, RestKeeps DEF inferenceVars
<1>11. QED
  BY <1>1, <1>2, <1>3, <1>4, <1>5, <1>6, <1>7, <1>8, <1>9, <1>10 DEF NextInference

\* The types, what the sketch and its copy are sketches of, and that what is
\* recorded is what was taken.
THEOREM InferenceInvariance == SpecInference => []InferenceInv
<1>1. InitInference => InferenceInv  BY InferenceInit
<1>2. InferenceInv /\ [NextInference]_inferenceVars => InferenceInv'  BY NextInferenceKeeps
<1>3. QED  BY <1>1, <1>2, PTL DEF SpecInference

LEMMA RemainderHolds == InferenceInv => SketchIsRemainder
  BY DEF InferenceInv, SketchInv, CopyInv, SketchIsRemainder, Less

\* At every threshold, of every interval, the sketch is the completed sketch of the
\* traffic less what was taken from it, and equal to the copy from which flows were
\* removed loop by loop (controller.c:37-42, 64-67, 88-112, 183).
THEOREM SketchIsRemainderHolds == SpecInference => []SketchIsRemainder
  BY InferenceInvariance, RemainderHolds, PTL

LEMMA RecordedHolds == InferenceInv => RecordedWereTaken
  BY DEF InferenceInv, RecordsFit, RecordedWereTaken

\* The flows recorded are those taken from the sketch, each once, and none with more
\* than was taken (controller.c:158-183).
THEOREM RecordedWereTakenHolds == SpecInference => []RecordedWereTaken
  BY InferenceInvariance, RecordedHolds, PTL
=============================================================================
