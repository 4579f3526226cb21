------------------------------ MODULE Counters ------------------------------
(***************************************************************************)
(* The counters of a sketch (alg_sketchlearn.c) and the functions of them  *)
(* the program computes.  A sketch has depth rows of width buckets; a      *)
(* bucket counts the total size of the keys hashed to it, and for every    *)
(* bit of a key the size of those with the bit set and, after              *)
(* SKL_CompleteZeroes, of those with the bit clear.  Counters are int32_t: *)
(* additions wrap.                                                         *)
(***************************************************************************)
EXTENDS Integers, FiniteSets, FiniteSetsExt

CONSTANTS
    Key,         \* flow keys
    Depth, Width,
    Hash,        \* Hash[r][k]: the bucket of row r that AwareHash sends k to
    Bit,         \* the bits of a key, 1 .. lgn
    BitsOf,      \* BitsOf[k]: the bits that are set in k
    Limit        \* 2^31: an int32_t lies in -Limit .. Limit - 1

Row == 1 .. Depth
Bucket == Row \X (0 .. Width - 1)

ASSUME CountersAssumption ==
    /\ Depth \in Nat \ {0} /\ Width \in Nat \ {0}
    /\ Hash \in [Row -> [Key -> 0 .. Width - 1]]
    /\ BitsOf \in [Key -> SUBSET Bit]
    /\ IsFiniteSet(Key)
    /\ Limit \in Nat \ {0}

Int32 == -Limit .. Limit - 1

\* Two's complement, 2 * Limit values wide.
Wrap(x) == ((x + Limit) % (2 * Limit)) - Limit

\* The places of one bucket's array: 0, 1 .. lgn and lgn + 1 .. 2 * lgn.
Counter == {<<"total", 0>>} \cup ({"set", "clear"} \X Bit)
Array == [Bucket -> [Counter -> Int32]]

\* calloc of the counters.
Empty == [b \in Bucket |-> [c \in Counter |-> 0]]

\* f and sign times g, counter by counter.
Plus(f, sign, g) == [x \in DOMAIN f |-> Wrap(f[x] + sign * g[x])]

\* SKL_Update: loginsert for the bucket k falls in in every row.
Counted(f, k, diff) ==
    [b \in Bucket |->
        IF Hash[b[1]][k] # b[2] THEN f[b]
        ELSE [c \in Counter |->
                IF c[1] = "total" \/ (c[1] = "set" /\ c[2] \in BitsOf[k])
                THEN Wrap(f[b][c] + diff) ELSE f[b][c]]]

\* Wrong: the last bit is left out.
CompletedShort(f) ==
    [b \in Bucket |-> [c \in Counter |->
        IF c[1] = "clear" /\ \E i \in Bit: i > c[2]
        THEN Wrap(f[b][<<"total", 0>>] - f[b][<<"set", c[2]>>]) ELSE f[b][c]]]

\* SKL_CompleteZeroes.
Completed(f) ==
    [b \in Bucket |-> [c \in Counter |->
        IF c[1] = "clear"
        THEN Wrap(f[b][<<"total", 0>>] - f[b][<<"set", c[2]>>]) ELSE f[b][c]]]

\* Wrong: the sum is taken in a wider type.
ConsistentWide(f) ==
    \A b \in Bucket, i \in Bit:
        f[b][<<"total", 0>>] = f[b][<<"set", i>>] + f[b][<<"clear", i>>]

\* The check SKL_ReadFile makes for every bit.
Consistent(f) ==
    \A b \in Bucket, i \in Bit:
        f[b][<<"total", 0>>] = Wrap(f[b][<<"set", i>>] + f[b][<<"clear", i>>])

-----------------------------------------------------------------------------
(* SKL_Identify_Thresh, for a threshold of 1/d *)

\* The smallest counter a key counts towards, over the rows and the bits.
Estimate(f, k) ==
    Min(UNION {
        {f[<<r, Hash[r][k]>>][c]:
            c \in {<<"total", 0>>} \cup ({"set"} \X BitsOf[k])
                                   \cup ({"clear"} \X (Bit \ BitsOf[k]))}: r \in Row})

\* skl_find_key_bits is certain that bit i of the large flow of bucket b is
\* set, or that it is clear; otherwise it compares two probabilities.  The
\* code compares in double precision; here comparisons are exact.
LooksSet(f, b, i, d) == d * f[b][<<"set", i>>] >= (d - 1) * f[b][<<"total", 0>>]

\* Wrong: the first half of the array is read twice.
LooksClearFirstHalf(f, b, i, d) ==
    /\ ~ LooksSet(f, b, i, d)
    /\ d * f[b][<<"set", i>>] >= (d - 1) * f[b][<<"total", 0>>]

LooksClear(f, b, i, d) ==
    /\ ~ LooksSet(f, b, i, d)
    /\ d * f[b][<<"clear", i>>] >= (d - 1) * f[b][<<"total", 0>>]

Certain(f, b, d) == {i \in Bit: LooksSet(f, b, i, d) \/ LooksClear(f, b, i, d)}

\* k has the bits that are certain in bucket b, which it falls in, and its
\* estimate passes the threshold there.  Bits that are not certain may be
\* tried both ways, or not at all when there are too many.
MayGuess(f, b, k, d) ==
    /\ Hash[b[1]][k] = b[2]
    /\ \A i \in Certain(f, b, d): LooksSet(f, b, i, d) <=> i \in BitsOf[k]
    /\ d * Estimate(f, k) >= f[b][<<"total", 0>>]

\* The results lie between these two sets.
Possible(f, d) == {k \in Key: \E b \in Bucket: MayGuess(f, b, k, d)}

Sure(f, d) == {k \in Key: \E b \in Bucket: MayGuess(f, b, k, d) /\ Certain(f, b, d) = Bit}
=============================================================================
