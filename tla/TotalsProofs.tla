---------------------------- MODULE TotalsProofs ----------------------------
(***************************************************************************)
(* What a sum over a finite set does: it can be taken in any order, over   *)
(* parts, and is no less than what is added up if none of it is negative.  *)
(* MapThenSumSet is a recursive function of a set, which takes its keys in *)
(* an order of its own.  The library's theorems about induction take an    *)
(* operator; here sets of sets stand for what is shown by induction.       *)
(* The same for folds of other operators, where the order does matter.     *)
(***************************************************************************)
EXTENDS Totals, Integers, FiniteSets, FiniteSetTheorems, WellFoundedInduction, TLAPS

LEMMA LeastNumber ==
  ASSUME NEW S \in SUBSET Nat, S # {}
  PROVE  \E x \in S: \A y \in S: x <= y
<1>1. PICK x \in S: \A y \in S: ~ (<<y, x>> \in OpToRel(<, Nat))
  BY NatLessThanWellFounded, WFMin
<1>2. \A y \in S: x <= y
  <2>1. ASSUME NEW y \in S, y < x PROVE FALSE
    <3>1. <<y, x>> \in OpToRel(<, Nat)  BY <2>1 DEF OpToRel
    <3>2. QED  BY <1>1, <3>1
  <2>2. QED  BY <2>1
<1>3. QED  BY <1>2

\* What holds of a set when it holds of its proper subsets holds of all subsets
\* of a finite set.
LEMMA SubsetInduction ==
  ASSUME NEW K, IsFiniteSet(K), NEW P,
         \A S \in SUBSET K: (\A R \in SUBSET S: R # S => R \in P) => S \in P
  PROVE  SUBSET K \subseteq P
<1> DEFINE Bad == {n \in Nat: \E S \in SUBSET K: Cardinality(S) = n /\ S \notin P}
<1>1. SUFFICES ASSUME NEW S \in SUBSET K, S \notin P PROVE FALSE  OBVIOUS
<1>2. \A T \in SUBSET K: IsFiniteSet(T) /\ Cardinality(T) \in Nat
  BY FS_Subset, FS_CardinalityType
<1>3. Bad # {}  BY <1>1, <1>2
<1>4. PICK n \in Bad: \A m \in Bad: n <= m
  <2>1. Bad \in SUBSET Nat  OBVIOUS
  <2> HIDE DEF Bad
  <2>2. QED  BY <1>3, <2>1, LeastNumber
<1>5. PICK T \in SUBSET K: Cardinality(T) = n /\ T \notin P  OBVIOUS
<1>6. ASSUME NEW R \in SUBSET T, R # T PROVE R \in P
  <2>1. IsFiniteSet(T) /\ R \in SUBSET K  BY <1>2, <1>5
  <2>2. Cardinality(R) < n  BY <1>2, <1>5, <1>6, <2>1, FS_Subset
  <2>3. Cardinality(R) \in Nat  BY <1>2, <2>1
  <2>4. Cardinality(R) \notin Bad  BY <1>4, <2>2, <2>3
  <2>5. QED  BY <2>1, <2>3, <2>4
<1>7. QED  BY <1>5, <1>6

Chosen(s) == CHOOSE x \in s: TRUE

\* The equation of the recursive function in MapThenSumSet.
SumsUp(F, g, S) ==
    F = [s \in SUBSET S |-> IF s = {} THEN 0 ELSE g[Chosen(s)] + F[s \ {Chosen(s)}]]

LEMMA TotalIsSum ==
  ASSUME NEW g, NEW S
  PROVE  Total(g, S) = (CHOOSE F: SumsUp(F, g, S))[S]
BY DEF Total, MapThenSumSet, MapThenFoldSet, SumsUp, Chosen

LEMMA SumsAgree ==
  ASSUME NEW K, IsFiniteSet(K), NEW g, NEW F, SumsUp(F, g, K),
         NEW S \in SUBSET K, NEW H, SumsUp(H, g, S)
  PROVE  \A s \in SUBSET S: H[s] = F[s]
<1> DEFINE P == {s \in SUBSET S: H[s] = F[s]}
<1>1. IsFiniteSet(S)  BY FS_Subset
<1>2. ASSUME NEW s \in SUBSET S, \A r \in SUBSET s: r # s => r \in P
      PROVE  H[s] = F[s]
  <2>1. H[s] = IF s = {} THEN 0 ELSE g[Chosen(s)] + H[s \ {Chosen(s)}]  BY DEF SumsUp
  <2>2. F[s] = IF s = {} THEN 0 ELSE g[Chosen(s)] + F[s \ {Chosen(s)}]
    <3>1. s \in SUBSET K  OBVIOUS
    <3>2. QED  BY <3>1 DEF SumsUp
  <2>3. s # {} => H[s \ {Chosen(s)}] = F[s \ {Chosen(s)}]
    <3>1. s # {} => Chosen(s) \in s  BY DEF Chosen
    <3>2. QED  BY <1>2, <3>1
  <2>4. QED  BY <2>1, <2>2, <2>3
<1>3. \A s \in SUBSET S: (\A r \in SUBSET s: r # s => r \in P) => s \in P  BY <1>2
<1>4. SUBSET S \subseteq P
  <2> HIDE DEF P
  <2>1. QED  BY <1>1, <1>3, SubsetInduction
<1>5. QED  BY <1>4

\* There is such a function.
LEMMA SumExists ==
  ASSUME NEW K, IsFiniteSet(K), NEW g
  PROVE  \E F: SumsUp(F, g, K)
<1> DEFINE P == {S \in SUBSET K: \E F: SumsUp(F, g, S)}
<1>1. ASSUME NEW S \in SUBSET K, \A R \in SUBSET S: R # S => R \in P
      PROVE  \E F: SumsUp(F, g, S)
  <2> DEFINE sum(R) == CHOOSE F: SumsUp(F, g, R)
             below(s) == s \ {Chosen(s)}
             E == [s \in SUBSET S |-> IF s = {} THEN 0 ELSE g[Chosen(s)] + sum(below(s))[below(s)]]
  <2>1. \A R \in SUBSET S: R # S => SumsUp(sum(R), g, R)  BY <1>1
  <2>2. \A s \in SUBSET S: s # {} => Chosen(s) \in s /\ below(s) \in SUBSET S /\ below(s) # S
    BY DEF Chosen
  <2>3. ASSUME NEW s \in SUBSET S, s # S PROVE E[s] = sum(s)[s]
    <3>1. SumsUp(sum(s), g, s)  BY <2>1, <2>3
    <3> DEFINE F == sum(s)
    <3>2. F[s] = IF s = {} THEN 0 ELSE g[Chosen(s)] + F[below(s)]
      <4>1. SumsUp(F, g, s)  BY <3>1
      <4> HIDE DEF F
      <4>2. QED  BY <4>1 DEF SumsUp
    <3>3. ASSUME s # {} PROVE F[below(s)] = sum(below(s))[below(s)]
      <4>1. SumsUp(sum(below(s)), g, below(s))  BY <2>1, <2>2, <3>3
      <4> DEFINE H == sum(below(s))
      <4>2. SumsUp(H, g, below(s)) /\ SumsUp(F, g, s)  BY <3>1, <4>1
      <4>3. IsFiniteSet(s) /\ below(s) \in SUBSET s
        <5>1. s \in SUBSET K  OBVIOUS
        <5>2. QED  BY <5>1, FS_Subset
      <4> HIDE DEF H, F, below
      <4>4. QED  BY <4>2, <4>3, SumsAgree DEF H
    <3>4. E[s] = IF s = {} THEN 0 ELSE g[Chosen(s)] + sum(below(s))[below(s)]  OBVIOUS
    <3> HIDE DEF sum, below, E
    <3>5. QED  BY <3>2, <3>3, <3>4 DEF F
  <2>4. \A s \in SUBSET S: E[s] = IF s = {} THEN 0 ELSE g[Chosen(s)] + E[below(s)]
    <3>1. ASSUME NEW s \in SUBSET S, s # {} PROVE E[s] = g[Chosen(s)] + E[below(s)]
      <4>1. E[below(s)] = sum(below(s))[below(s)]
        <5>1. below(s) \in SUBSET S /\ below(s) # S  BY <2>2, <3>1
        <5> HIDE DEF sum, below, E
        <5>2. QED  BY <2>3, <5>1
      <4>2. E[s] = g[Chosen(s)] + sum(below(s))[below(s)]  BY <3>1
      <4> HIDE DEF sum, below, E
      <4>3. QED  BY <4>1, <4>2
    <3>2. ASSUME NEW s \in SUBSET S, s = {} PROVE E[s] = 0  BY <3>2
    <3> HIDE DEF sum, below, E
    <3>3. QED  BY <3>1, <3>2
  <2>5. SumsUp(E, g, S)
    <3>1. E = [s \in SUBSET S |-> E[s]]  OBVIOUS
    <3> HIDE DEF E
    <3>2. QED  BY <2>4, <3>1 DEF SumsUp
  <2>6. QED  BY <2>5
<1>2. \A S \in SUBSET K: (\A R \in SUBSET S: R # S => R \in P) => S \in P  BY <1>1
<1>3. SUBSET K \subseteq P
  <2> HIDE DEF P
  <2>1. QED  BY <1>2, SubsetInduction
<1>4. QED  BY <1>3

LEMMA TotalOfNone == \A g: Total(g, {}) = 0
<1> SUFFICES ASSUME NEW g PROVE Total(g, {}) = 0  OBVIOUS
<1>1. IsFiniteSet({})  BY FS_EmptySet
<1>2. \E F: SumsUp(F, g, {})  BY <1>1, SumExists
<1> DEFINE F == CHOOSE F: SumsUp(F, g, {})
<1>3. SumsUp(F, g, {})  BY <1>2
<1>4. F[{}] = 0
  <2> HIDE DEF F
  <2>1. QED  BY <1>3 DEF SumsUp
<1>5. QED  BY <1>4, TotalIsSum

\* The equation in terms of Total.
LEMMA TotalStep ==
  ASSUME NEW K, IsFiniteSet(K), NEW g, NEW S \in SUBSET K, S # {}
  PROVE  Total(g, S) = g[Chosen(S)] + Total(g, S \ {Chosen(S)})
<1> DEFINE sum(R) == CHOOSE F: SumsUp(F, g, R)
           F == sum(S)
           below == S \ {Chosen(S)}
           H == sum(below)
<1>1. IsFiniteSet(S) /\ IsFiniteSet(below)  BY FS_Subset, FS_RemoveElement
<1>2. SumsUp(F, g, S)  BY <1>1, SumExists
<1>3. SumsUp(H, g, below)  BY <1>1, SumExists
<1>4. Total(g, S) = F[S] /\ Total(g, below) = H[below]  BY TotalIsSum
<1>5. F[S] = g[Chosen(S)] + F[below]
  <2> HIDE DEF F
  <2>1. QED  BY <1>2 DEF SumsUp
<1>6. H[below] = F[below]
  <2>1. below \in SUBSET S  OBVIOUS
  <2> HIDE DEF F, H, below
  <2>2. QED  BY <1>1, <1>2, <1>3, <2>1, SumsAgree
<1>7. QED  BY <1>4, <1>5, <1>6

LEMMA TotalType ==
  ASSUME NEW K, IsFiniteSet(K), NEW g \in [K -> Int], NEW T \in SUBSET K
  PROVE  Total(g, T) \in Int
<1> DEFINE P == {S \in SUBSET K: Total(g, S) \in Int}
<1>1. ASSUME NEW S \in SUBSET K, \A R \in SUBSET S: R # S => R \in P
      PROVE  Total(g, S) \in Int
  <2>1. CASE S = {}  BY <2>1, TotalOfNone
  <2>2. CASE S # {}
    <3>1. Chosen(S) \in S  BY <2>2 DEF Chosen
    <3>2. Total(g, S \ {Chosen(S)}) \in Int  BY <1>1, <3>1
    <3>3. g[Chosen(S)] \in Int  BY <3>1
    <3>4. QED  BY <2>2, <3>2, <3>3, TotalStep
  <2>3. QED  BY <2>1, <2>2
<1>2. \A S \in SUBSET K: (\A R \in SUBSET S: R # S => R \in P) => S \in P  BY <1>1
<1>3. SUBSET K \subseteq P
  <2> HIDE DEF P
  <2>1. QED  BY <1>2, SubsetInduction
<1>4. QED  BY <1>3

\* Any key may be taken out first: the order of a sum does not matter.
LEMMA TotalRemove ==
  ASSUME NEW K, IsFiniteSet(K), NEW g \in [K -> Int], NEW T \in SUBSET K, NEW x \in T
  PROVE  Total(g, T) = g[x] + Total(g, T \ {x})
<1> DEFINE P == {S \in SUBSET K: \A y \in S: Total(g, S) = g[y] + Total(g, S \ {y})}
<1>1. ASSUME NEW S \in SUBSET K, \A R \in SUBSET S: R # S => R \in P, NEW y \in S
      PROVE  Total(g, S) = g[y] + Total(g, S \ {y})
  <2>1. PICK c \in S: c = Chosen(S)  BY DEF Chosen
  <2>2. Total(g, S) = g[c] + Total(g, S \ {c})  BY <2>1, TotalStep
  <2>3. CASE c = y  BY <2>2, <2>3
  <2>4. CASE c # y
    <3>1. y \in S \ {c} /\ S \ {c} \in SUBSET S /\ S \ {c} # S  BY <2>4
    <3>2. Total(g, S \ {c}) = g[y] + Total(g, (S \ {c}) \ {y})  BY <1>1, <3>1
    <3>3. c \in S \ {y} /\ S \ {y} \in SUBSET S /\ S \ {y} # S  BY <2>4
    <3>4. Total(g, S \ {y}) = g[c] + Total(g, (S \ {y}) \ {c})  BY <1>1, <3>3
    <3>5. (S \ {c}) \ {y} = (S \ {y}) \ {c}  OBVIOUS
    <3>6. PICK t \in Int: t = Total(g, (S \ {y}) \ {c})
      <4>1. (S \ {y}) \ {c} \in SUBSET K  OBVIOUS
      <4>2. QED  BY <4>1, TotalType
    <3>7. g[c] \in Int /\ g[y] \in Int  OBVIOUS
    <3>8. Total(g, S) = g[c] + (g[y] + t)  BY <2>2, <3>2, <3>5, <3>6
    <3>9. Total(g, S \ {y}) = g[c] + t  BY <3>4, <3>6
    <3>10. QED  BY <3>6, <3>7, <3>8, <3>9
  <2>5. QED  BY <2>3, <2>4
<1>2. \A S \in SUBSET K: (\A R \in SUBSET S: R # S => R \in P) => S \in P  BY <1>1
<1>3. SUBSET K \subseteq P
  <2> HIDE DEF P
  <2>1. QED  BY <1>2, SubsetInduction
<1>4. QED  BY <1>3

\* Induction over the subsets of a finite set, one key at a time.
LEMMA KeysOneByOne ==
  ASSUME NEW K, IsFiniteSet(K), NEW P, {} \in P,
         \A S \in SUBSET K: \A x \in S: S \ {x} \in P => S \in P
  PROVE  SUBSET K \subseteq P
<1>1. ASSUME NEW S \in SUBSET K, \A R \in SUBSET S: R # S => R \in P
      PROVE  S \in P
  <2>1. CASE S = {}  BY <2>1
  <2>2. CASE S # {}
    <3>1. PICK x \in S: TRUE  BY <2>2
    <3>2. S \ {x} \in P  BY <1>1, <3>1
    <3>3. QED  BY <3>1, <3>2
  <2>3. QED  BY <2>1, <2>2
<1>2. QED  BY <1>1, SubsetInduction

\* The sum over two sets of keys that have none in common.
LEMMA TotalSplit ==
  ASSUME NEW K, IsFiniteSet(K), NEW g \in [K -> Int], NEW A \in SUBSET K, NEW B \in SUBSET K, A \cap B = {}
  PROVE  Total(g, A \cup B) = Total(g, A) + Total(g, B)
<1> DEFINE P == {S \in SUBSET K: S \cap B = {} => Total(g, S \cup B) = Total(g, S) + Total(g, B)}
<1>1. {} \in P
  <2>1. Total(g, {}) = 0 /\ Total(g, B) \in Int /\ {} \cup B = B  BY TotalOfNone, TotalType
  <2>2. QED  BY <2>1
<1>2. ASSUME NEW S \in SUBSET K, NEW x \in S, S \ {x} \in P, S \cap B = {}
      PROVE  Total(g, S \cup B) = Total(g, S) + Total(g, B)
  <2>1. (S \cup B) \ {x} = (S \ {x}) \cup B /\ (S \ {x}) \cap B = {} /\ x \in S \cup B  BY <1>2
  <2>2. Total(g, (S \ {x}) \cup B) = Total(g, S \ {x}) + Total(g, B)  BY <1>2, <2>1
  <2>3. Total(g, S \cup B) = g[x] + Total(g, (S \ {x}) \cup B)
    <3>1. S \cup B \in SUBSET K  OBVIOUS
    <3>2. QED  BY <2>1, <3>1, TotalRemove
  <2>4. Total(g, S) = g[x] + Total(g, S \ {x})  BY TotalRemove
  <2>5. g[x] \in Int /\ Total(g, S \ {x}) \in Int /\ Total(g, B) \in Int
    <3>1. S \ {x} \in SUBSET K  OBVIOUS
    <3>2. QED  BY <3>1, TotalType
  <2>6. QED  BY <2>2, <2>3, <2>4, <2>5
<1>3. \A S \in SUBSET K: \A x \in S: S \ {x} \in P => S \in P  BY <1>2
<1>4. SUBSET K \subseteq P
  <2> HIDE DEF P
  <2>1. QED  BY <1>1, <1>3, KeysOneByOne
<1>5. QED  BY <1>4

\* The sum of sizes that are not negative is not less than any of them.
LEMMA TotalCovers ==
  ASSUME NEW K, IsFiniteSet(K), NEW g \in [K -> Nat], NEW T \in SUBSET K
  PROVE  Total(g, T) \in Nat /\ \A x \in T: g[x] <= Total(g, T)
<1> DEFINE P == {S \in SUBSET K: Total(g, S) \in Nat}
<1>1. {} \in P  BY TotalOfNone
<1>2. g \in [K -> Int]  OBVIOUS
<1>3. ASSUME NEW S \in SUBSET K, NEW x \in S, S \ {x} \in P PROVE S \in P
  <2>1. Total(g, S) = g[x] + Total(g, S \ {x})  BY <1>2, TotalRemove
  <2>2. g[x] \in Nat  OBVIOUS
  <2>3. QED  BY <1>3, <2>1, <2>2
<1>4. SUBSET K \subseteq P
  <2> HIDE DEF P
  <2>1. QED  BY <1>1, <1>3, KeysOneByOne
<1>5. ASSUME NEW x \in T PROVE g[x] <= Total(g, T)
  <2>1. T \ {x} \in P  BY <1>4
  <2>2. Total(g, T \ {x}) \in Nat /\ g[x] \in Nat  BY <2>1
  <2>3. Total(g, T) = g[x] + Total(g, T \ {x})  BY <1>2, TotalRemove
  <2>4. QED  BY <2>2, <2>3
<1>6. QED  BY <1>4, <1>5
\* A sum is of the sizes of its keys, and of nothing else.
LEMMA TotalAgrees ==
  ASSUME NEW K, IsFiniteSet(K), NEW g, NEW h, \A k \in K: g[k] = h[k]
  PROVE  \A S \in SUBSET K: Total(g, S) = Total(h, S)
<1> DEFINE P == {S \in SUBSET K: Total(g, S) = Total(h, S)}
<1>1. ASSUME NEW S \in SUBSET K, \A R \in SUBSET S: R # S => R \in P
      PROVE  Total(g, S) = Total(h, S)
  <2>1. CASE S = {}  BY <2>1, TotalOfNone
  <2>2. CASE S # {}
    <3>1. Chosen(S) \in S  BY <2>2 DEF Chosen
    <3>2. Total(g, S \ {Chosen(S)}) = Total(h, S \ {Chosen(S)})  BY <1>1, <3>1
    <3>3. Total(g, S) = g[Chosen(S)] + Total(g, S \ {Chosen(S)})  BY <2>2, TotalStep
    <3>4. Total(h, S) = h[Chosen(S)] + Total(h, S \ {Chosen(S)})  BY <2>2, TotalStep
    <3>5. QED  BY <3>1, <3>2, <3>3, <3>4
  <2>3. QED  BY <2>1, <2>2
<1>2. \A S \in SUBSET K: (\A R \in SUBSET S: R # S => R \in P) => S \in P  BY <1>1
<1>3. SUBSET K \subseteq P
  <2> HIDE DEF P
  <2>1. QED  BY <1>2, SubsetInduction
<1>4. QED  BY <1>3

\* One more key.
LEMMA TotalAdd ==
  ASSUME NEW K, IsFiniteSet(K), NEW g, \A k \in K: g[k] \in Nat \ {0},
         NEW S \in SUBSET K, NEW x \in K, x \notin S
  PROVE  /\ Total(g, S \cup {x}) = g[x] + Total(g, S)
         /\ Total(g, S) \in Nat /\ (S # {} => Total(g, S) > 0)
<1> DEFINE h == [k \in K |-> g[k]]
<1>1. h \in [K -> Nat] /\ \A k \in K: g[k] = h[k] /\ h[k] > 0  OBVIOUS
<1>2. S \cup {x} \in SUBSET K /\ (S \cup {x}) \ {x} = S /\ x \in S \cup {x}  OBVIOUS
<1> HIDE DEF h
<1>3. h \in [K -> Int]  BY <1>1
<1>4. \A T \in SUBSET K: Total(g, T) = Total(h, T)  BY <1>1, TotalAgrees
<1>5. Total(h, S) \in Nat /\ \A y \in S: h[y] <= Total(h, S)  BY <1>1, TotalCovers
<1>6. Total(h, S \cup {x}) = h[x] + Total(h, S)
  <2>1. Total(h, S \cup {x}) = h[x] + Total(h, (S \cup {x}) \ {x})  BY <1>2, <1>3, TotalRemove
  <2>2. QED  BY <1>2, <2>1
<1>7. S # {} => Total(h, S) > 0
  <2>1. SUFFICES ASSUME NEW y \in S PROVE Total(h, S) > 0  OBVIOUS
  <2>2. h[y] \in Nat /\ h[y] > 0 /\ h[y] <= Total(h, S)  BY <1>1, <1>5
  <2>3. QED  BY <1>5, <2>2
<1>8. QED  BY <1>1, <1>2, <1>4, <1>5, <1>6, <1>7

-----------------------------------------------------------------------------
(* Folds of other operators *)

\* The equation of the recursive function in MapThenFoldSet, with a function for
\* the operator and one for the choice.
FoldsUp(F, base, step, pick, S) ==
    F = [s \in SUBSET S |-> IF s = {} THEN base ELSE step[<<F[s \ {pick[s]}], pick[s]>>]]

LEMMA FoldsAgree ==
  ASSUME NEW K, IsFiniteSet(K), NEW base, NEW step, NEW pick,
         \A s \in SUBSET K: s # {} => pick[s] \in s,
         NEW F, FoldsUp(F, base, step, pick, K),
         NEW S \in SUBSET K, NEW H, FoldsUp(H, base, step, pick, S)
  PROVE  \A s \in SUBSET S: H[s] = F[s]
<1> DEFINE P == {s \in SUBSET S: H[s] = F[s]}
<1>1. IsFiniteSet(S)  BY FS_Subset
<1>2. ASSUME NEW s \in SUBSET S, \A r \in SUBSET s: r # s => r \in P
      PROVE  H[s] = F[s]
  <2>1. H[s] = IF s = {} THEN base ELSE step[<<H[s \ {pick[s]}], pick[s]>>]  BY DEF FoldsUp
  <2>2. F[s] = IF s = {} THEN base ELSE step[<<F[s \ {pick[s]}], pick[s]>>]
    <3>1. s \in SUBSET K  OBVIOUS
    <3>2. QED  BY <3>1 DEF FoldsUp
  <2>3. s # {} => H[s \ {pick[s]}] = F[s \ {pick[s]}]
    <3>1. s # {} => pick[s] \in s  OBVIOUS
    <3>2. QED  BY <1>2, <3>1
  <2>4. QED  BY <2>1, <2>2, <2>3
<1>3. \A s \in SUBSET S: (\A r \in SUBSET s: r # s => r \in P) => s \in P  BY <1>2
<1>4. SUBSET S \subseteq P
  <2> HIDE DEF P
  <2>1. QED  BY <1>1, <1>3, SubsetInduction
<1>5. QED  BY <1>4

LEMMA FoldExists ==
  ASSUME NEW K, IsFiniteSet(K), NEW base, NEW step, NEW pick,
         \A s \in SUBSET K: s # {} => pick[s] \in s
  PROVE  \E F: FoldsUp(F, base, step, pick, K)
<1> DEFINE P == {S \in SUBSET K: \E F: FoldsUp(F, base, step, pick, S)}
<1>1. ASSUME NEW S \in SUBSET K, \A R \in SUBSET S: R # S => R \in P
      PROVE  \E F: FoldsUp(F, base, step, pick, S)
  <2> DEFINE fold(R) == CHOOSE F: FoldsUp(F, base, step, pick, R)
             below(s) == s \ {pick[s]}
             E == [s \in SUBSET S |-> IF s = {} THEN base
                                      ELSE step[<<fold(below(s))[below(s)], pick[s]>>]]
  <2>1. \A R \in SUBSET S: R # S => FoldsUp(fold(R), base, step, pick, R)  BY <1>1
  <2>2. \A s \in SUBSET S: s # {} => pick[s] \in s /\ below(s) \in SUBSET S /\ below(s) # S
    OBVIOUS
  <2>3. ASSUME NEW s \in SUBSET S, s # S PROVE E[s] = fold(s)[s]
    <3>1. FoldsUp(fold(s), base, step, pick, s)  BY <2>1, <2>3
    <3> DEFINE F == fold(s)
    <3>2. F[s] = IF s = {} THEN base ELSE step[<<F[below(s)], pick[s]>>]
      <4>1. FoldsUp(F, base, step, pick, s)  BY <3>1
      <4> HIDE DEF F
      <4>2. QED  BY <4>1 DEF FoldsUp
    <3>3. ASSUME s # {} PROVE F[below(s)] = fold(below(s))[below(s)]
      <4>1. FoldsUp(fold(below(s)), base, step, pick, below(s))  BY <2>1, <2>2, <3>3
      <4> DEFINE H == fold(below(s))
      <4>2. FoldsUp(H, base, step, pick, below(s)) /\ FoldsUp(F, base, step, pick, s)
        BY <3>1, <4>1
      <4>3. IsFiniteSet(s) /\ below(s) \in SUBSET s
        <5>1. s \in SUBSET K  OBVIOUS
        <5>2. QED  BY <5>1, FS_Subset
      <4>4. \A r \in SUBSET s: r # {} => pick[r] \in r  OBVIOUS
      <4> HIDE DEF H, F, below
      <4>5. QED  BY <4>2, <4>3, <4>4, FoldsAgree DEF H
    <3>4. E[s] = IF s = {} THEN base ELSE step[<<fold(below(s))[below(s)], pick[s]>>]  OBVIOUS
    <3> HIDE DEF fold, below, E
    <3>5. QED  BY <3>2, <3>3, <3>4 DEF F
  <2>4. \A s \in SUBSET S: E[s] = IF s = {} THEN base ELSE step[<<E[below(s)], pick[s]>>]
    <3>1. ASSUME NEW s \in SUBSET S, s # {} PROVE E[s] = step[<<E[below(s)], pick[s]>>]
      <4>1. E[below(s)] = fold(below(s))[below(s)]
        <5>1. below(s) \in SUBSET S /\ below(s) # S  BY <2>2, <3>1
        <5> HIDE DEF fold, below, E
        <5>2. QED  BY <2>3, <5>1
      <4>2. E[s] = step[<<fold(below(s))[below(s)], pick[s]>>]  BY <3>1
      <4> HIDE DEF fold, below, E
      <4>3. QED  BY <4>1, <4>2
    <3>2. ASSUME NEW s \in SUBSET S, s = {} PROVE E[s] = base  BY <3>2
    <3> HIDE DEF fold, below, E
    <3>3. QED  BY <3>1, <3>2
  <2>5. FoldsUp(E, base, step, pick, S)
    <3>1. E = [s \in SUBSET S |-> E[s]]  OBVIOUS
    <3> HIDE DEF E
    <3>2. QED  BY <2>4, <3>1 DEF FoldsUp
  <2>6. QED  BY <2>5
<1>2. \A S \in SUBSET K: (\A R \in SUBSET S: R # S => R \in P) => S \in P  BY <1>1
<1>3. SUBSET K \subseteq P
  <2> HIDE DEF P
  <2>1. QED  BY <1>2, SubsetInduction
<1>4. QED  BY <1>3

\* A fold with a step that is a function from values and keys to values is one of
\* values.
LEMMA FoldTyped ==
  ASSUME NEW K, IsFiniteSet(K), NEW V, NEW base \in V, NEW step \in [V \X K -> V], NEW pick,
         \A s \in SUBSET K: s # {} => pick[s] \in s
  PROVE  \E F \in [SUBSET K -> V]: FoldsUp(F, base, step, pick, K)
<1>1. PICK F: FoldsUp(F, base, step, pick, K)  BY FoldExists
<1> DEFINE P == {s \in SUBSET K: F[s] \in V}
<1>2. ASSUME NEW s \in SUBSET K, \A r \in SUBSET s: r # s => r \in P
      PROVE  F[s] \in V
  <2>1. F[s] = IF s = {} THEN base ELSE step[<<F[s \ {pick[s]}], pick[s]>>]  BY <1>1 DEF FoldsUp
  <2>2. CASE s = {}  BY <2>1, <2>2
  <2>3. CASE s # {}
    <3>1. pick[s] \in s /\ pick[s] \in K  BY <2>3
    <3>2. F[s \ {pick[s]}] \in V  BY <1>2, <3>1
    <3>3. <<F[s \ {pick[s]}], pick[s]>> \in V \X K  BY <3>1, <3>2
    <3>4. QED  BY <2>1, <2>3, <3>3
  <2>4. QED  BY <2>2, <2>3
<1>3. \A s \in SUBSET K: (\A r \in SUBSET s: r # s => r \in P) => s \in P  BY <1>2
<1>4. SUBSET K \subseteq P
  <2> HIDE DEF P
  <2>1. QED  BY <1>3, SubsetInduction
<1>5. F \in [SUBSET K -> V]
  <2>1. \A s \in SUBSET K: F[s] \in V  BY <1>4
  <2>2. F = [s \in SUBSET K |-> F[s]]  BY <1>1 DEF FoldsUp
  <2>3. QED  BY <2>1, <2>2
<1>6. QED  BY <1>1, <1>5

\* The largest of the first n numbers.
LEMMA LargestOf ==
  /\ \A m \in Nat: Max(1 .. m + 1) = m + 1
  /\ \A S: \A n \in Nat: S \in SUBSET (1 .. n) /\ S # {} => Max(S) \in S
<1>1. ASSUME NEW m \in Nat PROVE Max(1 .. m + 1) = m + 1
  <2>1. m + 1 \in 1 .. m + 1 /\ \A y \in 1 .. m + 1: m + 1 >= y  OBVIOUS
  <2>2. \A x \in 1 .. m + 1: (\A y \in 1 .. m + 1: x >= y) => x = m + 1  BY <2>1
  <2>3. Max(1 .. m + 1) \in 1 .. m + 1 /\ \A y \in 1 .. m + 1: Max(1 .. m + 1) >= y
    BY <2>1 DEF Max
  <2>4. QED  BY <2>2, <2>3
<1>2. ASSUME NEW S, NEW n \in Nat, S \in SUBSET (1 .. n), S # {} PROVE Max(S) \in S
  <2> DEFINE T == {n - x: x \in S}
  <2>1. T \in SUBSET Nat /\ T # {}  BY <1>2
  <2>2. PICK t \in T: \A u \in T: t <= u
    <3> HIDE DEF T
    <3>1. QED  BY <2>1, LeastNumber
  <2>3. PICK x \in S: t = n - x  BY <2>2
  <2>4. \A y \in S: x >= y
    <3>1. ASSUME NEW y \in S PROVE x >= y
      <4>1. n - x <= n - y  BY <2>2, <2>3
      <4>2. x \in Int /\ y \in Int  BY <1>2
      <4>3. QED  BY <4>1, <4>2
    <3>2. QED  BY <3>1
  <2>5. QED  BY <2>3, <2>4 DEF Max
<1>3. QED  BY <1>1, <1>2
=============================================================================
