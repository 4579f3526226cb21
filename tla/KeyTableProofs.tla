--------------------------- MODULE KeyTableProofs ---------------------------
(***************************************************************************)
(* Proofs about KeyTable, for every number and length of lists, hash       *)
(* function, expiry timeout and set of timestamps.  EachKeyOnce is not     *)
(* inductive: whether a key is put a second time depends on the list that  *)
(* is searched, and what an unused place holds on the steps before it was  *)
(* used.  IndInv says both of every place.                                 *)
(***************************************************************************)
EXTENDS KeyTable, WellFoundedInduction, TLAPS

\* Used places hold a key of their list, and have been recorded.
Placed ==
    \A b \in List: \A i \in 1 .. list_len[b]:
        /\ list[b][i].key \in Key
        /\ Hash[list[b][i].key] = b
        /\ list[b][i].new_ts \in Time

Distinct ==
    \A b \in List: \A i, j \in 1 .. list_len[b]:
        list[b][i].key = list[b][j].key => i = j

IndInv ==
    /\ TypeOK
    /\ Placed
    /\ Distinct
    /\ UnusedIsZero

-----------------------------------------------------------------------------
\* A set of places has a first one.
LEMMA FirstIsIn ==
  ASSUME NEW S \in SUBSET Nat, S # {}
  PROVE  First(S) \in S
<1>1. PICK x \in S: \A y \in S: ~ (<<y, x>> \in OpToRel(<, Nat))
  BY NatLessThanWellFounded, WFMin
<1>2. ASSUME NEW y \in S, y < x PROVE FALSE
  <2>1. <<y, x>> \in Nat \X Nat /\ <<y, x>>[1] < <<y, x>>[2]
    BY <1>2
  <2>2. <<y, x>> \in OpToRel(<, Nat)
    BY <2>1 DEF OpToRel
  <2> QED
    BY <1>1, <2>2
<1>3. \A y \in S: x <= y
  BY <1>2
<1> QED
  BY <1>3 DEF First

LEMMA FirstOfOne ==
  ASSUME NEW i \in Nat
  PROVE  First({i}) = i
  BY FirstIsIn

LEMMA HashType == \A k \in Key: Hash[k] \in List
  BY KeyTableAssumption

\* What Update does to the place i and to the others.
LEMMA UpdateEffect ==
  ASSUME IndInv, NEW k \in Key, NEW i \in 1 .. ListLen, NEW e \in Entry,
         NEW ts \in Time, NEW v \in Sizes, Update(k, i, e, ts, v)
  PROVE  /\ list' \in [List -> [1 .. ListLen -> Entry]]
         /\ list'[Hash[k]][i].key = k
         /\ list'[Hash[k]][i].new_ts = ts
         /\ list'[Hash[k]][i].size = (IF e.new_ts = 0 THEN 0 ELSE e.size) + v
         /\ \A b \in List, j \in 1 .. ListLen:
                b # Hash[k] \/ j # i => list'[b][j] = list[b][j]
<1> DEFINE size == (IF e.new_ts = 0 THEN 0 ELSE e.size) + v
           new == [key |-> k, size |-> size, old_ts |-> e.new_ts, new_ts |-> ts]
<1>1. /\ size <= MaxSize
      /\ list' = [list EXCEPT ![Hash[k]][i] = new]
  BY DEF Update
<1>2. size \in 0 .. MaxSize
  BY <1>1, KeyTableAssumption DEF Entry
<1>3. new \in Entry
  BY <1>2 DEF Entry
<1>4. list \in [List -> [1 .. ListLen -> Entry]]
  BY DEF IndInv, TypeOK
<1> HIDE DEF new
<1>5. \A b \in List, j \in 1 .. ListLen:
         list'[b][j] = IF b = Hash[k] /\ j = i THEN new ELSE list[b][j]
  BY <1>1, <1>4, HashType
<1>6. list' \in [List -> [1 .. ListLen -> Entry]]
  BY <1>1, <1>3, <1>4, HashType
<1>7. list'[Hash[k]][i] = new
  BY <1>5, HashType
<1>8. new.key = k /\ new.new_ts = ts /\ new.size = size
  BY DEF new
<1> QED
  BY <1>5, <1>6, <1>7, <1>8

-----------------------------------------------------------------------------
LEMMA InitIndInv == Init => IndInv
<1> SUFFICES ASSUME Init PROVE IndInv
  OBVIOUS
<1> USE KeyTableAssumption DEF Init
<1>1. Unused \in Entry
  BY DEF Unused, Entry
<1>2. TypeOK
  <2>1. list \in [List -> [1 .. ListLen -> Entry]]
    BY <1>1
  <2>2. list_len \in [List -> 0 .. ListLen]
    OBVIOUS
  <2>3. num_key \in Nat /\ clock \in Time /\ exited \in BOOLEAN
    OBVIOUS
  <2> QED
    BY <2>1, <2>2, <2>3 DEF TypeOK
<1>3. Placed /\ Distinct
  BY DEF Placed, Distinct
<1>4. UnusedIsZero
  BY DEF UnusedIsZero, Unused
<1> QED
  BY <1>2, <1>3, <1>4 DEF IndInv

\* A step that records k at the place i, which is used afterwards.
LEMMA RecordedAt ==
  ASSUME IndInv, NEW k \in Key, NEW i \in 1 .. ListLen, NEW e \in Entry,
         NEW ts \in Time, NEW v \in Sizes, Update(k, i, e, ts, v),
         clock' = ts, exited' = exited, num_key' \in Nat,
         list_len' \in [List -> 0 .. ListLen], i <= list_len'[Hash[k]],
         \A b \in List: \A j \in 1 .. ListLen:
            ~ (b = Hash[k] /\ j = i) => (j <= list_len'[b] <=> j <= list_len[b]),
         \A j \in 1 .. list_len[Hash[k]]:
            list[Hash[k]][j].key = k => j = i
  PROVE  IndInv'
<1>1. /\ list' \in [List -> [1 .. ListLen -> Entry]]
      /\ list'[Hash[k]][i].key = k
      /\ list'[Hash[k]][i].new_ts = ts
      /\ \A b \in List, j \in 1 .. ListLen:
             b # Hash[k] \/ j # i => list'[b][j] = list[b][j]
  BY UpdateEffect
<1>2. TypeOK'
  BY <1>1 DEF IndInv, TypeOK
<1>3. \A b \in List: /\ list_len[b] \in 0 .. ListLen
                     /\ list_len'[b] \in 0 .. ListLen
  BY DEF IndInv, TypeOK
<1>4. Placed'
  <2> SUFFICES ASSUME NEW b \in List, NEW j \in 1 .. list_len'[b]
               PROVE  /\ list'[b][j].key \in Key
                      /\ Hash[list'[b][j].key] = b
                      /\ list'[b][j].new_ts \in Time
    BY DEF Placed
  <2>1. j \in 1 .. ListLen
    BY <1>3, KeyTableAssumption
  <2>2. CASE b = Hash[k] /\ j = i
    BY <1>1, <2>2
  <2>3. CASE ~ (b = Hash[k] /\ j = i)
    <3>1. list'[b][j] = list[b][j] /\ j \in 1 .. list_len[b]
      BY <1>1, <1>3, <2>1, <2>3
    <3> QED
      BY <3>1 DEF IndInv, Placed
  <2> QED
    BY <2>2, <2>3
<1>5. Distinct'
  <2> SUFFICES ASSUME NEW b \in List, NEW j \in 1 .. list_len'[b], NEW l \in 1 .. list_len'[b],
                      list'[b][j].key = list'[b][l].key
               PROVE  j = l
    BY DEF Distinct
  <2>1. j \in 1 .. ListLen /\ l \in 1 .. ListLen
    BY <1>3, KeyTableAssumption
  <2>2. CASE b # Hash[k]
    <3>1. /\ list'[b][j] = list[b][j] /\ j \in 1 .. list_len[b]
          /\ list'[b][l] = list[b][l] /\ l \in 1 .. list_len[b]
      BY <1>1, <1>3, <2>1, <2>2
    <3> QED
      BY <3>1 DEF IndInv, Distinct
  <2>3. CASE b = Hash[k]
    <3>1. \A m \in 1 .. list_len'[b]: m # i => list'[b][m] = list[b][m] /\ m \in 1 .. list_len[b]
      BY <1>1, <1>3, <2>3, KeyTableAssumption
    <3>2. \A m \in 1 .. list_len'[b]: list'[b][m].key = k => m = i
      BY <3>1, <2>3
    <3>3. CASE j = i \/ l = i
      BY <3>2, <3>3, <2>3, <1>1
    <3>4. CASE j # i /\ l # i
      BY <3>1, <3>4 DEF IndInv, Distinct
    <3> QED
      BY <3>3, <3>4
  <2> QED
    BY <2>2, <2>3
<1>6. UnusedIsZero'
  <2> SUFFICES ASSUME NEW b \in List, NEW j \in 1 .. ListLen, j > list_len'[b]
               PROVE  list'[b][j].new_ts = 0
    BY DEF UnusedIsZero
  <2>1. ~ (b = Hash[k] /\ j = i)
    BY <1>3
  <2>2. list'[b][j] = list[b][j] /\ j > list_len[b]
    BY <1>1, <1>3, <2>1
  <2> QED
    BY <2>2 DEF IndInv, UnusedIsZero
<1> QED
  BY <1>2, <1>4, <1>5, <1>6 DEF IndInv
\* Recording a key keeps the invariant, in each of the four ways it can end.
LEMMA RecordStep ==
  ASSUME IndInv, NEW k \in Key, NEW ts \in Time, NEW v \in Sizes, Record(k, ts, v)
  PROVE  IndInv'
<1> DEFINE b == Hash[k]
<1>1. /\ b \in List /\ clock' = ts
      /\ list \in [List -> [1 .. ListLen -> Entry]]
      /\ list_len \in [List -> 0 .. ListLen] /\ list_len[b] \in 0 .. ListLen
      /\ num_key \in Nat
  BY HashType DEF IndInv, TypeOK, Record
<1>2. CASE RecordFound(b, k, ts, v)
  <2> DEFINE i == First(Places(b, k))
  <2>1. Places(b, k) # {} /\ Update(k, i, list[b][i], ts, v)
        /\ UNCHANGED <<list_len, num_key, exited>>
    BY <1>2 DEF RecordFound
  <2>2. Places(b, k) \subseteq Nat
    BY DEF Places
  <2>3. i \in Places(b, k)
    BY <2>1, <2>2, FirstIsIn
  <2> HIDE DEF i
  <2>4. i \in 1 .. list_len[b] /\ list[b][i].key = k
    BY <2>3 DEF Places
  <2>5. i \in 1 .. ListLen /\ list[b][i] \in Entry
    BY <1>1, <2>4, KeyTableAssumption
  <2>6. \A j \in 1 .. list_len[b]: list[b][j].key = k => j = i
    BY <1>1, <2>4 DEF IndInv, Distinct
  <2> HIDE DEF b
  <2> QED
    BY <1>1, <2>1, <2>4, <2>5, <2>6, RecordedAt DEF b
<1>3. CASE RecordReplacing(b, k, ts, v)
  <2> DEFINE i == First(Expired(b, ts))
  <2>1. Places(b, k) = {} /\ Expired(b, ts) # {} /\ Update(k, i, AsNew(list[b][i]), ts, v)
        /\ UNCHANGED <<list_len, num_key, exited>>
    BY <1>3 DEF RecordReplacing
  <2>2. Expired(b, ts) \subseteq Nat
    BY DEF Expired
  <2>3. i \in Expired(b, ts)
    BY <2>1, <2>2, FirstIsIn
  <2> HIDE DEF i
  <2>4. i \in 1 .. list_len[b]
    BY <2>3 DEF Expired
  <2>5. i \in 1 .. ListLen /\ AsNew(list[b][i]) \in Entry
    <3>1. i \in 1 .. ListLen
      BY <1>1, <2>4, KeyTableAssumption
    <3>2. list[b][i] \in Entry
      BY <1>1, <3>1
    <3> QED
      BY <3>1, <3>2 DEF AsNew, Entry
  <2>6. \A j \in 1 .. list_len[b]: list[b][j].key # k
    BY <2>1 DEF Places
  <2> HIDE DEF b
  <2> QED
    BY <1>1, <2>1, <2>4, <2>5, <2>6, RecordedAt DEF b
<1>4. CASE RecordNew(b, k, ts, v)
  <2> DEFINE i == list_len[b] + 1
  <2>1. /\ Places(b, k) = {} /\ list_len[b] < ListLen
        /\ num_key' = num_key + 1 /\ exited' = exited
        /\ list_len' = [list_len EXCEPT ![b] = @ + 1]
        /\ Update(k, i, list[b][i], ts, v)
    BY <1>4 DEF RecordNew, HasRoom
  <2>2. i \in 1 .. ListLen /\ list[b][i] \in Entry
    BY <1>1, <2>1, KeyTableAssumption
  <2>3. list_len' \in [List -> 0 .. ListLen] /\ list_len'[b] = i
    BY <1>1, <2>1, KeyTableAssumption
  <2>4. \A c \in List: \A j \in 1 .. ListLen:
            ~ (c = b /\ j = i) => (j <= list_len'[c] <=> j <= list_len[c])
    BY <1>1, <2>1, KeyTableAssumption
  <2>5. \A j \in 1 .. list_len[b]: list[b][j].key # k
    BY <2>1 DEF Places
  <2> HIDE DEF b, i
  <2> QED
    BY <1>1, <2>1, <2>2, <2>3, <2>4, <2>5, RecordedAt DEF b
<1>5. CASE Exhausted(b, k, ts)
  BY <1>1, <1>5 DEF Exhausted, IndInv, TypeOK, Placed, Distinct, UnusedIsZero
<1> QED
  BY <1>2, <1>3, <1>4, <1>5 DEF Record

LEMMA ResetStep == IndInv /\ Reset => IndInv'
<1> SUFFICES ASSUME IndInv, Reset PROVE IndInv'
  OBVIOUS
<1> USE KeyTableAssumption DEF Reset
<1>1. Unused \in Entry
  BY DEF Unused, Entry
<1>2. list' \in [List -> [1 .. ListLen -> Entry]]
  BY <1>1
<1>3. TypeOK'
  <2>1. list_len' \in [List -> 0 .. ListLen]
    OBVIOUS
  <2>2. num_key' \in Nat /\ clock' \in Time /\ exited' \in BOOLEAN
    BY DEF IndInv, TypeOK
  <2> QED
    BY <1>2, <2>1, <2>2 DEF TypeOK
<1>4. Placed' /\ Distinct'
  BY DEF Placed, Distinct
<1>5. UnusedIsZero'
  BY DEF UnusedIsZero, Unused
<1> QED
  BY <1>3, <1>4, <1>5 DEF IndInv

LEMMA StepIndInv == IndInv /\ [Next]_vars => IndInv'
<1> SUFFICES ASSUME IndInv, [Next]_vars PROVE IndInv'
  OBVIOUS
<1>1. ASSUME NEW k \in Key, NEW ts \in Time, NEW v \in Sizes, Record(k, ts, v)
      PROVE  IndInv'
  BY <1>1, RecordStep
<1>2. CASE Reset
  BY <1>2, ResetStep
<1>3. CASE UNCHANGED vars
  BY <1>3 DEF vars, IndInv, TypeOK, Placed, Distinct, UnusedIsZero
<1> QED
  BY <1>1, <1>2, <1>3 DEF Next

LEMMA Invariance == Spec => []IndInv
  BY InitIndInv, StepIndInv, PTL DEF Spec

-----------------------------------------------------------------------------
\* A used place is where key_tbl_find finds its key.
LEMMA FoundThere ==
  ASSUME IndInv, NEW b \in List, NEW i \in 1 .. list_len[b]
  PROVE  /\ list[b][i].key \in Key /\ Hash[list[b][i].key] = b
         /\ Find(list[b][i].key) = i
<1> DEFINE k == list[b][i].key
<1>1. k \in Key /\ Hash[k] = b
  BY DEF IndInv, Placed
<1>2. Places(b, k) = {i}
  BY DEF IndInv, Distinct, Places
<1> HIDE DEF k
<1>3. Find(k) = i
  BY <1>1, <1>2, FirstOfOne DEF Find
<1> QED
  BY <1>1, <1>3 DEF k

\* Every variable of the table keeps its type: no list is written past its end,
\* whatever is recorded (alg_keytbl.c:143-156).
THEOREM TypeCorrect == Spec => []TypeOK
<1>1. IndInv => TypeOK
  BY DEF IndInv
<1> QED
  BY <1>1, Invariance, PTL

\* Memory behind list_len always counts as new (alg_keytbl.c:163-167, 290).
THEOREM UnusedIsZeroHolds == Spec => []UnusedIsZero
<1>1. IndInv => UnusedIsZero
  BY DEF IndInv
<1> QED
  BY <1>1, Invariance, PTL

\* A key has one entry, where key_tbl_find finds it (alg_keytbl.c:119-156).
THEOREM EachKeyOnceHolds == Spec => []EachKeyOnce
<1>1. ASSUME IndInv PROVE EachKeyOnce
  <2> SUFFICES ASSUME NEW p \in GetAll
               PROVE  /\ list[p[1]][p[2]].key \in Key
                      /\ p = <<Hash[list[p[1]][p[2]].key], Find(list[p[1]][p[2]].key)>>
    BY DEF EachKeyOnce
  <2>1. p = <<p[1], p[2]>> /\ p[1] \in List /\ p[2] \in 1 .. list_len[p[1]]
    BY <1>1, KeyTableAssumption DEF GetAll, IndInv, TypeOK
  <2> QED
    BY <1>1, <2>1, FoundThere
<1> QED
  BY <1>1, Invariance, PTL

\* With the timestamp every caller passes no entry is ever replaced: the branch
\* that logs "should not here" is not taken (alg_keytbl.c:140).
THEOREM NeverReplacedHolds ==
  ASSUME Time = {-1}
  PROVE  Spec => NeverReplaced
<1> DEFINE Kept == \A b \in List: \A i \in 1 .. list_len[b]:
                      list_len'[b] >= i => list'[b][i].key = list[b][i].key
<1>1. ASSUME IndInv, NEW k \in Key, NEW ts \in Time, NEW v \in Sizes, Record(k, ts, v)
      PROVE  Kept
  <2> SUFFICES ASSUME NEW b \in List, NEW i \in 1 .. list_len[b]
               PROVE  list'[b][i].key = list[b][i].key
    OBVIOUS
  <2>1. /\ Hash[k] \in List
        /\ list \in [List -> [1 .. ListLen -> Entry]]
        /\ \A c \in List: list_len[c] \in 0 .. ListLen
    BY <1>1, HashType DEF IndInv, TypeOK
  <2>2. i \in 1 .. ListLen
    BY <2>1, KeyTableAssumption
  <2>3. CASE RecordFound(Hash[k], k, ts, v)
    <3> DEFINE l == First(Places(Hash[k], k))
    <3>1. Places(Hash[k], k) # {} /\ Update(k, l, list[Hash[k]][l], ts, v)
      BY <2>3 DEF RecordFound
    <3>2. l \in Places(Hash[k], k)
      BY <3>1, FirstIsIn DEF Places
    <3> HIDE DEF l
    <3>3. l \in 1 .. ListLen /\ list[Hash[k]][l] \in Entry /\ list[Hash[k]][l].key = k
      BY <2>1, <3>2, KeyTableAssumption DEF Places
    <3> QED
      BY <1>1, <2>2, <3>1, <3>3, UpdateEffect
  <2>4. CASE RecordReplacing(Hash[k], k, ts, v)
    <3>1. PICK l \in 1 .. list_len[Hash[k]]: EntryTo # -1 /\ ts - list[Hash[k]][l].new_ts > EntryTo
      BY <2>4 DEF RecordReplacing, Expired
    <3>2. list[Hash[k]][l].new_ts \in Time
      BY <1>1, <2>1, <3>1 DEF IndInv, Placed
    <3> QED
      BY <3>1, <3>2, KeyTableAssumption
  <2>5. CASE RecordNew(Hash[k], k, ts, v)
    <3> DEFINE l == list_len[Hash[k]] + 1
    <3>1. list_len[Hash[k]] < ListLen /\ Update(k, l, list[Hash[k]][l], ts, v)
      BY <2>5 DEF RecordNew, HasRoom
    <3>2. l \in 1 .. ListLen /\ list[Hash[k]][l] \in Entry
      BY <2>1, <3>1, KeyTableAssumption
    <3>3. b # Hash[k] \/ i # l
      BY <2>1
    <3> HIDE DEF l
    <3>4. list'[b][i] = list[b][i]
      BY <1>1, <2>2, <3>1, <3>2, <3>3, UpdateEffect
    <3> QED
      BY <3>4
  <2>6. CASE Exhausted(Hash[k], k, ts)
    BY <2>6 DEF Exhausted
  <2> QED
    BY <1>1, <2>3, <2>4, <2>5, <2>6 DEF Record
<1>2. ASSUME IndInv, Reset PROVE Kept
  <2> SUFFICES ASSUME NEW b \in List, NEW i \in 1 .. list_len[b], list_len'[b] >= i PROVE FALSE
    OBVIOUS
  <2>1. list_len'[b] = 0
    BY <1>2 DEF Reset
  <2>2. list_len[b] \in 0 .. ListLen
    BY <1>2 DEF IndInv, TypeOK
  <2> QED
    BY <2>1, <2>2, KeyTableAssumption
<1>3. IndInv /\ [Next]_vars => [Kept]_vars
  BY <1>1, <1>2 DEF Next
<1>4. NeverReplaced <=> [][Kept]_vars
  BY DEF NeverReplaced
<1> HIDE DEF Kept
<1> QED
  BY <1>3, <1>4, Invariance, PTL DEF Spec

-----------------------------------------------------------------------------
(* Refinement of KeyMap *)

\* key_tbl_find finds the key it was asked for, unless there is none.
FindIsRight ==
    \A j \in Key:
        /\ Find(j) # 0 => Find(j) \in 1 .. list_len[Hash[j]] /\ list[Hash[j]][Find(j)].key = j
        /\ \A i \in 1 .. list_len[Hash[j]]: list[Hash[j]][i].key = j => Find(j) = i

LEMMA FindFacts == IndInv => FindIsRight
<1> SUFFICES ASSUME IndInv, NEW j \in Key
             PROVE  /\ Find(j) # 0 => /\ Find(j) \in 1 .. list_len[Hash[j]]
                                      /\ list[Hash[j]][Find(j)].key = j
                    /\ \A i \in 1 .. list_len[Hash[j]]:
                          list[Hash[j]][i].key = j => Find(j) = i
  BY DEF FindIsRight
<1>1. ASSUME Find(j) # 0 PROVE Find(j) \in Places(Hash[j], j)
  BY <1>1, FirstIsIn DEF Find, Places
<1>2. ASSUME NEW i \in 1 .. list_len[Hash[j]], list[Hash[j]][i].key = j PROVE Find(j) = i
  BY <1>2, FoundThere, HashType
<1> QED
  BY <1>1, <1>2 DEF Places

LEMMA FindFactsNext == IndInv' => FindIsRight'
  BY FindFacts, PTL

\* What is known after k was recorded at the place i: k, and all that was
\* known before except the key that had this place.
LEMMA KnownAfter ==
  ASSUME IndInv, IndInv', NEW k \in Key, NEW i \in 1 .. list_len'[Hash[k]],
         list'[Hash[k]][i].key = k,
         \A b \in List, j \in Nat \ {0}:
            ~ (b = Hash[k] /\ j = i) =>
               /\ j <= list_len'[b] <=> j <= list_len[b]
               /\ j <= list_len[b] => list'[b][j] = list[b][j]
  PROVE  LET gone == {j \in Known \ {k}: Hash[j] = Hash[k] /\ Find(j) = i} IN
         /\ Known' = (Known \ gone) \cup {k}
         /\ Find(k)' = i
         /\ \A j \in Known \ gone: j # k =>
               /\ Find(j)' = Find(j)
               /\ list'[Hash[j]][Find(j)'] = list[Hash[j]][Find(j)]
<1> DEFINE gone == {j \in Known \ {k}: Hash[j] = Hash[k] /\ Find(j) = i}
<1>1. Find(k)' = i
  BY FindFactsNext DEF FindIsRight
<1>2. \A b \in List: list_len[b] \in Nat /\ list_len'[b] \in Nat
  BY KeyTableAssumption DEF IndInv, TypeOK
<1>3. ASSUME NEW j \in Known \ gone, j # k
      PROVE  /\ Find(j)' = Find(j)
             /\ list'[Hash[j]][Find(j)'] = list[Hash[j]][Find(j)]
             /\ Find(j)' # 0
  <2>1. /\ j \in Key /\ Find(j) \in 1 .. list_len[Hash[j]]
        /\ list[Hash[j]][Find(j)].key = j
    BY FindFacts DEF Known, FindIsRight
  <2>2. ~ (Hash[j] = Hash[k] /\ Find(j) = i)
    BY <1>3
  <2>3. /\ Find(j) \in 1 .. list_len'[Hash[j]]
        /\ list'[Hash[j]][Find(j)] = list[Hash[j]][Find(j)]
    BY <1>2, <2>1, <2>2, HashType
  <2> QED
    BY <2>1, <2>3, FindFactsNext DEF FindIsRight
<1>4. ASSUME NEW j \in Key, j # k, Find(j)' # 0
      PROVE  j \in Known \ gone
  <2>1. /\ Find(j)' \in 1 .. list_len'[Hash[j]]
        /\ list'[Hash[j]][Find(j)'].key = j
    BY <1>4, FindFactsNext DEF FindIsRight
  <2>2. ~ (Hash[j] = Hash[k] /\ Find(j)' = i)
    BY <1>4, <2>1
  <2>3. /\ Find(j)' \in 1 .. list_len[Hash[j]]
        /\ list[Hash[j]][Find(j)'].key = j
    BY <1>2, <2>1, <2>2, HashType
  <2>4. Find(j) = Find(j)'
    BY <2>3, FindFacts DEF FindIsRight
  <2> QED
    BY <1>4, <2>2, <2>4 DEF Known
<1>5. Known' = (Known \ gone) \cup {k}
  <2>1. Known' = {j \in Key: Find(j)' # 0}
    BY DEF Known
  <2>2. Known \subseteq Key
    BY DEF Known
  <2>3. Find(k)' # 0
    BY <1>1
  <2> HIDE DEF gone
  <2> QED
    BY <1>3, <1>4, <2>1, <2>2, <2>3
<1> QED
  BY <1>1, <1>3, <1>5

LEMMA ResetMaps == Reset => Map!Reset
<1> SUFFICES ASSUME Reset PROVE Map!Reset
  OBVIOUS
<1>1. \A j \in Key: Find(j)' = 0
  BY HashType DEF Reset, Find, Places
<1>2. Known' = {}
  BY <1>1 DEF Known
<1> QED
  BY <1>2 DEF Map!Reset, Map!Init

\* Recording k is adding to it, with the keys that were dropped for it.
LEMMA RecordAdds ==
  ASSUME IndInv, IndInv', NEW k \in Key, NEW i \in 1 .. list_len'[Hash[k]],
         NEW ts \in Time, NEW v \in Sizes,
         list'[Hash[k]][i].key = k, list'[Hash[k]][i].new_ts = ts,
         list'[Hash[k]][i].size =
            (IF k \in Known THEN list[Hash[k]][Find(k)].size ELSE 0) + v,
         \A b \in List, j \in Nat \ {0}:
            ~ (b = Hash[k] /\ j = i) =>
               /\ j <= list_len'[b] <=> j <= list_len[b]
               /\ j <= list_len[b] => list'[b][j] = list[b][j],
         NEW gone \in SUBSET Key,
         gone = {j \in Known \ {k}: Hash[j] = Hash[k] /\ Find(j) = i},
         k \in Known => gone = {},
         k \notin Known => gone \in Map!MayDrop(ts)
  PROVE  Map!Add(k, v, ts)
<1> DEFINE S == [j \in Known |-> list[Hash[j]][Find(j)].size]
           T == [j \in Known |-> list[Hash[j]][Find(j)].new_ts]
           keys == (Known \ gone) \cup {k}
<1>1. /\ Known' = keys
      /\ Find(k)' = i
      /\ \A j \in Known \ gone: j # k =>
            /\ Find(j)' = Find(j)
            /\ list'[Hash[j]][Find(j)'] = list[Hash[j]][Find(j)]
  BY KnownAfter
<1>2. /\ S' = [j \in Known' |-> list'[Hash[j]][Find(j)'].size]
      /\ T' = [j \in Known' |-> list'[Hash[j]][Find(j)'].new_ts]
  OBVIOUS
<1>3. \A j \in keys: list'[Hash[j]][Find(j)'].size =
           (IF j \in Known THEN S[j] ELSE 0) + (IF j = k THEN v ELSE 0)
  <2> SUFFICES ASSUME NEW j \in keys
               PROVE  list'[Hash[j]][Find(j)'].size =
                        (IF j \in Known THEN S[j] ELSE 0) + (IF j = k THEN v ELSE 0)
    OBVIOUS
  <2>1. CASE j = k
    BY <1>1, <2>1
  <2>2. CASE j # k
    <3>1. j \in Known /\ list'[Hash[j]][Find(j)'] = list[Hash[j]][Find(j)]
      BY <1>1, <2>2
    <3>2. S[j] \in Nat
      <4>1. Find(j) \in 1 .. list_len[Hash[j]] /\ Hash[j] \in List
        BY <3>1, FindFacts, HashType DEF FindIsRight, Known
      <4>2. list[Hash[j]][Find(j)] \in Entry
        BY <4>1, KeyTableAssumption DEF IndInv, TypeOK
      <4> QED
        BY <3>1, <4>2, KeyTableAssumption DEF Entry
    <3> QED
      BY <2>2, <3>1, <3>2
  <2> QED
    BY <2>1, <2>2
<1>4. \A j \in keys: list'[Hash[j]][Find(j)'].new_ts = IF j = k THEN ts ELSE T[j]
  BY <1>1
<1>5. S' = [j \in keys |-> (IF j \in DOMAIN S THEN S[j] ELSE 0) + (IF j = k THEN v ELSE 0)]
  BY <1>1, <1>2, <1>3
<1>6. T' = [j \in keys |-> IF j = k THEN ts ELSE T[j]]
  BY <1>1, <1>2, <1>4
<1>7. keys = (DOMAIN S \ gone) \cup {k}
  OBVIOUS
<1>8. gone \in IF k \in DOMAIN S THEN {{}} ELSE Map!MayDrop(ts)
  OBVIOUS
<1> QED
  BY <1>5, <1>6, <1>7, <1>8 DEF Map!Add

\* Each way of recording k adds to it, or leaves the table as it was.
LEMMA RecordMaps ==
  ASSUME IndInv, IndInv', NEW k \in Key, NEW ts \in Time, NEW v \in Sizes,
         Record(k, ts, v)
  PROVE  Map!Add(k, v, ts) \/ UNCHANGED <<list, list_len>>
<1> DEFINE b == Hash[k]
<1>1. /\ b \in List
      /\ list \in [List -> [1 .. ListLen -> Entry]]
      /\ list_len \in [List -> 0 .. ListLen]
      /\ \A c \in List: list_len[c] \in Nat /\ list_len[c] <= ListLen
  BY HashType, KeyTableAssumption DEF IndInv, TypeOK
<1>2. CASE RecordFound(b, k, ts, v)
  <2> DEFINE i == First(Places(b, k))
  <2>1. Places(b, k) # {} /\ Update(k, i, list[b][i], ts, v) /\ UNCHANGED list_len
    BY <1>2 DEF RecordFound
  <2>2. i \in Places(b, k)
    BY <2>1, FirstIsIn DEF Places
  <2> HIDE DEF i
  <2>3. i \in 1 .. list_len[b] /\ list[b][i].key = k
    BY <2>2 DEF Places
  <2>4. i \in 1 .. ListLen /\ list[b][i] \in Entry
    BY <1>1, <2>3, KeyTableAssumption
  <2>5. Find(k) = i /\ k \in Known /\ list[b][i].new_ts \in Time
    BY <1>1, <2>3, FindFacts DEF FindIsRight, Known, IndInv, Placed
  <2>6. \A j \in Known \ {k}: ~ (Hash[j] = Hash[k] /\ Find(j) = i)
    BY <2>3, FindFacts DEF FindIsRight, Known
  <2>7. /\ list'[b][i].key = k /\ list'[b][i].new_ts = ts
        /\ list'[b][i].size = list[b][i].size + v
        /\ \A c \in List, j \in 1 .. ListLen: c # b \/ j # i => list'[c][j] = list[c][j]
    <3>1. list[b][i].new_ts # 0
      BY <2>5, KeyTableAssumption
    <3> QED
      BY <2>1, <2>4, <3>1, UpdateEffect
  <2>8. \A c \in List, j \in Nat \ {0}:
            ~ (c = b /\ j = i) =>
               /\ j <= list_len'[c] <=> j <= list_len[c]
               /\ j <= list_len[c] => list'[c][j] = list[c][j]
    BY <1>1, <2>1, <2>7, KeyTableAssumption
  <2> QED
    <3>1. i \in 1 .. list_len'[b]
      BY <2>1, <2>3
    <3>2. {} = {j \in Known \ {k}: Hash[j] = Hash[k] /\ Find(j) = i}
      BY <2>6
    <3>3. list'[b][i].size = (IF k \in Known THEN list[b][Find(k)].size ELSE 0) + v
      BY <2>5, <2>7
    <3> QED
      BY <2>5, <2>7, <2>8, <3>1, <3>2, <3>3, RecordAdds
<1>3. CASE RecordReplacing(b, k, ts, v)
  <2> DEFINE i == First(Expired(b, ts))
             old == list[b][i].key
  <2>1. /\ Places(b, k) = {} /\ Expired(b, ts) # {}
        /\ Update(k, i, AsNew(list[b][i]), ts, v) /\ UNCHANGED list_len
    BY <1>3 DEF RecordReplacing
  <2>2. i \in Expired(b, ts)
    BY <2>1, FirstIsIn DEF Expired
  <2> HIDE DEF i
  <2>3. i \in 1 .. list_len[b] /\ EntryTo # -1 /\ ts - list[b][i].new_ts > EntryTo
    BY <2>2 DEF Expired
  <2>4. i \in 1 .. ListLen
    BY <1>1, <2>3, KeyTableAssumption
  <2>5. AsNew(list[b][i]) \in Entry /\ AsNew(list[b][i]).new_ts = 0
    <3>1. list[b][i] \in Entry
      BY <1>1, <2>4
    <3> QED
      BY <3>1 DEF AsNew, Entry
  <2>6. k \notin Known
    BY <2>1 DEF Known, Find
  <2>7. old \in Key /\ Hash[old] = b /\ Find(old) = i /\ old \in Known
    BY <1>1, <2>3, FoundThere DEF Known
  <2>8. /\ list'[b][i].key = k /\ list'[b][i].new_ts = ts /\ list'[b][i].size = 0 + v
        /\ \A c \in List, j \in 1 .. ListLen: c # b \/ j # i => list'[c][j] = list[c][j]
    BY <2>1, <2>4, <2>5, UpdateEffect
  <2>9. \A c \in List, j \in Nat \ {0}:
            ~ (c = b /\ j = i) =>
               /\ j <= list_len'[c] <=> j <= list_len[c]
               /\ j <= list_len[c] => list'[c][j] = list[c][j]
    BY <1>1, <2>1, <2>8, KeyTableAssumption
  <2>10. {old} = {j \in Known \ {k}: Hash[j] = Hash[k] /\ Find(j) = i}
    BY <2>6, <2>7, FindFacts DEF FindIsRight, Known
  <2>11. {old} \in Map!MayDrop(ts)
    BY <2>3, <2>7 DEF Map!MayDrop
  <2> QED
    <3>1. i \in 1 .. list_len'[b]
      BY <2>1, <2>3
    <3>2. list'[b][i].size = (IF k \in Known THEN list[b][Find(k)].size ELSE 0) + v
      BY <2>6, <2>8
    <3> HIDE DEF old
    <3> QED
      BY <2>6, <2>7, <2>8, <2>9, <2>10, <2>11, <3>1, <3>2, RecordAdds
<1>4. CASE RecordNew(b, k, ts, v)
  <2> DEFINE i == list_len[b] + 1
  <2>1. /\ Places(b, k) = {} /\ list_len[b] < ListLen
        /\ list_len' = [list_len EXCEPT ![b] = @ + 1]
        /\ Update(k, i, list[b][i], ts, v)
    BY <1>4 DEF RecordNew, HasRoom
  <2>2. i \in 1 .. ListLen /\ list[b][i] \in Entry /\ list[b][i].new_ts = 0
    BY <1>1, <2>1, KeyTableAssumption DEF IndInv, UnusedIsZero
  <2>3. k \notin Known
    BY <2>1 DEF Known, Find
  <2>4. /\ list'[b][i].key = k /\ list'[b][i].new_ts = ts /\ list'[b][i].size = 0 + v
        /\ \A c \in List, j \in 1 .. ListLen: c # b \/ j # i => list'[c][j] = list[c][j]
    BY <2>1, <2>2, UpdateEffect
  <2>5. \A c \in List: list_len'[c] = IF c = b THEN i ELSE list_len[c]
    BY <1>1, <2>1
  <2>6. \A c \in List, j \in Nat \ {0}:
            ~ (c = b /\ j = i) =>
               /\ j <= list_len'[c] <=> j <= list_len[c]
               /\ j <= list_len[c] => list'[c][j] = list[c][j]
    <3> SUFFICES ASSUME NEW c \in List, NEW j \in Nat \ {0}, ~ (c = b /\ j = i)
                 PROVE  /\ j <= list_len'[c] <=> j <= list_len[c]
                        /\ j <= list_len[c] => list'[c][j] = list[c][j]
      OBVIOUS
    <3>1. list_len[c] \in Nat /\ list_len[c] <= ListLen /\ ListLen \in Nat
      BY <1>1, KeyTableAssumption
    <3>2. j <= list_len'[c] <=> j <= list_len[c]
      <4>1. CASE c = b
        BY <2>5, <3>1, <4>1
      <4>2. CASE c # b
        BY <2>5, <4>2
      <4> QED
        BY <4>1, <4>2
    <3>3. j <= list_len[c] => j \in 1 .. ListLen
      BY <3>1
    <3>4. j <= list_len[c] => list'[c][j] = list[c][j]
      <4> HIDE DEF i
      <4> QED
        BY <2>4, <3>3
    <3> QED
      BY <3>2, <3>4
  <2>7. {} = {j \in Known \ {k}: Hash[j] = Hash[k] /\ Find(j) = i}
    <3> SUFFICES ASSUME NEW j \in Known, Hash[j] = b, Find(j) = i PROVE FALSE
      OBVIOUS
    <3>1. Find(j) \in 1 .. list_len[b]
      BY FindFacts DEF FindIsRight, Known
    <3> QED
      BY <1>1, <3>1
  <2>8. {} \in Map!MayDrop(ts)
    BY DEF Map!MayDrop
  <2> QED
    <3>1. i \in 1 .. list_len'[b]
      BY <1>1, <2>1, <2>5
    <3>2. list'[b][i].size = (IF k \in Known THEN list[b][Find(k)].size ELSE 0) + v
      BY <2>3, <2>4
    <3> HIDE DEF i
    <3> QED
      BY <2>3, <2>4, <2>6, <2>7, <2>8, <3>1, <3>2, RecordAdds
<1>5. CASE Exhausted(b, k, ts)
  BY <1>5 DEF Exhausted
<1> QED
  BY <1>2, <1>3, <1>4, <1>5 DEF Record

\* The table implements the map of KeyMap: what is recorded for a key is added
\* to its size, and only an expired key is ever dropped (alg_keytbl.c:105-171).
THEOREM Refinement == Spec => ImplementsMap
<1> DEFINE Step == Map!Reset \/ \E k \in Key, v \in Sizes, ts \in Time: Map!Add(k, v, ts)
<1>1. UNCHANGED <<list, list_len>> => UNCHANGED (Map!mvars)
  BY DEF Map!mvars, Known, Find, Places
<1>2. IndInv /\ IndInv' /\ [Next]_vars => [Step]_(Map!mvars)
  <2> SUFFICES ASSUME IndInv, IndInv', [Next]_vars PROVE Step \/ UNCHANGED (Map!mvars)
    OBVIOUS
  <2>1. ASSUME NEW k \in Key, NEW ts \in Time, NEW v \in Sizes, Record(k, ts, v)
        PROVE  Step \/ UNCHANGED (Map!mvars)
    BY <1>1, <2>1, RecordMaps
  <2>2. CASE Reset
    BY <2>2, ResetMaps
  <2>3. CASE UNCHANGED vars
    BY <1>1, <2>3 DEF vars
  <2> QED
    BY <2>1, <2>2, <2>3 DEF Next
<1>3. ImplementsMap <=> [][Step]_(Map!mvars)
  BY DEF ImplementsMap
<1> HIDE DEF Step
<1> QED
  BY <1>2, <1>3, Invariance, PTL DEF Spec
=============================================================================
