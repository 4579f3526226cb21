------------------------------ MODULE KeyTable ------------------------------
(***************************************************************************)
(* The key table of alg_keytbl.c: a hash table of a fixed number of lists, *)
(* each an array of tbl_list_len entries of which the first list_len are   *)
(* used.  Every caller adds to the entry key_tbl_record returns before it  *)
(* does anything else (true_flows.c:140-141, controller.c:75-76 and        *)
(* 175-176, alg_keytbl.c:318-319 and 341-342), so the two are one action.  *)
(*                                                                         *)
(* Whether an entry is new is read off its memory: key_tbl_record takes a  *)
(* new_ts of 0 for "never used", which is why the model keeps the unused   *)
(* part of every list.                                                     *)
(***************************************************************************)
EXTENDS Integers, FiniteSets

CONSTANTS
    Key,        \* flow keys
    NoKey,      \* the key bytes of an entry that was never used
    NumLists,   \* tbl_list_size
    ListLen,    \* tbl_list_len
    Hash,       \* which list AwareHash sends a key to
    EntryTo,    \* entry_to, the expiration timeout, -1 for none
    Time,       \* the timestamps callers pass
    Sizes,      \* the packet sizes
    MaxSize     \* bound on the size of an entry

List == 0 .. NumLists - 1

\* No caller passes the timestamp 0, which key_tbl_record could not tell from
\* an entry that has never been used.
ASSUME KeyTableAssumption ==
    /\ NumLists \in Nat \ {0} /\ ListLen \in Nat
    /\ Hash \in [Key -> List] /\ NoKey \notin Key
    /\ EntryTo \in Nat \cup {-1}
    /\ Time \subseteq Int \ {0}
    /\ Sizes \subseteq Nat
    /\ MaxSize \in Nat

VARIABLES
    list,       \* the entries
    list_len,   \* how many of each list are in use
    num_key,
    clock,      \* the timestamp passed last; they do not decrease
    exited      \* the process has exited: "tbl list exhausted"

vars == <<list, list_len, num_key, clock, exited>>

Unused == [key |-> NoKey, size |-> 0, old_ts |-> 0, new_ts |-> 0]

Entry == [key: Key \cup {NoKey}, size: 0 .. MaxSize, old_ts: Time \cup {0},
          new_ts: Time \cup {0}]

Init ==
    /\ list = [b \in List |-> [i \in 1 .. ListLen |-> Unused]]
    /\ list_len = [b \in List |-> 0]
    /\ num_key = 0
    /\ clock \in Time
    /\ exited = FALSE

\* Wrong: the last entry is not looked at.
PlacesButLast(b, k) == {i \in 1 .. list_len[b] - 1: list[b][i].key = k}

\* The places of list b that hold k.
Places(b, k) == {i \in 1 .. list_len[b]: list[b][i].key = k}

\* The places of list b whose entry has expired.
Expired(b, ts) ==
    {i \in 1 .. list_len[b]: EntryTo # -1 /\ ts - list[b][i].new_ts > EntryTo}

First(S) == CHOOSE i \in S: \A j \in S: i <= j

HasRoom(b) == list_len[b] < ListLen

\* An entry about to be replaced.
AsNew(e) == [e EXCEPT !.new_ts = 0]

\* The end of key_tbl_record, for the entry e at place i of k's list, and the
\* caller's addition to its size.
Update(k, i, e, ts, v) ==
    LET size == IF e.new_ts = 0 THEN 0 ELSE e.size IN
    /\ size + v <= MaxSize
    /\ list' = [list EXCEPT ![Hash[k]][i] =
                  [key |-> k, size |-> size + v, old_ts |-> e.new_ts, new_ts |-> ts]]

RecordFound(b, k, ts, v) ==
    /\ Places(b, k) # {}
    /\ LET i == First(Places(b, k)) IN Update(k, i, list[b][i], ts, v)
    /\ UNCHANGED <<list_len, num_key, exited>>

RecordReplacing(b, k, ts, v) ==
    /\ Places(b, k) = {} /\ Expired(b, ts) # {}
    /\ LET i == First(Expired(b, ts)) IN Update(k, i, AsNew(list[b][i]), ts, v)
    /\ UNCHANGED <<list_len, num_key, exited>>

RecordNew(b, k, ts, v) ==
    /\ Places(b, k) = {} /\ Expired(b, ts) = {}
    /\ HasRoom(b)
    /\ num_key' = num_key + 1
    /\ list_len' = [list_len EXCEPT ![b] = @ + 1]
    /\ LET i == list_len[b] + 1 IN Update(k, i, list[b][i], ts, v)
    /\ UNCHANGED exited

\* "ERR: tbl list exhausted"
Exhausted(b, k, ts) ==
    /\ Places(b, k) = {} /\ Expired(b, ts) = {}
    /\ ~ HasRoom(b)
    /\ exited' = TRUE
    /\ UNCHANGED <<list, list_len, num_key>>

\* key_tbl_record and the addition to the entry it returns.
Record(k, ts, v) ==
    /\ ~ exited
    /\ ts >= clock /\ clock' = ts
    /\ \/ RecordFound(Hash[k], k, ts, v)
       \/ RecordReplacing(Hash[k], k, ts, v)
       \/ RecordNew(Hash[k], k, ts, v)
       \/ Exhausted(Hash[k], k, ts)

\* Wrong: the entries are not zeroed.
ResetLengths ==
    /\ ~ exited
    /\ num_key' = 0
    /\ list_len' = [b \in List |-> 0]
    /\ UNCHANGED <<list, clock, exited>>

\* key_tbl_reset zeroes the whole of every list.
Reset ==
    /\ ~ exited
    /\ num_key' = 0
    /\ list' = [b \in List |-> [i \in 1 .. ListLen |-> Unused]]
    /\ list_len' = [b \in List |-> 0]
    /\ UNCHANGED <<clock, exited>>

Next ==
    \/ \E k \in Key, ts \in Time, v \in Sizes: Record(k, ts, v)
    \/ Reset

Spec == Init /\ [][Next]_vars

-----------------------------------------------------------------------------
(* The queries *)

\* key_tbl_find: the place of k in its list, 0 when it is not found.
Find(k) ==
    LET P == Places(Hash[k], k) IN IF P = {} THEN 0 ELSE First(P)

\* key_tbl_get_all: the used places of every list.
GetAll == {p \in List \X (1 .. ListLen): p[2] <= list_len[p[1]]}

-----------------------------------------------------------------------------
TypeOK ==
    /\ list \in [List -> [1 .. ListLen -> Entry]]
    /\ list_len \in [List -> 0 .. ListLen]
    /\ num_key \in Nat
    /\ clock \in Time
    /\ exited \in BOOLEAN

\* key_tbl_get_all returns each key once and only keys key_tbl_find finds at
\* that very place: a used entry is in the list its key hashes to, and no
\* other used entry has its key, also after entries were replaced
\* (alg_keytbl.c:115-156).
EachKeyOnce ==
    \A p \in GetAll: LET k == list[p[1]][p[2]].key IN
        k \in Key /\ p = <<Hash[k], Find(k)>>

\* The memory behind list_len is zero: the next key put there starts at 0
\* (alg_keytbl.c:163-167, 290).
UnusedIsZero ==
    \A b \in List: \A i \in 1 .. ListLen: i > list_len[b] => list[b][i].new_ts = 0

\* "should not here" (alg_keytbl.c:140): no entry is ever replaced.
NeverReplaced ==
    [][\A b \in List: \A i \in 1 .. list_len[b]:
            list_len'[b] >= i => list'[b][i].key = list[b][i].key]_vars

Known == {k \in Key: Find(k) # 0}

Map == INSTANCE KeyMap WITH
    Timeout <- EntryTo,
    sizes <- [k \in Known |-> list[Hash[k]][Find(k)].size],
    since <- [k \in Known |-> list[Hash[k]][Find(k)].new_ts]

\* The table is a map from keys to the sum of the sizes recorded since the
\* last reset; only a key whose entry has expired is ever dropped.
ImplementsMap == [][Map!Reset \/ \E k \in Key, v \in Sizes, ts \in Time: Map!Add(k, v, ts)]_(Map!mvars)
=============================================================================
