------------------------------- MODULE KeyMap -------------------------------
(***************************************************************************)
(* What the key table promises: a map from keys to sizes.  Adding to a key *)
(* that is absent starts it at 0; it may make room by dropping one key     *)
(* that nothing was added to for longer than Timeout, and may fail when    *)
(* there is no room.                                                       *)
(***************************************************************************)
EXTENDS Integers, FiniteSets

CONSTANTS
    Key,
    Time,      \* the times at which a key is added to
    Timeout    \* -1 when keys are never dropped

VARIABLES
    sizes,     \* the map
    since      \* when each key was last added to

mvars == <<sizes, since>>

Init == sizes = [k \in {} |-> 0] /\ since = [k \in {} |-> 0]

MayDrop(ts) ==
    {{}} \cup {{j}: j \in {i \in DOMAIN since: Timeout # -1 /\ ts - since[i] > Timeout}}

Add(k, v, ts) ==
    \E gone \in IF k \in DOMAIN sizes THEN {{}} ELSE MayDrop(ts):
        LET keys == (DOMAIN sizes \ gone) \cup {k}
        IN  /\ sizes' = [j \in keys |->
                            (IF j \in DOMAIN sizes THEN sizes[j] ELSE 0)
                              + (IF j = k THEN v ELSE 0)]
            /\ since' = [j \in keys |-> IF j = k THEN ts ELSE since[j]]

Reset == Init'

Next == Reset \/ \E k \in Key, v \in Nat, ts \in Time: Add(k, v, ts)

Spec == Init /\ [][Next]_mvars
=============================================================================
