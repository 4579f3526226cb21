---------------------------- MODULE MCController ----------------------------
(***************************************************************************)
(* Controller with keys of two bits, all four of them, and two rows: one   *)
(* of a single bucket, one whose two buckets separate two pairs of keys.   *)
(* Every estimate there can be is tried, so that sizes are small.          *)
(***************************************************************************)
EXTENDS Controller, TLC

CONSTANTS k0, k1, k2, k3, MaxSize

MCKey == {k0, k1, k2, k3}
MCBitsOf == (k0 :> {}) @@ (k1 :> {1}) @@ (k2 :> {2}) @@ (k3 :> {1, 2})
MCHash == <<[k \in MCKey |-> 0], (k0 :> 0) @@ (k1 :> 1) @@ (k2 :> 0) @@ (k3 :> 1)>>

\* Any flows of up to MaxSize, and some with flows that stand out.
MCTraffic ==
    [MCKey -> 0 .. MaxSize] \cup
    {[k \in MCKey |-> CASE k = a -> 3 [] k = b -> 2 [] OTHER -> 0]: a \in MCKey, b \in {k0, k3}}
=============================================================================
