---------------------------- MODULE MCDpSimulate ----------------------------
(***************************************************************************)
(* DpSimulate on traces of up to MaxLen packets whose timestamps do not    *)
(* decrease, and on two with a late packet.                                *)
(***************************************************************************)
EXTENDS DpSimulate

CONSTANTS MaxLen, MaxTs

ASSUME TupleAssumption == ReplayTuples

\* An interval that ends when the ring is full, and a packet of the next one.
FillingTraces == {<<2, 2, 3, 3, 3, 4>>}

MCTraces ==
    {tr \in UNION {[1 .. n -> IntervalLen .. MaxTs]: n \in 0 .. MaxLen}:
        \A i \in 1 .. Len(tr) - 1: tr[i] <= tr[i + 1]}
    \cup {<<2, 4, 3, 5>>, <<3, 6, 2, 4, 7>>}
    \cup FillingTraces
=============================================================================
