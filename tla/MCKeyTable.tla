----------------------------- MODULE MCKeyTable -----------------------------
(***************************************************************************)
(* KeyTable with four keys, three in one list and one in the other, and    *)
(* lists of two entries: one list can be exhausted and the other cannot.   *)
(* Time has the timestamp -1 every caller passes and the increasing ones   *)
(* the interface allows.                                                   *)
(***************************************************************************)
EXTENDS KeyTable, TLC

CONSTANTS k1, k2, k3, k4

MCKey == {k1, k2, k3, k4}
MCHash == (k1 :> 0) @@ (k2 :> 0) @@ (k3 :> 0) @@ (k4 :> 1)

MCTime == {-1} \cup 1 .. 3
=============================================================================
