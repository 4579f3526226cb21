--------------------------- MODULE MCSketchLearn ---------------------------
(***************************************************************************)
(* SketchLearn with two rows of two buckets, keys of two bits and int32_t  *)
(* narrowed to four bits: two updates of 5 wrap.  k1 and k3 share a bucket *)
(* in both rows, so that neither row separates them.                       *)
(***************************************************************************)
EXTENDS SketchLearn, TLC

CONSTANTS k1, k2, k3, s1, s2

MCKey == {k1, k2, k3}
MCSketch == {s1, s2}
MCBitsOf == (k1 :> {1}) @@ (k2 :> {2}) @@ (k3 :> {1, 2})
MCHash == <<(k1 :> 0) @@ (k2 :> 0) @@ (k3 :> 0), (k1 :> 0) @@ (k2 :> 1) @@ (k3 :> 0)>>
Sketches == Permutations(MCSketch)
=============================================================================
