------------------------------- MODULE Totals -------------------------------
(***************************************************************************)
(* The sum of the sizes of some keys, which the properties of sketches and *)
(* of true flows compare counters with.                                    *)
(***************************************************************************)
EXTENDS FiniteSetsExt

\* The sum of sizes[k] for all k in keys.
Total(sizes, keys) == MapThenSumSet(LAMBDA k: sizes[k], keys)
=============================================================================
