---------------------------- MODULE MCKernelRing ----------------------------
(***************************************************************************)
(* KernelRing on a ring of five slots with a batch of two, which wraps     *)
(* between the halves of a batch and fills up, and in which three          *)
(* measurements meet.                                                      *)
(***************************************************************************)
EXTENDS KernelRing

ASSUME TupleAssumption == KernelTuples
=============================================================================
