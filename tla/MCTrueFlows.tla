----------------------------- MODULE MCTrueFlows ----------------------------
(***************************************************************************)
(* TrueFlows on the traces of MCDpSimulate: two flows, and packets of two  *)
(* sizes.                                                                  *)
(***************************************************************************)
EXTENDS TrueFlows, MCDpSimulate

MCFlowOf == [i \in 1 .. 6 |-> IF i \in {1, 2, 4} THEN "f" ELSE "g"]
MCSizeOf == [i \in 1 .. 6 |-> IF i \in {1, 3, 4} THEN 1 ELSE 2]
=============================================================================
