----------------------------- MODULE MCDatapath -----------------------------
(***************************************************************************)
(* Datapath: a history is about ports, or about flows and packets.         *)
(***************************************************************************)
EXTENDS Datapath

MCBudgets ==
    {[dp |-> 1, exit |-> 0, port |-> 5, flow |-> 0, packet |-> 0, dump |-> 1],
     [dp |-> 3, exit |-> 1, port |-> 1, flow |-> 0, packet |-> 1, dump |-> 0],
     [dp |-> 1, exit |-> 0, port |-> 0, flow |-> 4, packet |-> 1, dump |-> 0],
     [dp |-> 2, exit |-> 0, port |-> 0, flow |-> 2, packet |-> 2, dump |-> 0]}

Symmetric == Permutations(Thread) \cup Permutations(Key)
=============================================================================
