--------------------------- MODULE MCNetdevPorts ---------------------------
(***************************************************************************)
(* NetdevPorts: a local port, two polled devices, two cores.               *)
(***************************************************************************)
EXTENDS NetdevPorts

CONSTANTS local, p1, p2, c1, c2

MCNuma == [x \in {local, p1, p2, c1, c2} |-> 0]
MCAffinity == {[q \in 0 .. 1 |-> None], [q \in 0 .. 1 |-> IF q = 0 THEN c2 ELSE None]}
MCMask == {{c1, c2}, {c2}}

Zero == [open |-> 1, add |-> 0, del |-> 0, set |-> 0, dev |-> 0, fail |-> 0, send |-> 0, close |-> 0]
MCBudgets ==
    {[Zero EXCEPT !.add = 3, !.del = 1, !.set = 1, !.send = 1],
     [Zero EXCEPT !.add = 2, !.set = 2, !.dev = 1],
     [Zero EXCEPT !.add = 1, !.set = 2, !.dev = 2, !.fail = 1, !.send = 2],
     [Zero EXCEPT !.add = 2, !.set = 1, !.send = 4],
     [Zero EXCEPT !.open = 3, !.close = 3, !.add = 1, !.fail = 1, !.send = 1],
     [Zero EXCEPT !.close = 2, !.add = 1, !.fail = 2]}
=============================================================================
