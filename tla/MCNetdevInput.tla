--------------------------- MODULE MCNetdevInput ---------------------------
(***************************************************************************)
(* NetdevInput: keys k1 and k2 are of one class, and recirculated packets   *)
(* have key k3; the cache has two entries.                                  *)
(***************************************************************************)
EXTENDS NetdevInput

CONSTANTS f1, f2, p1, p2, p3, p4, k1, k2, k3, X, Y

MCKey == {k1, k2, k3}
MCClass == [k \in MCKey |-> IF k = k3 THEN Y ELSE X]
MCPort == [k \in MCKey |-> 1]
MCHash == [k \in MCKey |-> CASE k = k1 -> 1 [] k = k2 -> 3 [] OTHER -> 2]
MCRecirc == [k \in MCKey |-> k3]
MCProgram == {<<>>, <<"recirc", "recirc">>, <<"output", "userspace", "tunnel">>}

Zero == [input |-> 1, call |-> 0, upcall |-> 0, put |-> 0, del |-> 0, dump |-> 0,
         reload |-> 0, runt |-> 0, refused |-> 0, disable |-> 0]
MCBudgets ==
    {[Zero EXCEPT !.upcall = 2],
     [Zero EXCEPT !.upcall = 1, !.input = 2, !.del = 1],
     [Zero EXCEPT !.put = 1, !.del = 1, !.dump = 1],
     [Zero EXCEPT !.put = 2],
     [Zero EXCEPT !.put = 1, !.input = 2, !.upcall = 1],
     [Zero EXCEPT !.put = 1, !.call = 1, !.refused = 1],
     [Zero EXCEPT !.input = 0, !.call = 2, !.refused = 1, !.upcall = 1],
     [Zero EXCEPT !.put = 1, !.runt = 1, !.disable = 1, !.reload = 1]}
\* Two bursts after a flow was put: an upcall for the second.
OwnBudgets == {[Zero EXCEPT !.put = 1, !.input = 2, !.upcall = 1]}
=============================================================================
