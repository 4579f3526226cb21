---------------------------- MODULE FifoChannel ----------------------------
(***************************************************************************)
(* What the ring buffer promises its two users: a bounded first-in         *)
(* first-out channel.  An item is sent, later made visible to the receiver *)
(* (alone or with others: the writer publishes in batches), and received   *)
(* once, in order.  A send or a receive may fail spuriously, which is a    *)
(* stuttering step here.                                                   *)
(***************************************************************************)
EXTENDS Integers, Sequences

CONSTANTS
    Capacity,  \* the most items the channel holds
    Batch,     \* the most items that are sent and not yet visible
    Tuple,     \* what is sent
    Zero       \* what the receiver's buffer holds before the first receive

VARIABLES
    queue,     \* the items sent and not yet received, oldest first
    visible,   \* how many of them the receiver may take
    received   \* the receiver's buffer: the item received last

cvars == <<queue, visible, received>>

Init ==
    /\ queue = <<>>
    /\ visible = 0
    /\ received = Zero

Send(v) ==
    /\ Len(queue) < Capacity
    /\ Len(queue) - visible < Batch
    /\ queue' = Append(queue, v)
    /\ UNCHANGED <<visible, received>>

Publish ==
    /\ visible' = Len(queue)
    /\ UNCHANGED <<queue, received>>

Receive ==
    /\ visible > 0
    /\ received' = Head(queue)
    /\ queue' = Tail(queue)
    /\ visible' = visible - 1

Next ==
    \/ \E v \in Tuple: Send(v)
    \/ Publish
    \/ Receive

Spec == Init /\ [][Next]_cvars

\* A visible item is not kept from the receiver for ever.
Delivery == WF_cvars(Receive)
=============================================================================
