----------------------------- MODULE RingBuffer -----------------------------
(***************************************************************************)
(* The lock-free ring buffer of ringbuffer.c, shared by one writer and one *)
(* reader.  An action is what one thread does up to and including one      *)
(* access to a word the other thread also accesses: readIndex, writeIndex, *)
(* a slot of data, and nextReadIndex, which belongs to the reader but      *)
(* which the writer loads in flush_ringbuffer.  A call is a sequence of    *)
(* such actions, and wpc and rpc say where in its call each thread is.     *)
(*                                                                         *)
(* Memory is sequentially consistent here.  The code has no barrier        *)
(* (ringbuffer.h:22-23 comments one out): what it relies on is that the    *)
(* index words are volatile, that memcpy is not moved across them, and     *)
(* that x86 neither reorders two stores nor two loads.                     *)
(***************************************************************************)
EXTENDS Integers

CONSTANTS
    RbSize,    \* RB_SIZE, the number of slots
    RbBatch,   \* RB_BATCH, how many calls go by between two publications
    Tuple,     \* what a slot may hold
    Zero       \* the all-zero tuple slots are initialised to

ASSUME SizeAssumption == RbSize \in Nat /\ RbSize > 1
ASSUME BatchAssumption == RbBatch \in Nat \ {0}
ASSUME ZeroAssumption == Zero \in Tuple

VARIABLES
    \* struct RBMeta, in shared memory
    readIndex, writeIndex,
    localWriteIndex, nextReadIndex, rBatchCount,   \* the reader's
    localReadIndex, nextWriteIndex, wBatchCount,   \* the writer's
    data,      \* the slots
    \* the two threads
    wpc,       \* where the writer is in its call
    item,      \* the tuple it is writing
    loaded,    \* nextReadIndex as flush_ringbuffer loaded it
    rpc,       \* where the reader is in its call
    out        \* the buffer of the reader's caller

meta == <<readIndex, writeIndex, localWriteIndex, nextReadIndex, rBatchCount,
          localReadIndex, nextWriteIndex, wBatchCount>>
writerVars == <<localReadIndex, nextWriteIndex, wBatchCount, data, wpc, item, loaded>>
readerVars == <<localWriteIndex, nextReadIndex, rBatchCount, rpc, out>>
vars == <<readIndex, writeIndex, writerVars, readerVars>>

Slot == 0 .. RbSize - 1

NextVal(x) == IF x + 1 >= RbSize THEN 0 ELSE x + 1

\* The number of steps of NextVal from slot a to slot b.
Dist(a, b) == IF b >= a THEN b - a ELSE b - a + RbSize

Init ==
    /\ readIndex = 0 /\ writeIndex = 0
    /\ localWriteIndex = 0 /\ nextReadIndex = 0 /\ rBatchCount = 0
    /\ localReadIndex = 0 /\ nextWriteIndex = 0 /\ wBatchCount = 0
    /\ data = [s \in Slot |-> Zero]
    /\ wpc = "idle" /\ item = Zero /\ loaded = 0
    /\ rpc = "idle" /\ out = Zero

-----------------------------------------------------------------------------
(* write_ringbuffer *)

LooksFull ==
    /\ NextVal(nextWriteIndex) = localReadIndex
    /\ NextVal(nextWriteIndex) = readIndex

\* Both comparisons say full: the call returns -1 and has changed nothing.
WriteFails ==
    /\ wpc = "idle"
    /\ LooksFull
    /\ UNCHANGED vars

\* Wrong: a full ring is not noticed.
WriteBeginUnchecked(v) ==
    /\ wpc = "idle"
    /\ item' = v
    /\ wpc' = IF NextVal(nextWriteIndex) = localReadIndex THEN "reload" ELSE "copy"
    /\ UNCHANGED <<meta, data, loaded, readerVars>>

\* The checks up to the first load of readIndex.
WriteBegin(v) ==
    /\ wpc = "idle"
    /\ item' = v
    /\ \/ /\ NextVal(nextWriteIndex) # localReadIndex
          /\ wpc' = "copy"
       \/ /\ NextVal(nextWriteIndex) = localReadIndex
          /\ NextVal(nextWriteIndex) # readIndex
          /\ wpc' = "reload"
    /\ UNCHANGED <<meta, data, loaded, readerVars>>

\* The second load of readIndex, which may differ from the first.
WriteReload ==
    /\ wpc = "reload"
    /\ localReadIndex' = readIndex
    /\ wpc' = "copy"
    /\ UNCHANGED <<readIndex, writeIndex, nextWriteIndex, wBatchCount, data, item,
                   loaded, readerVars>>

\* memcpy ends (it has been writing the slot since wpc became "copy"), and
\* the counters are updated; item is dead and is cleared.
WriteStore ==
    /\ wpc = "copy"
    /\ data' = [data EXCEPT ![nextWriteIndex] = item]
    /\ nextWriteIndex' = NextVal(nextWriteIndex)
    /\ wBatchCount' = wBatchCount + 1
    /\ wpc' = IF wBatchCount + 1 >= RbBatch THEN "publish" ELSE "idle"
    /\ item' = Zero
    /\ UNCHANGED <<readIndex, writeIndex, localReadIndex, loaded, readerVars>>

WritePublish ==
    /\ wpc = "publish"
    /\ writeIndex' = nextWriteIndex
    /\ wBatchCount' = 0
    /\ wpc' = "idle"
    /\ UNCHANGED <<readIndex, localReadIndex, nextWriteIndex, data, item, loaded,
                   readerVars>>

-----------------------------------------------------------------------------
(* flush_ringbuffer: the writer's side calls it, for both indexes *)

FlushPublish ==
    /\ wpc = "idle"
    /\ writeIndex' = nextWriteIndex
    /\ wpc' = "flush_load"
    /\ UNCHANGED <<readIndex, localReadIndex, nextWriteIndex, wBatchCount, data,
                   item, loaded, readerVars>>

FlushLoad ==
    /\ wpc = "flush_load"
    /\ loaded' = nextReadIndex
    /\ wpc' = "flush_store"
    /\ UNCHANGED <<meta, data, item, readerVars>>

\* loaded is dead after the store and is cleared.
FlushStore ==
    /\ wpc = "flush_store"
    /\ readIndex' = loaded
    /\ loaded' = 0
    /\ wpc' = "idle"
    /\ UNCHANGED <<writeIndex, localReadIndex, nextWriteIndex, wBatchCount, data,
                   item, readerVars>>

-----------------------------------------------------------------------------
(* read_ringbuffer *)

LooksEmpty ==
    /\ nextReadIndex = localWriteIndex
    /\ nextReadIndex = writeIndex

ReadFails ==
    /\ rpc = "idle"
    /\ LooksEmpty
    /\ UNCHANGED vars

\* Wrong: an empty ring is not noticed.
ReadBeginUnchecked ==
    /\ rpc = "idle"
    /\ rpc' = "copy"
    /\ UNCHANGED <<meta, out, writerVars>>

\* Wrong: the cached writeIndex is never refreshed.
ReadBeginCached ==
    /\ rpc = "idle"
    /\ nextReadIndex # localWriteIndex
    /\ rpc' = "copy"
    /\ UNCHANGED <<meta, out, writerVars>>

ReadBegin ==
    /\ rpc = "idle"
    /\ \/ /\ nextReadIndex # localWriteIndex
          /\ rpc' = "copy"
       \/ /\ nextReadIndex = localWriteIndex
          /\ nextReadIndex # writeIndex
          /\ rpc' = "reload"
    /\ UNCHANGED <<meta, out, writerVars>>

\* Wrong: the writer's private index instead of the published one.
ReadReloadPrivate ==
    /\ rpc = "reload"
    /\ localWriteIndex' = nextWriteIndex
    /\ rpc' = "copy"
    /\ UNCHANGED <<readIndex, writeIndex, nextReadIndex, rBatchCount, out, writerVars>>

ReadReload ==
    /\ rpc = "reload"
    /\ localWriteIndex' = writeIndex
    /\ rpc' = "copy"
    /\ UNCHANGED <<readIndex, writeIndex, nextReadIndex, rBatchCount, out, writerVars>>

\* memcpy ends (it has been reading the slot since rpc became "copy").
ReadStore ==
    /\ rpc = "copy"
    /\ out' = data[nextReadIndex]
    /\ nextReadIndex' = NextVal(nextReadIndex)
    /\ rBatchCount' = rBatchCount + 1
    /\ rpc' = IF rBatchCount + 1 >= RbBatch THEN "publish" ELSE "idle"
    /\ UNCHANGED <<readIndex, writeIndex, localWriteIndex, writerVars>>

ReadPublish ==
    /\ rpc = "publish"
    /\ readIndex' = nextReadIndex
    /\ rBatchCount' = 0
    /\ rpc' = "idle"
    /\ UNCHANGED <<writeIndex, localWriteIndex, nextReadIndex, out, writerVars>>

-----------------------------------------------------------------------------
Writer ==
    \/ WriteFails
    \/ \E v \in Tuple: WriteBegin(v)
    \/ WriteReload
    \/ WriteStore
    \/ WritePublish
    \/ FlushPublish
    \/ FlushLoad
    \/ FlushStore

Reader ==
    \/ ReadFails
    \/ ReadBegin
    \/ ReadReload
    \/ ReadStore
    \/ ReadPublish

Next == Writer \/ Reader

Spec == Init /\ [][Next]_vars

-----------------------------------------------------------------------------
TypeOK ==
    /\ readIndex \in Slot /\ writeIndex \in Slot
    /\ localWriteIndex \in Slot /\ nextReadIndex \in Slot
    /\ localReadIndex \in Slot /\ nextWriteIndex \in Slot
    /\ rBatchCount \in 0 .. RbBatch /\ wBatchCount \in 0 .. RbBatch
    /\ data \in [Slot -> Tuple]
    /\ wpc \in {"idle", "reload", "copy", "publish", "flush_load", "flush_store"}
    /\ item \in Tuple /\ loaded \in Slot
    /\ rpc \in {"idle", "reload", "copy", "publish"}
    /\ out \in Tuple

\* The six indexes are where the diagram of ringbuffer.h:25-35 draws them,
\* going round the ring from the writer's copy of readIndex: whatever the
\* interleaving, and although flush_ringbuffer may store a readIndex that is
\* out of date, none overtakes the next one.
RingOrder ==
    LET At(i) == Dist(localReadIndex, i) IN
    /\ At(readIndex) <= At(nextReadIndex)
    /\ At(nextReadIndex) <= At(localWriteIndex)
    /\ At(localWriteIndex) <= At(writeIndex)
    /\ At(writeIndex) <= At(nextWriteIndex)

\* The writer's memcpy and the reader's memcpy are never in the same slot at
\* the same time: no tuple is read half written (ringbuffer.c:230, 268).
NoTornCopy == ~ (wpc = "copy" /\ rpc = "copy" /\ nextReadIndex = nextWriteIndex)

\* "<-- at most wBatch -->" (ringbuffer.h:34): the writer never holds back
\* more than RB_BATCH tuples, however writes and flushes alternate.
WriterBatchBound == Dist(writeIndex, nextWriteIndex) <= RbBatch

-----------------------------------------------------------------------------
(* The channel the ring implements *)

\* The slot k steps after slot a.
SlotAfter(a, k) == IF a + k < RbSize THEN a + k ELSE a + k - RbSize

\* The tuples written and not yet read, oldest first.
Contents ==
    [i \in 1 .. Dist(nextReadIndex, nextWriteIndex) |-> data[SlotAfter(nextReadIndex, i - 1)]]

Channel == INSTANCE FifoChannel WITH
    Capacity <- RbSize - 1, Batch <- RbBatch,
    queue <- Contents, visible <- Dist(nextReadIndex, writeIndex), received <- out

\* The ring is a first-in first-out channel of RB_SIZE-1 tuples: reads return
\* every written tuple once, unaltered and in order, and only after a
\* publication, for every interleaving of the two threads with flushes.
ImplementsChannel == Channel!Spec

\* A published tuple is eventually read, given a reader that keeps polling:
\* neither the cached localWriteIndex nor a flush can hide it for ever.
PublishedIsRead == Channel!Delivery
=============================================================================
