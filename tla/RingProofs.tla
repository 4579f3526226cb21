----------------------------- MODULE RingProofs -----------------------------
(***************************************************************************)
(* Proofs about RingBuffer, for every ring size, batch size and set of     *)
(* tuples, and about the programs that write and read the ring at its full *)
(* grain: the replayer (DpSimulate) and its twin that records true flows   *)
(* (TrueFlows), and the hook in the kernel (KernelRing).                   *)
(*                                                                         *)
(* RingOrder is not inductive: it says nothing of what each thread has     *)
(* established so far in its call.  IndInv adds that.  The programs extend *)
(* RingBuffer, so that this invariant and what happens to the contents of  *)
(* the ring are cited and not proved again.  What the tuples of the ring   *)
(* are differs from program to program, and is a hypothesis: ReplayTuples, *)
(* KernelTuples.                                                           *)
(***************************************************************************)
EXTENDS RingBuffer, TotalsProofs, TrueFlows, KernelRing, SequenceTheorems,
        FiniteSetTheorems, WellFoundedInduction, TLAPS

At(i) == Dist(localReadIndex, i)

\* What the writer knows at each point of a call.
WriterKnows ==
    /\ wpc = "reload" => /\ At(readIndex) > 0
                         /\ At(nextWriteIndex) = RbSize - 1
    /\ wpc = "copy" => At(nextWriteIndex) < RbSize - 1
    /\ wpc = "flush_store" => At(loaded) <= At(nextReadIndex)
    /\ wpc # "publish" => wBatchCount < RbBatch

\* What the reader knows at each point of a call.
ReaderKnows ==
    /\ rpc = "reload" => At(nextReadIndex) < At(writeIndex)
    /\ rpc = "copy" => At(nextReadIndex) < At(localWriteIndex)
    /\ rpc # "publish" => rBatchCount < RbBatch

\* wBatchCount counts at least the tuples the writer holds back; a flush
\* publishes them and leaves the count, which is why it is not an equality.
BatchCovers == At(nextWriteIndex) - At(writeIndex) <= wBatchCount

IndInv ==
    /\ TypeOK
    /\ RingOrder
    /\ WriterKnows
    /\ ReaderKnows
    /\ BatchCovers

-----------------------------------------------------------------------------
LEMMA NextValType == \A x \in Slot: NextVal(x) \in Slot
  BY SizeAssumption DEF Slot, NextVal

LEMMA DistType == \A a, b \in Slot: Dist(a, b) \in 0 .. RbSize - 1
  BY SizeAssumption DEF Slot, Dist

\* Distances add up as long as they do not go round the ring.
LEMMA DistShift ==
  \A a, b, c \in Slot:
      Dist(a, b) <= Dist(a, c) => Dist(b, c) = Dist(a, c) - Dist(a, b)
  BY SizeAssumption DEF Slot, Dist

LEMMA DistInjective ==
  \A a, b, c \in Slot: Dist(a, b) = Dist(a, c) => b = c
  BY SizeAssumption DEF Slot, Dist

\* One step forward is one more, unless it reaches the base.
LEMMA DistNext ==
  \A a, b \in Slot:
      /\ NextVal(b) # a => Dist(a, NextVal(b)) = Dist(a, b) + 1
      /\ NextVal(b) = a => Dist(a, b) = RbSize - 1
      /\ Dist(a, b) = RbSize - 1 => NextVal(b) = a
  BY SizeAssumption DEF Slot, Dist, NextVal

LEMMA DistSelf == \A a \in Slot: Dist(a, a) = 0
  BY SizeAssumption DEF Slot, Dist

-----------------------------------------------------------------------------
LEMMA InitIndInv == Init => IndInv
  BY SizeAssumption, BatchAssumption, ZeroAssumption
  DEF Init, IndInv, TypeOK, RingOrder, WriterKnows, ReaderKnows, BatchCovers, At,
      Dist, Slot

\* The type invariant is preserved by each step of either thread.
LEMMA TypeStep == IndInv /\ [Next]_vars => TypeOK'
<1> SUFFICES ASSUME IndInv, [Next]_vars PROVE TypeOK'
  OBVIOUS
<1> USE SizeAssumption, BatchAssumption, ZeroAssumption, NextValType
    DEF IndInv, TypeOK, WriterKnows, ReaderKnows
<1>1. CASE Writer
  <2>1. CASE WriteFails
    BY <2>1 DEF WriteFails, vars, meta, writerVars, readerVars
  <2>2. ASSUME NEW v \in Tuple, WriteBegin(v) PROVE TypeOK'
    BY <2>2 DEF WriteBegin, meta, readerVars
  <2>3. CASE WriteReload
    BY <2>3 DEF WriteReload, readerVars
  <2>4. CASE WriteStore
    BY <2>4 DEF WriteStore, readerVars
  <2>5. CASE WritePublish
    BY <2>5 DEF WritePublish, readerVars
  <2>6. CASE FlushPublish
    BY <2>6 DEF FlushPublish, readerVars
  <2>7. CASE FlushLoad
    BY <2>7 DEF FlushLoad, meta, readerVars
  <2>8. CASE FlushStore
    BY <2>8 DEF FlushStore, readerVars, Slot
  <2> QED
    BY <1>1, <2>1, <2>2, <2>3, <2>4, <2>5, <2>6, <2>7, <2>8 DEF Writer
<1>2. CASE Reader
  <2>1. CASE ReadFails
    BY <2>1 DEF ReadFails, vars, meta, writerVars, readerVars
  <2>2. CASE ReadBegin
    BY <2>2 DEF ReadBegin, meta, writerVars
  <2>3. CASE ReadReload
    BY <2>3 DEF ReadReload, writerVars
  <2>4. CASE ReadStore
    BY <2>4 DEF ReadStore, writerVars
  <2>5. CASE ReadPublish
    BY <2>5 DEF ReadPublish, writerVars
  <2> QED
    BY <1>2, <2>1, <2>2, <2>3, <2>4, <2>5 DEF Reader
<1>3. CASE UNCHANGED vars
  BY <1>3 DEF vars, writerVars, readerVars
<1> QED
  BY <1>1, <1>2, <1>3 DEF Next

\* A step of the writer preserves the rest of IndInv.
LEMMA WriterStep == IndInv /\ TypeOK' /\ Writer => IndInv'
<1> SUFFICES ASSUME IndInv, TypeOK', Writer PROVE IndInv'
  OBVIOUS
<1> USE SizeAssumption, BatchAssumption, DistType
    DEF IndInv, RingOrder, WriterKnows, ReaderKnows, BatchCovers, At
<1>1. CASE WriteFails
  BY <1>1 DEF WriteFails, vars, meta, writerVars, readerVars, TypeOK
<1>2. ASSUME NEW v \in Tuple, WriteBegin(v) PROVE IndInv'
  <2>1. At(nextWriteIndex) < RbSize - 1 \/ NextVal(nextWriteIndex) = localReadIndex
    BY DistNext DEF TypeOK
  <2>2. readIndex # localReadIndex => At(readIndex) > 0
    BY DistSelf, DistInjective DEF TypeOK
  <2> QED
    BY <1>2, <2>1, <2>2, DistNext DEF WriteBegin, meta, readerVars, TypeOK
<1>3. CASE WriteReload
  <2> DEFINE S == {readIndex, nextReadIndex, localWriteIndex, writeIndex, nextWriteIndex}
  <2>1. S \subseteq Slot /\ localReadIndex \in Slot
    BY DEF TypeOK
  <2>2. \A i \in S: At(readIndex) <= At(i)
    BY DEF TypeOK
  <2>3. \A i \in S: Dist(readIndex, i) = At(i) - At(readIndex)
    BY <2>1, <2>2, DistShift
  <2>4. \A i \in S: At(i) \in Int
    BY <2>1
  <2> QED
    BY <1>3, <2>3, <2>4 DEF WriteReload, readerVars
<1>4. CASE WriteStore
  <2>1. NextVal(nextWriteIndex) # localReadIndex
    BY <1>4, DistNext DEF WriteStore, TypeOK
  <2>2. Dist(localReadIndex, NextVal(nextWriteIndex)) = At(nextWriteIndex) + 1
    BY <2>1, DistNext DEF TypeOK
  <2> QED
    BY <1>4, <2>2 DEF WriteStore, readerVars, TypeOK
<1>5. CASE WritePublish
  BY <1>5 DEF WritePublish, readerVars, TypeOK
<1>6. CASE FlushPublish
  BY <1>6 DEF FlushPublish, readerVars, TypeOK
<1>7. CASE FlushLoad
  BY <1>7 DEF FlushLoad, meta, readerVars, TypeOK
<1>8. CASE FlushStore
  BY <1>8 DEF FlushStore, readerVars, TypeOK
<1> QED
  BY <1>1, <1>2, <1>3, <1>4, <1>5, <1>6, <1>7, <1>8 DEF Writer

\* A step of the reader preserves the rest of IndInv.
LEMMA ReaderStep == IndInv /\ TypeOK' /\ Reader => IndInv'
<1> SUFFICES ASSUME IndInv, TypeOK', Reader PROVE IndInv'
  OBVIOUS
<1> USE SizeAssumption, BatchAssumption, DistType
    DEF IndInv, RingOrder, WriterKnows, ReaderKnows, BatchCovers, At
<1>1. CASE ReadFails
  BY <1>1 DEF ReadFails, vars, meta, writerVars, readerVars, TypeOK
<1>2. CASE ReadBegin
  <2>1. nextReadIndex # localWriteIndex => At(nextReadIndex) < At(localWriteIndex)
    BY DistInjective DEF TypeOK
  <2>2. nextReadIndex # writeIndex => At(nextReadIndex) < At(writeIndex)
    BY DistInjective DEF TypeOK
  <2> QED
    BY <1>2, <2>1, <2>2 DEF ReadBegin, meta, writerVars, TypeOK
<1>3. CASE ReadReload
  BY <1>3 DEF ReadReload, writerVars, TypeOK
<1>4. CASE ReadStore
  <2>1. At(nextReadIndex) < RbSize - 1
    BY <1>4 DEF ReadStore, TypeOK
  <2>2. Dist(localReadIndex, NextVal(nextReadIndex)) = At(nextReadIndex) + 1
    BY <2>1, DistNext DEF TypeOK
  <2> QED
    BY <1>4, <2>2 DEF ReadStore, writerVars, TypeOK
<1>5. CASE ReadPublish
  BY <1>5 DEF ReadPublish, writerVars, TypeOK
<1> QED
  BY <1>1, <1>2, <1>3, <1>4, <1>5 DEF Reader

LEMMA IndInvStep == IndInv /\ [Next]_vars => IndInv'
<1> SUFFICES ASSUME IndInv, [Next]_vars PROVE IndInv'
  OBVIOUS
<1>1. TypeOK'
  BY TypeStep
<1>2. CASE UNCHANGED vars
  BY <1>2 DEF vars, writerVars, readerVars, IndInv, TypeOK, RingOrder, WriterKnows,
              ReaderKnows, BatchCovers, At
<1> QED
  BY <1>1, <1>2, WriterStep, ReaderStep DEF Next

LEMMA Inductive == Spec => []IndInv
  BY InitIndInv, IndInvStep, PTL DEF Spec

-----------------------------------------------------------------------------
\* Every index stays on the ring and every counter within its batch.
THEOREM TypeCorrect == Spec => []TypeOK
<1>1. IndInv => TypeOK
  BY DEF IndInv
<1> QED
  BY <1>1, Inductive, PTL

\* The six indexes keep the order of the diagram of ringbuffer.h.
THEOREM RingOrderHolds == Spec => []RingOrder
<1>1. IndInv => RingOrder
  BY DEF IndInv
<1> QED
  BY <1>1, Inductive, PTL

\* The two memcpy never meet in a slot: while the reader copies, its slot is
\* strictly before what the writer has published, let alone what it writes.
THEOREM NoTornCopyHolds == Spec => []NoTornCopy
<1>1. IndInv => NoTornCopy
  <2> SUFFICES ASSUME IndInv, wpc = "copy", rpc = "copy" PROVE nextReadIndex # nextWriteIndex
    BY DEF NoTornCopy
  <2>1. At(nextReadIndex) < At(nextWriteIndex)
    BY DistType DEF IndInv, TypeOK, RingOrder, ReaderKnows, At
  <2> QED
    BY <2>1, DistType DEF IndInv, TypeOK, At
<1> QED
  BY <1>1, Inductive, PTL

\* The writer holds back at most a batch.
THEOREM WriterBatchHolds == Spec => []WriterBatchBound
<1>1. IndInv => WriterBatchBound
  <2> SUFFICES ASSUME IndInv PROVE WriterBatchBound
    OBVIOUS
  <2>1. Dist(writeIndex, nextWriteIndex) = At(nextWriteIndex) - At(writeIndex)
    BY DistShift DEF IndInv, TypeOK, RingOrder, At
  <2> QED
    BY <2>1, DistType, SizeAssumption, BatchAssumption
    DEF IndInv, TypeOK, BatchCovers, WriterBatchBound, At
<1> QED
  BY <1>1, Inductive, PTL

-----------------------------------------------------------------------------
(* The refinement *)

\* From the reader's next slot, the published tuples come first and the held
\* back ones follow.
LEMMA Span ==
  IndInv => /\ Dist(nextReadIndex, nextWriteIndex) = At(nextWriteIndex) - At(nextReadIndex)
            /\ Dist(nextReadIndex, writeIndex) = At(writeIndex) - At(nextReadIndex)
            /\ Dist(nextReadIndex, nextWriteIndex) \in 0 .. RbSize - 1
            /\ Dist(nextReadIndex, writeIndex) \in 0 .. RbSize - 1
<1> SUFFICES ASSUME IndInv
    PROVE /\ Dist(nextReadIndex, nextWriteIndex) = At(nextWriteIndex) - At(nextReadIndex)
          /\ Dist(nextReadIndex, writeIndex) = At(writeIndex) - At(nextReadIndex)
          /\ Dist(nextReadIndex, nextWriteIndex) \in 0 .. RbSize - 1
          /\ Dist(nextReadIndex, writeIndex) \in 0 .. RbSize - 1
  OBVIOUS
<1>1. /\ At(nextReadIndex) <= At(writeIndex)
      /\ At(nextReadIndex) <= At(nextWriteIndex)
  BY DistType DEF IndInv, RingOrder, TypeOK, At
<1> QED
  BY <1>1, DistShift, DistType DEF IndInv, TypeOK, At

LEMMA SlotAfterType == \A a \in Slot, k \in 0 .. RbSize - 1: SlotAfter(a, k) \in Slot
  BY SizeAssumption DEF Slot, SlotAfter

LEMMA SlotAfterDist == \A a, b \in Slot: SlotAfter(a, Dist(a, b)) = b
  BY SizeAssumption DEF Slot, Dist, SlotAfter

LEMMA SlotAfterMisses ==
  \A a, b \in Slot: \A k \in 0 .. Dist(a, b) - 1: SlotAfter(a, k) # b
  BY SizeAssumption DEF Slot, Dist, SlotAfter

LEMMA SameSeq ==
  ASSUME NEW s \in Seq(Tuple), NEW r \in Seq(Tuple), NEW n \in Nat,
         Len(s) = n, Len(r) = n, \A i \in 1 .. n: s[i] = r[i]
  PROVE  s = r
  BY SeqEqual

\* Contents is the sequence of the slots from nextReadIndex on.
ContentsAreSlots ==
    /\ Contents \in Seq(Tuple)
    /\ Len(Contents) = Dist(nextReadIndex, nextWriteIndex)
    /\ \A i \in 1 .. Dist(nextReadIndex, nextWriteIndex):
          Contents[i] = data[SlotAfter(nextReadIndex, i - 1)]

LEMMA ContentsSeq == IndInv => ContentsAreSlots
<1> SUFFICES ASSUME IndInv PROVE ContentsAreSlots
  OBVIOUS
<1> DEFINE n == Dist(nextReadIndex, nextWriteIndex)
<1>1. n \in 0 .. RbSize - 1 /\ n \in Nat
  BY Span, SizeAssumption
<1>2. ASSUME NEW i \in 1 .. n PROVE data[SlotAfter(nextReadIndex, i - 1)] \in Tuple
  <2>1. i - 1 \in 0 .. RbSize - 1
    BY <1>1, SizeAssumption
  <2> QED
    BY <2>1, SlotAfterType DEF IndInv, TypeOK
<1>3. Contents \in [1 .. n -> Tuple]
  BY <1>2 DEF Contents
<1>4. Contents \in Seq(Tuple)
  BY <1>1, <1>3, SeqDef
<1>5. Len(Contents) = n
  BY <1>1, <1>3, <1>4, LenProperties
<1> QED
  BY <1>4, <1>5 DEF Contents, ContentsAreSlots

LEMMA ContentsSeqNext == IndInv' => ContentsAreSlots'
  BY ContentsSeq, PTL

\* A step that moves neither end and writes no slot leaves the contents.
LEMMA ContentsUnchanged ==
  UNCHANGED <<nextReadIndex, nextWriteIndex, data>> => UNCHANGED Contents
  BY DEF Contents, Dist, SlotAfter

\* The end of the writer's memcpy is a send.
LEMMA StoreIsSend == IndInv /\ IndInv' /\ WriteStore => Channel!Send(item)
<1> SUFFICES ASSUME IndInv, IndInv', WriteStore PROVE Channel!Send(item)
  OBVIOUS
<1> DEFINE n == Dist(nextReadIndex, nextWriteIndex)
<1>1. UNCHANGED <<nextReadIndex, writeIndex, out>>
  BY DEF WriteStore, readerVars
<1>2. /\ n < RbSize - 1
      /\ n - Dist(nextReadIndex, writeIndex) < RbBatch
  BY Span, DistType, SizeAssumption, BatchAssumption
  DEF IndInv, TypeOK, RingOrder, BatchCovers, WriterKnows, WriteStore, At
<1>3. n \in Nat
  BY Span, SizeAssumption
<1>4. Dist(nextReadIndex, nextWriteIndex)' = n + 1
  <2>1. nextReadIndex \in Slot /\ nextWriteIndex \in Slot
    BY DEF IndInv, TypeOK
  <2>2. NextVal(nextWriteIndex) # nextReadIndex
    BY <2>1, <1>2, DistNext, DistType, SizeAssumption
  <2> QED
    BY <2>1, <2>2, <1>1, DistNext DEF WriteStore, Dist
<1>5. nextWriteIndex = SlotAfter(nextReadIndex, n)
  BY SlotAfterDist DEF IndInv, TypeOK
<1>6. ASSUME NEW i \in 1 .. n
      PROVE SlotAfter(nextReadIndex, i - 1) # nextWriteIndex
  <2>1. i - 1 \in 0 .. n - 1
    BY <1>3
  <2> QED
    BY <2>1, SlotAfterMisses DEF IndInv, TypeOK
<1>7. item \in Tuple
  BY DEF IndInv, TypeOK
<1>8. /\ Contents \in Seq(Tuple) /\ Len(Contents) = n
      /\ \A i \in 1 .. n: Contents[i] = data[SlotAfter(nextReadIndex, i - 1)]
  BY ContentsSeq DEF ContentsAreSlots
<1>9. /\ Contents' \in Seq(Tuple) /\ Len(Contents') = n + 1
      /\ \A i \in 1 .. n + 1: Contents'[i] = data'[SlotAfter(nextReadIndex, i - 1)]
  <2>1. /\ Contents' \in Seq(Tuple)
        /\ Len(Contents') = Dist(nextReadIndex, nextWriteIndex)'
        /\ \A i \in 1 .. Dist(nextReadIndex, nextWriteIndex)':
              Contents'[i] = data'[SlotAfter(nextReadIndex', i - 1)]
    BY ContentsSeqNext DEF ContentsAreSlots, SlotAfter
  <2> QED
    BY <2>1, <1>1, <1>4
<1>10. Contents' = Append(Contents, item)
  <2> DEFINE a == Append(Contents, item)
  <2>1. /\ a \in Seq(Tuple) /\ Len(a) = n + 1
        /\ \A i \in 1 .. n: a[i] = Contents[i]
        /\ a[n + 1] = item
    BY <1>7, <1>8, AppendProperties
  <2>2. ASSUME NEW i \in 1 .. n + 1 PROVE Contents'[i] = a[i]
    <3>1. CASE i = n + 1
      <4>1. Contents'[i] = data'[nextWriteIndex]
        BY <3>1, <1>3, <1>5, <1>9
      <4>2. data'[nextWriteIndex] = item
        BY DEF WriteStore, IndInv, TypeOK
      <4> QED
        BY <4>1, <4>2, <2>1, <3>1
    <3>2. CASE i \in 1 .. n
      <4>1. i - 1 \in 0 .. RbSize - 1
        BY <3>2, <1>2, <1>3, SizeAssumption
      <4>2. SlotAfter(nextReadIndex, i - 1) \in Slot
        BY <4>1, SlotAfterType DEF IndInv, TypeOK
      <4>3. data'[SlotAfter(nextReadIndex, i - 1)] = data[SlotAfter(nextReadIndex, i - 1)]
        BY <3>2, <4>2, <1>6 DEF WriteStore, IndInv, TypeOK
      <4> QED
        BY <3>2, <4>3, <1>8, <1>9, <2>1
    <3>3. i = n + 1 \/ i \in 1 .. n
      BY <1>3
    <3> QED
      BY <3>1, <3>2, <3>3
  <2>3. n + 1 \in Nat
    BY <1>3
  <2> HIDE DEF a, n
  <2>4. Contents' = a
    BY <2>1, <2>2, <2>3, <1>9, SameSeq
  <2> QED
    BY <2>4 DEF a
<1>11. UNCHANGED Dist(nextReadIndex, writeIndex)
  BY <1>1 DEF Dist
<1> QED
  BY <1>1, <1>2, <1>8, <1>10, <1>11 DEF Channel!Send

\* The end of the reader's memcpy is a receive.
LEMMA StoreIsReceive == IndInv /\ IndInv' /\ ReadStore => Channel!Receive
<1> SUFFICES ASSUME IndInv, IndInv', ReadStore PROVE Channel!Receive
  OBVIOUS
<1> DEFINE n == Dist(nextReadIndex, nextWriteIndex)
           v == Dist(nextReadIndex, writeIndex)
           r == NextVal(nextReadIndex)
<1>1. /\ UNCHANGED <<nextWriteIndex, writeIndex, data>>
      /\ nextReadIndex' = r
      /\ out' = data[nextReadIndex]
  BY DEF ReadStore, writerVars
<1>2. v > 0 /\ n > 0
  BY Span, DistType, SizeAssumption
  DEF IndInv, TypeOK, RingOrder, ReaderKnows, ReadStore, At
<1>3. /\ n \in Nat /\ v \in Nat /\ n < RbSize
      /\ nextReadIndex \in Slot /\ nextWriteIndex \in Slot /\ writeIndex \in Slot
  BY Span, SizeAssumption DEF IndInv, TypeOK
<1>4. Dist(r, nextWriteIndex) = n - 1 /\ Dist(r, writeIndex) = v - 1
  BY <1>2, <1>3, SizeAssumption DEF NextVal, Dist, Slot
<1>5. \A i \in 1 .. n - 1: SlotAfter(r, i - 1) = SlotAfter(nextReadIndex, i)
  BY <1>3, SizeAssumption DEF NextVal, SlotAfter, Slot
<1>6. SlotAfter(nextReadIndex, 0) = nextReadIndex
  BY <1>3, SizeAssumption DEF SlotAfter, Slot
<1>7. /\ Contents \in Seq(Tuple) /\ Len(Contents) = n
      /\ \A i \in 1 .. n: Contents[i] = data[SlotAfter(nextReadIndex, i - 1)]
  BY ContentsSeq DEF ContentsAreSlots
<1>8. /\ Contents' \in Seq(Tuple) /\ Len(Contents') = n - 1
      /\ \A i \in 1 .. n - 1: Contents'[i] = data[SlotAfter(r, i - 1)]
  <2>1. /\ Contents' \in Seq(Tuple)
        /\ Len(Contents') = Dist(nextReadIndex', nextWriteIndex')
        /\ \A i \in 1 .. Dist(nextReadIndex', nextWriteIndex'):
              Contents'[i] = data'[SlotAfter(nextReadIndex', i - 1)]
    BY ContentsSeqNext DEF ContentsAreSlots, SlotAfter, Dist
  <2> QED
    BY <2>1, <1>1, <1>4
<1>9. Contents # <<>>
  BY <1>2, <1>3, <1>7, EmptySeq
<1>10. out' = Head(Contents)
  <2>1. Head(Contents) = Contents[1]
    BY <1>9 DEF Head
  <2>2. Contents[1] = data[SlotAfter(nextReadIndex, 0)]
    BY <1>2, <1>3, <1>7
  <2> QED
    BY <2>1, <2>2, <1>1, <1>6
<1>11. Contents' = Tail(Contents)
  <2> DEFINE rest == Tail(Contents)
  <2>1. /\ rest \in Seq(Tuple) /\ Len(rest) = n - 1
        /\ \A i \in 1 .. n - 1: rest[i] = Contents[i + 1]
    BY <1>7, <1>9, HeadTailProperties
  <2>2. ASSUME NEW i \in 1 .. n - 1 PROVE Contents'[i] = rest[i]
    <3>1. i + 1 \in 1 .. n /\ (i + 1) - 1 = i
      BY <1>3
    <3>2. rest[i] = data[SlotAfter(nextReadIndex, i)]
      BY <3>1, <2>1, <1>7
    <3> QED
      BY <3>2, <1>5, <1>8
  <2>3. n - 1 \in Nat
    BY <1>2, <1>3
  <2> HIDE DEF rest, n, r
  <2>4. Contents' = rest
    BY <2>1, <2>2, <2>3, <1>8, SameSeq
  <2> QED
    BY <2>4 DEF rest
<1>12. Dist(nextReadIndex, writeIndex)' = v - 1
  BY <1>1, <1>4
<1> QED
  BY <1>1, <1>2, <1>10, <1>11, <1>12 DEF Channel!Receive

LEMMA InitRefines == Init => Channel!Init
<1> SUFFICES ASSUME Init PROVE Channel!Init
  OBVIOUS
<1>1. IndInv
  BY InitIndInv
<1>2. Dist(nextReadIndex, nextWriteIndex) = 0 /\ Dist(nextReadIndex, writeIndex) = 0
  BY DEF Init, Dist
<1>3. Contents = <<>>
  <2>1. Contents \in Seq(Tuple) /\ Len(Contents) = 0
    BY <1>1, <1>2, ContentsSeq DEF ContentsAreSlots
  <2> QED
    BY <2>1, EmptySeq
<1> QED
  BY <1>2, <1>3 DEF Init, Channel!Init

\* Every other step publishes what has been written, or changes nothing that
\* the channel shows.
LEMMA StepRefines == IndInv /\ IndInv' /\ [Next]_vars => [Channel!Next]_(Channel!cvars)
<1> SUFFICES ASSUME IndInv, IndInv', [Next]_vars PROVE [Channel!Next]_(Channel!cvars)
  OBVIOUS
<1>1. ASSUME UNCHANGED <<nextReadIndex, nextWriteIndex, data, out>>,
             writeIndex' = writeIndex \/ writeIndex' = nextWriteIndex
      PROVE [Channel!Next]_(Channel!cvars)
  <2>1. UNCHANGED Contents
    BY <1>1, ContentsUnchanged
  <2>2. CASE writeIndex' = writeIndex
    BY <1>1, <2>1, <2>2 DEF Channel!cvars, Dist
  <2>3. CASE writeIndex' = nextWriteIndex
    <3>1. Dist(nextReadIndex, writeIndex)' = Len(Contents)
      BY <1>1, <2>3, ContentsSeq DEF ContentsAreSlots, Dist
    <3> QED
      BY <1>1, <2>1, <3>1 DEF Channel!Publish, Channel!Next
  <2> QED
    BY <1>1, <2>2, <2>3
<1>2. CASE UNCHANGED vars
  BY <1>1, <1>2 DEF vars, writerVars, readerVars
<1>3. CASE Writer
  <2>1. CASE WriteFails
    BY <1>1, <2>1 DEF WriteFails, vars, writerVars, readerVars
  <2>2. ASSUME NEW v \in Tuple, WriteBegin(v) PROVE [Channel!Next]_(Channel!cvars)
    BY <1>1, <2>2 DEF WriteBegin, meta, readerVars
  <2>3. CASE WriteReload
    BY <1>1, <2>3 DEF WriteReload, readerVars
  <2>4. CASE WriteStore
    <3>1. item \in Tuple
      BY DEF IndInv, TypeOK
    <3> QED
      BY <2>4, <3>1, StoreIsSend DEF Channel!Next
  <2>5. CASE WritePublish
    BY <1>1, <2>5 DEF WritePublish, readerVars
  <2>6. CASE FlushPublish
    BY <1>1, <2>6 DEF FlushPublish, readerVars
  <2>7. CASE FlushLoad
    BY <1>1, <2>7 DEF FlushLoad, meta, readerVars
  <2>8. CASE FlushStore
    BY <1>1, <2>8 DEF FlushStore, readerVars
  <2> QED
    BY <1>3, <2>1, <2>2, <2>3, <2>4, <2>5, <2>6, <2>7, <2>8 DEF Writer
<1>4. CASE Reader
  <2>1. CASE ReadFails
    BY <1>1, <2>1 DEF ReadFails, vars, writerVars, readerVars
  <2>2. CASE ReadBegin
    BY <1>1, <2>2 DEF ReadBegin, meta, writerVars
  <2>3. CASE ReadReload
    BY <1>1, <2>3 DEF ReadReload, writerVars
  <2>4. CASE ReadStore
    BY <2>4, StoreIsReceive DEF Channel!Next
  <2>5. CASE ReadPublish
    BY <1>1, <2>5 DEF ReadPublish, writerVars
  <2> QED
    BY <1>4, <2>1, <2>2, <2>3, <2>4, <2>5 DEF Reader
<1> QED
  BY <1>2, <1>3, <1>4 DEF Next

\* The ring buffer is a first-in first-out channel.
THEOREM Refinement == Spec => ImplementsChannel
<1>1. Init => Channel!Init
  BY InitRefines
<1>2. IndInv /\ IndInv' /\ [Next]_vars => [Channel!Next]_(Channel!cvars)
  BY StepRefines
<1> QED
  BY <1>1, <1>2, Inductive, PTL DEF Spec, ImplementsChannel, Channel!Spec

-----------------------------------------------------------------------------
(* What has been written to the ring and not been handled *)

\* The tuple the reader has in hand, if it has one, and those in the ring.
Unread(held) == IF held THEN <<out>> \o Contents ELSE Contents

LEMMA UnreadSeq == IndInv => \A held \in BOOLEAN: Unread(held) \in Seq(Tuple)
<1> SUFFICES ASSUME IndInv PROVE \A held \in BOOLEAN: Unread(held) \in Seq(Tuple)  OBVIOUS
<1>1. Contents \in Seq(Tuple)  BY ContentsSeq DEF ContentsAreSlots
<1>2. out \in Tuple  BY DEF IndInv, TypeOK
<1>3. <<out>> \o Contents \in Seq(Tuple)  BY <1>1, <1>2
<1>4. QED  BY <1>1, <1>3 DEF Unread

\* The end of the writer's memcpy appends.
LEMMA StoreAppends ==
  ASSUME IndInv, IndInv', WriteStore
  PROVE  /\ \A held \in BOOLEAN: Unread(held)' = Append(Unread(held), item)
         /\ UNCHANGED out
<1>1. Contents' = Append(Contents, item) /\ out' = out  BY StoreIsSend DEF Channel!Send
<1>2. Contents \in Seq(Tuple)  BY ContentsSeq DEF ContentsAreSlots
<1>3. out \in Tuple /\ item \in Tuple  BY DEF IndInv, TypeOK
<1>4. \A c \in Seq(Tuple), o, v \in Tuple: <<o>> \o Append(c, v) = Append(<<o>> \o c, v)
  <2>1. SUFFICES ASSUME NEW c \in Seq(Tuple), NEW o \in Tuple, NEW v \in Tuple
                 PROVE  <<o>> \o Append(c, v) = Append(<<o>> \o c, v)
    OBVIOUS
  <2> DEFINE l == <<o>> \o Append(c, v)
             r == Append(<<o>> \o c, v)
  <2>2. <<o>> \in Seq(Tuple) /\ Append(c, v) \in Seq(Tuple) /\ <<o>> \o c \in Seq(Tuple)  OBVIOUS
  <2>3. l \in Seq(Tuple) /\ r \in Seq(Tuple) /\ Len(l) = Len(c) + 2 /\ Len(r) = Len(c) + 2  BY <2>2
  <2>4. \A j \in 1 .. Len(c) + 2: l[j] = r[j]  BY <2>2
  <2> HIDE DEF l, r
  <2>5. l = r  BY <2>3, <2>4, SeqEqual
  <2>6. QED  BY <2>5 DEF l, r
<1>5. QED  BY <1>1, <1>4 DEF Unread

\* The end of the reader's memcpy takes the first tuple in hand.
LEMMA ReadTakesHead ==
  ASSUME IndInv, IndInv', ReadStore
  PROVE  Contents' = Tail(Contents) /\ out' = Head(Contents) /\ Contents # <<>>
<1>1. Channel!Receive  BY StoreIsReceive
<1>2. Dist(nextReadIndex, writeIndex) <= Dist(nextReadIndex, nextWriteIndex)
  BY Span, DistType DEF IndInv, TypeOK, RingOrder, At
<1>3. Dist(nextReadIndex, writeIndex) > 0  BY <1>1 DEF Channel!Receive
<1>4. Len(Contents) # 0  BY <1>2, <1>3, Span, ContentsSeq DEF ContentsAreSlots
<1>5. QED  BY <1>1, <1>4 DEF Channel!Receive

LEMMA ReadTakes ==
  ASSUME IndInv, IndInv', ReadStore
  PROVE  Unread(TRUE)' = Unread(FALSE)
<1>1. Contents' = Tail(Contents) /\ out' = Head(Contents) /\ Contents # <<>>  BY ReadTakesHead
<1>2. Contents \in Seq(Tuple)  BY ContentsSeq DEF ContentsAreSlots
<1>3. <<Head(Contents)>> \o Tail(Contents) = Contents
  <2> DEFINE c == Contents
  <2>1. c \in Seq(Tuple) /\ c # <<>>  BY <1>1, <1>2
  <2> HIDE DEF c
  <2>2. <<Head(c)>> \o Tail(c) = c  BY <2>1
  <2>3. QED  BY <2>2 DEF c
<1>4. QED  BY <1>1, <1>3 DEF Unread

\* Once the tuple in hand is handled the rest is left.
LEMMA HandleDrops ==
  ASSUME IndInv, UNCHANGED <<Contents, out>>
  PROVE  /\ Unread(TRUE) # <<>> /\ out = Head(Unread(TRUE))
         /\ Unread(FALSE)' = Tail(Unread(TRUE))
<1>1. Contents \in Seq(Tuple) /\ out \in Tuple
  BY ContentsSeq DEF ContentsAreSlots, IndInv, TypeOK
<1>2. /\ <<out>> \o Contents # <<>> /\ out = Head(<<out>> \o Contents)
      /\ Contents = Tail(<<out>> \o Contents)
  <2> DEFINE c == Contents
  <2>1. c \in Seq(Tuple)  BY <1>1
  <2> HIDE DEF c
  <2>2. /\ <<out>> \o c # <<>> /\ out = Head(<<out>> \o c)
        /\ c = Tail(<<out>> \o c)  BY <2>1, <1>1
  <2>3. QED  BY <2>2 DEF c
<1>3. QED  BY <1>2 DEF Unread

\* The other steps of the two threads leave what is unread.
QuietWriter(v) == WriteFails \/ WriteBegin(v) \/ WriteReload \/ WritePublish
                  \/ FlushPublish \/ FlushLoad \/ FlushStore
QuietReader == ReadFails \/ ReadBegin \/ ReadReload \/ ReadPublish

LEMMA QuietWriterKeeps ==
  ASSUME NEW v, QuietWriter(v)
  PROVE  UNCHANGED <<nextReadIndex, nextWriteIndex, Contents, out>>
<1>1. UNCHANGED <<nextReadIndex, nextWriteIndex, data, out>>
  BY DEF QuietWriter, WriteFails, WriteBegin, WriteReload, WritePublish, FlushPublish, FlushLoad,
         FlushStore, vars, meta, writerVars, readerVars
<1>2. QED  BY <1>1, ContentsUnchanged

LEMMA QuietReaderKeeps ==
  ASSUME QuietReader PROVE UNCHANGED <<nextReadIndex, nextWriteIndex, Contents, out>>
<1>1. UNCHANGED <<nextReadIndex, nextWriteIndex, data, out>>
  BY DEF QuietReader, ReadFails, ReadBegin, ReadReload, ReadPublish, vars, meta, writerVars, readerVars
<1>2. QED  BY <1>1, ContentsUnchanged

-----------------------------------------------------------------------------
(* The stream of packets and marks *)

Packet(n) == [flag |-> "NORMAL", pkt |-> n]

\* q is packets c + 1 to s, and one mark or none.
Stream(q, c, s, marks, flag) ==
    /\ q \in Seq(Tuple) /\ c \in Nat /\ s \in Nat /\ c <= s
    /\ marks \in {0, 1}
    /\ Len(q) = (s - c) + marks
    /\ \A j \in 1 .. s - c: q[j] = Packet(c + j)
    /\ marks = 1 => q[Len(q)].flag = flag

LEMMA StreamAnyFlag ==
  ASSUME NEW q, NEW c, NEW s, NEW f, NEW g, Stream(q, c, s, 0, f)
  PROVE  Stream(q, c, s, 0, g)
  BY DEF Stream

LEMMA StreamPacket ==
  ASSUME NEW q, NEW c, NEW s, NEW f, Stream(q, c, s, 0, f), Packet(s + 1) \in Tuple
  PROVE  Stream(Append(q, Packet(s + 1)), c, s + 1, 0, f)
<1> DEFINE v == Packet(s + 1)
<1>1. q \in Seq(Tuple) /\ v \in Tuple /\ c \in Nat /\ s \in Nat /\ c <= s /\ Len(q) = s - c  BY DEF Stream
<1>2. \A j \in 1 .. s - c: q[j] = Packet(c + j)  BY DEF Stream
<1> HIDE DEF v
<1>3. /\ Append(q, v) \in Seq(Tuple) /\ Len(Append(q, v)) = s + 1 - c
      /\ Append(q, v)[s + 1 - c] = v
      /\ \A j \in 1 .. s - c: Append(q, v)[j] = q[j]
  BY <1>1
<1>4. ASSUME NEW j \in 1 .. s + 1 - c PROVE Append(q, v)[j] = Packet(c + j)
  <2>1. CASE j \in 1 .. s - c
    <3>1. Append(q, v)[j] = q[j] /\ q[j] = Packet(c + j)  BY <1>2, <1>3, <2>1
    <3>2. QED  BY <3>1
  <2>2. CASE j = s + 1 - c
    <3>1. c + j = s + 1  BY <1>1, <2>2
    <3>2. QED  BY <1>3, <2>2, <3>1 DEF v
  <2>3. QED  BY <1>1, <2>1, <2>2
<1>5. QED  BY <1>1, <1>3, <1>4 DEF Stream, v

LEMMA StreamMark ==
  ASSUME NEW q, NEW c, NEW s, NEW f, Stream(q, c, s, 0, f), NEW v \in Tuple, NEW g, v.flag = g
  PROVE  Stream(Append(q, v), c, s, 1, g)
<1>1. q \in Seq(Tuple) /\ c \in Nat /\ s \in Nat /\ c <= s /\ Len(q) = s - c  BY DEF Stream
<1>2. \A j \in 1 .. s - c: q[j] = Packet(c + j)  BY DEF Stream
<1>3. /\ Append(q, v) \in Seq(Tuple) /\ Len(Append(q, v)) = s - c + 1
      /\ Append(q, v)[s - c + 1] = v
      /\ \A j \in 1 .. s - c: Append(q, v)[j] = q[j]
  BY <1>1
<1>4. QED  BY <1>1, <1>2, <1>3 DEF Stream

LEMMA StreamTakePacket ==
  ASSUME NEW q, NEW c, NEW s, NEW m, NEW f, Stream(q, c, s, m, f), q # <<>>,
         Head(q).flag = "NORMAL", f # "NORMAL"
  PROVE  Head(q) = Packet(c + 1) /\ c + 1 <= s /\ Stream(Tail(q), c + 1, s, m, f)
<1>1. /\ q \in Seq(Tuple) /\ c \in Nat /\ s \in Nat /\ c <= s
      /\ m \in {0, 1} /\ Len(q) = (s - c) + m  BY DEF Stream
<1>2. \A j \in 1 .. s - c: q[j] = Packet(c + j)  BY DEF Stream
<1>3. m = 1 => q[Len(q)].flag = f  BY DEF Stream
<1>4. Head(q) = q[1]  BY <1>1
<1>5. c # s
  <2>1. ASSUME c = s PROVE FALSE
    <3>1. Len(q) = m  BY <1>1, <2>1
    <3>2. Len(q) # 0  BY <1>1
    <3>3. m = 1 /\ Len(q) = 1  BY <1>1, <3>1, <3>2
    <3>4. QED  BY <1>3, <1>4, <3>3
  <2>2. QED  BY <2>1
<1>6. Head(q) = Packet(c + 1)  BY <1>1, <1>2, <1>4, <1>5
<1>7. /\ Tail(q) \in Seq(Tuple) /\ Len(Tail(q)) = Len(q) - 1
      /\ \A j \in 1 .. Len(q) - 1: Tail(q)[j] = q[j + 1]  BY <1>1
<1>8. Len(Tail(q)) = (s - (c + 1)) + m  BY <1>1, <1>7
<1>9. \A j \in 1 .. s - (c + 1): Tail(q)[j] = Packet(c + 1 + j)
  <2>1. TAKE j \in 1 .. s - (c + 1)
  <2>2. j \in 1 .. Len(q) - 1 /\ j + 1 \in 1 .. s - c /\ c + (j + 1) = c + 1 + j  BY <1>1
  <2>3. QED  BY <1>2, <1>7, <2>2
<1>10. m = 1 => Tail(q)[Len(Tail(q))].flag = f
  <2>1. ASSUME m = 1 PROVE Tail(q)[Len(Tail(q))].flag = f
    <3>1. Len(q) - 1 \in 1 .. Len(q) - 1  BY <1>1, <1>5, <2>1
    <3>2. QED  BY <1>1, <1>3, <1>7, <2>1, <3>1
  <2>2. QED  BY <2>1
<1>11. QED  BY <1>1, <1>5, <1>6, <1>7, <1>8, <1>9, <1>10 DEF Stream

LEMMA StreamTakeMark ==
  ASSUME NEW q, NEW c, NEW s, NEW m, NEW f, Stream(q, c, s, m, f), q # <<>>,
         Head(q).flag # "NORMAL"
  PROVE  m = 1 /\ c = s /\ Head(q).flag = f /\ \A g: Stream(Tail(q), c, s, 0, g)
<1>1. /\ q \in Seq(Tuple) /\ c \in Nat /\ s \in Nat /\ c <= s
      /\ m \in {0, 1} /\ Len(q) = (s - c) + m  BY DEF Stream
<1>2. Head(q) = q[1]  BY <1>1
<1>3. c = s
  <2>1. ASSUME c # s PROVE FALSE
    <3>1. q[1] = Packet(c + 1)  BY <1>1, <2>1 DEF Stream
    <3>2. QED  BY <1>2, <3>1 DEF Packet
  <2>2. QED  BY <2>1
<1>4. m = 1 /\ Len(q) = 1  BY <1>1, <1>3
<1>5. Head(q).flag = f  BY <1>2, <1>4 DEF Stream
<1>6. Tail(q) \in Seq(Tuple) /\ Len(Tail(q)) = 0  BY <1>1, <1>4
<1>7. QED  BY <1>1, <1>3, <1>4, <1>5, <1>6 DEF Stream

LEMMA StreamEnds ==
  ASSUME NEW q, NEW c, NEW f, Stream(q, c, c, 0, f)
  PROVE  Len(q) = 0
  BY DEF Stream

-----------------------------------------------------------------------------
(* The intervals of a trace *)

\* A set of numbers that has 0, and n + 1 if it has n, has them all.
LEMMA NumberInduction ==
  ASSUME NEW P, 0 \in P, \A n \in Nat: n \in P => n + 1 \in P
  PROVE  Nat \subseteq P
<1> DEFINE Bad == {n \in Nat: n \notin P}
<1>1. SUFFICES ASSUME Bad # {} PROVE FALSE  OBVIOUS
<1>2. Bad \in SUBSET Nat  OBVIOUS
<1> HIDE DEF Bad
<1>3. PICK n \in Bad: \A y \in Bad: ~ (<<y, n>> \in OpToRel(<, Nat))
  BY <1>1, <1>2, NatLessThanWellFounded, WFMin
<1> USE DEF Bad
<1>4. n \in Nat /\ n # 0  OBVIOUS
<1>5. n - 1 \in Nat /\ n - 1 < n /\ (n - 1) + 1 = n  BY <1>4
<1>6. n - 1 \in Bad  BY <1>4, <1>5
<1>7. QED  BY <1>3, <1>4, <1>5, <1>6 DEF OpToRel

\* The trace is one of those replayed.
Loaded == trace \in Traces

LEMMA TraceType ==
  Loaded => trace \in Seq(Nat) /\ Len(trace) \in Nat /\ MaxPacket \in Nat /\ Len(trace) <= MaxPacket
<1> SUFFICES ASSUME Loaded
             PROVE  trace \in Seq(Nat) /\ Len(trace) \in Nat /\ MaxPacket \in Nat /\ Len(trace) <= MaxPacket
  OBVIOUS
<1>1. trace \in Seq(Nat) /\ trace \in Traces  BY TraceAssumption DEF Loaded
<1>2. PICK longest \in Traces: \A tr \in Traces: Len(tr) <= Len(longest)  BY TraceAssumption DEF Loaded
<1>3. \A tr \in Traces: tr \in Seq(Nat)  BY TraceAssumption DEF Loaded
<1>4. MaxPacket \in {Len(tr): tr \in Traces} /\ \A tr \in Traces: Len(tr) <= MaxPacket
  BY <1>2 DEF MaxPacket
<1>5. QED  BY <1>1, <1>3, <1>4

LEMMA Quotient == \A a \in Nat, b \in Nat \ {0}: a \div b \in Nat /\ (a >= b => a \div b > 0)
  OBVIOUS

LEMMA IntervalType == Loaded => \A i \in 1 .. Len(trace): Interval(i) \in Nat /\ Interval(i) > 0
<1> SUFFICES ASSUME Loaded, NEW i \in 1 .. Len(trace)
             PROVE  Interval(i) \in Nat /\ Interval(i) > 0
  OBVIOUS
<1>1. trace[i] \in Nat /\ trace[i] >= IntervalLen /\ IntervalLen \in Nat \ {0}
  <2>1. trace \in Traces /\ trace \in Seq(Nat)  BY TraceAssumption DEF Loaded
  <2>2. QED  BY <2>1, TraceAssumption DEF Loaded
<1>2. QED  BY <1>1, Quotient DEF Interval

\* There is a largest interval among the first packets.
IsHighWater(m, i) ==
    m \in {Interval(j): j \in 1 .. i} /\ \A j \in 1 .. i: Interval(j) <= m

LEMMA HighWaterIs == Loaded => \A i \in 1 .. Len(trace): IsHighWater(HighWater(i), i)
<1> SUFFICES ASSUME Loaded PROVE \A i \in 1 .. Len(trace): IsHighWater(HighWater(i), i)  OBVIOUS
<1> DEFINE P == {i \in Nat: i \in 1 .. Len(trace) => \E m: IsHighWater(m, i)}
<1>1. 0 \in P  OBVIOUS
<1>2. ASSUME NEW i \in Nat, i \in P, i + 1 \in 1 .. Len(trace) PROVE \E m: IsHighWater(m, i + 1)
  <2>1. Len(trace) \in Nat  BY TraceType
  <2>2. \A j \in 1 .. i + 1: Interval(j) \in Nat  BY <1>2, <2>1, IntervalType
  <2>3. CASE i = 0  BY <2>2, <2>3 DEF IsHighWater
  <2>4. CASE i # 0
    <3>1. PICK m: IsHighWater(m, i)  BY <1>2, <2>1, <2>4
    <3>2. m \in Nat  BY <2>2, <3>1 DEF IsHighWater
    <3>3. CASE Interval(i + 1) <= m
      <4>1. 1 .. i + 1 = (1 .. i) \cup {i + 1}  BY <1>2
      <4>2. QED  BY <3>1, <3>3, <4>1 DEF IsHighWater
    <3>4. CASE ~ (Interval(i + 1) <= m)
      <4>1. \A j \in 1 .. i: Interval(j) <= Interval(i + 1)
        BY <1>2, <2>2, <3>1, <3>2, <3>4 DEF IsHighWater
      <4>2. \A j \in 1 .. i + 1: Interval(j) <= Interval(i + 1)  BY <1>2, <2>2, <4>1
      <4>3. i + 1 \in 1 .. i + 1  OBVIOUS
      <4>4. QED  BY <4>2, <4>3 DEF IsHighWater
    <3>5. QED  BY <3>3, <3>4
  <2>5. QED  BY <2>3, <2>4
<1>3. \A i \in Nat: i \in P => i + 1 \in P  BY <1>2
<1> HIDE DEF P
<1>4. Nat \subseteq P  BY <1>1, <1>3, NumberInduction
<1> USE DEF P
<1>5. ASSUME NEW i \in 1 .. Len(trace) PROVE \E m: IsHighWater(m, i)  BY <1>4, TraceType
<1>6. ASSUME NEW i \in 1 .. Len(trace) PROVE IsHighWater(HighWater(i), i)
  BY <1>5 DEF HighWater, IsHighWater
<1>7. QED  BY <1>6

LEMMA HighWaterType == Loaded => \A i \in 1 .. Len(trace): HighWater(i) \in Nat /\ HighWater(i) > 0
<1> SUFFICES ASSUME Loaded, NEW i \in 1 .. Len(trace)
             PROVE  HighWater(i) \in Nat /\ HighWater(i) > 0
  OBVIOUS
<1>1. PICK j \in 1 .. i: HighWater(i) = Interval(j)  BY HighWaterIs DEF IsHighWater
<1>2. j \in 1 .. Len(trace)  BY TraceType
<1>3. QED  BY <1>1, <1>2, IntervalType

LEMMA HighWaterUnique ==
  ASSUME Loaded, NEW i \in 1 .. Len(trace), NEW m, IsHighWater(m, i)
  PROVE  HighWater(i) = m
<1>1. IsHighWater(HighWater(i), i)  BY HighWaterIs
<1>2. \A j \in 1 .. i: Interval(j) \in Nat  BY TraceType, IntervalType
<1>3. QED  BY <1>1, <1>2 DEF IsHighWater

LEMMA FirstHighWater == Loaded /\ Len(trace) > 0 => HighWater(1) = Interval(1)
<1> SUFFICES ASSUME Loaded, Len(trace) > 0 PROVE HighWater(1) = Interval(1)  OBVIOUS
<1>1. 1 \in 1 .. Len(trace)  BY TraceType
<1>2. Interval(1) \in Nat  BY <1>1, IntervalType
<1>3. IsHighWater(Interval(1), 1)  BY <1>2 DEF IsHighWater
<1>4. QED  BY <1>1, <1>3, HighWaterUnique

LEMMA NextHighWater ==
  ASSUME Loaded, NEW i \in 1 .. Len(trace), i + 1 \in 1 .. Len(trace)
  PROVE  HighWater(i + 1) = IF Interval(i + 1) > HighWater(i) THEN Interval(i + 1)
                                                                   ELSE HighWater(i)
<1> DEFINE h == HighWater(i)
           n == Interval(i + 1)
           m == IF n > h THEN n ELSE h
<1>1. h \in Nat /\ n \in Nat /\ \A j \in 1 .. i: Interval(j) \in Nat
  BY HighWaterType, IntervalType, TraceType
<1>2. h \in {Interval(j): j \in 1 .. i} /\ \A j \in 1 .. i: Interval(j) <= h
  BY HighWaterIs DEF IsHighWater
<1> HIDE DEF h
<1>3. \A j \in 1 .. i + 1: Interval(j) <= m
  <2>1. TAKE j \in 1 .. i + 1
  <2>2. CASE j = i + 1  BY <1>1, <2>2
  <2>3. CASE j # i + 1
    <3>1. j \in 1 .. i  BY <2>3
    <3>2. Interval(j) <= h /\ Interval(j) \in Nat  BY <1>1, <1>2, <3>1
    <3> HIDE DEF n
    <3>3. QED  BY <1>1, <3>2
  <2>4. QED  BY <2>2, <2>3
<1>4. m \in {Interval(j): j \in 1 .. i + 1}
  <2>1. CASE m = n
    <3>1. i + 1 \in 1 .. i + 1  OBVIOUS
    <3>2. QED  BY <2>1, <3>1
  <2>2. CASE m = h
    <3>1. PICK j \in 1 .. i: h = Interval(j)  BY <1>2
    <3>2. j \in 1 .. i + 1  OBVIOUS
    <3>3. QED  BY <2>2, <3>1, <3>2
  <2>3. QED  BY <2>1, <2>2
<1>5. IsHighWater(m, i + 1)  BY <1>3, <1>4 DEF IsHighWater
<1>6. HighWater(i + 1) = m  BY <1>5, HighWaterUnique
<1>7. QED  BY <1>6 DEF h

\* The high waters of the first i packets.
Waters(i) == {HighWater(j): j \in 1 .. i}

LEMMA WatersFinite ==
  ASSUME Loaded, NEW i \in 1 .. Len(trace)
  PROVE  /\ Waters(i) \subseteq Nat /\ \A w \in Waters(i): w <= HighWater(i)
         /\ IsFiniteSet(Waters(i)) /\ Cardinality(Waters(i)) \in Nat
<1>1. \A j \in 1 .. i: j \in 1 .. Len(trace)  BY TraceType
<1>2. \A j \in 1 .. i: HighWater(j) \in Nat  BY <1>1, HighWaterType
<1>3. ASSUME NEW j \in 1 .. i PROVE HighWater(j) <= HighWater(i)
  <2>1. PICK k \in 1 .. j: HighWater(j) = Interval(k)  BY <1>1, HighWaterIs DEF IsHighWater
  <2>2. k \in 1 .. i  OBVIOUS
  <2>3. QED  BY <2>1, <2>2, HighWaterIs DEF IsHighWater
<1>4. Waters(i) \in SUBSET Nat /\ \A w \in Waters(i): w <= HighWater(i)  BY <1>2, <1>3 DEF Waters
<1>5. HighWater(i) \in Nat  BY HighWaterType
<1>6. IsFiniteSet(Waters(i))  BY <1>4, <1>5, FS_BoundedSetOfNaturals
<1>7. QED  BY <1>4, <1>6, FS_CardinalityType

LEMMA NumberIs == \A i: IntervalNumber(i) = Cardinality(Waters(i))
  BY DEF IntervalNumber, Waters

LEMMA NumberIsNat == Loaded => \A i \in 1 .. Len(trace): IntervalNumber(i) \in Nat
  BY WatersFinite, NumberIs

LEMMA FirstNumber == Loaded /\ Len(trace) > 0 => IntervalNumber(1) = 1
<1>1. Waters(1) = {HighWater(1)}  BY DEF Waters
<1>2. QED  BY <1>1, FS_Singleton, NumberIs

\* A packet above the high water opens an interval, others do not.
LEMMA NextNumber ==
  ASSUME Loaded, NEW i \in 1 .. Len(trace), i + 1 \in 1 .. Len(trace)
  PROVE  IntervalNumber(i + 1) =
             IF Interval(i + 1) > HighWater(i) THEN IntervalNumber(i) + 1 ELSE IntervalNumber(i)
<1>1. Waters(i + 1) = Waters(i) \cup {HighWater(i + 1)}
  <2>1. 1 .. i + 1 = (1 .. i) \cup {i + 1}  OBVIOUS
  <2>2. QED  BY <2>1 DEF Waters
<1>2. HighWater(i) \in Waters(i)
  <2>1. i \in 1 .. i  OBVIOUS
  <2>2. QED  BY <2>1 DEF Waters
<1>3. Interval(i + 1) \in Nat /\ HighWater(i) \in Nat  BY IntervalType, HighWaterType
<1>4. HighWater(i + 1) \in Waters(i) <=> ~ (Interval(i + 1) > HighWater(i))
  BY <1>2, <1>3, WatersFinite, NextHighWater
<1>5. IsFiniteSet(Waters(i))  BY WatersFinite
<1>6. Cardinality(Waters(i + 1)) =
          IF Interval(i + 1) > HighWater(i) THEN Cardinality(Waters(i)) + 1 ELSE Cardinality(Waters(i))
  BY <1>1, <1>4, <1>5, FS_AddElement
<1>7. QED  BY <1>6, NumberIs

LEMMA NumbersGrow ==
  ASSUME Loaded, NEW i \in 1 .. Len(trace), NEW j \in 1 .. i
  PROVE  IntervalNumber(j) <= IntervalNumber(i)
<1>1. j \in 1 .. Len(trace)  BY TraceType
<1>2. Waters(j) \in SUBSET Waters(i)
  <2>1. 1 .. j \subseteq 1 .. i  OBVIOUS
  <2>2. QED  BY <2>1 DEF Waters
<1>3. IsFiniteSet(Waters(i))  BY WatersFinite
<1>4. Cardinality(Waters(j)) <= Cardinality(Waters(i))  BY <1>2, <1>3, FS_Subset
<1>5. QED  BY <1>4, NumberIs

-----------------------------------------------------------------------------
(* The invariant of the replayer *)

\* main has found the end of an interval and the packet that opens the next
\* one; the packet has not been written.
InEnd == mpc \in {"punc", "flush", "wait"}

\* Its mark is in the ring, unless the worker has handled it.
MarkSent == InEnd /\ (mpc = "punc" => wpc = "publish")
Unanswered == InEnd /\ sem = 0

LastMarkSent == mpc \in {"lastflush", "join", "done"} \/ (mpc = "term" /\ wpc = "publish")

\* The packets that have been written, and the mark that follows them.
Sent == IF InEnd \/ (mpc = "put" /\ wpc # "publish") THEN cur - 1 ELSE cur
Marks == IF (MarkSent /\ Unanswered) \/ (LastMarkSent /\ kpc # "exit") THEN 1 ELSE 0
Mark == IF InEnd THEN "PUNC" ELSE "TERM"

\* The reader has returned a tuple, or is about to.
Held == kpc = "handle" \/ rpc = "publish"

\* What is unread is what the worker has yet to record, in order.
StreamInv == Stream(Unread(Held), cnt, Sent, Marks, Mark)

\* Where each thread may be.
WriterIsMain ==
    /\ mpc \in {"create", "next", "put", "punc", "flush", "wait", "term", "lastflush", "join", "done"}
    /\ mpc \in {"put", "punc", "term"} => wpc \in {"idle", "reload", "copy", "publish"}
    /\ mpc \in {"flush", "lastflush"} => wpc \in {"idle", "flush_load", "flush_store"}
    /\ mpc \in {"create", "next", "wait", "join", "done"} => wpc = "idle"
    /\ wpc \in {"reload", "copy"} => item = t

ReaderIsWorker ==
    /\ kpc \in {"start", "read", "handle", "exit"}
    /\ rpc # "idle" => kpc = "read"
    /\ kpc = "start" => mpc = "create"
    /\ kpc = "exit" => LastMarkSent
    /\ mpc = "done" => kpc = "exit"

\* main's packet, and its tuple.
MainTuple ==
    /\ cur \in 0 .. Len(trace) /\ t \in ReplayTuple
    /\ mpc = "create" => cur = 0
    /\ mpc = "put" => t = Packet(cur) /\ cur > 0
    /\ InEnd => t = [flag |-> "PUNC", pkt |-> cur] /\ cur > 1
    /\ mpc \in {"term", "lastflush", "join", "done"} => t.flag = "TERM" /\ cur = Len(trace)

Semaphore ==
    /\ sem \in {0, 1}
    /\ mpc = "create" => (sem = 0 <=> kpc = "start")
    /\ mpc # "create" /\ ~MarkSent => sem = 0

\* The largest interval so far, and how many there have been.
Intervals ==
    /\ cur_interval \in Nat
    /\ cur = 0 => last_interval = 0 /\ cur_interval = 0
    /\ cur > 0 /\ ~InEnd => last_interval = HighWater(cur)
    /\ InEnd => last_interval = HighWater(cur - 1) /\ Interval(cur) > last_interval
    /\ cur > 0 => cur_interval + 1 = IntervalNumber(IF Unanswered THEN cur - 1 ELSE cur)

\* The sketch has the packets recorded since the last file was written, which
\* are of the interval main is in.
SketchInv ==
    LET first == cnt - Len(sketch) IN
    /\ sketch \in Seq(Nat) /\ first \in Nat
    /\ kpc = "exit" => sketch = <<>> /\ cnt = cur
    /\ \A j \in 1 .. Len(sketch): sketch[j] = first + j
    /\ kpc # "exit" =>
        /\ \A i \in 1 .. first: IntervalNumber(i) <= cur_interval
        /\ \A i \in first + 1 .. Sent: IntervalNumber(i) = cur_interval + 1

\* File k has the packets of interval k, once and in order.
IsFile(f, k) ==
    /\ f \in Seq(Nat)
    /\ Range(f) = PacketsOf(k)
    /\ \A j \in 1 .. Len(f) - 1: f[j] < f[j + 1]

FilesInv ==
    /\ files \in Seq(Seq(Nat))
    /\ Len(files) = cur_interval + (IF kpc = "exit" THEN 1 ELSE 0)
    /\ \A k \in 1 .. Len(files): IsFile(files[k], k)

Control == WriterIsMain /\ ReaderIsWorker /\ MainTuple /\ Semaphore

ReplayInv == IndInv /\ Loaded /\ Control /\ StreamInv /\ Intervals /\ SketchInv /\ FilesInv

-----------------------------------------------------------------------------
(* The replayer's steps on the ring *)

\* The steps main and the worker take in their calls to the ring.
LEMMA MainWritesIs ==
  ASSUME MainWrites
  PROVE  /\ mpc \in {"put", "punc", "term"}
         /\ \/ (WriteFails \/ WriteBegin(t) \/ WriteReload) /\ mpc' = mpc
            \/ /\ WriteStore \/ WritePublish
               /\ wpc' # "idle" => mpc' = mpc
               /\ wpc' = "idle" /\ mpc = "put" => mpc' = "next"
               /\ wpc' = "idle" /\ mpc = "punc" => mpc' = "flush"
               /\ wpc' = "idle" /\ mpc = "term" => mpc' = "lastflush"
         /\ UNCHANGED <<trace, cur, t, last_interval, kpc, sketch, cur_interval, cnt, files, sem>>
  BY DEF MainWrites, AfterWrite, workerVars

LEMMA MainFlushesIs ==
  ASSUME MainFlushes
  PROVE  /\ mpc \in {"flush", "lastflush"}
         /\ \/ (FlushPublish \/ FlushLoad) /\ mpc' = mpc
            \/ /\ FlushStore
               /\ mpc = "flush" => mpc' = "wait"
               /\ mpc = "lastflush" => mpc' = "join"
         /\ UNCHANGED <<trace, cur, t, last_interval, kpc, sketch, cur_interval, cnt, files, sem>>
  BY DEF MainFlushes, AfterFlush, workerVars

LEMMA WorkerReadsIs ==
  ASSUME WorkerReads
  PROVE  /\ kpc = "read"
         /\ \/ (ReadFails \/ ReadBegin \/ ReadReload) /\ kpc' = kpc
            \/ (ReadStore \/ ReadPublish) /\ kpc' = IF rpc' = "idle" THEN "handle" ELSE kpc
         /\ UNCHANGED <<trace, mpc, cur, t, last_interval, sketch, cur_interval, cnt, files, sem>>
  BY DEF WorkerReads, mainVars

\* The other steps leave the ring alone.
Elsewhere ==
    AwaitWorker \/ NextPacket \/ TraceEnds \/ AwaitPunc \/ Join
    \/ WorkerReady \/ RecordPacket \/ EndInterval \/ Finish \/ UNCHANGED replayVars

LEMMA ElsewhereKeeps ==
  ASSUME Elsewhere
  PROVE  UNCHANGED <<vars, Contents>> /\ UNCHANGED <<nextReadIndex, nextWriteIndex, wpc, item, rpc, out, trace>>
<1>1. UNCHANGED <<readIndex, writeIndex, localWriteIndex, nextReadIndex, rBatchCount,
                  localReadIndex, nextWriteIndex, wBatchCount, data, wpc, item, loaded, rpc,
                  out, trace>>
  BY DEF Elsewhere, AwaitWorker, NextPacket, TraceEnds, AwaitPunc, Join, WorkerReady,
         RecordPacket, EndInterval, Finish, replayVars, vars, writerVars, readerVars
<1>2. UNCHANGED Contents  BY <1>1, ContentsUnchanged
<1>3. QED  BY <1>1, <1>2 DEF vars, writerVars, readerVars

LEMMA NextSplits ==
  ASSUME [NextReplay]_replayVars
  PROVE  MainWrites \/ MainFlushes \/ WorkerReads \/ Elsewhere
  BY DEF NextReplay, Main, Worker, Elsewhere

\* Every step is a step of the ring, or leaves it.
LEMMA ReplayStepsRing ==
  ASSUME ReplayTuples, t \in Tuple, [NextReplay]_replayVars
  PROVE  [Next]_vars
<1>1. CASE MainWrites  BY <1>1, MainWritesIs DEF Next, Writer
<1>2. CASE MainFlushes  BY <1>2, MainFlushesIs DEF Next, Writer
<1>3. CASE WorkerReads  BY <1>3, WorkerReadsIs DEF Next, Reader
<1>4. CASE Elsewhere  BY <1>4, ElsewhereKeeps
<1>5. QED  BY <1>1, <1>2, <1>3, <1>4, NextSplits

-----------------------------------------------------------------------------
(* What the worker has in hand *)

LEMMA HandlesPacket ==
  ASSUME ReplayInv, kpc = "handle", out.flag = "NORMAL", UNCHANGED <<Contents, out>>
  PROVE  /\ out = Packet(cnt + 1) /\ cnt + 1 <= Sent
         /\ Stream(Unread(FALSE)', cnt + 1, Sent, Marks, Mark)
<1>1. /\ Unread(TRUE) # <<>> /\ out = Head(Unread(TRUE))
      /\ Unread(FALSE)' = Tail(Unread(TRUE))  BY HandleDrops DEF ReplayInv
<1>2. Stream(Unread(TRUE), cnt, Sent, Marks, Mark)  BY DEF ReplayInv, StreamInv, Unread, Held
<1>3. Mark # "NORMAL"  BY DEF Mark
<1>4. QED  BY <1>1, <1>2, <1>3, StreamTakePacket

LEMMA HandlesMark ==
  ASSUME ReplayInv, kpc = "handle", out.flag # "NORMAL", UNCHANGED <<Contents, out>>
  PROVE  /\ Marks = 1 /\ cnt = Sent /\ out.flag = Mark
         /\ \A g: Stream(Unread(FALSE)', cnt, Sent, 0, g)
<1>1. /\ Unread(TRUE) # <<>> /\ out = Head(Unread(TRUE))
      /\ Unread(FALSE)' = Tail(Unread(TRUE))  BY HandleDrops DEF ReplayInv
<1>2. Stream(Unread(TRUE), cnt, Sent, Marks, Mark)  BY DEF ReplayInv, StreamInv, Unread, Held
<1>3. /\ Marks = 1 /\ cnt = Sent /\ Head(Unread(TRUE)).flag = Mark
      /\ \A g: Stream(Tail(Unread(TRUE)), cnt, Sent, 0, g)
  BY <1>1, <1>2, StreamTakeMark
<1>4. QED  BY <1>1, <1>3

\* An end mark is that of the interval main waits for.
LEMMA HandlesPunc ==
  ASSUME ReplayInv, kpc = "handle", out.flag = "PUNC", UNCHANGED <<Contents, out>>
  PROVE  MarkSent /\ Unanswered /\ cnt = Sent /\ Sent = cur - 1
<1>1. Marks = 1 /\ cnt = Sent /\ out.flag = Mark  BY HandlesMark
<1>2. InEnd  BY <1>1 DEF Mark
<1>3. QED  BY <1>1, <1>2 DEF Marks, Sent, InEnd, LastMarkSent

LEMMA HandlesTerm ==
  ASSUME ReplayInv, kpc = "handle", out.flag = "TERM", UNCHANGED <<Contents, out>>
  PROVE  LastMarkSent /\ ~InEnd /\ cnt = Sent /\ Sent = cur /\ cur = Len(trace)
<1>1. Marks = 1 /\ cnt = Sent /\ out.flag = Mark  BY HandlesMark
<1>2. ~InEnd  BY <1>1 DEF Mark
<1>3. LastMarkSent  BY <1>1, <1>2 DEF Marks, MarkSent
<1>4. mpc \in {"term", "lastflush", "join", "done"}  BY <1>3 DEF LastMarkSent
<1>5. QED  BY <1>1, <1>2, <1>3, <1>4 DEF Sent, ReplayInv, Control, MainTuple

-----------------------------------------------------------------------------
(* Where the threads are *)

LEMMA WriteKeepsControl ==
  ASSUME ReplayInv, ReplayTuples, MainWrites
  PROVE  Control'
<1>1. /\ mpc \in {"put", "punc", "term"}
      /\ \/ (WriteFails \/ WriteBegin(t) \/ WriteReload) /\ mpc' = mpc
         \/ /\ WriteStore \/ WritePublish
            /\ wpc' # "idle" => mpc' = mpc
            /\ wpc' = "idle" /\ mpc = "put" => mpc' = "next"
            /\ wpc' = "idle" /\ mpc = "punc" => mpc' = "flush"
            /\ wpc' = "idle" /\ mpc = "term" => mpc' = "lastflush"
      /\ UNCHANGED <<trace, cur, t, last_interval, kpc, sketch, cur_interval, cnt, files, sem>>
  BY MainWritesIs
<1>2. Control  BY DEF ReplayInv
<1>3. rpc' = rpc
  BY <1>1 DEF WriteFails, WriteBegin, WriteReload, WriteStore, WritePublish, vars, readerVars
<1>4. CASE (WriteFails \/ WriteBegin(t) \/ WriteReload) /\ mpc' = mpc
  <2>1. \/ wpc' = wpc /\ item' = item
        \/ wpc = "idle" /\ wpc' \in {"copy", "reload"} /\ item' = t
        \/ wpc = "reload" /\ wpc' = "copy" /\ item' = item
    BY <1>4 DEF WriteFails, WriteBegin, WriteReload, vars, writerVars
  <2>2. QED
    BY <1>1, <1>2, <1>3, <1>4, <2>1
    DEF Control, WriterIsMain, ReaderIsWorker, MainTuple, Semaphore, MarkSent, InEnd, LastMarkSent
<1>5. CASE /\ WriteStore \/ WritePublish
           /\ wpc' # "idle" => mpc' = mpc
           /\ wpc' = "idle" /\ mpc = "put" => mpc' = "next"
           /\ wpc' = "idle" /\ mpc = "punc" => mpc' = "flush"
           /\ wpc' = "idle" /\ mpc = "term" => mpc' = "lastflush"
  <2>1. \/ wpc = "copy" /\ wpc' \in {"publish", "idle"}
        \/ wpc = "publish" /\ wpc' = "idle"
    BY <1>5 DEF WriteStore, WritePublish
  <2>2. \/ wpc' = "publish" /\ mpc' = mpc
        \/ wpc' = "idle" /\ mpc = "put" /\ mpc' = "next"
        \/ wpc' = "idle" /\ mpc = "punc" /\ mpc' = "flush"
        \/ wpc' = "idle" /\ mpc = "term" /\ mpc' = "lastflush"
    BY <1>1, <1>5, <2>1
  <2>3. WriterIsMain'  BY <1>1, <1>2, <2>1, <2>2 DEF Control, WriterIsMain
  <2>4. ReaderIsWorker'  BY <1>1, <1>2, <1>3, <2>1, <2>2 DEF Control, ReaderIsWorker, LastMarkSent
  <2>5. MainTuple'  BY <1>1, <1>2, <2>2 DEF Control, MainTuple, InEnd
  <2>6. Semaphore'  BY <1>1, <1>2, <2>1, <2>2 DEF Control, Semaphore, MarkSent, InEnd
  <2>7. QED  BY <2>3, <2>4, <2>5, <2>6 DEF Control
<1>6. QED  BY <1>1, <1>4, <1>5

LEMMA FlushKeepsControl ==
  ASSUME ReplayInv, ReplayTuples, MainFlushes
  PROVE  Control'
<1>1. /\ mpc \in {"flush", "lastflush"}
      /\ \/ (FlushPublish \/ FlushLoad) /\ mpc' = mpc
         \/ /\ FlushStore
            /\ mpc = "flush" => mpc' = "wait"
            /\ mpc = "lastflush" => mpc' = "join"
      /\ UNCHANGED <<trace, cur, t, last_interval, kpc, sketch, cur_interval, cnt, files, sem>>
  BY MainFlushesIs
<1>2. Control  BY DEF ReplayInv
<1>3. rpc' = rpc /\ wpc' \in {"idle", "flush_load", "flush_store"}
      /\ (mpc' # mpc => wpc' = "idle")
  BY <1>1 DEF FlushPublish, FlushLoad, FlushStore, readerVars
<1>4. WriterIsMain'  BY <1>1, <1>2, <1>3 DEF Control, WriterIsMain
<1>5. ReaderIsWorker'  BY <1>1, <1>2, <1>3 DEF Control, ReaderIsWorker, LastMarkSent
<1>6. MainTuple'  BY <1>1, <1>2, <1>3 DEF Control, MainTuple, InEnd
<1>7. Semaphore'  BY <1>1, <1>2, <1>3 DEF Control, Semaphore, MarkSent, InEnd
<1>8. QED  BY <1>4, <1>5, <1>6, <1>7 DEF Control

LEMMA ReadKeepsControl ==
  ASSUME ReplayInv, ReplayTuples, WorkerReads
  PROVE  Control'
<1>1. /\ kpc = "read"
      /\ \/ (ReadFails \/ ReadBegin \/ ReadReload) /\ kpc' = kpc
         \/ (ReadStore \/ ReadPublish) /\ kpc' = IF rpc' = "idle" THEN "handle" ELSE kpc
      /\ UNCHANGED <<trace, mpc, cur, t, last_interval, sketch, cur_interval, cnt, files, sem>>
  BY WorkerReadsIs
<1>2. Control  BY DEF ReplayInv
<1>3. wpc' = wpc /\ item' = item
  BY <1>1 DEF ReadFails, ReadBegin, ReadReload, ReadStore, ReadPublish, vars, writerVars
<1>4. QED
  BY <1>1, <1>2, <1>3
  DEF Control, WriterIsMain, ReaderIsWorker, MainTuple, Semaphore, MarkSent, InEnd, LastMarkSent

LEMMA ElsewhereKeepsControl ==
  ASSUME ReplayInv, Elsewhere
  PROVE  Control'
<1>1. Control  BY DEF ReplayInv
<1>2. UNCHANGED <<wpc, item, rpc, out, trace, Contents>>  BY ElsewhereKeeps
<1>3. Len(trace) \in Nat /\ MaxPacket \in Nat /\ Len(trace) <= MaxPacket
  BY TraceType DEF ReplayInv
<1> USE DEF Control, WriterIsMain, ReaderIsWorker, MainTuple, Semaphore, MarkSent, InEnd, LastMarkSent
<1>4. CASE AwaitWorker  BY <1>1, <1>2, <1>4 DEF AwaitWorker, workerVars
<1>5. CASE NextPacket
  <2>1. /\ mpc = "next" /\ cur' = cur + 1 /\ cur' \in 0 .. Len(trace) /\ cur' > 0 /\ sem' = sem /\ kpc' = kpc
        /\ \/ mpc' = "put" /\ t' = Packet(cur')
           \/ mpc' = "punc" /\ t' = [flag |-> "PUNC", pkt |-> cur'] /\ last_interval # 0
    BY <1>1, <1>3, <1>5 DEF NextPacket, workerVars, Packet
  <2>2. cur' \in 0 .. MaxPacket  BY <1>3, <2>1
  <2>3. t' \in ReplayTuple  BY <2>1, <2>2 DEF ReplayTuple, Flag, Packet
  <2>4. last_interval # 0 => cur > 0  BY <1>1 DEF ReplayInv, Intervals
  <2>5. MainTuple'  BY <1>1, <1>2, <2>1, <2>3, <2>4
  <2>6. QED  BY <1>1, <1>2, <2>1, <2>5
<1>6. CASE TraceEnds
  <2>1. /\ mpc = "next" /\ mpc' = "term" /\ cur' = cur /\ cur = Len(trace) /\ t' = [t EXCEPT !.flag = "TERM"]
        /\ sem' = sem /\ kpc' = kpc
    BY <1>6 DEF TraceEnds, workerVars
  <2>2. t' \in ReplayTuple /\ t'.flag = "TERM"  BY <1>1, <2>1 DEF ReplayTuple, Flag
  <2>3. QED  BY <1>1, <1>2, <2>1, <2>2
<1>7. CASE AwaitPunc
  <2>1. /\ mpc = "wait" /\ mpc' = "put" /\ cur' = cur /\ t' = [t EXCEPT !.flag = "NORMAL"]
        /\ sem > 0 /\ sem' = sem - 1 /\ kpc' = kpc
    BY <1>7 DEF AwaitPunc, workerVars
  <2>2. t' = Packet(cur)  BY <1>1, <2>1 DEF Packet
  <2>3. t' \in ReplayTuple  BY <1>1, <2>1 DEF ReplayTuple, Flag
  <2>4. QED  BY <1>1, <1>2, <2>1, <2>2, <2>3
<1>8. CASE Join  BY <1>1, <1>2, <1>8 DEF Join, workerVars
<1>9. CASE WorkerReady  BY <1>1, <1>2, <1>9 DEF WorkerReady, mainVars
<1>10. CASE RecordPacket  BY <1>1, <1>2, <1>10 DEF RecordPacket, mainVars
<1>11. CASE EndInterval
  <2>1. kpc = "handle" /\ out.flag = "PUNC" /\ kpc' = "read" /\ sem' = sem + 1
        /\ UNCHANGED <<mpc, cur, t>>
    BY <1>11 DEF EndInterval, mainVars
  <2>2. MarkSent /\ Unanswered  BY <1>2, <2>1, HandlesPunc
  <2>3. QED  BY <1>1, <1>2, <2>1, <2>2 DEF Unanswered
<1>12. CASE Finish
  <2>1. kpc = "handle" /\ out.flag = "TERM" /\ kpc' = "exit" /\ UNCHANGED <<mpc, cur, t, sem>>
    BY <1>12 DEF Finish, mainVars
  <2>2. LastMarkSent /\ ~InEnd  BY <1>2, <2>1, HandlesTerm
  <2>3. QED  BY <1>1, <1>2, <2>1, <2>2
<1>13. CASE UNCHANGED replayVars  BY <1>1, <1>2, <1>13 DEF replayVars, mainVars, workerVars
<1>14. QED
  BY <1>4, <1>5, <1>6, <1>7, <1>8, <1>9, <1>10, <1>11, <1>12, <1>13 DEF Elsewhere

LEMMA ControlStep ==
  ASSUME ReplayInv, ReplayTuples, [NextReplay]_replayVars
  PROVE  Control'
  BY NextSplits, WriteKeepsControl, FlushKeepsControl, ReadKeepsControl, ElsewhereKeepsControl

-----------------------------------------------------------------------------
(* The stream is what the worker has yet to record *)

LEMMA StreamStays ==
  ASSUME StreamInv, UNCHANGED <<Contents, out>>, Held' <=> Held,
         cnt' = cnt, Sent' = Sent, Marks' = Marks, Marks = 1 => Mark' = Mark
  PROVE  StreamInv'
<1>1. Unread(Held)' = Unread(Held)  BY DEF Unread
<1>2. Stream(Unread(Held), cnt, Sent, Marks, Mark')
  <2>1. CASE Marks = 1  BY <2>1 DEF StreamInv
  <2>2. CASE Marks # 1
    <3>1. Marks = 0  BY <2>2 DEF Marks
    <3>2. QED  BY <3>1, StreamAnyFlag DEF StreamInv
  <2>3. QED  BY <2>1, <2>2
<1>3. QED  BY <1>1, <1>2 DEF StreamInv

LEMMA WriteKeepsStream ==
  ASSUME ReplayInv, ReplayTuples, MainWrites, IndInv'
  PROVE  StreamInv'
<1>1. /\ mpc \in {"put", "punc", "term"}
      /\ \/ (WriteFails \/ WriteBegin(t) \/ WriteReload) /\ mpc' = mpc
         \/ /\ WriteStore \/ WritePublish
            /\ wpc' # "idle" => mpc' = mpc
            /\ wpc' = "idle" /\ mpc = "put" => mpc' = "next"
            /\ wpc' = "idle" /\ mpc = "punc" => mpc' = "flush"
            /\ wpc' = "idle" /\ mpc = "term" => mpc' = "lastflush"
      /\ UNCHANGED <<trace, cur, t, last_interval, kpc, sketch, cur_interval, cnt, files, sem>>
  BY MainWritesIs
<1>2. Control /\ IndInv /\ StreamInv  BY DEF ReplayInv
<1>3. rpc' = rpc
  BY <1>1 DEF WriteFails, WriteBegin, WriteReload, WriteStore, WritePublish, vars, readerVars
<1>4. Held' <=> Held  BY <1>1, <1>3 DEF Held
<1>5. CASE (WriteFails \/ WriteBegin(t) \/ WriteReload) /\ mpc' = mpc
  <2>1. UNCHANGED <<Contents, out>>  BY <1>5, QuietWriterKeeps DEF QuietWriter
  <2>2. wpc' = wpc \/ (wpc # "publish" /\ wpc' # "publish")
    BY <1>5 DEF WriteFails, WriteBegin, WriteReload, vars, writerVars
  <2>3. Sent' = Sent /\ Marks' = Marks /\ Mark' = Mark
    BY <1>1, <1>5, <2>2 DEF Sent, Marks, Mark, MarkSent, LastMarkSent, Unanswered, InEnd
  <2>4. QED  BY <1>1, <1>2, <1>4, <2>1, <2>3, StreamStays
<1>6. CASE /\ WriteStore \/ WritePublish
           /\ wpc' # "idle" => mpc' = mpc
           /\ wpc' = "idle" /\ mpc = "put" => mpc' = "next"
           /\ wpc' = "idle" /\ mpc = "punc" => mpc' = "flush"
           /\ wpc' = "idle" /\ mpc = "term" => mpc' = "lastflush"
  <2>1. \/ wpc' = "publish" /\ mpc' = mpc
        \/ wpc' = "idle" /\ mpc = "put" /\ mpc' = "next"
        \/ wpc' = "idle" /\ mpc = "punc" /\ mpc' = "flush"
        \/ wpc' = "idle" /\ mpc = "term" /\ mpc' = "lastflush"
    BY <1>1, <1>6 DEF WriteStore, WritePublish
  <2>2. CASE WritePublish
    <3>1. UNCHANGED <<Contents, out>>  BY <2>2, QuietWriterKeeps DEF QuietWriter
    <3>2. wpc = "publish" /\ wpc' = "idle"  BY <2>2 DEF WritePublish
    <3>3. Sent' = Sent /\ Marks' = Marks /\ Mark' = Mark
      BY <1>1, <2>1, <3>2 DEF Sent, Marks, Mark, MarkSent, LastMarkSent, Unanswered, InEnd
    <3>4. QED  BY <1>1, <1>2, <1>4, <3>1, <3>3, StreamStays
  <2>3. CASE WriteStore
    <3>1. Unread(Held)' = Append(Unread(Held), t)
      <4>1. wpc = "copy" /\ item = t  BY <1>2, <2>3 DEF WriteStore, Control, WriterIsMain
      <4>2. Unread(TRUE)' = Append(Unread(TRUE), t) /\ Unread(FALSE)' = Append(Unread(FALSE), t)
        BY <1>2, <2>3, <4>1, StoreAppends
      <4>3. QED  BY <1>4, <4>2 DEF Unread
    <3>2. wpc = "copy"  BY <2>3 DEF WriteStore
    <3>3. t \in Tuple  BY <1>2 DEF Control, MainTuple, ReplayTuples
    <3>4. CASE mpc = "put"
      <4>1. Sent = cur - 1 /\ Marks = 0 /\ Sent' = cur /\ Marks' = 0
        BY <1>1, <2>1, <3>2, <3>4 DEF Sent, Marks, MarkSent, LastMarkSent, Unanswered, InEnd
      <4>2. t = Packet(cur) /\ cur \in Nat  BY <1>2, <3>4 DEF Control, MainTuple
      <4>3. cur = Sent + 1  BY <4>1, <4>2
      <4>4. Stream(Unread(Held), cnt, Sent, 0, Mark)  BY <1>2, <4>1 DEF StreamInv
      <4>5. Stream(Append(Unread(Held), t), cnt, cur, 0, Mark)
        BY <3>3, <4>2, <4>3, <4>4, StreamPacket
      <4>6. Stream(Append(Unread(Held), t), cnt, cur, 0, Mark')  BY <4>5, StreamAnyFlag
      <4>7. QED  BY <1>1, <3>1, <4>1, <4>6 DEF StreamInv
    <3>5. CASE mpc = "punc"
      <4>1. sem = 0  BY <1>2, <3>2, <3>5 DEF Control, Semaphore, MarkSent
      <4>2. Sent' = Sent /\ Marks = 0 /\ Marks' = 1 /\ Mark' = "PUNC"
        BY <1>1, <2>1, <3>2, <3>5, <4>1 DEF Sent, Marks, Mark, MarkSent, LastMarkSent, Unanswered, InEnd
      <4>3. t.flag = "PUNC"  BY <1>2, <3>5 DEF Control, MainTuple, InEnd
      <4>4. Stream(Unread(Held), cnt, Sent, 0, Mark)  BY <1>2, <4>2 DEF StreamInv
      <4>5. Stream(Append(Unread(Held), t), cnt, Sent, 1, "PUNC")  BY <3>3, <4>3, <4>4, StreamMark
      <4>6. QED  BY <1>1, <3>1, <4>2, <4>5 DEF StreamInv
    <3>6. CASE mpc = "term"
      <4>1. kpc # "exit"  BY <1>2, <3>2, <3>6 DEF Control, ReaderIsWorker, LastMarkSent
      <4>2. Sent' = Sent /\ Marks = 0 /\ Marks' = 1 /\ Mark' = "TERM"
        BY <1>1, <2>1, <3>2, <3>6, <4>1 DEF Sent, Marks, Mark, MarkSent, LastMarkSent, Unanswered, InEnd
      <4>3. t.flag = "TERM"  BY <1>2, <3>6 DEF Control, MainTuple
      <4>4. Stream(Unread(Held), cnt, Sent, 0, Mark)  BY <1>2, <4>2 DEF StreamInv
      <4>5. Stream(Append(Unread(Held), t), cnt, Sent, 1, "TERM")  BY <3>3, <4>3, <4>4, StreamMark
      <4>6. QED  BY <1>1, <3>1, <4>2, <4>5 DEF StreamInv
    <3>7. QED  BY <1>1, <3>4, <3>5, <3>6
  <2>4. QED  BY <1>6, <2>2, <2>3
<1>7. QED  BY <1>1, <1>5, <1>6

LEMMA FlushKeepsStream ==
  ASSUME ReplayInv, ReplayTuples, MainFlushes
  PROVE  StreamInv'
<1>1. /\ mpc \in {"flush", "lastflush"}
      /\ \/ (FlushPublish \/ FlushLoad) /\ mpc' = mpc
         \/ /\ FlushStore
            /\ mpc = "flush" => mpc' = "wait"
            /\ mpc = "lastflush" => mpc' = "join"
      /\ UNCHANGED <<trace, cur, t, last_interval, kpc, sketch, cur_interval, cnt, files, sem>>
  BY MainFlushesIs
<1>2. rpc' = rpc  BY <1>1 DEF FlushPublish, FlushLoad, FlushStore, readerVars
<1>3. UNCHANGED <<Contents, out>>  BY <1>1, QuietWriterKeeps DEF QuietWriter
<1>4. Held' <=> Held  BY <1>1, <1>2 DEF Held
<1>5. Sent' = Sent /\ Marks' = Marks /\ Mark' = Mark
  BY <1>1 DEF Sent, Marks, Mark, MarkSent, LastMarkSent, Unanswered, InEnd
<1>6. QED  BY <1>1, <1>3, <1>4, <1>5, StreamStays DEF ReplayInv

LEMMA ReadKeepsStream ==
  ASSUME ReplayInv, ReplayTuples, WorkerReads, IndInv'
  PROVE  StreamInv'
<1>1. /\ kpc = "read"
      /\ \/ (ReadFails \/ ReadBegin \/ ReadReload) /\ kpc' = kpc
         \/ (ReadStore \/ ReadPublish) /\ kpc' = IF rpc' = "idle" THEN "handle" ELSE kpc
      /\ UNCHANGED <<trace, mpc, cur, t, last_interval, sketch, cur_interval, cnt, files, sem>>
  BY WorkerReadsIs
<1>2. wpc' = wpc
  BY <1>1 DEF ReadFails, ReadBegin, ReadReload, ReadStore, ReadPublish, vars, writerVars
<1>3. kpc' # "exit"  BY <1>1
<1>4. Sent' = Sent /\ Marks' = Marks /\ Mark' = Mark
  BY <1>1, <1>2, <1>3 DEF Sent, Marks, Mark, MarkSent, LastMarkSent, Unanswered, InEnd
<1>5. CASE (ReadFails \/ ReadBegin \/ ReadReload) /\ kpc' = kpc
  <2>1. rpc # "publish" /\ rpc' # "publish"
    BY <1>5 DEF ReadFails, ReadBegin, ReadReload, vars, readerVars
  <2>2. Held' <=> Held  BY <1>1, <1>5, <2>1 DEF Held
  <2>3. UNCHANGED <<Contents, out>>  BY <1>5, QuietReaderKeeps DEF QuietReader
  <2>4. QED  BY <1>1, <1>4, <2>2, <2>3, StreamStays DEF ReplayInv
<1>6. CASE ReadPublish /\ kpc' = IF rpc' = "idle" THEN "handle" ELSE kpc
  <2>1. Held' <=> Held  BY <1>6 DEF ReadPublish, Held
  <2>2. UNCHANGED <<Contents, out>>  BY <1>6, QuietReaderKeeps DEF QuietReader
  <2>3. QED  BY <1>1, <1>4, <2>1, <2>2, StreamStays DEF ReplayInv
<1>7. CASE ReadStore /\ kpc' = IF rpc' = "idle" THEN "handle" ELSE kpc
  <2>1. ~Held /\ Held'  BY <1>1, <1>7 DEF ReadStore, Held
  <2>2. Unread(TRUE)' = Unread(FALSE)  BY <1>7, ReadTakes DEF ReplayInv
  <2>3. Unread(Held)' = Unread(Held)  BY <2>1, <2>2 DEF Unread
  <2>4. QED  BY <1>1, <1>4, <2>3 DEF ReplayInv, StreamInv
<1>8. QED  BY <1>1, <1>5, <1>6, <1>7

LEMMA ElsewhereKeepsStream ==
  ASSUME ReplayInv, Elsewhere
  PROVE  StreamInv'
<1>1. UNCHANGED <<wpc, rpc, out, trace, Contents>>  BY ElsewhereKeeps
<1>2. StreamInv /\ Control  BY DEF ReplayInv
<1> USE DEF Sent, Marks, Mark, MarkSent, LastMarkSent, Unanswered, InEnd
<1>3. CASE AwaitWorker \/ TraceEnds \/ Join \/ AwaitPunc \/ WorkerReady \/ UNCHANGED replayVars
  <2>1. \/ mpc = "create" /\ mpc' = "next" /\ kpc' = kpc
        \/ mpc = "next" /\ mpc' = "term" /\ kpc' = kpc /\ sem' = sem
        \/ mpc = "join" /\ mpc' = "done" /\ kpc' = kpc /\ sem' = sem
        \/ mpc = "wait" /\ mpc' = "put" /\ kpc' = kpc /\ sem > 0
        \/ mpc' = mpc /\ kpc = "start" /\ kpc' = "read"
        \/ mpc' = mpc /\ kpc' = kpc /\ sem' = sem
    BY <1>3 DEF AwaitWorker, TraceEnds, Join, AwaitPunc, WorkerReady, replayVars, mainVars, workerVars
  <2>2. cur' = cur /\ cnt' = cnt
    BY <1>3 DEF AwaitWorker, TraceEnds, Join, AwaitPunc, WorkerReady, replayVars, mainVars, workerVars
  <2>3. kpc = "start" => mpc = "create"  BY <1>2 DEF Control, ReaderIsWorker
  <2>4. wpc = "publish" => mpc \in {"put", "punc", "term"}  BY <1>2 DEF Control, WriterIsMain
  <2>5. kpc = "start" => rpc = "idle"  BY <1>2 DEF Control, ReaderIsWorker
  <2>6. Sent' = Sent  BY <1>1, <2>1, <2>2, <2>4
  <2>7. Marks' = Marks /\ (Marks = 1 => Mark' = Mark)  BY <1>1, <2>1, <2>3, <2>4
  <2>8. Held' <=> Held  BY <1>1, <2>1, <2>5 DEF Held
  <2>9. QED  BY <1>1, <1>2, <2>2, <2>6, <2>7, <2>8, StreamStays
<1>4. CASE NextPacket
  <2>1. /\ mpc = "next" /\ cur' = cur + 1 /\ mpc' \in {"put", "punc"}
        /\ UNCHANGED <<kpc, sem, cnt>>
    BY <1>4 DEF NextPacket, workerVars
  <2>2. wpc = "idle" /\ cur \in Nat  BY <1>2, <2>1 DEF Control, WriterIsMain, MainTuple
  <2>3. Sent' = Sent /\ Marks = 0 /\ Marks' = 0  BY <1>1, <2>1, <2>2
  <2>4. Held' <=> Held  BY <1>1, <2>1 DEF Held
  <2>5. QED  BY <1>1, <1>2, <2>1, <2>3, <2>4, StreamStays
<1>5. CASE RecordPacket
  <2>1. /\ kpc = "handle" /\ out.flag = "NORMAL" /\ cnt' = cnt + 1 /\ kpc' = "read"
        /\ UNCHANGED <<mpc, cur, sem>>
    BY <1>5 DEF RecordPacket, mainVars
  <2>2. Stream(Unread(FALSE)', cnt + 1, Sent, Marks, Mark)  BY <1>1, <2>1, HandlesPacket
  <2>3. ~Held'  BY <1>1, <1>2, <2>1 DEF Held, Control, ReaderIsWorker
  <2>4. Unread(Held)' = Unread(FALSE)'  BY <2>3 DEF Unread
  <2>5. Sent' = Sent /\ Marks' = Marks /\ Mark' = Mark  BY <1>1, <2>1
  <2>6. QED  BY <2>1, <2>2, <2>4, <2>5 DEF StreamInv
<1>6. CASE EndInterval
  <2>1. /\ kpc = "handle" /\ out.flag = "PUNC" /\ sem' = sem + 1 /\ kpc' = "read"
        /\ UNCHANGED <<mpc, cur, cnt>>
    BY <1>6 DEF EndInterval, mainVars
  <2>2. MarkSent /\ Unanswered  BY <1>1, <2>1, HandlesPunc
  <2>3. \A g: Stream(Unread(FALSE)', cnt, Sent, 0, g)  BY <1>1, <2>1, HandlesMark
  <2>4. ~Held'  BY <1>1, <1>2, <2>1 DEF Held, Control, ReaderIsWorker
  <2>5. Unread(Held)' = Unread(FALSE)'  BY <2>4 DEF Unread
  <2>6. Sent' = Sent /\ Marks' = 0  BY <1>1, <2>1, <2>2
  <2>7. QED  BY <2>1, <2>3, <2>5, <2>6 DEF StreamInv
<1>7. CASE Finish
  <2>1. /\ kpc = "handle" /\ out.flag = "TERM" /\ kpc' = "exit"
        /\ UNCHANGED <<mpc, cur, cnt, sem>>
    BY <1>7 DEF Finish, mainVars
  <2>2. ~InEnd  BY <1>1, <2>1, HandlesTerm
  <2>3. \A g: Stream(Unread(FALSE)', cnt, Sent, 0, g)  BY <1>1, <2>1, HandlesMark
  <2>4. ~Held'  BY <1>1, <1>2, <2>1 DEF Held, Control, ReaderIsWorker
  <2>5. Unread(Held)' = Unread(FALSE)'  BY <2>4 DEF Unread
  <2>6. Sent' = Sent /\ Marks' = 0  BY <1>1, <2>1, <2>2
  <2>7. QED  BY <2>1, <2>3, <2>5, <2>6 DEF StreamInv
<1>8. QED  BY <1>3, <1>4, <1>5, <1>6, <1>7 DEF Elsewhere

LEMMA StreamStep ==
  ASSUME ReplayInv, ReplayTuples, [NextReplay]_replayVars, IndInv'
  PROVE  StreamInv'
  BY NextSplits, WriteKeepsStream, FlushKeepsStream, ReadKeepsStream, ElsewhereKeepsStream

-----------------------------------------------------------------------------
(* The intervals main has seen *)

\* The trace does not change, so neither do its intervals.
LEMMA TraceStays ==
  ASSUME ReplayTuples, [NextReplay]_replayVars
  PROVE  /\ trace' = trace
         /\ \A i: Interval(i)' = Interval(i)
         /\ \A i: HighWater(i)' = HighWater(i)
         /\ \A i: IntervalNumber(i)' = IntervalNumber(i)
         /\ \A k: PacketsOf(k)' = PacketsOf(k)
<1>1. trace' = trace  BY NextSplits, MainWritesIs, MainFlushesIs, WorkerReadsIs, ElsewhereKeeps
<1>2. \A i: Interval(i)' = Interval(i)  BY <1>1 DEF Interval
<1>3. \A i: HighWater(i)' = HighWater(i)  BY <1>2 DEF HighWater
<1>4. \A i: IntervalNumber(i)' = IntervalNumber(i)  BY <1>3 DEF IntervalNumber
<1>5. \A k: PacketsOf(k)' = PacketsOf(k)  BY <1>1, <1>4 DEF PacketsOf
<1>6. QED  BY <1>1, <1>2, <1>3, <1>4, <1>5

\* The steps that do not bring main to or from the end of an interval, and are
\* no answer of the worker.
LEMMA IntervalsStay ==
  ASSUME ReplayInv, ReplayTuples, [NextReplay]_replayVars, InEnd' <=> InEnd, Unanswered' <=> Unanswered,
         UNCHANGED <<cur, cur_interval, last_interval>>
  PROVE  Intervals'
<1>1. Intervals  BY DEF ReplayInv
<1>2. (IF Unanswered THEN cur - 1 ELSE cur)' = IF Unanswered THEN cur - 1 ELSE cur  OBVIOUS
<1>3. IntervalNumber(IF Unanswered THEN cur - 1 ELSE cur)' = IntervalNumber(IF Unanswered THEN cur - 1 ELSE cur)
  BY <1>2, TraceStays
<1>4. HighWater(cur)' = HighWater(cur) /\ HighWater(cur - 1)' = HighWater(cur - 1)
      /\ Interval(cur)' = Interval(cur)
  BY TraceStays
<1>5. QED  BY <1>1, <1>3, <1>4 DEF Intervals

\* The next packet opens an interval if it is above the high water.
LEMMA NextPacketIntervals ==
  ASSUME ReplayInv, ReplayTuples, NextPacket
  PROVE  Intervals'
<1>1. Intervals /\ Loaded /\ Control  BY DEF ReplayInv
<1>2. /\ mpc = "next" /\ cur' = cur + 1 /\ cur' \in 1 .. Len(trace) /\ cur \in Nat
      /\ UNCHANGED <<cur_interval, sem>>
  BY <1>1, TraceType DEF NextPacket, workerVars, Control, MainTuple
<1>3. /\ ~InEnd /\ ~Unanswered /\ sem = 0
  BY <1>1, <1>2 DEF InEnd, Unanswered, Control, Semaphore, MarkSent
<1>4. [NextReplay]_replayVars  BY DEF NextReplay, Main
<1>5. PICK c: c = cur  OBVIOUS
<1>6. cur' = c + 1 /\ c \in Nat /\ c + 1 \in 1 .. Len(trace)  BY <1>2, <1>5
<1>7. /\ HighWater(cur)' = HighWater(c + 1) /\ Interval(cur)' = Interval(c + 1)
      /\ IntervalNumber(cur)' = IntervalNumber(c + 1)
  BY <1>4, <1>6, TraceStays
<1>8. Interval(c + 1) \in Nat /\ Interval(c + 1) > 0  BY <1>1, <1>6, IntervalType
<1>9. CASE c = 0
  <2>1. last_interval = 0 /\ cur_interval = 0 /\ Len(trace) > 0  BY <1>1, <1>5, <1>6, <1>9 DEF Intervals
  <2>2. last_interval' = Interval(1) /\ mpc' = "put"
    BY <1>5, <1>9, <2>1 DEF NextPacket
  <2>3. HighWater(1) = Interval(1) /\ IntervalNumber(1) = 1
    BY <1>1, <2>1, FirstHighWater, FirstNumber
  <2>4. ~InEnd' /\ ~Unanswered'  BY <2>2 DEF InEnd, Unanswered
  <2>5. (IF Unanswered THEN cur - 1 ELSE cur)' = cur'  BY <2>4
  <2>6. IntervalNumber(IF Unanswered THEN cur - 1 ELSE cur)' = 1
    BY <1>6, <1>9, <2>3, <2>5, <1>4, TraceStays
  <2>7. QED  BY <1>2, <1>6, <1>7, <1>9, <2>1, <2>2, <2>3, <2>4, <2>6 DEF Intervals
<1>10. CASE c # 0
  <2>1. c \in 1 .. Len(trace)  BY <1>1, <1>6, <1>10, TraceType
  <2>2. /\ last_interval = HighWater(c) /\ cur_interval + 1 = IntervalNumber(c)
        /\ cur_interval \in Nat
    BY <1>1, <1>3, <1>5, <2>1 DEF Intervals
  <2>3. HighWater(c) \in Nat /\ HighWater(c) > 0  BY <1>1, <2>1, HighWaterType
  <2>4. HighWater(c + 1) = IF Interval(c + 1) > HighWater(c) THEN Interval(c + 1) ELSE HighWater(c)
    BY <1>1, <1>6, <2>1, NextHighWater
  <2>5. IntervalNumber(c + 1) =
          IF Interval(c + 1) > HighWater(c) THEN IntervalNumber(c) + 1 ELSE IntervalNumber(c)
    BY <1>1, <1>6, <2>1, NextNumber
  <2>6. CASE Interval(c + 1) > last_interval
    <3>1. mpc' = "punc" /\ last_interval' = last_interval
      BY <1>5, <1>8, <2>2, <2>3, <2>6 DEF NextPacket
    <3>2. InEnd' /\ Unanswered'  BY <1>2, <1>3, <3>1 DEF InEnd, Unanswered
    <3>3. (cur - 1)' = c /\ (IF Unanswered THEN cur - 1 ELSE cur)' = c  BY <1>6, <3>2
    <3>4. /\ HighWater(cur - 1)' = HighWater(c)
          /\ IntervalNumber(IF Unanswered THEN cur - 1 ELSE cur)' = IntervalNumber(c)
      BY <1>4, <3>3, TraceStays
    <3>5. QED  BY <1>2, <1>6, <1>7, <2>2, <2>6, <3>1, <3>2, <3>4 DEF Intervals
  <2>7. CASE ~ (Interval(c + 1) > last_interval)
    <3>1. mpc' = "put" /\ last_interval' = last_interval
      BY <1>5, <1>8, <2>2, <2>3, <2>7 DEF NextPacket
    <3>2. ~InEnd' /\ ~Unanswered'  BY <3>1 DEF InEnd, Unanswered
    <3>3. (IF Unanswered THEN cur - 1 ELSE cur)' = c + 1  BY <1>6, <3>2
    <3>4. IntervalNumber(IF Unanswered THEN cur - 1 ELSE cur)' = IntervalNumber(c + 1)
      BY <1>4, <3>3, TraceStays
    <3>5. QED  BY <1>2, <1>6, <1>7, <2>2, <2>4, <2>5, <2>7, <3>1, <3>2, <3>4 DEF Intervals
  <2>8. QED  BY <2>6, <2>7
<1>11. QED  BY <1>9, <1>10

\* main goes on in the interval the packet it has put aside opens.
LEMMA AwaitPuncIntervals ==
  ASSUME ReplayInv, ReplayTuples, AwaitPunc
  PROVE  Intervals'
<1>1. Intervals /\ Loaded /\ Control  BY DEF ReplayInv
<1>2. /\ mpc = "wait" /\ mpc' = "put" /\ sem > 0 /\ last_interval' = Interval(cur)
      /\ UNCHANGED <<cur, cur_interval>>
  BY DEF AwaitPunc, workerVars
<1>3. InEnd /\ ~Unanswered /\ ~InEnd' /\ ~Unanswered'  BY <1>2 DEF InEnd, Unanswered
<1>4. cur \in 2 .. Len(trace)  BY <1>1, <1>3, TraceType DEF Control, MainTuple
<1>5. [NextReplay]_replayVars  BY DEF NextReplay, Main
<1>6. PICK c: c = cur  OBVIOUS
<1>7. c - 1 \in 1 .. Len(trace) /\ (c - 1) + 1 = c /\ c \in 1 .. Len(trace)  BY <1>4, <1>6, TraceType, <1>1
<1>8. HighWater(c) = Interval(c)
  <2>1. Interval(c) > HighWater(c - 1)  BY <1>1, <1>3, <1>6 DEF Intervals
  <2>2. QED  BY <1>1, <1>7, <2>1, NextHighWater
<1>9. cur_interval + 1 = IntervalNumber(c) /\ cur_interval \in Nat /\ c > 0  BY <1>1, <1>3, <1>4, <1>6 DEF Intervals
<1>10. cur' = c /\ (IF Unanswered THEN cur - 1 ELSE cur)' = c  BY <1>2, <1>3, <1>6
<1>11. /\ HighWater(cur)' = HighWater(c)
       /\ IntervalNumber(IF Unanswered THEN cur - 1 ELSE cur)' = IntervalNumber(c)
  BY <1>5, <1>10, TraceStays
<1>12. QED  BY <1>2, <1>3, <1>6, <1>8, <1>9, <1>10, <1>11 DEF Intervals

\* The worker ends the interval.
LEMMA EndIntervalIntervals ==
  ASSUME ReplayInv, ReplayTuples, EndInterval
  PROVE  Intervals'
<1>1. Intervals /\ Loaded /\ Control  BY DEF ReplayInv
<1>2. /\ kpc = "handle" /\ out.flag = "PUNC" /\ sem' = sem + 1 /\ cur_interval' = cur_interval + 1
      /\ UNCHANGED <<mpc, cur, last_interval>>
  BY DEF EndInterval, mainVars
<1>3. Elsewhere /\ [NextReplay]_replayVars  BY DEF Elsewhere, NextReplay, Worker
<1>4. MarkSent /\ Unanswered  BY <1>2, <1>3, ElsewhereKeeps, HandlesPunc
<1>5. InEnd /\ InEnd' /\ ~Unanswered'  BY <1>2, <1>4 DEF Unanswered, InEnd
<1>6. cur \in 2 .. Len(trace)  BY <1>1, <1>5, TraceType DEF Control, MainTuple
<1>7. PICK c: c = cur  OBVIOUS
<1>8. c - 1 \in 1 .. Len(trace) /\ (c - 1) + 1 = c /\ c \in 1 .. Len(trace)  BY <1>6, <1>7, TraceType, <1>1
<1>9. /\ last_interval = HighWater(c - 1) /\ Interval(c) > last_interval
      /\ cur_interval + 1 = IntervalNumber(c - 1) /\ cur_interval \in Nat
  BY <1>1, <1>4, <1>5, <1>6, <1>7 DEF Intervals
<1>10. IntervalNumber(c) = IntervalNumber(c - 1) + 1  BY <1>1, <1>8, <1>9, NextNumber
<1>11. cur' = c /\ (cur - 1)' = c - 1 /\ (IF Unanswered THEN cur - 1 ELSE cur)' = c  BY <1>2, <1>5, <1>7
<1>12. /\ HighWater(cur - 1)' = HighWater(c - 1) /\ Interval(cur)' = Interval(c)
       /\ IntervalNumber(IF Unanswered THEN cur - 1 ELSE cur)' = IntervalNumber(c)
  BY <1>3, <1>11, TraceStays
<1>13. QED  BY <1>2, <1>5, <1>8, <1>9, <1>10, <1>11, <1>12 DEF Intervals

LEMMA IntervalsStep ==
  ASSUME ReplayInv, ReplayTuples, [NextReplay]_replayVars
  PROVE  Intervals'
<1> USE DEF InEnd, Unanswered
<1>1. CASE MainWrites  BY <1>1, MainWritesIs, IntervalsStay
<1>2. CASE MainFlushes  BY <1>2, MainFlushesIs, IntervalsStay
<1>3. CASE WorkerReads  BY <1>3, WorkerReadsIs, IntervalsStay
<1>4. CASE Elsewhere
  <2>1. CASE NextPacket  BY <2>1, NextPacketIntervals
  <2>2. CASE AwaitPunc  BY <2>2, AwaitPuncIntervals
  <2>3. CASE EndInterval  BY <2>3, EndIntervalIntervals
  <2>4. CASE AwaitWorker
    <3>1. /\ mpc = "create" /\ mpc' = "next" /\ UNCHANGED <<cur, cur_interval, last_interval>>
      BY <2>4 DEF AwaitWorker, workerVars
    <3>2. QED  BY <3>1, IntervalsStay
  <2>5. CASE WorkerReady
    <3>1. /\ kpc = "start" /\ UNCHANGED <<mpc, cur, cur_interval, last_interval>>
      BY <2>5 DEF WorkerReady, mainVars
    <3>2. mpc = "create"  BY <3>1 DEF ReplayInv, Control, ReaderIsWorker
    <3>3. QED  BY <3>1, <3>2, IntervalsStay
  <2>6. CASE TraceEnds \/ Join \/ RecordPacket \/ Finish \/ UNCHANGED replayVars
    <3>1. /\ (mpc' = mpc) \/ (mpc = "next" /\ mpc' = "term") \/ (mpc = "join" /\ mpc' = "done")
          /\ UNCHANGED <<sem, cur, cur_interval, last_interval>>
      BY <2>6 DEF TraceEnds, Join, RecordPacket, Finish, replayVars, mainVars, workerVars
    <3>2. QED  BY <3>1, IntervalsStay
  <2>7. QED  BY <1>4, <2>1, <2>2, <2>3, <2>4, <2>5, <2>6 DEF Elsewhere
<1>5. QED  BY <1>1, <1>2, <1>3, <1>4, NextSplits

-----------------------------------------------------------------------------
(* The sketch and the files *)

LEMMA SentType ==
  ASSUME ReplayInv
  PROVE  /\ Sent \in Nat /\ cnt \in Nat /\ cnt <= Sent /\ Sent <= Len(trace) /\ Len(trace) \in Nat
         /\ cur_interval \in Nat
<1>1. Sent \in Nat /\ cnt \in Nat /\ cnt <= Sent  BY DEF ReplayInv, StreamInv, Stream
<1>2. Sent = cur \/ Sent = cur - 1  BY DEF Sent
<1>3. cur \in 0 .. Len(trace)  BY DEF ReplayInv, Control, MainTuple
<1>4. QED  BY <1>1, <1>2, <1>3, TraceType DEF ReplayInv, Intervals

\* main's packet is sent by the last step of memcpy, nothing else is.
LEMMA SentStep ==
  ASSUME ReplayInv, ReplayTuples, [NextReplay]_replayVars
  PROVE  \/ Sent' = Sent
         \/ Sent' = cur /\ Sent = cur - 1 /\ ~InEnd /\ cur > 0
<1>1. Control  BY DEF ReplayInv
<1> USE DEF Sent, InEnd
<1>2. CASE MainWrites
  <2>1. /\ mpc \in {"put", "punc", "term"} /\ cur' = cur
        /\ mpc' = mpc \/ <<mpc, mpc'>> \in {<<"put", "next">>, <<"punc", "flush">>, <<"term", "lastflush">>}
    BY <1>2, MainWritesIs
  <2>2. mpc = "put" => cur > 0  BY <1>1 DEF Control, MainTuple
  <2>3. wpc = "publish" /\ mpc' = mpc /\ mpc = "put" => wpc' = "publish"
    <3>1. wpc = "publish" => \/ WritePublish /\ wpc' = "idle"
                             \/ UNCHANGED wpc
      BY <1>2, MainWritesIs DEF WriteFails, WriteBegin, WriteReload, WriteStore, WritePublish
    <3>2. WritePublish /\ wpc' = "idle" /\ mpc = "put" => mpc' = "next"
      BY <1>2, MainWritesIs DEF WriteFails, WriteBegin, WriteReload, WritePublish
    <3>3. QED  BY <3>1, <3>2
  <2>4. QED  BY <2>1, <2>2, <2>3
<1>3. CASE MainFlushes  BY <1>3, MainFlushesIs
<1>4. CASE WorkerReads
  <2>1. wpc' = wpc
    BY <1>4, WorkerReadsIs DEF ReadFails, ReadBegin, ReadReload, ReadStore, ReadPublish, vars, writerVars
  <2>2. QED  BY <1>4, <2>1, WorkerReadsIs
<1>5. CASE Elsewhere
  <2>1. UNCHANGED wpc  BY <1>5, ElsewhereKeeps
  <2>2. CASE NextPacket
    <3>1. mpc = "next" /\ cur' = cur + 1 /\ mpc' \in {"put", "punc"}  BY <2>2 DEF NextPacket
    <3>2. wpc = "idle" /\ cur \in Nat  BY <1>1, <3>1 DEF Control, WriterIsMain, MainTuple
    <3>3. QED  BY <2>1, <3>1, <3>2
  <2>3. CASE AwaitPunc
    <3>1. mpc = "wait" /\ mpc' = "put" /\ cur' = cur  BY <2>3 DEF AwaitPunc
    <3>2. wpc = "idle"  BY <1>1, <3>1 DEF Control, WriterIsMain
    <3>3. QED  BY <2>1, <3>1, <3>2
  <2>4. CASE AwaitWorker \/ TraceEnds \/ Join
    BY <2>4 DEF AwaitWorker, TraceEnds, Join
  <2>5. CASE WorkerReady \/ RecordPacket \/ EndInterval \/ Finish \/ UNCHANGED replayVars
    <3>1. UNCHANGED <<mpc, cur>>
      BY <2>5 DEF WorkerReady, RecordPacket, EndInterval, Finish, replayVars, mainVars
    <3>2. QED  BY <2>1, <3>1
  <2>6. QED  BY <1>5, <2>2, <2>3, <2>4, <2>5 DEF Elsewhere
<1>6. QED  BY <1>2, <1>3, <1>4, <1>5, NextSplits

\* The steps that are not the worker's.
LEMMA SketchStays ==
  ASSUME ReplayInv, ReplayTuples, [NextReplay]_replayVars, UNCHANGED <<sketch, cnt, cur_interval>>,
         kpc' = "exit" <=> kpc = "exit", kpc = "exit" => cur' = cur
  PROVE  SketchInv'
<1>1. SketchInv  BY DEF ReplayInv
<1>2. \A i: IntervalNumber(i)' = IntervalNumber(i)  BY TraceStays
<1>3. ASSUME NEW s, Sent' = s, kpc # "exit", NEW i \in cnt - Len(sketch) + 1 .. s
      PROVE  IntervalNumber(i) = cur_interval + 1
  <2>1. CASE Sent' = Sent  BY <1>1, <1>3, <2>1 DEF SketchInv
  <2>2. CASE Sent' = cur /\ Sent = cur - 1 /\ ~InEnd /\ cur > 0
    <3>1. CASE i = cur
      <4>1. cur_interval + 1 = IntervalNumber(cur)  BY <2>2 DEF ReplayInv, Intervals, Unanswered
      <4>2. QED  BY <3>1, <4>1
    <3>2. CASE i # cur
      <4>1. i \in cnt - Len(sketch) + 1 .. Sent
        <5>1. Len(sketch) \in Nat /\ cnt \in Nat /\ Sent \in Nat  BY <1>1, SentType DEF SketchInv
        <5>2. cur \in Nat  BY SentType DEF ReplayInv, Control, MainTuple
        <5>3. QED  BY <1>3, <2>2, <3>2, <5>1, <5>2
      <4>2. QED  BY <1>1, <1>3, <4>1 DEF SketchInv
    <3>3. QED  BY <3>1, <3>2
  <2>3. QED  BY <2>1, <2>2, SentStep
<1>4. \A i \in (cnt - Len(sketch) + 1 .. Sent)': kpc # "exit" => IntervalNumber(i) = cur_interval + 1
  BY <1>3
<1>5. QED  BY <1>1, <1>2, <1>4 DEF SketchInv

LEMMA SketchStep ==
  ASSUME ReplayInv, ReplayTuples, [NextReplay]_replayVars
  PROVE  SketchInv'
<1>1. CASE MainWrites  BY <1>1, MainWritesIs, SketchStays
<1>2. CASE MainFlushes  BY <1>2, MainFlushesIs, SketchStays
<1>3. CASE WorkerReads
  <2>1. kpc = "read" /\ kpc' \in {"read", "handle"}  BY <1>3, WorkerReadsIs
  <2>2. QED  BY <1>3, <2>1, WorkerReadsIs, SketchStays
<1>4. CASE Elsewhere
  <2>1. CASE AwaitWorker \/ NextPacket \/ TraceEnds \/ AwaitPunc \/ Join \/ WorkerReady \/ UNCHANGED replayVars
    <3>1. /\ UNCHANGED <<sketch, cnt, cur_interval>> /\ (kpc' = "exit" <=> kpc = "exit")
          /\ mpc # "next" => cur' = cur
      BY <2>1 DEF AwaitWorker, NextPacket, TraceEnds, AwaitPunc, Join, WorkerReady,
                  replayVars, mainVars, workerVars
    <3>2. kpc = "exit" => mpc # "next"  BY DEF ReplayInv, Control, ReaderIsWorker, LastMarkSent
    <3>3. QED  BY <3>1, <3>2, SketchStays
  <2>2. UNCHANGED <<Contents, out>>  BY <1>4, ElsewhereKeeps
  <2>3. SketchInv /\ Sent \in Nat /\ cnt \in Nat /\ cnt <= Sent /\ cur_interval \in Nat
    BY SentType DEF ReplayInv
  <2>4. PICK s: s = Sent  OBVIOUS
  <2>5. \A i: IntervalNumber(i)' = IntervalNumber(i)  BY TraceStays
  <2>6. CASE RecordPacket
    <3>1. /\ kpc = "handle" /\ kpc' = "read" /\ out.flag = "NORMAL" /\ cnt' = cnt + 1
          /\ sketch' = Append(sketch, out.pkt) /\ UNCHANGED <<cur_interval, mpc, cur>>
      BY <2>6 DEF RecordPacket, mainVars
    <3>2. out = Packet(cnt + 1) /\ cnt + 1 <= Sent  BY <2>2, <3>1, HandlesPacket
    <3>3. out.pkt = cnt + 1  BY <3>2 DEF Packet
    <3>4. Sent' = Sent  BY <3>1, <1>4, ElsewhereKeeps DEF Sent, InEnd
    <3>5. /\ sketch \in Seq(Nat) /\ cnt - Len(sketch) \in Nat
          /\ \A j \in 1 .. Len(sketch): sketch[j] = cnt - Len(sketch) + j
      BY <2>3 DEF SketchInv
    <3>6. /\ sketch' \in Seq(Nat) /\ Len(sketch') = Len(sketch) + 1 /\ Len(sketch) \in Nat
          /\ sketch'[Len(sketch) + 1] = cnt + 1
          /\ \A j \in 1 .. Len(sketch): sketch'[j] = sketch[j]
      BY <2>3, <3>1, <3>3, <3>5
    <3>7. cnt' - Len(sketch') = cnt - Len(sketch)  BY <2>3, <3>1, <3>6
    <3>8. \A j \in 1 .. Len(sketch'): sketch'[j] = cnt - Len(sketch) + j
      <4>1. TAKE j \in 1 .. Len(sketch')
      <4>2. CASE j = Len(sketch) + 1
        <5>1. cnt - Len(sketch) + j = cnt + 1  BY <2>3, <3>6, <4>2
        <5>2. QED  BY <3>6, <4>2, <5>1
      <4>3. CASE j # Len(sketch) + 1
        <5>1. j \in 1 .. Len(sketch)  BY <3>6, <4>3
        <5>2. QED  BY <3>5, <3>6, <5>1
      <4>4. QED  BY <4>2, <4>3
    <3>9. /\ \A i \in 1 .. cnt - Len(sketch): IntervalNumber(i) <= cur_interval
          /\ \A i \in cnt - Len(sketch) + 1 .. Sent: IntervalNumber(i) = cur_interval + 1
      BY <2>3, <3>1 DEF SketchInv
    <3>10. kpc' # "exit"  BY <3>1
    <3>11. QED  BY <2>5, <3>1, <3>4, <3>5, <3>6, <3>7, <3>8, <3>9, <3>10 DEF SketchInv
  <2>7. CASE EndInterval
    <3>1. /\ kpc = "handle" /\ kpc' = "read" /\ out.flag = "PUNC" /\ cnt' = cnt
          /\ sketch' = <<>> /\ cur_interval' = cur_interval + 1 /\ UNCHANGED <<mpc, cur>>
      BY <2>7 DEF EndInterval, mainVars
    <3>2. cnt = Sent  BY <2>2, <3>1, HandlesPunc
    <3>3. Sent' = Sent  BY <3>1, <1>4, ElsewhereKeeps DEF Sent, InEnd
    <3>4. /\ \A i \in 1 .. cnt - Len(sketch): IntervalNumber(i) <= cur_interval
          /\ \A i \in cnt - Len(sketch) + 1 .. Sent: IntervalNumber(i) = cur_interval + 1
          /\ Len(sketch) \in Nat
      BY <2>3, <3>1 DEF SketchInv
    <3>5. \A i \in 1 .. cnt: IntervalNumber(i) <= cur_interval + 1
      <4>1. TAKE i \in 1 .. cnt
      <4>2. CASE i \in 1 .. cnt - Len(sketch)
        <5>1. IntervalNumber(i) <= cur_interval  BY <3>4, <4>2
        <5>2. IntervalNumber(i) \in Nat
          <6>1. i \in 1 .. Len(trace)  BY <3>2, SentType
          <6>2. QED  BY <6>1, NumberIsNat DEF ReplayInv
        <5>3. QED  BY <2>3, <5>1, <5>2
      <4>3. CASE i \in cnt - Len(sketch) + 1 .. Sent  BY <2>3, <3>4, <4>3
      <4>4. QED  BY <2>3, <3>2, <3>4, <4>2, <4>3
    <3>6. cnt' - Len(sketch') = cnt /\ sketch' \in Seq(Nat) /\ Len(sketch') = 0  BY <2>3, <3>1
    <3>7. \A i \in 1 .. cnt' - Len(sketch'): IntervalNumber(i) <= cur_interval'
      BY <3>1, <3>5, <3>6
    <3>8. \A i \in cnt' - Len(sketch') + 1 .. Sent': FALSE  BY <2>3, <3>2, <3>3, <3>6
    <3>9. kpc' # "exit" /\ cnt' - Len(sketch') \in Nat /\ \A j \in 1 .. Len(sketch'): FALSE
      BY <2>3, <3>1, <3>6
    <3>10. QED  BY <2>5, <3>6, <3>7, <3>8, <3>9 DEF SketchInv
  <2>8. CASE Finish
    <3>1. /\ kpc = "handle" /\ kpc' = "exit" /\ out.flag = "TERM" /\ cnt' = cnt
          /\ sketch' = <<>> /\ cur' = cur
      BY <2>8 DEF Finish, mainVars
    <3>2. cnt = cur  BY <2>2, <3>1, HandlesTerm
    <3>3. cnt' - Len(sketch') = cnt /\ sketch' \in Seq(Nat) /\ Len(sketch') = 0  BY <2>3, <3>1
    <3>4. QED  BY <2>3, <3>1, <3>2, <3>3 DEF SketchInv
  <2>9. QED  BY <1>4, <2>1, <2>6, <2>7, <2>8 DEF Elsewhere
<1>5. QED  BY <1>1, <1>2, <1>3, <1>4, NextSplits

\* What the sketch holds when a mark ends its interval.
LEMMA SketchIsFile ==
  ASSUME ReplayInv, kpc = "handle", cnt = Sent,
         \/ Sent = Len(trace)
         \/ Sent + 1 \in 1 .. Len(trace) /\ IntervalNumber(Sent + 1) > cur_interval + 1
  PROVE  IsFile(sketch, cur_interval + 1)
<1> DEFINE first == cnt - Len(sketch)
<1>1. /\ sketch \in Seq(Nat) /\ first \in Nat /\ Len(sketch) \in Nat
      /\ \A j \in 1 .. Len(sketch): sketch[j] = first + j
      /\ \A i \in 1 .. first: IntervalNumber(i) <= cur_interval
      /\ \A i \in first + 1 .. Sent: IntervalNumber(i) = cur_interval + 1
  BY DEF ReplayInv, SketchInv
<1>2. /\ Sent \in Nat /\ cnt \in Nat /\ Sent <= Len(trace) /\ Len(trace) \in Nat
      /\ cur_interval \in Nat  BY SentType
<1>3. Len(sketch) = Sent - first /\ first <= Sent  BY <1>1, <1>2
<1>4. DOMAIN sketch = 1 .. Len(sketch)  BY <1>1
<1> HIDE DEF first
<1>5. ASSUME NEW x \in Range(sketch) PROVE x \in PacketsOf(cur_interval + 1)
  <2>1. PICK j \in 1 .. Len(sketch): x = sketch[j]  BY <1>4, <1>5 DEF Range
  <2>2. x = first + j /\ x \in first + 1 .. Sent /\ x \in 1 .. Len(trace)  BY <1>1, <1>2, <1>3, <2>1
  <2>3. QED  BY <1>1, <2>2 DEF PacketsOf
<1>6. ASSUME NEW x \in PacketsOf(cur_interval + 1) PROVE x \in Range(sketch)
  <2>1. x \in 1 .. Len(trace) /\ IntervalNumber(x) = cur_interval + 1  BY <1>6 DEF PacketsOf
  <2>2. x \notin 1 .. first  BY <1>1, <1>2, <2>1
  <2>3. x <= Sent
    <3>1. CASE Sent = Len(trace)  BY <2>1, <3>1
    <3>2. CASE Sent + 1 \in 1 .. Len(trace) /\ IntervalNumber(Sent + 1) > cur_interval + 1
      <4>1. ASSUME ~ (x <= Sent) PROVE FALSE
        <5>1. Sent + 1 \in 1 .. x  BY <1>2, <2>1, <4>1
        <5>2. IntervalNumber(Sent + 1) <= IntervalNumber(x)  BY <2>1, <5>1, NumbersGrow DEF ReplayInv
        <5>3. IntervalNumber(Sent + 1) \in Nat  BY <3>2, NumberIsNat DEF ReplayInv
        <5>4. QED  BY <1>2, <2>1, <3>2, <5>2, <5>3
      <4>2. QED  BY <4>1
    <3>3. QED  BY <3>1, <3>2
  <2>4. x - first \in 1 .. Len(sketch) /\ first + (x - first) = x  BY <1>1, <1>2, <1>3, <2>1, <2>2, <2>3
  <2>5. sketch[x - first] = x  BY <1>1, <2>4
  <2>6. QED  BY <1>4, <2>4, <2>5 DEF Range
<1>7. \A j \in 1 .. Len(sketch) - 1: sketch[j] < sketch[j + 1]
  <2>1. TAKE j \in 1 .. Len(sketch) - 1
  <2>2. j \in 1 .. Len(sketch) /\ j + 1 \in 1 .. Len(sketch)  BY <1>1
  <2>3. sketch[j] = first + j /\ sketch[j + 1] = first + (j + 1)  BY <1>1, <2>2
  <2>4. QED  BY <1>1, <2>3
<1>8. QED  BY <1>1, <1>5, <1>6, <1>7 DEF IsFile

\* A mark comes behind all the packets of its interval, of which there is one
\* if it is TUPLE_PUNC.
LEMMA PuncEndsFile ==
  ASSUME ReplayInv, kpc = "handle", out.flag = "PUNC", UNCHANGED <<Contents, out>>
  PROVE  IsFile(sketch, cur_interval + 1) /\ PacketsOf(cur_interval + 1) # {}
<1>1. cur_interval \in Nat  BY SentType
<1>2. MarkSent /\ Unanswered /\ cnt = Sent /\ Sent = cur - 1  BY HandlesPunc
<1>3. PICK c: c = cur  OBVIOUS
<1>4. InEnd /\ c \in 2 .. Len(trace)
  BY <1>2, <1>3, SentType DEF Unanswered, ReplayInv, Control, MainTuple
<1>5. /\ cur_interval + 1 = IntervalNumber(c - 1) /\ Interval(c) > HighWater(c - 1)
  BY <1>2, <1>3, <1>4 DEF ReplayInv, Intervals
<1>6. c - 1 \in 1 .. Len(trace) /\ (c - 1) + 1 = c /\ c \in 1 .. Len(trace)  BY <1>4, SentType
<1>7. IntervalNumber(c) = cur_interval + 2
  BY <1>1, <1>5, <1>6, NextNumber DEF ReplayInv
<1>8. Sent + 1 = c  BY <1>2, <1>3, <1>4
<1>9. IsFile(sketch, cur_interval + 1)  BY <1>1, <1>2, <1>6, <1>7, <1>8, SketchIsFile
<1>10. c - 1 \in PacketsOf(cur_interval + 1)  BY <1>5, <1>6 DEF PacketsOf
<1>11. QED  BY <1>9, <1>10

LEMMA TermEndsFile ==
  ASSUME ReplayInv, kpc = "handle", out.flag = "TERM", UNCHANGED <<Contents, out>>
  PROVE  IsFile(sketch, cur_interval + 1)
<1>1. cnt = Sent /\ Sent = Len(trace)  BY HandlesTerm
<1>2. QED  BY <1>1, SketchIsFile

\* Printing appends a file, which is the sketch.
LEMMA PrintAppends ==
  ASSUME PrintSketch, files \in Seq(Seq(Nat)), sketch \in Seq(Nat), cur_interval \in Nat,
         Len(files) = cur_interval
  PROVE  /\ files' \in Seq(Seq(Nat)) /\ Len(files') = cur_interval + 1
         /\ files'[cur_interval + 1] = sketch
         /\ \A k \in 1 .. cur_interval: files'[k] = files[k]
<1> DEFINE n == cur_interval + 1
<1>1. files' = [k \in 1 .. n |-> IF k = n THEN sketch ELSE files[k]]  BY DEF PrintSketch
<1>2. \A k \in 1 .. cur_interval: files[k] \in Seq(Nat)  OBVIOUS
<1>3. \A k \in 1 .. n: k # n => k \in 1 .. cur_interval  OBVIOUS
<1>4. files' \in [1 .. n -> Seq(Nat)]  BY <1>1, <1>2, <1>3
<1>5. n \in Nat  OBVIOUS
<1>6. files' \in Seq(Seq(Nat)) /\ Len(files') = n
  <2>1. files' \in Seq(Seq(Nat))  BY <1>4, <1>5, SeqDef
  <2>2. QED  BY <1>4, <1>5, <2>1, LenProperties
<1>7. \A k \in 1 .. cur_interval: k \in 1 .. n /\ k # n  OBVIOUS
<1>8. n \in 1 .. n  BY <1>5
<1>9. QED  BY <1>1, <1>6, <1>7, <1>8

LEMMA FilesStay ==
  ASSUME ReplayInv, ReplayTuples, [NextReplay]_replayVars, UNCHANGED <<files, cur_interval>>,
         kpc' = "exit" <=> kpc = "exit"
  PROVE  FilesInv'
<1>1. FilesInv  BY DEF ReplayInv
<1>2. \A f, k: IsFile(f, k)' <=> IsFile(f, k)  BY TraceStays DEF IsFile
<1>3. QED  BY <1>1, <1>2 DEF FilesInv

LEMMA FileAdded ==
  ASSUME ReplayInv, ReplayTuples, [NextReplay]_replayVars, kpc = "handle", PrintSketch,
         IsFile(sketch, cur_interval + 1),
         cur_interval' + (IF kpc' = "exit" THEN 1 ELSE 0) = cur_interval + 1
  PROVE  FilesInv'
<1>1. files \in Seq(Seq(Nat)) /\ Len(files) = cur_interval /\ cur_interval \in Nat
      /\ \A k \in 1 .. cur_interval: IsFile(files[k], k)
  BY DEF ReplayInv, FilesInv, Intervals
<1>2. sketch \in Seq(Nat)  BY DEF ReplayInv, SketchInv
<1>3. /\ files' \in Seq(Seq(Nat)) /\ Len(files') = cur_interval + 1
      /\ files'[cur_interval + 1] = sketch
      /\ \A k \in 1 .. cur_interval: files'[k] = files[k]
  BY <1>1, <1>2, PrintAppends
<1>4. ASSUME NEW k \in 1 .. cur_interval + 1 PROVE IsFile(files'[k], k)
  <2>1. CASE k = cur_interval + 1  BY <1>3, <2>1
  <2>2. CASE k # cur_interval + 1
    <3>1. k \in 1 .. cur_interval  BY <1>1, <2>2
    <3>2. QED  BY <1>1, <1>3, <3>1
  <2>3. QED  BY <2>1, <2>2
<1>5. \A k \in 1 .. Len(files'): IsFile(files'[k], k)  BY <1>3, <1>4
<1>6. \A f, k: IsFile(f, k)' <=> IsFile(f, k)  BY TraceStays DEF IsFile
<1>7. PICK fs: fs = files'  OBVIOUS
<1>8. \A k \in 1 .. Len(fs): IsFile(fs[k], k)'  BY <1>5, <1>6, <1>7
<1>9. QED  BY <1>3, <1>7, <1>8 DEF FilesInv

LEMMA FilesStep ==
  ASSUME ReplayInv, ReplayTuples, [NextReplay]_replayVars
  PROVE  FilesInv'
<1>1. CASE MainWrites  BY <1>1, MainWritesIs, FilesStay
<1>2. CASE MainFlushes  BY <1>2, MainFlushesIs, FilesStay
<1>3. CASE WorkerReads
  <2>1. kpc = "read" /\ kpc' \in {"read", "handle"}  BY <1>3, WorkerReadsIs
  <2>2. QED  BY <1>3, <2>1, WorkerReadsIs, FilesStay
<1>4. CASE Elsewhere
  <2>1. CASE AwaitWorker \/ NextPacket \/ TraceEnds \/ AwaitPunc \/ Join \/ WorkerReady
             \/ RecordPacket \/ UNCHANGED replayVars
    <3>1. UNCHANGED <<files, cur_interval>> /\ (kpc' = "exit" <=> kpc = "exit")
      BY <2>1 DEF AwaitWorker, NextPacket, TraceEnds, AwaitPunc, Join, WorkerReady,
                  RecordPacket, replayVars, mainVars, workerVars
    <3>2. QED  BY <3>1, FilesStay
  <2>2. UNCHANGED <<Contents, out>>  BY <1>4, ElsewhereKeeps
  <2>3. cur_interval \in Nat  BY SentType
  <2>4. CASE EndInterval
    <3>1. /\ kpc = "handle" /\ kpc' = "read" /\ out.flag = "PUNC" /\ PrintSketch
          /\ cur_interval' = cur_interval + 1
      BY <2>4 DEF EndInterval
    <3>2. QED  BY <2>2, <2>3, <3>1, PuncEndsFile, FileAdded
  <2>5. CASE Finish
    <3>1. /\ kpc = "handle" /\ kpc' = "exit" /\ out.flag = "TERM" /\ PrintSketch
          /\ cur_interval' = cur_interval
      BY <2>5 DEF Finish
    <3>2. QED  BY <2>2, <2>3, <3>1, TermEndsFile, FileAdded
  <2>6. QED  BY <1>4, <2>1, <2>4, <2>5 DEF Elsewhere
<1>5. QED  BY <1>1, <1>2, <1>3, <1>4, NextSplits

-----------------------------------------------------------------------------
(* The files are the intervals *)

LEMMA ReplayInit ==
  ASSUME ReplayTuples, InitReplay
  PROVE  ReplayInv
<1>1. Init  BY DEF InitReplay
<1>2. IndInv  BY <1>1, InitIndInv
<1>3. /\ trace \in Traces /\ mpc = "create" /\ cur = 0 /\ t = NoPacket /\ last_interval = 0
      /\ kpc = "start" /\ sketch = <<>> /\ cur_interval = 0 /\ cnt = 0 /\ sem = 0 /\ files = <<>>
  BY DEF InitReplay
<1>4. wpc = "idle" /\ rpc = "idle"  BY <1>1 DEF Init
<1>5. Loaded  BY <1>3 DEF Loaded
<1>6. Len(trace) \in Nat /\ MaxPacket \in Nat  BY <1>5, TraceType
<1>7. Control
  <2>1. t \in ReplayTuple  BY <1>3, <1>6 DEF ReplayTuple, NoPacket, Flag
  <2>2. QED  BY <1>3, <1>4, <1>6, <2>1
    DEF Control, WriterIsMain, ReaderIsWorker, MainTuple, Semaphore, MarkSent, InEnd, LastMarkSent
<1>8. StreamInv
  <2>1. Unread(Held) = Contents  BY <1>3, <1>4 DEF Unread, Held
  <2>2. Contents \in Seq(Tuple) /\ Len(Contents) = 0
    <3>1. Dist(nextReadIndex, nextWriteIndex) = 0  BY <1>1 DEF Init, Dist
    <3>2. QED  BY <1>2, <3>1, ContentsSeq DEF ContentsAreSlots
  <2>3. Sent = 0 /\ Marks = 0
    BY <1>3 DEF Sent, Marks, MarkSent, LastMarkSent, Unanswered, InEnd
  <2>4. QED  BY <1>3, <2>1, <2>2, <2>3 DEF StreamInv, Stream
<1>9. Intervals  BY <1>3 DEF Intervals, InEnd
<1>10. SketchInv
  <2>1. Sent = 0  BY <1>3 DEF Sent, InEnd
  <2>2. QED  BY <1>3, <2>1 DEF SketchInv
<1>11. FilesInv  BY <1>3 DEF FilesInv
<1>12. QED  BY <1>2, <1>5, <1>7, <1>8, <1>9, <1>10, <1>11 DEF ReplayInv

LEMMA ReplayStep ==
  ASSUME ReplayTuples, ReplayInv, [NextReplay]_replayVars
  PROVE  ReplayInv'
<1>1. t \in Tuple  BY DEF ReplayInv, Control, MainTuple, ReplayTuples
<1>2. [Next]_vars  BY <1>1, ReplayStepsRing
<1>3. IndInv'  BY <1>2, IndInvStep DEF ReplayInv
<1>4. Loaded'  BY TraceStays DEF ReplayInv, Loaded
<1>5. QED
  BY <1>3, <1>4, ControlStep, StreamStep, IntervalsStep, SketchStep, FilesStep DEF ReplayInv

LEMMA ReplayFiles ==
  ASSUME ReplayInv PROVE FilesAreIntervals
<1>1. ASSUME NEW k \in DOMAIN files
      PROVE  /\ Range(files[k]) = PacketsOf(k)
             /\ \A j \in 1 .. Len(files[k]) - 1: files[k][j] < files[k][j + 1]
  <2>1. IsFile(files[k], k)  BY DEF ReplayInv, FilesInv
  <2>2. QED  BY <2>1 DEF IsFile
<1>2. ASSUME mpc = "done"
      PROVE  /\ cnt = Len(trace)
             /\ trace # <<>> => Len(files) = IntervalNumber(Len(trace))
             /\ nextReadIndex = nextWriteIndex
  <2>1. kpc = "exit" /\ cur = Len(trace) /\ rpc = "idle"
    BY <1>2 DEF ReplayInv, Control, ReaderIsWorker, MainTuple
  <2>2. cnt = cur  BY <2>1 DEF ReplayInv, SketchInv
  <2>3. ~InEnd /\ ~Unanswered  BY <1>2 DEF InEnd, Unanswered
  <2>4. Sent = cnt /\ Marks = 0  BY <1>2, <2>1, <2>2, <2>3 DEF Sent, Marks, MarkSent
  <2>5. ~Held /\ Unread(Held) = Contents  BY <2>1 DEF Held, Unread
  <2>6. Len(Contents) = 0  BY <2>4, <2>5, StreamEnds DEF ReplayInv, StreamInv
  <2>7. nextReadIndex = nextWriteIndex
    <3>1. Dist(nextReadIndex, nextWriteIndex) = 0
      BY <2>6, ContentsSeq DEF ContentsAreSlots, ReplayInv
    <3>2. nextReadIndex \in Slot /\ nextWriteIndex \in Slot  BY DEF ReplayInv, IndInv, TypeOK
    <3>3. QED  BY <3>1, <3>2, DistSelf, DistInjective
  <2>8. ASSUME trace # <<>> PROVE Len(files) = IntervalNumber(Len(trace))
    <3>1. Len(trace) > 0  BY <2>8, TraceType DEF ReplayInv
    <3>2. cur_interval + 1 = IntervalNumber(cur)  BY <2>1, <2>3, <3>1 DEF ReplayInv, Intervals
    <3>3. QED  BY <2>1, <3>2 DEF ReplayInv, FilesInv
  <2>9. QED  BY <2>1, <2>2, <2>7, <2>8
<1>3. QED  BY <1>1, <1>2 DEF FilesAreIntervals

LEMMA ReplayInvariant ==
  ASSUME ReplayTuples
  PROVE  SpecReplay => []ReplayInv
<1>1. InitReplay => ReplayInv  BY ReplayInit
<1>2. ReplayInv /\ [NextReplay]_replayVars => ReplayInv'  BY ReplayStep
<1>3. QED  BY <1>1, <1>2, PTL DEF SpecReplay

\* Every sketch file of a replay has the packets of its interval, once and in
\* order, and no other's, for every trace, ring, batch and interval length and
\* every interleaving of main and the worker; when main returns none is missing
\* (dp_simulate.c:70-83, 179-212).
THEOREM ReplayFilesAreIntervals ==
  ASSUME ReplayTuples
  PROVE  SpecReplay => []FilesAreIntervals
<1>1. SpecReplay => []ReplayInv  BY ReplayInvariant
<1>2. ReplayInv => FilesAreIntervals  BY ReplayFiles
<1>3. QED  BY <1>1, <1>2, PTL

-----------------------------------------------------------------------------
(* The true flows *)

LEMMA PacketsFinite ==
  ASSUME Loaded
  PROVE  /\ IsFiniteSet(1 .. Len(trace)) /\ Len(trace) \in Nat
         /\ \A i \in 1 .. Len(trace): SizeOf[i] \in Nat \ {0}
<1>1. Len(trace) \in Nat /\ MaxPacket \in Nat /\ Len(trace) <= MaxPacket  BY TraceType
<1>2. IsFiniteSet(1 .. Len(trace))  BY <1>1, FS_Interval
<1>3. \A i \in 1 .. Len(trace): i \in 1 .. MaxPacket  BY <1>1
<1>4. QED  BY <1>1, <1>2, <1>3, TrueFlowsAssumption

LEMMA SizesAdd ==
  ASSUME NEW K, IsFiniteSet(K), \A j \in K: SizeOf[j] \in Nat \ {0},
         NEW ps \in SUBSET K, NEW i \in K, i \notin ps
  PROVE  /\ Total(SizeOf, ps \cup {i}) = SizeOf[i] + Total(SizeOf, ps)
         /\ Total(SizeOf, ps) \in Nat
<1>1. Total(SizeOf, ps \cup {i}) = SizeOf[i] + Total(SizeOf, ps)  BY TotalAdd
<1>2. Total(SizeOf, ps) \in Nat  BY TotalAdd
<1>3. QED  BY <1>1, <1>2

LEMMA OneMorePacket ==
  ASSUME Loaded, NEW ps \in SUBSET (1 .. Len(trace)), NEW i \in 1 .. Len(trace), i \notin ps
  PROVE  /\ Total(SizeOf, ps \cup {i}) = SizeOf[i] + Total(SizeOf, ps)
         /\ Total(SizeOf, ps) \in Nat
<1>1. IsFiniteSet(1 .. Len(trace)) /\ \A j \in 1 .. Len(trace): SizeOf[j] \in Nat \ {0}  BY PacketsFinite
<1>2. QED  BY <1>1, SizesAdd

\* The packets ps of flow k.
OfFlow(ps, k) == {i \in ps: FlowOf[i] = k}

LEMMA BytesAre ==
  \A ps: /\ DOMAIN BytesOf(ps) = {FlowOf[i]: i \in ps}
         /\ BytesOf(ps) = [k \in {FlowOf[i]: i \in ps} |-> BytesOf(ps)[k]]
         /\ \A k \in DOMAIN BytesOf(ps): BytesOf(ps)[k] = Total(SizeOf, OfFlow(ps, k))
  BY DEF BytesOf, OfFlow

LEMMA BytesOfNone == BytesOf({}) = <<>>
<1>1. DOMAIN BytesOf({}) = {} /\ BytesOf({}) = [k \in {} |-> BytesOf({})[k]]
  <2>1. {FlowOf[i]: i \in {}} = {}  OBVIOUS
  <2>2. QED  BY <2>1, BytesAre
<1>2. <<>> = [k \in {} |-> BytesOf({})[k]]  OBVIOUS
<1>3. QED  BY <1>1, <1>2

\* A table of true flows has a finite number of keys, with some bytes each.
LEMMA BytesType ==
  ASSUME Loaded, NEW ps \in SUBSET (1 .. Len(trace))
  PROVE  /\ IsFiniteSet(DOMAIN BytesOf(ps))
         /\ \A k \in DOMAIN BytesOf(ps): BytesOf(ps)[k] \in Nat \ {0}
<1>1. IsFiniteSet(ps)  BY PacketsFinite, FS_Subset
<1>2. IsFiniteSet({FlowOf[i]: i \in ps})
  <2> DEFINE f == [i \in ps |-> FlowOf[i]]
             all == {FlowOf[i]: i \in ps}
  <2>1. f \in Surjection(ps, all)  BY DEF Surjection
  <2> HIDE DEF f, all
  <2>2. QED  BY <1>1, <2>1, FS_Surjection DEF all
<1>3. ASSUME NEW k \in DOMAIN BytesOf(ps) PROVE BytesOf(ps)[k] \in Nat \ {0}
  <2> DEFINE all == OfFlow(ps, k)
  <2>1. PICK i \in ps: FlowOf[i] = k
    <3>1. DOMAIN BytesOf(ps) = {FlowOf[i]: i \in ps}  BY BytesAre
    <3>2. QED  BY <1>3, <3>1
  <2>2. i \in all /\ all \ {i} \in SUBSET (1 .. Len(trace)) /\ i \in 1 .. Len(trace)  BY <2>1 DEF OfFlow
  <2>3. i \notin all \ {i} /\ (all \ {i}) \cup {i} = all  BY <2>2
  <2> HIDE DEF all
  <2>4. SizeOf[i] \in Nat \ {0}  BY <2>2, PacketsFinite
  <2>5. Total(SizeOf, all) = SizeOf[i] + Total(SizeOf, all \ {i}) /\ Total(SizeOf, all \ {i}) \in Nat
    <3>1. /\ Total(SizeOf, (all \ {i}) \cup {i}) = SizeOf[i] + Total(SizeOf, all \ {i})
          /\ Total(SizeOf, all \ {i}) \in Nat
      BY <2>2, <2>3, OneMorePacket
    <3>2. QED  BY <2>3, <3>1
  <2>6. BytesOf(ps)[k] = Total(SizeOf, all)  BY BytesAre DEF all
  <2>7. QED  BY <2>4, <2>5, <2>6
<1>4. QED  BY <1>2, <1>3, BytesAre

\* What the table is once a packet has been recorded.
Recorded(tab, k, size) ==
    [j \in DOMAIN tab \cup {k} |->
        IF j = k THEN (IF k \in DOMAIN tab THEN tab[k] ELSE 0) + size ELSE tab[j]]

LEMMA BytesOfMore ==
  ASSUME Loaded, NEW ps \in SUBSET (1 .. Len(trace)), NEW i \in 1 .. Len(trace), i \notin ps
  PROVE  BytesOf(ps \cup {i}) = Recorded(BytesOf(ps), FlowOf[i], SizeOf[i])
<1> DEFINE k == FlowOf[i]
           old == BytesOf(ps)
           new == BytesOf(ps \cup {i})
           add == Recorded(old, k, SizeOf[i])
<1>1. DOMAIN new = DOMAIN old \cup {k}
  <2>1. DOMAIN old = {FlowOf[j]: j \in ps} /\ DOMAIN new = {FlowOf[j]: j \in ps \cup {i}}  BY BytesAre
  <2>2. QED  BY <2>1
<1>2. DOMAIN add = DOMAIN old \cup {k}  BY DEF Recorded
<1>3. ASSUME NEW j \in DOMAIN old \cup {k}, j # k PROVE new[j] = add[j]
  <2>1. OfFlow(ps \cup {i}, j) = OfFlow(ps, j)  BY <1>3 DEF OfFlow
  <2>2. new[j] = Total(SizeOf, OfFlow(ps \cup {i}, j)) /\ old[j] = Total(SizeOf, OfFlow(ps, j))
    BY <1>1, <1>3, BytesAre
  <2>3. add[j] = old[j]  BY <1>3 DEF Recorded
  <2>4. QED  BY <2>1, <2>2, <2>3
<1>4. new[k] = add[k]
  <2>1. OfFlow(ps \cup {i}, k) = OfFlow(ps, k) \cup {i} /\ i \notin OfFlow(ps, k)
        /\ OfFlow(ps, k) \in SUBSET (1 .. Len(trace))
    BY DEF OfFlow
  <2>2. Total(SizeOf, OfFlow(ps, k) \cup {i}) = SizeOf[i] + Total(SizeOf, OfFlow(ps, k))
        /\ Total(SizeOf, OfFlow(ps, k)) \in Nat
    BY <2>1, OneMorePacket
  <2>3. new[k] = Total(SizeOf, OfFlow(ps \cup {i}, k))  BY <1>1, BytesAre
  <2>4. (IF k \in DOMAIN old THEN old[k] ELSE 0) = Total(SizeOf, OfFlow(ps, k))
    <3>1. CASE k \in DOMAIN old  BY <3>1, BytesAre
    <3>2. CASE k \notin DOMAIN old
      <4>1. OfFlow(ps, k) = {}  BY <3>2, BytesAre DEF OfFlow
      <4>2. QED  BY <3>2, <4>1, TotalOfNone
    <3>3. QED  BY <3>1, <3>2
  <2>5. add[k] = (IF k \in DOMAIN old THEN old[k] ELSE 0) + SizeOf[i]  BY DEF Recorded
  <2>6. SizeOf[i] \in Nat  BY PacketsFinite
  <2>7. PICK n: n = Total(SizeOf, OfFlow(ps, k))  OBVIOUS
  <2>8. new[k] = SizeOf[i] + n /\ n \in Nat  BY <2>1, <2>2, <2>3, <2>7
  <2>9. add[k] = n + SizeOf[i]  BY <2>4, <2>5, <2>7
  <2> HIDE DEF new, add, k
  <2>10. QED  BY <2>6, <2>8, <2>9
<1>5. new = [j \in DOMAIN old \cup {k} |-> new[j]] /\ add = [j \in DOMAIN old \cup {k} |-> add[j]]
  <2>1. add = [j \in DOMAIN old \cup {k} |-> add[j]]  BY DEF Recorded
  <2>2. QED  BY <1>1, <2>1, BytesAre
<1> HIDE DEF new, add, old, k
<1>6. \A j \in DOMAIN old \cup {k}: new[j] = add[j]  BY <1>3, <1>4
<1>7. new = add  BY <1>5, <1>6
<1>8. QED  BY <1>7 DEF new, add, old, k

AllBytes(tab) == Total(tab, DOMAIN tab)

\* The bytes of all flows together.
LEMMA AllBytesOfMore ==
  ASSUME NEW tab, NEW k, NEW size \in Nat \ {0}, IsFiniteSet(DOMAIN tab),
         \A j \in DOMAIN tab: tab[j] \in Nat \ {0}
  PROVE  AllBytes(Recorded(tab, k, size)) = AllBytes(tab) + size
<1> DEFINE D == DOMAIN tab \cup {k}
           rest == DOMAIN tab \ {k}
           new == Recorded(tab, k, size)
           was == IF k \in DOMAIN tab THEN tab[k] ELSE 0
           \* tab with an entry for k in any case
           old == [j \in D |-> IF j \in DOMAIN tab THEN tab[j] ELSE 1]
<1>1. IsFiniteSet(D) /\ rest \in SUBSET D /\ k \in D /\ k \notin rest /\ rest \cup {k} = D
  BY FS_AddElement
<1>2. DOMAIN new = D /\ new[k] = was + size /\ \A j \in rest: new[j] = tab[j]  BY DEF Recorded
<1>3. \A j \in D: new[j] \in Nat \ {0}  BY <1>1, <1>2
<1>4. \A j \in D: old[j] \in Nat \ {0}  OBVIOUS
<1>5. IsFiniteSet(rest) /\ IsFiniteSet(DOMAIN tab)  BY <1>1, FS_Subset
<1>6. (\A j \in rest: new[j] = old[j]) /\ (\A j \in DOMAIN tab: tab[j] = old[j])  BY <1>2
<1> HIDE DEF D, rest, new, old
<1>7. Total(new, D) = new[k] + Total(new, rest)
  <2>1. Total(new, rest \cup {k}) = new[k] + Total(new, rest)  BY <1>1, <1>3, TotalAdd
  <2>2. QED  BY <1>1, <2>1
<1>8. Total(old, D) = old[k] + Total(old, rest) /\ Total(old, rest) \in Nat
  <2>1. /\ Total(old, rest \cup {k}) = old[k] + Total(old, rest)
        /\ Total(old, rest) \in Nat
    BY <1>1, <1>4, TotalAdd
  <2>2. QED  BY <1>1, <2>1
<1>9. Total(new, rest) = Total(old, rest)  BY <1>5, <1>6, TotalAgrees
<1>10. Total(tab, DOMAIN tab) = Total(old, DOMAIN tab)  BY <1>5, <1>6, TotalAgrees
<1>11. Total(tab, DOMAIN tab) = was + Total(old, rest)
  <2>1. CASE k \in DOMAIN tab
    <3>1. DOMAIN tab = D /\ old[k] = tab[k]  BY <2>1, <1>6 DEF D
    <3>2. QED  BY <1>8, <1>10, <2>1, <3>1
  <2>2. CASE k \notin DOMAIN tab
    <3>1. DOMAIN tab = rest  BY <2>2 DEF rest
    <3>2. QED  BY <1>8, <1>10, <2>2, <3>1
  <2>3. QED  BY <2>1, <2>2
<1>12. was \in Nat  OBVIOUS
<1> HIDE DEF was
<1>13. Total(new, D) = Total(tab, DOMAIN tab) + size  BY <1>2, <1>7, <1>8, <1>9, <1>11, <1>12
<1>14. QED  BY <1>2, <1>13 DEF AllBytes, new

LEMMA NoBytes == AllBytes(BytesOf({})) = 0
<1>1. DOMAIN BytesOf({}) = {}
  <2>1. DOMAIN BytesOf({}) = {FlowOf[i]: i \in {}}  BY BytesAre
  <2>2. QED  BY <2>1
<1>2. QED  BY <1>1, TotalOfNone DEF AllBytes

\* A table with keys has bytes.
LEMMA AllBytesType ==
  ASSUME NEW tab, IsFiniteSet(DOMAIN tab), \A j \in DOMAIN tab: tab[j] \in Nat \ {0}, DOMAIN tab # {}
  PROVE  AllBytes(tab) \in Nat \ {0}
<1> DEFINE D == DOMAIN tab
<1>1. PICK k \in D: TRUE  OBVIOUS
<1>2. D \ {k} \in SUBSET D /\ k \notin D \ {k} /\ (D \ {k}) \cup {k} = D  BY <1>1
<1>3. /\ Total(tab, (D \ {k}) \cup {k}) = tab[k] + Total(tab, D \ {k})
      /\ Total(tab, D \ {k}) \in Nat
  <2>1. Total(tab, (D \ {k}) \cup {k}) = tab[k] + Total(tab, D \ {k})  BY <1>2, TotalAdd
  <2>2. Total(tab, D \ {k}) \in Nat  BY <1>2, TotalAdd
  <2>3. QED  BY <2>1, <2>2
<1>4. tab[k] \in Nat \ {0}  OBVIOUS
<1>5. Total(tab, D) = tab[k] + Total(tab, D \ {k})  BY <1>2, <1>3
<1>6. QED  BY <1>3, <1>4, <1>5 DEF AllBytes

LEMMA RangeOfAppend ==
  ASSUME NEW s \in Seq(Nat), NEW n \in Nat
  PROVE  Range(Append(s, n)) = Range(s) \cup {n}
<1>1. /\ DOMAIN s = 1 .. Len(s) /\ DOMAIN Append(s, n) = 1 .. Len(s) + 1 /\ Len(s) \in Nat
      /\ Append(s, n)[Len(s) + 1] = n /\ \A j \in 1 .. Len(s): Append(s, n)[j] = s[j]
  OBVIOUS
<1>2. ASSUME NEW x \in Range(Append(s, n)) PROVE x \in Range(s) \cup {n}
  <2>1. PICK j \in 1 .. Len(s) + 1: x = Append(s, n)[j]  BY <1>1, <1>2 DEF Range
  <2>2. CASE j = Len(s) + 1  BY <1>1, <2>1, <2>2
  <2>3. CASE j # Len(s) + 1
    <3>1. j \in 1 .. Len(s)  BY <1>1, <2>3
    <3>2. QED  BY <1>1, <2>1, <3>1 DEF Range
  <2>4. QED  BY <2>2, <2>3
<1>3. ASSUME NEW x \in Range(s) \cup {n} PROVE x \in Range(Append(s, n))
  <2>1. CASE x = n
    <3>1. Len(s) + 1 \in 1 .. Len(s) + 1  BY <1>1
    <3>2. QED  BY <1>1, <2>1, <3>1 DEF Range
  <2>2. CASE x \in Range(s)
    <3>1. PICK j \in 1 .. Len(s): x = s[j]  BY <1>1, <2>2 DEF Range
    <3>2. j \in 1 .. Len(s) + 1 /\ x = Append(s, n)[j]  BY <1>1, <3>1
    <3>3. QED  BY <1>1, <3>2 DEF Range
  <2>3. QED  BY <1>3, <2>1, <2>2
<1>4. QED  BY <1>2, <1>3

\* The packets the sketch holds are as many as its entries.
LEMMA SketchPackets ==
  ASSUME ReplayInv
  PROVE  /\ Range(sketch) \in SUBSET (1 .. Len(trace))
         /\ Cardinality(Range(sketch)) = Len(sketch) /\ cnt + 1 \notin Range(sketch)
         /\ sketch \in Seq(Nat) /\ cnt \in Nat /\ Len(sketch) \in Nat
<1> DEFINE first == cnt - Len(sketch)
<1>1. /\ sketch \in Seq(Nat) /\ first \in Nat /\ Len(sketch) \in Nat
      /\ \A j \in 1 .. Len(sketch): sketch[j] = first + j
  BY DEF ReplayInv, SketchInv
<1>2. cnt \in Nat /\ cnt <= Len(trace) /\ Len(trace) \in Nat  BY SentType
<1>3. cnt = first + Len(sketch)  BY <1>1, <1>2
<1>4. DOMAIN sketch = 1 .. Len(sketch)  BY <1>1
<1> HIDE DEF first
<1>5. Range(sketch) = first + 1 .. cnt
  <2>1. ASSUME NEW x \in Range(sketch) PROVE x \in first + 1 .. cnt
    <3>1. PICK j \in 1 .. Len(sketch): x = sketch[j]  BY <1>4, <2>1 DEF Range
    <3>2. x = first + j /\ j \in Nat /\ 1 <= j /\ j <= Len(sketch)  BY <1>1, <3>1
    <3>3. QED  BY <1>1, <1>2, <1>3, <3>2
  <2>2. ASSUME NEW x \in first + 1 .. cnt PROVE x \in Range(sketch)
    <3>1. x - first \in 1 .. Len(sketch) /\ first + (x - first) = x  BY <1>1, <1>2, <1>3, <2>2
    <3>2. x = sketch[x - first]  BY <1>1, <3>1
    <3>3. QED  BY <1>4, <3>1, <3>2 DEF Range
  <2>3. QED  BY <2>1, <2>2
<1>6. Cardinality(first + 1 .. cnt) = IF first + 1 > cnt THEN 0 ELSE cnt - (first + 1) + 1
  BY <1>1, <1>2, FS_Interval
<1>7. Cardinality(Range(sketch)) = Len(sketch)  BY <1>1, <1>2, <1>3, <1>5, <1>6
<1>8. Range(sketch) \in SUBSET (1 .. Len(trace)) /\ cnt + 1 \notin Range(sketch)
  BY <1>1, <1>2, <1>5
<1>9. QED  BY <1>1, <1>2, <1>7, <1>8

-----------------------------------------------------------------------------
(* The least and the largest interval *)

\* What is counted of interval k.
MeasureOf(k) ==
    [pkt |-> Cardinality(PacketsOf(k)), flow |-> Cardinality(DOMAIN BytesOf(PacketsOf(k))),
     byte |-> AllBytes(BytesOf(PacketsOf(k)))]

\* lo and hi are the least and the largest of the first n of counts mu, which
\* are not 0; they are 0 when n is.
Bounds(mu, n, lo, hi) ==
    /\ n = 0 => lo = 0 /\ hi = 0
    /\ n > 0 => /\ \E k \in 1 .. n: lo = mu[k]
                /\ \E k \in 1 .. n: hi = mu[k]
    /\ \A k \in 1 .. n: mu[k] \in Nat \ {0} /\ lo <= mu[k] /\ mu[k] <= hi

LEMMA BoundsOfMore ==
  ASSUME NEW mu, NEW n \in Nat, NEW lo, NEW hi, Bounds(mu, n, lo, hi), mu[n + 1] \in Nat \ {0}
  PROVE  Bounds(mu, n + 1, Less(lo, mu[n + 1]), IF mu[n + 1] > hi THEN mu[n + 1] ELSE hi)
<1> DEFINE m == mu[n + 1]
           l == Less(lo, m)
           h == IF m > hi THEN m ELSE hi
<1>1. 1 .. n + 1 = (1 .. n) \cup {n + 1} /\ n + 1 \in 1 .. n + 1  OBVIOUS
<1>2. m \in Nat \ {0}  OBVIOUS
<1>3. CASE n = 0
  <2>1. lo = 0 /\ hi = 0  BY <1>3 DEF Bounds
  <2>2. l = m /\ h = m  BY <1>2, <2>1 DEF Less
  <2> HIDE DEF l, h
  <2>3. 1 .. n + 1 = {1} /\ n + 1 = 1  BY <1>3
  <2>4. Bounds(mu, n + 1, l, h)  BY <1>2, <2>2, <2>3 DEF Bounds
  <2>5. QED  BY <2>4 DEF l, h
<1>4. CASE n # 0
  <2>1. \A k \in 1 .. n: mu[k] \in Nat \ {0} /\ lo <= mu[k] /\ mu[k] <= hi  BY DEF Bounds
  <2>2. PICK a \in 1 .. n: lo = mu[a]  BY <1>4 DEF Bounds
  <2>3. PICK b \in 1 .. n: hi = mu[b]  BY <1>4 DEF Bounds
  <2>4. lo \in Nat \ {0} /\ hi \in Nat \ {0}  BY <2>1, <2>2, <2>3
  <2>5. /\ l \in {lo, m} /\ l <= lo /\ l <= m /\ h \in {hi, m} /\ hi <= h /\ m <= h
        /\ l \in Nat /\ h \in Nat
    BY <1>2, <2>4 DEF Less
  <2> HIDE DEF l, h
  <2>6. \E k \in 1 .. n + 1: l = mu[k]  BY <1>1, <2>2, <2>5
  <2>7. \E k \in 1 .. n + 1: h = mu[k]  BY <1>1, <2>3, <2>5
  <2>8. \A k \in 1 .. n + 1: mu[k] \in Nat \ {0} /\ l <= mu[k] /\ mu[k] <= h
    <3>1. TAKE k \in 1 .. n + 1
    <3>2. CASE k = n + 1  BY <1>2, <2>5, <3>2
    <3>3. CASE k \in 1 .. n  BY <2>1, <2>4, <2>5, <3>3
    <3>4. QED  BY <1>1, <3>2, <3>3
  <2>9. Bounds(mu, n + 1, l, h)  BY <2>6, <2>7, <2>8 DEF Bounds
  <2>10. QED  BY <2>9 DEF l, h
<1>5. QED  BY <1>3, <1>4

LEMMA BoundsAreExtremes ==
  ASSUME NEW mu, NEW n \in Nat \ {0}, NEW lo, NEW hi, Bounds(mu, n, lo, hi)
  PROVE  LET counts == {mu[k]: k \in 1 .. n} IN lo = Min(counts) /\ hi = Max(counts)
<1> DEFINE counts == {mu[k]: k \in 1 .. n}
<1>1. lo \in counts /\ hi \in counts
      /\ \A x \in counts: x \in Nat /\ lo <= x /\ x <= hi
  BY DEF Bounds
<1> HIDE DEF counts
<1>2. lo = Min(counts)
  <2>1. Min(counts) \in counts /\ \A y \in counts: Min(counts) <= y  BY <1>1 DEF Min
  <2>2. QED  BY <1>1, <2>1
<1>3. hi = Max(counts)
  <2>1. hi >= hi /\ \A y \in counts: hi >= y  BY <1>1
  <2>2. Max(counts) \in counts /\ \A y \in counts: Max(counts) >= y  BY <1>1, <2>1 DEF Max
  <2>3. QED  BY <1>1, <2>2
<1>4. QED  BY <1>2, <1>3 DEF counts

\* There are packets in an interval that ends, so nothing counted of it is 0.
LEMMA MeasureType ==
  ASSUME Loaded, NEW k, PacketsOf(k) # {}
  PROVE  \A m \in Measures: MeasureOf(k)[m] \in Nat \ {0}
<1> DEFINE ps == PacketsOf(k)
           tab == BytesOf(ps)
<1>1. ps \in SUBSET (1 .. Len(trace))  BY DEF PacketsOf
<1>2. ps # {}  OBVIOUS
<1> HIDE DEF ps
<1>3. IsFiniteSet(ps)  BY <1>1, PacketsFinite, FS_Subset
<1>4. Cardinality(ps) \in Nat \ {0}  BY <1>2, <1>3, FS_CardinalityType, FS_EmptySet
<1>5. IsFiniteSet(DOMAIN tab) /\ \A j \in DOMAIN tab: tab[j] \in Nat \ {0}  BY <1>1, BytesType
<1>6. DOMAIN tab # {}
  <2>1. DOMAIN tab = {FlowOf[i]: i \in ps}  BY BytesAre
  <2>2. QED  BY <1>2, <2>1
<1> HIDE DEF tab
<1>7. Cardinality(DOMAIN tab) \in Nat \ {0}  BY <1>5, <1>6, FS_CardinalityType, FS_EmptySet
<1>8. AllBytes(tab) \in Nat \ {0}  BY <1>5, <1>6, AllBytesType
<1>9. MeasureOf(k) = [pkt |-> Cardinality(ps), flow |-> Cardinality(DOMAIN tab), byte |-> AllBytes(tab)]
  BY DEF MeasureOf, tab, ps
<1>10. QED  BY <1>4, <1>7, <1>8, <1>9 DEF Measures

-----------------------------------------------------------------------------
(* The invariant of the recorder of true flows *)

\* The table is of the packets the sketch would hold, and so are the counts.
TableInv ==
    kpc # "exit" =>
        /\ table = BytesOf(Range(sketch))
        /\ count.pkt = Len(sketch) /\ count.byte = AllBytes(table)

\* There is a file of true flows for every file of sketches, and it is right.
TrueFilesInv ==
    /\ DOMAIN trueFiles = 1 .. Len(files)
    /\ \A k \in 1 .. Len(files): trueFiles[k] = BytesOf(PacketsOf(k))

\* The counts of measure m, by interval.
Counts(m) == [k \in Nat |-> MeasureOf(k)[m]]

ExtremesInv ==
    \A m \in Measures: Bounds(Counts(m), cur_interval, least[m], largest[m])

FlowsInv == ReplayInv /\ TableInv /\ TrueFilesInv /\ ExtremesInv

LEMMA FlowsStepReplay ==
  ASSUME [NextFlows]_allVars
  PROVE  [NextReplay]_replayVars
  BY DEF NextFlows, MainSteps, WorkerSteps, WorkerWaits, RecordFlow, EndFlows, FinishFlows,
         NextReplay, Worker, allVars

LEMMA MeasuresStay ==
  ASSUME ReplayTuples, [NextReplay]_replayVars
  PROVE  /\ \A k: PacketsOf(k)' = PacketsOf(k)
         /\ \A k: MeasureOf(k)' = MeasureOf(k)
         /\ \A m: Counts(m)' = Counts(m)
<1>1. \A k: PacketsOf(k)' = PacketsOf(k)  BY TraceStays
<1>2. \A k: MeasureOf(k)' = MeasureOf(k)  BY <1>1 DEF MeasureOf, BytesOf
<1>3. \A m: Counts(m)' = Counts(m)  BY <1>2 DEF Counts
<1>4. QED  BY <1>1, <1>2, <1>3

\* Printing appends a file, which is the table.
LEMMA TrueFileAdded ==
  ASSUME FlowsInv, ReplayTuples, [NextReplay]_replayVars, kpc = "handle", PrintSketch, PrintTable,
         IsFile(sketch, cur_interval + 1)
  PROVE  TrueFilesInv'
<1>1. /\ files \in Seq(Seq(Nat)) /\ Len(files) = cur_interval /\ cur_interval \in Nat
      /\ sketch \in Seq(Nat)
  BY DEF FlowsInv, ReplayInv, FilesInv, Intervals, SketchInv
<1>2. Len(files') = cur_interval + 1  BY <1>1, PrintAppends
<1>3. PICK n: n = cur_interval + 1  OBVIOUS
<1>4. /\ trueFiles' = [j \in 1 .. n |-> IF j = n THEN table ELSE trueFiles[j]]
      /\ n \in Nat \ {0} /\ Len(files') = n
  BY <1>1, <1>2, <1>3 DEF PrintTable
<1>5. table = BytesOf(PacketsOf(n))  BY <1>3 DEF FlowsInv, TableInv, IsFile
<1>6. ASSUME NEW k \in 1 .. n PROVE trueFiles'[k] = BytesOf(PacketsOf(k))
  <2>1. CASE k = n  BY <1>4, <1>5, <2>1
  <2>2. CASE k # n
    <3>1. k \in 1 .. Len(files)  BY <1>1, <1>3, <2>2
    <3>2. trueFiles[k] = BytesOf(PacketsOf(k))  BY <3>1 DEF FlowsInv, TrueFilesInv
    <3>3. QED  BY <1>4, <2>2, <3>2
  <2>3. QED  BY <2>1, <2>2
<1>7. DOMAIN trueFiles' = 1 .. n  BY <1>4
<1>8. \A k: PacketsOf(k)' = PacketsOf(k)  BY TraceStays
<1>9. PICK tf: tf = trueFiles'  OBVIOUS
<1>10. \A k \in 1 .. n: (tf[k] = BytesOf(PacketsOf(k)))'  BY <1>6, <1>8, <1>9 DEF BytesOf
<1>11. QED  BY <1>4, <1>7, <1>9, <1>10 DEF TrueFilesInv

\* What the worker compares at the end of an interval are its counts.
LEMMA NowIsMeasured ==
  ASSUME FlowsInv, kpc = "handle", IsFile(sketch, cur_interval + 1)
  PROVE  [pkt |-> count.pkt, byte |-> count.byte, flow |-> Cardinality(DOMAIN table)]
             = MeasureOf(cur_interval + 1)
<1>1. table = BytesOf(Range(sketch)) /\ count.pkt = Len(sketch) /\ count.byte = AllBytes(table)
  BY DEF FlowsInv, TableInv
<1>2. Range(sketch) = PacketsOf(cur_interval + 1)  BY DEF IsFile
<1>3. Cardinality(Range(sketch)) = Len(sketch)  BY SketchPackets DEF FlowsInv
<1>4. QED  BY <1>1, <1>2, <1>3 DEF MeasureOf

\* The steps that leave the table and the files alone.
LEMMA FlowsStay ==
  ASSUME FlowsInv, ReplayTuples, [NextReplay]_replayVars, UNCHANGED flowVars,
         UNCHANGED <<sketch, files, cur_interval>>, kpc' = "exit" <=> kpc = "exit"
  PROVE  TableInv' /\ TrueFilesInv' /\ ExtremesInv'
<1>1. UNCHANGED <<table, count, least, largest, trueFiles>>  BY DEF flowVars
<1>2. TableInv'  BY <1>1 DEF FlowsInv, TableInv, BytesOf, AllBytes
<1>3. TrueFilesInv'
  <2>1. \A k: BytesOf(PacketsOf(k))' = BytesOf(PacketsOf(k))  BY TraceStays DEF BytesOf
  <2>2. QED  BY <1>1, <2>1 DEF FlowsInv, TrueFilesInv
<1>4. ExtremesInv'  BY <1>1, MeasuresStay DEF FlowsInv, ExtremesInv, Bounds
<1>5. QED  BY <1>2, <1>3, <1>4

LEMMA RecordKeepsTable ==
  ASSUME FlowsInv, ReplayTuples, RecordFlow
  PROVE  TableInv'
<1>1. /\ RecordPacket /\ kpc = "handle" /\ out.flag = "NORMAL" /\ sketch' = Append(sketch, out.pkt)
  BY DEF RecordFlow, RecordPacket
<1>2. UNCHANGED <<Contents, out>>  BY <1>1, ElsewhereKeeps DEF Elsewhere
<1>3. out = Packet(cnt + 1) /\ cnt + 1 <= Sent  BY <1>1, <1>2, HandlesPacket DEF FlowsInv
<1>4. PICK i: i = cnt + 1  OBVIOUS
<1>5. PICK ps: ps = Range(sketch)  OBVIOUS
<1>6. /\ ps \in SUBSET (1 .. Len(trace)) /\ i \notin ps /\ i \in 1 .. Len(trace) /\ i \in Nat
      /\ sketch \in Seq(Nat) /\ Len(sketch) \in Nat
  BY <1>3, <1>4, <1>5, SketchPackets, SentType DEF FlowsInv
<1>7. out.pkt = i  BY <1>3, <1>4 DEF Packet
<1>8. Loaded  BY DEF FlowsInv, ReplayInv
<1>9. Range(sketch') = ps \cup {i} /\ Len(sketch') = Len(sketch) + 1
  <2>1. sketch' = Append(sketch, i)  BY <1>1, <1>7
  <2>2. QED  BY <1>5, <1>6, <2>1, RangeOfAppend
<1>10. /\ table = BytesOf(ps) /\ count.pkt = Len(sketch) /\ count.byte = AllBytes(BytesOf(ps))
  BY <1>1, <1>5 DEF FlowsInv, TableInv
<1>11. /\ table' = Recorded(table, FlowOf[i], SizeOf[i])
       /\ count' = [pkt |-> count.pkt + 1, byte |-> count.byte + SizeOf[i]]
  BY <1>7 DEF RecordFlow, Recorded
<1>12. table' = BytesOf(ps \cup {i})  BY <1>6, <1>8, <1>10, <1>11, BytesOfMore
<1>13. AllBytes(table') = AllBytes(BytesOf(ps)) + SizeOf[i]
  <2>1. SizeOf[i] \in Nat \ {0}  BY <1>6, <1>8, PacketsFinite
  <2>2. IsFiniteSet(DOMAIN BytesOf(ps)) /\ \A j \in DOMAIN BytesOf(ps): BytesOf(ps)[j] \in Nat \ {0}
    BY <1>6, <1>8, BytesType
  <2>3. AllBytes(Recorded(BytesOf(ps), FlowOf[i], SizeOf[i])) = AllBytes(BytesOf(ps)) + SizeOf[i]
    BY <2>1, <2>2, AllBytesOfMore
  <2>4. QED  BY <1>10, <1>11, <2>3
<1>14. count'.pkt = Len(sketch') /\ count'.byte = AllBytes(table')
  BY <1>9, <1>10, <1>11, <1>13
<1>15. table' = BytesOf(Range(sketch'))  BY <1>9, <1>12
<1>16. QED  BY <1>14, <1>15 DEF TableInv, BytesOf, AllBytes

LEMMA RecordKeepsFlows ==
  ASSUME FlowsInv, ReplayTuples, RecordFlow
  PROVE  TableInv' /\ TrueFilesInv' /\ ExtremesInv'
<1>1. [NextReplay]_replayVars  BY DEF RecordFlow, NextReplay, Worker
<1>2. UNCHANGED <<least, largest, trueFiles, files, cur_interval>>  BY DEF RecordFlow, RecordPacket
<1>3. TrueFilesInv'
  <2>1. \A k: BytesOf(PacketsOf(k))' = BytesOf(PacketsOf(k))  BY <1>1, TraceStays DEF BytesOf
  <2>2. QED  BY <1>2, <2>1 DEF FlowsInv, TrueFilesInv
<1>4. ExtremesInv'  BY <1>1, <1>2, MeasuresStay DEF FlowsInv, ExtremesInv, Bounds
<1>5. QED  BY <1>3, <1>4, RecordKeepsTable

LEMMA EndKeepsFlows ==
  ASSUME FlowsInv, ReplayTuples, EndFlows
  PROVE  TableInv' /\ TrueFilesInv' /\ ExtremesInv'
<1>1. [NextReplay]_replayVars  BY DEF EndFlows, NextReplay, Worker
<1>2. /\ EndInterval /\ kpc = "handle" /\ out.flag = "PUNC" /\ PrintSketch /\ PrintTable
      /\ cur_interval' = cur_interval + 1 /\ sketch' = <<>>
      /\ table' = <<>> /\ count' = [pkt |-> 0, byte |-> 0]
  BY DEF EndFlows, EndInterval
<1>3. UNCHANGED <<Contents, out>>  BY <1>2, ElsewhereKeeps DEF Elsewhere
<1>4. IsFile(sketch, cur_interval + 1) /\ PacketsOf(cur_interval + 1) # {}
  BY <1>2, <1>3, PuncEndsFile DEF FlowsInv
<1>5. TableInv'
  <2>1. Range(sketch') = {} /\ Len(sketch') = 0  BY <1>2 DEF Range
  <2>2. table' = BytesOf(Range(sketch'))  BY <1>2, <2>1, BytesOfNone
  <2>3. AllBytes(table') = 0
    <3>1. table' = BytesOf({})  BY <1>2, BytesOfNone
    <3>2. QED  BY <3>1, NoBytes
  <2>4. count'.pkt = Len(sketch') /\ count'.byte = AllBytes(table')  BY <1>2, <2>1, <2>3
  <2>5. QED  BY <2>2, <2>4 DEF TableInv, BytesOf, AllBytes
<1>6. TrueFilesInv'  BY <1>1, <1>2, <1>4, TrueFileAdded
<1>7. ExtremesInv'
  <2>1. PICK n: n = cur_interval  OBVIOUS
  <2>2. n \in Nat /\ cur_interval' = n + 1  BY <1>2, <2>1, SentType DEF FlowsInv
  <2>3. PICK now: now = MeasureOf(n + 1)  OBVIOUS
  <2>4. [pkt |-> count.pkt, byte |-> count.byte, flow |-> Cardinality(DOMAIN table)] = now
    BY <1>2, <1>4, <2>1, <2>3, NowIsMeasured
  <2>5. /\ least' = [m \in Measures |-> Less(least[m], now[m])]
        /\ largest' = [m \in Measures |-> IF now[m] > largest[m] THEN now[m] ELSE largest[m]]
    BY <2>4 DEF EndFlows
  <2>6. \A m \in Measures: now[m] \in Nat \ {0}
    BY <1>4, <2>1, <2>3, MeasureType DEF FlowsInv, ReplayInv
  <2>7. ASSUME NEW m \in Measures
        PROVE  Bounds(Counts(m), n + 1, least'[m], largest'[m])
    <3>1. PICK mu: mu = Counts(m)  OBVIOUS
    <3>2. mu[n + 1] = now[m]  BY <2>2, <2>3, <3>1 DEF Counts
    <3>3. Bounds(mu, n, least[m], largest[m])  BY <2>1, <3>1 DEF FlowsInv, ExtremesInv
    <3>4. Bounds(mu, n + 1, Less(least[m], mu[n + 1]),
                 IF mu[n + 1] > largest[m] THEN mu[n + 1] ELSE largest[m])
      BY <2>2, <2>6, <3>2, <3>3, BoundsOfMore
    <3>5. QED  BY <2>5, <3>1, <3>2, <3>4
  <2>8. PICK lo: lo = least'  OBVIOUS
  <2>9. PICK hi: hi = largest'  OBVIOUS
  <2>10. \A m \in Measures: Bounds(Counts(m), n + 1, lo[m], hi[m])'
    BY <1>1, <2>7, <2>8, <2>9, MeasuresStay DEF Bounds
  <2>11. QED  BY <2>2, <2>8, <2>9, <2>10 DEF ExtremesInv
<1>8. QED  BY <1>5, <1>6, <1>7

LEMMA FinishKeepsFlows ==
  ASSUME FlowsInv, ReplayTuples, FinishFlows
  PROVE  TableInv' /\ TrueFilesInv' /\ ExtremesInv'
<1>1. [NextReplay]_replayVars  BY DEF FinishFlows, NextReplay, Worker
<1>2. /\ Finish /\ kpc = "handle" /\ out.flag = "TERM" /\ PrintSketch /\ PrintTable
      /\ kpc' = "exit" /\ UNCHANGED <<cur_interval, least, largest>>
  BY DEF FinishFlows, Finish
<1>3. UNCHANGED <<Contents, out>>  BY <1>2, ElsewhereKeeps DEF Elsewhere
<1>4. IsFile(sketch, cur_interval + 1)  BY <1>2, <1>3, TermEndsFile DEF FlowsInv
<1>5. TableInv'  BY <1>2 DEF TableInv
<1>6. TrueFilesInv'  BY <1>1, <1>2, <1>4, TrueFileAdded
<1>7. ExtremesInv'  BY <1>1, <1>2, MeasuresStay DEF FlowsInv, ExtremesInv, Bounds
<1>8. QED  BY <1>5, <1>6, <1>7

LEMMA FlowsStep ==
  ASSUME ReplayTuples, FlowsInv, [NextFlows]_allVars
  PROVE  FlowsInv'
<1>1. [NextReplay]_replayVars  BY FlowsStepReplay
<1>2. ReplayInv'  BY <1>1, ReplayStep DEF FlowsInv
<1>3. CASE MainSteps \/ WorkerWaits \/ UNCHANGED allVars
  <2>1. /\ UNCHANGED flowVars /\ UNCHANGED <<sketch, files, cur_interval>>
        /\ kpc' = "exit" <=> kpc = "exit"
    <3>1. CASE MainSteps
      <4>1. UNCHANGED workerVars /\ UNCHANGED flowVars
        BY <3>1 DEF MainSteps, Main, AwaitWorker, NextPacket, TraceEnds, MainWrites, MainFlushes,
                    AwaitPunc, Join
      <4>2. QED  BY <4>1 DEF workerVars
    <3>2. CASE WorkerWaits
      <4>1. UNCHANGED flowVars /\ (WorkerReady \/ WorkerReads)  BY <3>2 DEF WorkerWaits
      <4>2. CASE WorkerReady  BY <4>1, <4>2 DEF WorkerReady
      <4>3. CASE WorkerReads
        <5>1. kpc = "read" /\ kpc' \in {"read", "handle"} /\ UNCHANGED <<sketch, files, cur_interval>>
          BY <4>3, WorkerReadsIs
        <5>2. QED  BY <4>1, <5>1
      <4>4. QED  BY <4>1, <4>2, <4>3
    <3>3. CASE UNCHANGED allVars  BY <3>3 DEF allVars, replayVars, workerVars
    <3>4. QED  BY <1>3, <3>1, <3>2, <3>3
  <2>2. QED  BY <1>1, <1>2, <2>1, FlowsStay DEF FlowsInv
<1>4. CASE RecordFlow  BY <1>2, <1>4, RecordKeepsFlows DEF FlowsInv
<1>5. CASE EndFlows  BY <1>2, <1>5, EndKeepsFlows DEF FlowsInv
<1>6. CASE FinishFlows  BY <1>2, <1>6, FinishKeepsFlows DEF FlowsInv
<1>7. QED  BY <1>3, <1>4, <1>5, <1>6 DEF NextFlows, WorkerSteps

LEMMA FlowsInit ==
  ASSUME ReplayTuples, InitFlows
  PROVE  FlowsInv
<1>1. /\ InitReplay /\ table = <<>> /\ count = [pkt |-> 0, byte |-> 0]
      /\ least = [m \in Measures |-> 0] /\ largest = [m \in Measures |-> 0] /\ trueFiles = <<>>
  BY DEF InitFlows
<1>2. sketch = <<>> /\ files = <<>> /\ cur_interval = 0  BY <1>1 DEF InitReplay
<1>3. ReplayInv  BY <1>1, ReplayInit
<1>4. TableInv
  <2>1. Range(sketch) = {} /\ Len(sketch) = 0  BY <1>2 DEF Range
  <2>2. table = BytesOf({})  BY <1>1, BytesOfNone
  <2>3. AllBytes(table) = 0  BY <2>2, NoBytes
  <2>4. QED  BY <1>1, <2>1, <2>2, <2>3 DEF TableInv
<1>5. TrueFilesInv  BY <1>1, <1>2 DEF TrueFilesInv
<1>6. ExtremesInv  BY <1>1, <1>2 DEF ExtremesInv, Bounds
<1>7. QED  BY <1>3, <1>4, <1>5, <1>6 DEF FlowsInv

LEMMA FlowsInvariant ==
  ASSUME ReplayTuples
  PROVE  SpecFlows => []FlowsInv
<1>1. InitFlows => FlowsInv  BY FlowsInit
<1>2. FlowsInv /\ [NextFlows]_allVars => FlowsInv'  BY FlowsStep
<1>3. QED  BY <1>1, <1>2, PTL DEF SpecFlows

\* true_flows.c does all that dp_simulate.c does, and so keeps what is shown of
\* it: its sketch and files are those the intervals of the trace ask for.
THEOREM TrueFlowsReplay ==
  SpecFlows => SpecReplay
<1>1. InitFlows => InitReplay  BY DEF InitFlows
<1>2. [NextFlows]_allVars => [NextReplay]_replayVars  BY FlowsStepReplay
<1>3. QED  BY <1>1, <1>2, PTL DEF SpecFlows, SpecReplay

\* Every file of true flows lists the keys of its interval's packets with all
\* their bytes, for every trace, sizes and keys and every interleaving of main
\* and the worker (true_flows.c:103-144).
THEOREM TrueFilesHold ==
  ASSUME ReplayTuples
  PROVE  SpecFlows => []TrueFilesAreIntervals
<1>1. SpecFlows => []FlowsInv  BY FlowsInvariant
<1>2. FlowsInv => TrueFilesAreIntervals  BY DEF FlowsInv, TrueFilesInv, TrueFilesAreIntervals
<1>3. QED  BY <1>1, <1>2, PTL

\* The least and the largest counts are those of the intervals that have ended
\* (true_flows.c:112-131).  0 is no count of such an interval: its mark was
\* sent behind a packet.
THEOREM ExtremesHold ==
  ASSUME ReplayTuples
  PROVE  SpecFlows => []ExtremesAreOfIntervals
<1>1. SpecFlows => []FlowsInv  BY FlowsInvariant
<1>2. FlowsInv => ExtremesAreOfIntervals
  <2> SUFFICES ASSUME FlowsInv, cur_interval > 0, NEW m \in Measures
               PROVE  LET counts == {MeasureOf(k)[m]: k \in 1 .. cur_interval} IN
                      least[m] = Min(counts) /\ largest[m] = Max(counts)
    BY DEF ExtremesAreOfIntervals, MeasureOf, AllBytes
  <2>1. PICK n: n = cur_interval  OBVIOUS
  <2>2. n \in Nat \ {0}  BY <2>1, SentType DEF FlowsInv
  <2>3. PICK mu: mu = Counts(m)  OBVIOUS
  <2>4. Bounds(mu, n, least[m], largest[m])  BY <2>1, <2>3 DEF FlowsInv, ExtremesInv
  <2>5. \A k \in 1 .. n: mu[k] = MeasureOf(k)[m]  BY <2>2, <2>3 DEF Counts
  <2>6. {mu[k]: k \in 1 .. n} = {MeasureOf(k)[m]: k \in 1 .. n}  BY <2>5
  <2>7. PICK lo: lo = least[m]  OBVIOUS
  <2>8. PICK hi: hi = largest[m]  OBVIOUS
  <2>9. Bounds(mu, n, lo, hi)  BY <2>4, <2>7, <2>8
  <2>10. PICK counts: counts = {mu[k]: k \in 1 .. n}  OBVIOUS
  <2>11. lo = Min(counts) /\ hi = Max(counts)  BY <2>2, <2>9, <2>10, BoundsAreExtremes
  <2>12. counts = {MeasureOf(k)[m]: k \in 1 .. cur_interval}  BY <2>1, <2>6, <2>10
  <2>13. QED  BY <2>7, <2>8, <2>11, <2>12
<1>3. QED  BY <1>1, <1>2, PTL

-----------------------------------------------------------------------------
(* The hook in the kernel *)

\* Where the hook may be in its calls to the ring.
HookWrites ==
    /\ hpc \in {"idle", "record", "tail", "stop", "term", "flush"}
    /\ hpc \in {"record", "term"} => wpc \in {"idle", "reload", "copy", "publish"}
    /\ hpc = "flush" => wpc \in {"idle", "flush_load", "flush_store"}
    /\ hpc \in {"idle", "tail", "stop"} => wpc = "idle"
    /\ wpc \in {"reload", "copy"} => item = tuple
    /\ tuple \in Tuple
    /\ hpc = "record" => tuple.kind = "packet"
    /\ hpc = "term" => tuple.kind = "term"

\* A command to stop is taken once.  One that the hook has seen may be given
\* again, or be followed by a start, before the hook takes it.
Commands ==
    /\ starts \in 0 .. MaxStarts /\ stops \in Nat /\ terms \in Nat
    /\ terms + (IF hpc \in {"stop", "term"} \/ start_measurement = "TAIL" THEN 1 ELSE 0) <= stops
    /\ hpc = "term" /\ start_measurement = "TAIL" => terms + 2 <= stops

\* v is a TUPLE_TERM behind which a packet may only be of a later measurement.
Ended(v) == v.run <= starts /\ (start_measurement = "START" => v.run < starts)

TermsEnded(q) ==
    \A j \in 1 .. Len(q): q[j].kind = "term" =>
        Ended(q[j]) /\ (hpc = "record" => q[j].run < tuple.run)

Ordered(q) ==
    \A j, k \in 1 .. Len(q):
        j < k /\ q[j].kind = "term" /\ q[k].kind = "packet" => q[k].run > q[j].run

HookOrder ==
    /\ TermsEnded(Contents)
    /\ Ordered(Contents)
    /\ hpc = "term" => Ended(tuple)

\* The last tuple of q, or the one taken last if q is empty, is a TUPLE_TERM.
EndsWithTerm(q, taken) == IF q = <<>> THEN taken.kind = "term" ELSE q[Len(q)].kind = "term"

\* From its memcpy to the end of the flush.
TermWritten == hpc = "flush" \/ (hpc = "term" /\ wpc = "publish")

TermBehind ==
    /\ TermWritten => EndsWithTerm(Contents, out)
    /\ wpc \in {"flush_load", "flush_store"} => writeIndex = nextWriteIndex

HookInv == IndInv /\ HookWrites /\ Commands /\ HookOrder /\ TermBehind

\* The steps of the hook in its calls of write_ringbuffer, the last of which
\* brings it to pc.
HookWriting(pc) ==
    \/ (WriteBegin(tuple) \/ WriteReload) /\ hpc' = hpc
    \/ (WriteStore \/ WritePublish) /\ hpc' = IF wpc' = "idle" THEN pc ELSE hpc

LEMMA OfferPacketIs ==
  ASSUME OfferPacket
  PROVE  /\ hpc = "record" /\ (HookWriting("idle") \/ (WriteFails /\ hpc' = "idle"))
         /\ UNCHANGED <<start_measurement, tuple, terms, starts, stops>>
  BY DEF OfferPacket, userVars, HookWriting

LEMMA WriteTermIs ==
  ASSUME WriteTerm
  PROVE  /\ hpc = "term" /\ (HookWriting("flush") \/ (WriteFails /\ hpc' = "term"))
         /\ \/ hpc' = "flush" /\ terms' = terms + 1
            \/ hpc' = "term" /\ terms' = terms
         /\ UNCHANGED <<start_measurement, tuple, starts, stops>>
  BY DEF WriteTerm, userVars, HookWriting

LEMMA FlushTermIs ==
  ASSUME FlushTerm
  PROVE  /\ hpc = "flush"
         /\ \/ (FlushPublish \/ FlushLoad) /\ hpc' = hpc
            \/ FlushStore /\ hpc' = "idle"
         /\ UNCHANGED <<start_measurement, tuple, terms, starts, stops>>
  BY DEF FlushTerm, userVars

LEMMA UserReadsIs ==
  ASSUME UserReads
  PROVE  Reader /\ UNCHANGED <<start_measurement, hpc, tuple, terms, starts, stops>>
  BY DEF UserReads

\* The other steps leave the ring alone.
HookElsewhere ==
    (\E isIp \in BOOLEAN: PacketComes(isIp)) \/ TestTail \/ SetStop \/ Start \/ Stop
    \/ UNCHANGED kernelVars

LEMMA HookElsewhereKeeps ==
  ASSUME HookElsewhere
  PROVE  UNCHANGED <<vars, Contents>> /\ UNCHANGED <<wpc, item>>
<1>1. UNCHANGED <<readIndex, writeIndex, localWriteIndex, nextReadIndex, rBatchCount,
                  localReadIndex, nextWriteIndex, wBatchCount, data, wpc, item, loaded, rpc, out>>
  BY DEF HookElsewhere, PacketComes, TestTail, SetStop, Start, Stop, kernelVars, vars, writerVars, readerVars
<1>2. UNCHANGED Contents  BY <1>1, ContentsUnchanged
<1>3. QED  BY <1>1, <1>2 DEF vars, writerVars, readerVars

LEMMA HookSplits ==
  ASSUME [NextKernel]_kernelVars
  PROVE  OfferPacket \/ WriteTerm \/ FlushTerm \/ UserReads \/ HookElsewhere
  BY DEF NextKernel, Hook, HookElsewhere

LEMMA HookStepsRing ==
  ASSUME KernelTuples, tuple \in Tuple, [NextKernel]_kernelVars
  PROVE  [Next]_vars
<1>1. CASE OfferPacket  BY <1>1, OfferPacketIs DEF HookWriting, Next, Writer
<1>2. CASE WriteTerm  BY <1>2, WriteTermIs DEF HookWriting, Next, Writer
<1>3. CASE FlushTerm  BY <1>3, FlushTermIs DEF Next, Writer
<1>4. CASE UserReads  BY <1>4, UserReadsIs DEF Next
<1>5. CASE HookElsewhere  BY <1>5, HookElsewhereKeeps
<1>6. QED  BY <1>1, <1>2, <1>3, <1>4, <1>5, HookSplits

LEMMA HookWritesStep ==
  ASSUME HookInv, KernelTuples, [NextKernel]_kernelVars
  PROVE  HookWrites'
<1>1. HookWrites  BY DEF HookInv
<1> USE DEF HookWrites
<1>2. CASE OfferPacket \/ WriteTerm
  <2>1. /\ hpc \in {"record", "term"} /\ tuple' = tuple
        /\ HookWriting("idle") \/ HookWriting("flush") \/ (WriteFails /\ hpc' \in {hpc, "idle"})
    BY <1>2, OfferPacketIs, WriteTermIs
  <2>2. \/ wpc' = wpc /\ item' = item /\ wpc = "idle" /\ hpc' \in {hpc, "idle"}
        \/ wpc = "idle" /\ wpc' \in {"copy", "reload"} /\ item' = tuple /\ hpc' = hpc
        \/ wpc = "reload" /\ wpc' = "copy" /\ item' = item /\ hpc' = hpc
        \/ wpc' = "publish" /\ hpc' = hpc
        \/ wpc' = "idle" /\ hpc' \in {"idle", "flush"}
    BY <2>1 DEF HookWriting, WriteFails, WriteBegin, WriteReload, WriteStore, WritePublish, vars, writerVars
  <2>3. QED  BY <1>1, <2>1, <2>2
<1>3. CASE FlushTerm
  <2>1. /\ hpc = "flush" /\ tuple' = tuple /\ wpc' \in {"idle", "flush_load", "flush_store"}
        /\ hpc' = "flush" \/ (hpc' = "idle" /\ wpc' = "idle")
    BY <1>3, FlushTermIs DEF FlushPublish, FlushLoad, FlushStore
  <2>2. QED  BY <1>1, <2>1
<1>4. CASE UserReads
  <2>1. UNCHANGED <<wpc, item, hpc, tuple>>
    BY <1>4, UserReadsIs DEF Reader, ReadFails, ReadBegin, ReadReload, ReadStore, ReadPublish, vars, writerVars
  <2>2. QED  BY <1>1, <2>1
<1>5. CASE HookElsewhere
  <2>1. UNCHANGED <<wpc, item>>  BY <1>5, HookElsewhereKeeps
  <2>2. starts \in 0 .. MaxStarts  BY DEF HookInv, Commands
  <2>3. CASE \E isIp \in BOOLEAN: PacketComes(isIp)
    <3>1. /\ hpc = "idle"
          /\ \/ tuple' = [kind |-> "packet", run |-> starts] /\ hpc' = "record"
             \/ tuple' = tuple /\ hpc' = "tail"
      BY <2>3 DEF PacketComes
    <3>2. [kind |-> "packet", run |-> starts] \in Tuple  BY <2>2 DEF KernelTuples, KernelTuple
    <3>3. QED  BY <1>1, <2>1, <3>1, <3>2
  <2>4. CASE TestTail  BY <1>1, <2>1, <2>4 DEF TestTail
  <2>5. CASE SetStop
    <3>1. hpc = "stop" /\ hpc' = "term" /\ tuple' = [kind |-> "term", run |-> starts]
      BY <2>5 DEF SetStop
    <3>2. [kind |-> "term", run |-> starts] \in Tuple  BY <2>2 DEF KernelTuples, KernelTuple
    <3>3. QED  BY <1>1, <2>1, <3>1, <3>2
  <2>6. CASE Start \/ Stop \/ UNCHANGED kernelVars
    <3>1. UNCHANGED <<hpc, tuple>>  BY <2>6 DEF Start, Stop, kernelVars
    <3>2. QED  BY <1>1, <2>1, <3>1
  <2>7. QED  BY <1>5, <2>3, <2>4, <2>5, <2>6 DEF HookElsewhere
<1>6. QED  BY <1>2, <1>3, <1>4, <1>5, HookSplits

LEMMA CommandsStep ==
  ASSUME HookInv, KernelTuples, [NextKernel]_kernelVars
  PROVE  Commands'
<1>1. Commands /\ hpc \in {"idle", "record", "tail", "stop", "term", "flush"}  BY DEF HookInv, HookWrites
<1> USE DEF Commands
<1>2. CASE OfferPacket
  <2>1. /\ hpc = "record" /\ hpc' \in {"record", "idle"}
        /\ UNCHANGED <<start_measurement, terms, starts, stops>>
    BY <1>2, OfferPacketIs DEF HookWriting
  <2>2. QED  BY <1>1, <2>1
<1>3. CASE WriteTerm  BY <1>1, <1>3, WriteTermIs
<1>4. CASE FlushTerm  BY <1>1, <1>4, FlushTermIs
<1>5. CASE UserReads  BY <1>1, <1>5, UserReadsIs
<1>6. CASE HookElsewhere
  <2>1. CASE \E isIp \in BOOLEAN: PacketComes(isIp)
    <3>1. /\ hpc = "idle" /\ hpc' \in {"record", "tail"}
          /\ UNCHANGED <<start_measurement, terms, starts, stops>>
      BY <2>1 DEF PacketComes, userVars
    <3>2. QED  BY <1>1, <3>1
  <2>2. CASE TestTail  BY <1>1, <2>2 DEF TestTail, userVars
  <2>3. CASE SetStop  BY <1>1, <2>3 DEF SetStop, userVars
  <2>4. CASE Start  BY <1>1, <2>4, KernelAssumption DEF Start
  <2>5. CASE Stop  BY <1>1, <2>5 DEF Stop
  <2>6. CASE UNCHANGED kernelVars  BY <1>1, <2>6 DEF kernelVars, userVars
  <2>7. QED  BY <1>6, <2>1, <2>2, <2>3, <2>4, <2>5, <2>6 DEF HookElsewhere
<1>7. QED  BY <1>2, <1>3, <1>4, <1>5, <1>6, HookSplits

\* Taking the oldest tuple keeps the order of the others.
LEMMA OrderOfTail ==
  ASSUME NEW q \in Seq(Tuple), q # <<>>, TermsEnded(q), Ordered(q)
  PROVE  TermsEnded(Tail(q)) /\ Ordered(Tail(q))
<1>1. /\ Len(q) \in Nat /\ Len(Tail(q)) = Len(q) - 1
      /\ \A j \in 1 .. Len(q) - 1: Tail(q)[j] = q[j + 1] /\ j + 1 \in 1 .. Len(q)
  OBVIOUS
<1>2. TermsEnded(Tail(q))  BY <1>1 DEF TermsEnded
<1>3. Ordered(Tail(q))
  <2>1. ASSUME NEW j \in 1 .. Len(Tail(q)), NEW k \in 1 .. Len(Tail(q)), j < k,
               Tail(q)[j].kind = "term", Tail(q)[k].kind = "packet"
        PROVE  Tail(q)[k].run > Tail(q)[j].run
    <3>1. Tail(q)[j] = q[j + 1] /\ Tail(q)[k] = q[k + 1] /\ j + 1 < k + 1
          /\ j + 1 \in 1 .. Len(q) /\ k + 1 \in 1 .. Len(q)
      BY <1>1, <2>1
    <3>2. QED  BY <2>1, <3>1 DEF Ordered
  <2>2. QED  BY <2>1 DEF Ordered
<1>4. QED  BY <1>2, <1>3

\* A packet of a measurement goes behind the ends of those before it, and an
\* end goes behind everything.
LEMMA OrderOfAppend ==
  ASSUME NEW q \in Seq(Tuple), NEW v \in Tuple, TermsEnded(q), Ordered(q),
         v.kind = "term" => Ended(v) /\ hpc # "record",
         v.kind = "packet" => hpc = "record" /\ v = tuple
  PROVE  TermsEnded(Append(q, v)) /\ Ordered(Append(q, v))
<1> DEFINE n == Len(q) + 1
           p == Append(q, v)
<1>1. /\ Len(q) \in Nat /\ Len(p) = n /\ p[n] = v /\ \A j \in 1 .. Len(q): p[j] = q[j]
      /\ \A j \in 1 .. n: j = n \/ j \in 1 .. Len(q)
      /\ n \notin 1 .. Len(q)
  OBVIOUS
<1> HIDE DEF p, n
<1>2. TermsEnded(p)
  <2>1. ASSUME NEW j \in 1 .. n, p[j].kind = "term"
        PROVE  Ended(p[j]) /\ (hpc = "record" => p[j].run < tuple.run)
    <3>1. CASE j = n  BY <1>1, <2>1, <3>1
    <3>2. CASE j \in 1 .. Len(q)  BY <1>1, <2>1, <3>2 DEF TermsEnded
    <3>3. QED  BY <1>1, <3>1, <3>2
  <2>2. QED  BY <1>1, <2>1 DEF TermsEnded
<1>3. Ordered(p)
  <2>1. ASSUME NEW j \in 1 .. n, NEW k \in 1 .. n, j < k, p[j].kind = "term", p[k].kind = "packet"
        PROVE  p[k].run > p[j].run
    <3>1. j \in 1 .. Len(q)
      <4>1. j # n  BY <1>1, <2>1 DEF n
      <4>2. QED  BY <1>1, <4>1
    <3>2. CASE k = n
      <4>1. v.kind = "packet" /\ p[k] = v  BY <1>1, <2>1, <3>2
      <4>2. hpc = "record" /\ v = tuple  BY <4>1
      <4>3. q[j].kind = "term" /\ p[j] = q[j]  BY <1>1, <2>1, <3>1
      <4>4. q[j].run < tuple.run  BY <3>1, <4>2, <4>3 DEF TermsEnded
      <4>5. q[j] \in Tuple  BY <3>1
      <4>6. QED  BY <4>1, <4>2, <4>3, <4>4
    <3>3. CASE k \in 1 .. Len(q)  BY <1>1, <2>1, <3>1, <3>3 DEF Ordered
    <3>4. QED  BY <1>1, <3>2, <3>3
  <2>2. QED  BY <1>1, <2>1 DEF Ordered
<1>4. QED  BY <1>2, <1>3 DEF p

\* The hook's state may change as long as it keeps what the order relies on.
LEMMA OrderStays ==
  ASSUME NEW q \in Seq(Tuple), TermsEnded(q), Ordered(q),
         \A v \in Tuple: v.kind = "term" /\ Ended(v) => Ended(v)',
         hpc' = "record" => \/ hpc = "record" /\ tuple' = tuple
                            \/ start_measurement = "START" /\ tuple'.run = starts
  PROVE  TermsEnded(q)' /\ Ordered(q)'
<1>1. ASSUME NEW j \in 1 .. Len(q), q[j].kind = "term"
      PROVE  Ended(q[j])' /\ (hpc' = "record" => q[j].run < tuple'.run)
  <2>1. q[j] \in Tuple /\ Ended(q[j]) /\ (hpc = "record" => q[j].run < tuple.run)
    BY <1>1 DEF TermsEnded
  <2>2. Ended(q[j])'  BY <1>1, <2>1
  <2>3. QED  BY <2>1, <2>2 DEF Ended
<1>2. QED  BY <1>1 DEF TermsEnded, Ordered

LEMMA OrderFrom ==
  ASSUME NEW q \in Seq(Tuple), TermsEnded(q), Ordered(q), Contents' = q,
         \A v \in Tuple: v.kind = "term" /\ Ended(v) => Ended(v)',
         hpc' = "record" => \/ hpc = "record" /\ tuple' = tuple
                            \/ start_measurement = "START" /\ tuple'.run = starts,
         hpc' = "term" => Ended(tuple)'
  PROVE  HookOrder'
<1>1. TermsEnded(q)' /\ Ordered(q)'  BY OrderStays
<1>2. TermsEnded(Contents)' /\ Ordered(Contents)'  BY <1>1 DEF TermsEnded, Ordered
<1>3. QED  BY <1>2 DEF HookOrder

LEMMA HookOrderStep ==
  ASSUME HookInv, IndInv', KernelTuples, [NextKernel]_kernelVars
  PROVE  HookOrder'
<1>1. HookWrites /\ HookOrder /\ IndInv /\ starts \in 0 .. MaxStarts  BY DEF HookInv, Commands
<1>2. Contents \in Seq(Tuple)  BY <1>1, ContentsSeq DEF ContentsAreSlots
<1>3. PICK c: c = Contents  OBVIOUS
<1>4. c \in Seq(Tuple) /\ TermsEnded(c) /\ Ordered(c)  BY <1>1, <1>2, <1>3 DEF HookOrder
<1>5. CASE OfferPacket \/ WriteTerm
  <2>1. /\ hpc \in {"record", "term"} /\ UNCHANGED <<start_measurement, tuple, starts>>
        /\ hpc' \in {hpc, "idle", "flush"}
        /\ WriteFails \/ WriteBegin(tuple) \/ WriteReload \/ WriteStore \/ WritePublish
    BY <1>5, OfferPacketIs, WriteTermIs DEF HookWriting
  <2>2. \A v: Ended(v)' <=> Ended(v)  BY <2>1 DEF Ended
  <2>3. hpc' = "term" => Ended(tuple)'  BY <1>1, <2>1 DEF HookOrder, Ended
  <2>4. CASE WriteStore
    <3>1. Contents' = Append(Contents, item)  BY <1>1, <2>4, StoreIsSend DEF Channel!Send
    <3>2. item = tuple /\ tuple \in Tuple  BY <1>1, <2>4 DEF WriteStore, HookWrites
    <3>3. PICK v: v = tuple  OBVIOUS
    <3>4. TermsEnded(Append(c, v)) /\ Ordered(Append(c, v))
      <4>1. v.kind = "term" => Ended(v) /\ hpc # "record"
        BY <1>1, <2>1, <3>3 DEF HookWrites, HookOrder
      <4>2. v.kind = "packet" => hpc = "record" /\ v = tuple
        BY <1>1, <2>1, <3>3 DEF HookWrites
      <4>3. QED  BY <1>4, <3>2, <3>3, <4>1, <4>2, OrderOfAppend
    <3>5. Append(c, v) \in Seq(Tuple) /\ Contents' = Append(c, v)  BY <1>3, <1>4, <3>1, <3>2, <3>3
    <3>6. QED  BY <2>1, <2>2, <2>3, <3>4, <3>5, OrderFrom
  <2>5. CASE WriteFails \/ WriteBegin(tuple) \/ WriteReload \/ WritePublish
    <3>1. Contents' = c  BY <1>3, <2>5, QuietWriterKeeps DEF QuietWriter
    <3>2. QED  BY <1>4, <2>1, <2>2, <2>3, <3>1, OrderFrom
  <2>6. QED  BY <2>1, <2>4, <2>5
<1>6. CASE FlushTerm
  <2>1. /\ hpc' \in {"flush", "idle"} /\ UNCHANGED <<start_measurement, tuple, starts>>
        /\ FlushPublish \/ FlushLoad \/ FlushStore
    BY <1>6, FlushTermIs
  <2>2. Contents' = c  BY <1>3, <2>1, QuietWriterKeeps DEF QuietWriter
  <2>3. \A v: Ended(v)' <=> Ended(v)  BY <2>1 DEF Ended
  <2>4. QED  BY <1>4, <2>1, <2>2, <2>3, OrderFrom
<1>7. CASE UserReads
  <2>1. Reader /\ UNCHANGED <<start_measurement, hpc, tuple, starts>>  BY <1>7, UserReadsIs
  <2>2. \A v: Ended(v)' <=> Ended(v)  BY <2>1 DEF Ended
  <2>3. hpc' = "term" => Ended(tuple)'  BY <1>1, <2>1 DEF HookOrder, Ended
  <2>4. CASE ReadStore
    <3>1. Contents' = Tail(Contents) /\ Contents # <<>>  BY <1>1, <2>4, ReadTakesHead
    <3>2. TermsEnded(Tail(c)) /\ Ordered(Tail(c))  BY <1>3, <1>4, <3>1, OrderOfTail
    <3>3. Tail(c) \in Seq(Tuple) /\ Contents' = Tail(c)  BY <1>3, <1>4, <3>1
    <3>4. QED  BY <2>1, <2>2, <2>3, <3>2, <3>3, OrderFrom
  <2>5. CASE QuietReader
    <3>1. Contents' = c  BY <1>3, <2>5, QuietReaderKeeps
    <3>2. QED  BY <1>4, <2>1, <2>2, <2>3, <3>1, OrderFrom
  <2>6. QED  BY <2>1, <2>4, <2>5 DEF Reader, QuietReader
<1>8. CASE HookElsewhere
  <2>1. Contents' = c  BY <1>3, <1>8, HookElsewhereKeeps
  <2>2. \A v \in Tuple: v.run \in 0 .. MaxStarts  BY DEF KernelTuples, KernelTuple
  <2>3. CASE \E isIp \in BOOLEAN: PacketComes(isIp)
    <3>1. /\ UNCHANGED <<start_measurement, starts>>
          /\ \/ /\ hpc' = "record" /\ start_measurement = "START"
                /\ tuple' = [kind |-> "packet", run |-> starts]
             \/ hpc' = "tail"
      BY <2>3 DEF PacketComes, userVars
    <3>2. \A v: Ended(v)' <=> Ended(v)  BY <3>1 DEF Ended
    <3>3. hpc' # "term" /\ (hpc' = "record" => start_measurement = "START" /\ tuple'.run = starts)  BY <3>1
    <3>4. QED  BY <1>4, <2>1, <3>2, <3>3, OrderFrom
  <2>4. CASE SetStop
    <3>1. /\ start_measurement' = "STOP" /\ starts' = starts /\ hpc' = "term"
          /\ tuple' = [kind |-> "term", run |-> starts]
      BY <2>4 DEF SetStop, userVars
    <3>2. \A v: Ended(v) => Ended(v)'  BY <3>1 DEF Ended
    <3>3. Ended(tuple)'  BY <1>1, <3>1 DEF Ended
    <3>4. QED  BY <1>4, <2>1, <3>1, <3>2, <3>3, OrderFrom
  <2>5. CASE Start
    <3>1. start_measurement' = "START" /\ starts' = starts + 1 /\ UNCHANGED <<hpc, tuple>>
      BY <2>5 DEF Start
    <3>2. \A v \in Tuple: Ended(v) => Ended(v)'  BY <1>1, <2>2, <3>1 DEF Ended, KernelTuples
    <3>3. hpc' = "term" => Ended(tuple)'
      <4>1. tuple \in Tuple  BY <1>1 DEF HookWrites
      <4>2. PICK v: v = tuple  OBVIOUS
      <4>3. hpc' = "term" => Ended(v)'  BY <1>1, <3>1, <3>2, <4>1, <4>2 DEF HookOrder
      <4>4. QED  BY <3>1, <4>2, <4>3 DEF Ended
    <3>4. QED  BY <1>4, <2>1, <3>1, <3>2, <3>3, OrderFrom
  <2>6. CASE Stop
    <3>1. start_measurement' = "TAIL" /\ UNCHANGED <<starts, hpc, tuple>>  BY <2>6 DEF Stop
    <3>2. \A v: Ended(v) => Ended(v)'  BY <3>1 DEF Ended
    <3>3. hpc' = "term" => Ended(tuple)'  BY <1>1, <3>1 DEF HookOrder, Ended
    <3>4. QED  BY <1>4, <2>1, <3>1, <3>2, <3>3, OrderFrom
  <2>7. CASE TestTail \/ UNCHANGED kernelVars
    <3>1. /\ UNCHANGED <<start_measurement, starts, tuple>>
          /\ hpc' = hpc \/ hpc' \in {"stop", "idle"}
      BY <2>7 DEF TestTail, kernelVars, userVars
    <3>2. \A v: Ended(v)' <=> Ended(v)  BY <3>1 DEF Ended
    <3>3. hpc' = "term" => Ended(tuple)'  BY <1>1, <3>1 DEF HookOrder, Ended
    <3>4. QED  BY <1>4, <2>1, <3>1, <3>2, <3>3, OrderFrom
  <2>8. QED  BY <1>8, <2>3, <2>4, <2>5, <2>6, <2>7 DEF HookElsewhere
<1>9. QED  BY <1>5, <1>6, <1>7, <1>8, HookSplits

LEMMA TailEnds ==
  ASSUME NEW q \in Seq(Tuple), q # <<>>
  PROVE  IF Tail(q) = <<>> THEN Head(q) = q[Len(q)] ELSE Tail(q)[Len(Tail(q))] = q[Len(q)]
<1>1. /\ Len(q) \in Nat \ {0} /\ Tail(q) \in Seq(Tuple) /\ Len(Tail(q)) = Len(q) - 1
      /\ Head(q) = q[1] /\ \A j \in 1 .. Len(q) - 1: Tail(q)[j] = q[j + 1]
  BY EmptySeq
<1>2. Tail(q) = <<>> <=> Len(q) = 1  BY <1>1, EmptySeq
<1>3. CASE Len(q) = 1  BY <1>1, <1>2, <1>3
<1>4. CASE Len(q) # 1
  <2>1. Len(q) - 1 \in 1 .. Len(q) - 1 /\ (Len(q) - 1) + 1 = Len(q)  BY <1>1, <1>4
  <2>2. QED  BY <1>1, <1>2, <1>4, <2>1
<1>5. QED  BY <1>3, <1>4

LEMMA TermBehindStep ==
  ASSUME HookInv, IndInv', KernelTuples, [NextKernel]_kernelVars
  PROVE  TermBehind'
<1>1. HookWrites /\ TermBehind /\ IndInv  BY DEF HookInv
<1>2. Contents \in Seq(Tuple)  BY <1>1, ContentsSeq DEF ContentsAreSlots
<1>3. PICK c: c = Contents  OBVIOUS
<1> USE DEF TermWritten
<1>4. CASE OfferPacket
  <2>1. /\ hpc = "record" /\ hpc' \in {"record", "idle"} /\ wpc' \notin {"flush_load", "flush_store"}
    BY <1>1, <1>4, OfferPacketIs
    DEF HookWriting, HookWrites, WriteFails, WriteBegin, WriteReload, WriteStore, WritePublish, vars, writerVars
  <2>2. QED  BY <2>1 DEF TermBehind
<1>5. CASE WriteTerm
  <2>1. /\ hpc = "term" /\ wpc' \notin {"flush_load", "flush_store"}
        /\ (HookWriting("flush") \/ (WriteFails /\ hpc' = "term"))
    BY <1>1, <1>5, WriteTermIs
    DEF HookWriting, HookWrites, WriteFails, WriteBegin, WriteReload, WriteStore, WritePublish, vars, writerVars
  <2>2. CASE (WriteFails \/ WriteBegin(tuple) \/ WriteReload) /\ hpc' = "term"
    <3>1. wpc' # "publish"
      BY <2>2 DEF WriteFails, WriteBegin, WriteReload, vars, writerVars
    <3>2. QED  BY <2>1, <2>2, <3>1 DEF TermBehind
  <2>3. CASE WritePublish
    <3>1. wpc = "publish" /\ UNCHANGED <<Contents, out>>
      BY <2>3, QuietWriterKeeps DEF QuietWriter, WritePublish
    <3>2. EndsWithTerm(Contents, out)'  BY <1>1, <2>1, <3>1 DEF TermBehind, EndsWithTerm
    <3>3. QED  BY <2>1, <3>2 DEF TermBehind
  <2>4. CASE WriteStore
    <3>1. Contents' = Append(Contents, item)  BY <1>1, <2>4, StoreIsSend DEF Channel!Send
    <3>2. item \in Tuple /\ item.kind = "term"  BY <1>1, <2>1, <2>4 DEF WriteStore, HookWrites
    <3>3. PICK v: v = item  OBVIOUS
    <3>4. Append(c, v) # <<>> /\ Append(c, v)[Len(Append(c, v))] = v  BY <1>2, <1>3, <3>2, <3>3
    <3>5. EndsWithTerm(Contents, out)'  BY <1>3, <3>1, <3>2, <3>3, <3>4 DEF EndsWithTerm
    <3>6. QED  BY <2>1, <3>5 DEF TermBehind
  <2>5. QED  BY <2>1, <2>2, <2>3, <2>4 DEF HookWriting
<1>6. CASE FlushTerm
  <2>1. hpc = "flush" /\ (FlushPublish \/ FlushLoad \/ FlushStore)  BY <1>6, FlushTermIs
  <2>2. UNCHANGED <<Contents, out>>  BY <2>1, QuietWriterKeeps DEF QuietWriter
  <2>3. EndsWithTerm(Contents, out)'  BY <1>1, <2>1, <2>2 DEF TermBehind, EndsWithTerm
  <2>4. wpc' \in {"flush_load", "flush_store"} => writeIndex' = nextWriteIndex'
    BY <1>1, <2>1 DEF TermBehind, FlushPublish, FlushLoad, FlushStore, meta
  <2>5. QED  BY <2>3, <2>4 DEF TermBehind
<1>7. CASE UserReads
  <2>1. Reader /\ hpc' = hpc  BY <1>7, UserReadsIs
  <2>2. UNCHANGED <<wpc, writeIndex, nextWriteIndex>>
    BY <2>1 DEF Reader, ReadFails, ReadBegin, ReadReload, ReadStore, ReadPublish, vars, meta, writerVars
  <2>3. TermWritten => EndsWithTerm(Contents, out)'
    <3>1. CASE ReadStore
      <4>1. Contents' = Tail(Contents) /\ out' = Head(Contents) /\ Contents # <<>>
        BY <1>1, <3>1, ReadTakesHead
      <4>2. IF Tail(c) = <<>> THEN Head(c) = c[Len(c)] ELSE Tail(c)[Len(Tail(c))] = c[Len(c)]
        BY <1>2, <1>3, <4>1, TailEnds
      <4>3. TermWritten => c[Len(c)].kind = "term"  BY <1>1, <1>3, <4>1 DEF TermBehind, EndsWithTerm
      <4>4. Contents' = Tail(c) /\ out' = Head(c)  BY <1>3, <4>1
      <4>5. QED  BY <4>2, <4>3, <4>4 DEF EndsWithTerm
    <3>2. CASE QuietReader
      <4>1. UNCHANGED <<Contents, out>>  BY <3>2, QuietReaderKeeps
      <4>2. QED  BY <1>1, <4>1 DEF TermBehind, EndsWithTerm
    <3>3. QED  BY <2>1, <3>1, <3>2 DEF Reader, QuietReader
  <2>4. QED  BY <1>1, <2>1, <2>2, <2>3 DEF TermBehind
<1>8. CASE HookElsewhere
  <2>1. UNCHANGED <<vars, Contents, wpc>>  BY <1>8, HookElsewhereKeeps
  <2>2. UNCHANGED <<writeIndex, nextWriteIndex, out>>  BY <2>1 DEF vars, writerVars, readerVars
  <2>3. TermWritten' => TermWritten
    <3>1. wpc = "publish" \/ hpc = "flush" => hpc \in {"record", "term", "flush"}
      BY <1>1 DEF HookWrites
    <3>2. \/ hpc' = hpc
          \/ hpc \in {"idle", "tail", "stop"} /\ hpc' # "flush" /\ wpc # "publish"
      BY <1>1, <1>8
      DEF HookElsewhere, HookWrites, PacketComes, TestTail, SetStop, Start, Stop, kernelVars
    <3>3. QED  BY <2>1, <3>2
  <2>4. TermWritten' => EndsWithTerm(Contents, out)'  BY <1>1, <2>1, <2>2, <2>3 DEF TermBehind, EndsWithTerm
  <2>5. QED  BY <1>1, <2>1, <2>2, <2>4 DEF TermBehind
<1>9. QED  BY <1>4, <1>5, <1>6, <1>7, <1>8, HookSplits

LEMMA HookInit ==
  ASSUME KernelTuples, InitKernel
  PROVE  HookInv
<1>1. Init  BY DEF InitKernel
<1>2. IndInv  BY <1>1, InitIndInv
<1>3. /\ start_measurement = "OFF" /\ hpc = "idle" /\ tuple = KernelZero
      /\ starts = 0 /\ stops = 0 /\ terms = 0
  BY DEF InitKernel
<1>4. wpc = "idle"  BY <1>1 DEF Init
<1>5. HookWrites  BY <1>3, <1>4, ZeroAssumption DEF HookWrites, KernelTuples
<1>6. Commands  BY <1>3, KernelAssumption DEF Commands
<1>7. Len(Contents) = 0
  <2>1. Dist(nextReadIndex, nextWriteIndex) = 0  BY <1>1 DEF Init, Dist
  <2>2. QED  BY <1>2, <2>1, ContentsSeq DEF ContentsAreSlots
<1>8. HookOrder  BY <1>3, <1>7 DEF HookOrder, TermsEnded, Ordered
<1>9. TermBehind  BY <1>3, <1>4 DEF TermBehind, TermWritten
<1>10. QED  BY <1>2, <1>5, <1>6, <1>8, <1>9 DEF HookInv

LEMMA HookStep ==
  ASSUME KernelTuples, HookInv, [NextKernel]_kernelVars
  PROVE  HookInv'
<1>1. tuple \in Tuple /\ IndInv  BY DEF HookInv, HookWrites
<1>2. IndInv'  BY <1>1, HookStepsRing, IndInvStep
<1>3. QED  BY <1>2, HookWritesStep, CommandsStep, HookOrderStep, TermBehindStep DEF HookInv

LEMMA HookInvariant ==
  ASSUME KernelTuples
  PROVE  SpecKernel => []HookInv
<1>1. InitKernel => HookInv  BY HookInit
<1>2. HookInv /\ [NextKernel]_kernelVars => HookInv'  BY HookStep
<1>3. QED  BY <1>1, <1>2, PTL DEF SpecKernel

\* No packet comes out of the kernel's ring behind the TUPLE_TERM of its
\* measurement, and no stop command is answered twice, for every ring and batch
\* size and every interleaving of the hook with starts, stops and reads
\* (datapath.c:142-157, 402-417).
THEOREM KernelTermIsLast ==
  ASSUME KernelTuples
  PROVE  SpecKernel => []TermIsLast
<1>1. SpecKernel => []HookInv  BY HookInvariant
<1>2. HookInv => TermIsLast
  <2> SUFFICES ASSUME HookInv PROVE TermIsLast  OBVIOUS
  <2>1. Contents \in Seq(Tuple) /\ Ordered(Contents)
    BY ContentsSeq DEF HookInv, HookOrder, ContentsAreSlots
  <2>2. DOMAIN Contents = 1 .. Len(Contents)  BY <2>1
  <2>3. terms + (IF hpc = "term" THEN 1 ELSE 0) <= stops  BY DEF HookInv, Commands
  <2>4. QED  BY <2>1, <2>2, <2>3 DEF TermIsLast, Ordered
<1>3. QED  BY <1>1, <1>2, PTL

\* When the hook that took the stop command returns, TUPLE_TERM is behind all
\* the rest and is published, or has just been read (datapath.c:413-417).
THEOREM KernelTermIsPublished ==
  ASSUME KernelTuples
  PROVE  SpecKernel => TermIsPublished
<1> DEFINE Published == hpc = "flush" /\ hpc' = "idle" =>
             LET contents == Contents' IN
             IF contents = <<>> THEN out'.kind = "term"
             ELSE /\ contents[Len(contents)].kind = "term"
                  /\ Dist(nextReadIndex, writeIndex)' = Len(contents)
<1>1. SpecKernel => []HookInv  BY HookInvariant
<1>2. HookInv /\ HookInv' /\ [NextKernel]_kernelVars => [Published]_kernelVars
  <2> SUFFICES ASSUME HookInv, HookInv', [NextKernel]_kernelVars, hpc = "flush", hpc' = "idle"
               PROVE  Published
    OBVIOUS
  <2>1. Contents' = Contents'
    BY DEF Contents, Dist, SlotAfter
  <2>2. FlushStore
    <3>1. CASE OfferPacket  BY <3>1, OfferPacketIs
    <3>2. CASE WriteTerm  BY <3>2, WriteTermIs
    <3>3. CASE FlushTerm  BY <3>3, FlushTermIs
    <3>4. CASE UserReads  BY <3>4, UserReadsIs
    <3>5. CASE HookElsewhere
      BY <3>5 DEF HookElsewhere, PacketComes, TestTail, SetStop, Start, Stop, kernelVars
    <3>6. QED  BY <3>1, <3>2, <3>3, <3>4, <3>5, HookSplits
  <2>3. UNCHANGED <<nextReadIndex, nextWriteIndex, Contents, out>>  BY <2>2, QuietWriterKeeps DEF QuietWriter
  <2>4. wpc = "flush_store" /\ writeIndex' = writeIndex  BY <2>2 DEF FlushStore
  <2>5. writeIndex = nextWriteIndex /\ EndsWithTerm(Contents, out)
    BY <2>4 DEF HookInv, TermBehind, TermWritten
  <2>6. Len(Contents) = Dist(nextReadIndex, nextWriteIndex)  BY ContentsSeq DEF ContentsAreSlots, HookInv
  <2>7. Dist(nextReadIndex, writeIndex)' = Dist(nextReadIndex, nextWriteIndex)
    BY <2>3, <2>4, <2>5 DEF Dist
  <2>8. QED  BY <2>1, <2>3, <2>5, <2>6, <2>7 DEF EndsWithTerm
<1>3. QED  BY <1>1, <1>2, PTL DEF SpecKernel, TermIsPublished
=============================================================================
