---------------------------- MODULE DpOvsProofs -----------------------------
(***************************************************************************)
(* Proofs about DpOvs, for every number of workers, capacity, batch, and   *)
(* length of an interval, and for packets with stray flags.                *)
(*                                                                         *)
(* What main and the workers do with each ring is what a FifoChannel       *)
(* allows.  RingProofs shows that the ring buffer is such a channel; here  *)
(* it is shown that its users ask nothing else of it.                      *)
(*                                                                         *)
(* The workers stay in step with main, and of an interval that has ended   *)
(* the last worker's file is left.  InStep and LastWorkersFile speak of    *)
(* numbers that a worker and main count each for themselves: IndInv        *)
(* relates them by the semaphore, which bounds the worker's from below,    *)
(* and by the end marks in the ring, which bound it from above.            *)
(***************************************************************************)
EXTENDS DpOvs, TLAPS

\* The types of the rings and of what is put in them.
RingTypes ==
    /\ queue \in [Worker -> Seq(Tuple)]
    /\ visible \in [Worker -> Nat]
    /\ received \in [Worker -> Tuple]
    /\ i \in Worker /\ index \in Worker
    /\ cur \in 0 .. MaxPackets

RingStep(w) == Ring(w)!Next \/ UNCHANGED <<queue[w], visible[w], received[w]>>

-----------------------------------------------------------------------------
LEMMA PuncType == Punc \in Tuple /\ Zero \in Tuple
  BY OvsAssumption DEF Punc, Zero, Tuple

LEMMA PacketType ==
  ASSUME NEW n \in 0 .. MaxPackets, NEW f \in {"NORMAL", "PUNC", "TERM"}
  PROVE  [flag |-> f, pkt |-> n] \in Tuple
  BY DEF Tuple

\* The next worker is a worker.
LEMMA NextWorker == \A w \in Worker: (w % NumThread) + 1 \in Worker /\ (w < NumThread => w + 1 \in Worker)
  BY OvsAssumption DEF Worker

\* A successful write is a send.
LEMMA WriteSends ==
  ASSUME RingTypes, NEW w \in Worker, NEW v \in Tuple, Write(w, v), UNCHANGED received
  PROVE  /\ queue' \in [Worker -> Seq(Tuple)] /\ UNCHANGED <<visible, received>>
         /\ \A x \in Worker: RingStep(x)
<1> USE DEF RingTypes
<1>1. queue' = [queue EXCEPT ![w] = Append(@, v)] /\ UNCHANGED <<visible, received>>
  BY DEF Write
<1>2. queue' \in [Worker -> Seq(Tuple)]
  <2>1. Append(queue[w], v) \in Seq(Tuple)  OBVIOUS
  <2>2. QED  BY <1>1, <2>1
<1>3. ASSUME NEW x \in Worker PROVE RingStep(x)
  <2>1. CASE x = w
    <3>1. Ring(x)!Send(v)  BY <1>1, <2>1 DEF Write, Ring!Send
    <3>2. QED  BY <3>1 DEF RingStep, Ring!Next
  <2>2. CASE x # w
    <3>1. queue'[x] = queue[x]  BY <1>1, <2>2
    <3>2. QED  BY <1>1, <3>1 DEF RingStep
  <2>3. QED  BY <2>1, <2>2
<1>4. QED  BY <1>1, <1>2, <1>3

\* A flush is a publication.
LEMMA FlushPublishes ==
  ASSUME RingTypes, NEW w \in Worker, Flush(w)
  PROVE  /\ UNCHANGED <<queue, received>> /\ visible' \in [Worker -> Nat]
         /\ \A x \in Worker: RingStep(x)
<1> USE DEF RingTypes
<1>1. visible' = [visible EXCEPT ![w] = Len(queue[w])] /\ UNCHANGED <<queue, received>>
  BY DEF Flush
<1>2. visible' \in [Worker -> Nat]
  <2>1. Len(queue[w]) \in Nat  OBVIOUS
  <2>2. QED  BY <1>1, <2>1
<1>3. ASSUME NEW x \in Worker PROVE RingStep(x)
  <2>1. CASE x = w
    <3>1. Ring(x)!Publish  BY <1>1, <2>1 DEF Ring!Publish
    <3>2. QED  BY <3>1 DEF RingStep, Ring!Next
  <2>2. CASE x # w
    <3>1. visible'[x] = visible[x]  BY <1>1, <2>2
    <3>2. QED  BY <1>1, <3>1 DEF RingStep
  <2>3. QED  BY <2>1, <2>2
<1>4. QED  BY <1>1, <1>2, <1>3
\* A read is a receipt.
LEMMA ReadReceives ==
  ASSUME RingTypes, NEW w \in Worker, Read(w), \A x \in Worker: visible[x] <= Len(queue[x])
  PROVE  /\ queue' \in [Worker -> Seq(Tuple)]
         /\ visible' \in [Worker -> Nat]
         /\ received' \in [Worker -> Tuple]
         /\ \A x \in Worker: RingStep(x)
<1> USE DEF RingTypes
<1>1. /\ visible[w] > 0
      /\ received' = [received EXCEPT ![w] = Head(queue[w])]
      /\ queue' = [queue EXCEPT ![w] = Tail(queue[w])]
      /\ visible' = [visible EXCEPT ![w] = visible[w] - 1]
  BY DEF Read
<1>2. queue[w] # <<>> /\ Head(queue[w]) \in Tuple /\ Tail(queue[w]) \in Seq(Tuple)
  <2>1. Len(queue[w]) > 0  BY <1>1
  <2>2. QED  BY <2>1
<1>3. queue' \in [Worker -> Seq(Tuple)]  BY <1>1, <1>2
<1>4. received' \in [Worker -> Tuple]  BY <1>1, <1>2
<1>5. visible' \in [Worker -> Nat]
  <2>1. visible[w] - 1 \in Nat  BY <1>1
  <2>2. QED  BY <1>1, <2>1
<1>6. ASSUME NEW x \in Worker PROVE RingStep(x)
  <2>1. CASE x = w
    <3>1. Ring(x)!Receive  BY <1>1, <2>1 DEF Ring!Receive
    <3>2. QED  BY <3>1 DEF RingStep, Ring!Next
  <2>2. CASE x # w
    <3>1. queue'[x] = queue[x] /\ visible'[x] = visible[x] /\ received'[x] = received[x]
      BY <1>1, <2>2
    <3>2. QED  BY <3>1 DEF RingStep
  <2>3. QED  BY <2>1, <2>2
<1>7. QED  BY <1>3, <1>4, <1>5, <1>6

\* Nothing is visible that is not in the ring.
RingInv == RingTypes /\ \A w \in Worker: visible[w] <= Len(queue[w])

LEMMA InitRingInv == Init => RingInv
<1> SUFFICES ASSUME Init PROVE RingInv  OBVIOUS
<1>1. 1 \in Worker /\ 0 \in 0 .. MaxPackets  BY OvsAssumption DEF Worker
<1>2. RingTypes
  <2>1. queue \in [Worker -> Seq(Tuple)] /\ visible \in [Worker -> Nat]  BY DEF Init
  <2>2. received \in [Worker -> Tuple]  BY PuncType DEF Init
  <2>3. QED  BY <1>1, <2>1, <2>2 DEF Init, RingTypes
<1>3. \A w \in Worker: visible[w] <= Len(queue[w])  BY DEF Init
<1>4. QED  BY <1>2, <1>3 DEF RingInv

\* A step of a channel keeps no more visible than there is in it.
LEMMA StepKeepsBound ==
  ASSUME RingInv, queue' \in [Worker -> Seq(Tuple)], NEW w \in Worker, RingStep(w)
  PROVE  visible'[w] <= Len(queue'[w])
<1> USE DEF RingInv, RingTypes
<1>1. CASE UNCHANGED <<queue[w], visible[w], received[w]>>  BY <1>1
<1>2. ASSUME NEW v \in Tuple, Ring(w)!Send(v) PROVE visible'[w] <= Len(queue'[w])
  BY <1>2 DEF Ring!Send
<1>3. CASE Ring(w)!Publish  BY <1>3 DEF Ring!Publish
<1>4. CASE Ring(w)!Receive
  <2>1. Len(queue[w]) > 0  BY <1>4 DEF Ring!Receive
  <2>2. Len(Tail(queue[w])) = Len(queue[w]) - 1  BY <2>1
  <2>3. QED  BY <1>4, <2>2 DEF Ring!Receive
<1>5. QED  BY <1>1, <1>2, <1>3, <1>4 DEF RingStep, Ring!Next

\* Every step keeps the types and is a step of a channel, or none, on each ring.
LEMMA StepOfRings ==
  ASSUME RingInv, [Next]_vars
  PROVE  RingInv' /\ \A w \in Worker: RingStep(w)
<1> USE DEF RingInv, RingTypes
<1>1. SUFFICES RingTypes' /\ \A w \in Worker: RingStep(w)
  BY StepKeepsBound
<1>2. ASSUME UNCHANGED rings, i' \in Worker, index' \in Worker, cur' \in 0 .. MaxPackets
      PROVE  RingTypes' /\ \A w \in Worker: RingStep(w)
  BY <1>2 DEF rings, RingStep
<1>3. CASE CreateWorker  BY <1>2, <1>3 DEF CreateWorker
<1>4. CASE AwaitWorker
  BY <1>2, <1>4, NextWorker, OvsAssumption DEF AwaitWorker, Worker
<1>5. CASE NextPacket
  <2>1. cur' \in 0 .. MaxPackets  BY <1>5, OvsAssumption DEF NextPacket
  <2>2. QED  BY <1>2, <1>5, <2>1 DEF NextPacket
<1>6. CASE PutPunc  BY <1>6, WriteSends, PuncType DEF PutPunc
<1>7. CASE FlushPunc  BY <1>7, FlushPublishes DEF FlushPunc
<1>8. CASE AwaitPunc
  BY <1>2, <1>8, NextWorker, OvsAssumption DEF AwaitPunc, Worker
<1>9. CASE PutPacket
  <2>1. PICK f \in {"NORMAL", "PUNC", "TERM"}: Write(index, [flag |-> f, pkt |-> cur])
    BY <1>9 DEF PutPacket
  <2>2. [flag |-> f, pkt |-> cur] \in Tuple  BY PacketType
  <2>3. index' \in Worker  BY <1>9, NextWorker DEF PutPacket
  <2>4. QED  BY <1>9, <2>1, <2>2, <2>3, WriteSends DEF PutPacket
<1>10. ASSUME NEW w \in Worker,
              \/ EndBatch(w) \/ WorkerReady(w) \/ WorkerReads(w)
              \/ RecordPacket(w) \/ EndInterval(w) \/ Finish(w)
       PROVE  RingTypes' /\ \A x \in Worker: RingStep(x)
  <2>1. CASE EndBatch(w)  BY <2>1, FlushPublishes DEF EndBatch, mainVars
  <2>2. CASE WorkerReady(w)  BY <1>2, <2>2 DEF WorkerReady, mainVars
  <2>3. CASE WorkerReads(w)  BY <2>3, ReadReceives DEF WorkerReads, mainVars
  <2>4. CASE RecordPacket(w)  BY <1>2, <2>4 DEF RecordPacket, mainVars
  <2>5. CASE EndInterval(w)  BY <1>2, <2>5 DEF EndInterval, mainVars
  <2>6. CASE Finish(w)  BY <1>2, <2>6 DEF Finish, mainVars
  <2>7. QED  BY <1>10, <2>1, <2>2, <2>3, <2>4, <2>5, <2>6
<1>11. CASE UNCHANGED vars  BY <1>2, <1>11 DEF vars, mainVars
<1>12. QED
  BY <1>3, <1>4, <1>5, <1>6, <1>7, <1>8, <1>9, <1>10, <1>11 DEF Next

\* The rings of the workers are used as channels only: sends while there is
\* room, publications and receipts, one of them at a time on each ring
\* (dp_ovs.c:67, 187-189, 200).
THEOREM RingsAreChannelsHolds == Spec => RingsAreChannels
<1>1. RingInv /\ [Next]_vars => RingInv'  BY StepOfRings
<1>2. RingInv /\ [Next]_vars =>
        [\A w \in Worker: Ring(w)!Next \/ UNCHANGED <<queue[w], visible[w], received[w]>>]_rings
  BY StepOfRings DEF RingStep
<1>3. QED  BY <1>1, <1>2, InitRingInv, PTL DEF Spec, RingsAreChannels

-----------------------------------------------------------------------------
(* The inductive invariant *)

\* main has ended an interval and goes through the workers.
Closing == mpc \in {"punc", "flush", "wait"}

\* The answers main has waited for, and the end marks it has sent.
Awaited(w) == IF Closing /\ w >= i THEN Len(ended) - 1 ELSE Len(ended)
Sent(w) == IF Closing /\ (w > i \/ (w = i /\ mpc = "punc")) THEN Len(ended) - 1 ELSE Len(ended)

\* The post of a worker that has started, and main's wait for it.
Started(w) == IF kpc[w] \in {"none", "start"} THEN 0 ELSE 1
Seen(w) == IF mpc \in {"create", "ready"} /\ w >= i THEN 0 ELSE 1

StateTypes ==
    /\ mpc \in {"create", "ready", "read", "punc", "flush", "wait", "put"}
    /\ kpc \in [Worker -> {"none", "start", "read", "handle", "exit"}]
    /\ sem \in [Worker -> Nat] /\ cur_interval \in [Worker -> Nat]
    /\ tot_byte \in [Worker -> Seq(0 .. MaxPackets)]
    /\ interval_cnt \in Nat /\ ended \in Seq(Nat) /\ interval_of \in Seq(Nat)
    /\ stray \in Nat

\* Where main is, and the intervals of the packets it has sent.
MainInv ==
    /\ mpc \in {"read", "put"} => i = 1
    /\ mpc \in {"create", "ready"} => cur = 0 /\ ended = <<>>
    /\ \A w \in Worker:
          (mpc = "create" /\ w >= i) \/ (mpc = "ready" /\ w > i) => kpc[w] = "none"
    /\ Closing => Len(ended) > 0
    /\ Len(interval_of) = IF Closing \/ mpc = "put" THEN cur - 1 ELSE cur
    /\ \A p \in DOMAIN interval_of:
          interval_of[p] <= IF Closing THEN Len(ended) - 1 ELSE Len(ended)

\* What is posted is awaited or still there.
SemInv == \A w \in Worker: cur_interval[w] + Started(w) = sem[w] + Awaited(w) + Seen(w)

\* An interval numbered n is at most the stray marks ahead of packet p.
OnTime(n, p) == p \in DOMAIN interval_of /\ n <= interval_of[p] + stray

\* The number of the interval after the tuple at hand.
AtHand(w) == IF kpc[w] = "handle" /\ received[w].flag = "PUNC"
               THEN cur_interval[w] + 1 ELSE cur_interval[w]

\* f numbers the tuples in the ring of w by the interval w will be in: it grows
\* with every end mark.
Numbers(w, f) ==
    /\ AtHand(w) <= f[0]
    /\ \A k \in 1 .. Len(queue[w]):
          /\ \A j \in 0 .. k - 1: f[j] <= f[k] /\ (queue[w][k].flag = "PUNC" => f[j] < f[k])
          /\ queue[w][k].flag = "NORMAL" => OnTime(f[k], queue[w][k].pkt)
    /\ f[Len(queue[w])] <= Sent(w) + stray

\* The packet at hand and those counted.
HeldOnTime(w) ==
    /\ kpc[w] = "handle" /\ received[w].flag = "NORMAL" =>
          OnTime(cur_interval[w], received[w].pkt)
    /\ \A j \in DOMAIN tot_byte[w]: OnTime(cur_interval[w], tot_byte[w][j])

Late(w) == (\E f \in [0 .. Len(queue[w]) -> Nat]: Numbers(w, f)) /\ HeldOnTime(w)
LateInv == \A w \in Worker: Late(w)

\* Without stray marks: there are files of intervals that have ended only, and
\* where the last worker has written one it is the last worker's.
FilesInv ==
    stray = 0 =>
        /\ \A n \in DOMAIN files: n \in 0 .. Len(ended) - 1
        /\ \A n \in 0 .. cur_interval[NumThread] - 1:
              n \in DOMAIN files /\ files[n].by = NumThread

IndInv == RingInv /\ StateTypes /\ MainInv /\ SemInv /\ LateInv /\ FilesInv

-----------------------------------------------------------------------------
LEMMA InitIndInv == Init => IndInv
<1> SUFFICES ASSUME Init PROVE IndInv  OBVIOUS
<1> USE DEF Init
<1>1. StateTypes  BY DEF StateTypes
<1>2. MainInv  BY DEF MainInv, Closing
<1>3. SemInv
  BY OvsAssumption DEF SemInv, Started, Awaited, Seen, Closing, Worker
<1>4. LateInv
  <2>1. ASSUME NEW w \in Worker PROVE Late(w)
    <3> DEFINE f == [n \in 0 .. 0 |-> 0]
    <3>1. Len(queue[w]) = 0 /\ queue[w] = <<>> /\ tot_byte[w] = <<>>  OBVIOUS
    <3>2. f \in [0 .. Len(queue[w]) -> Nat]  BY <3>1
    <3>3. Numbers(w, f)
      BY <3>1, OvsAssumption DEF Numbers, AtHand, Sent, Closing, Worker
    <3>4. HeldOnTime(w)  BY <3>1 DEF HeldOnTime
    <3>5. QED  BY <3>2, <3>3, <3>4 DEF Late
  <2>2. QED  BY <2>1 DEF LateInv
<1>5. FilesInv
  <2>1. NumThread \in Worker  BY OvsAssumption DEF Worker
  <2>2. DOMAIN files = {} /\ cur_interval[NumThread] = 0  BY <2>1
  <2>3. QED  BY <2>2 DEF FilesInv
<1>6. QED  BY <1>1, <1>2, <1>3, <1>4, <1>5, InitRingInv DEF IndInv

\* main's history only grows.
Extends ==
    /\ interval_of' \in Seq(Nat) /\ stray' \in Nat /\ stray <= stray'
    /\ \A p \in DOMAIN interval_of: p \in DOMAIN interval_of' /\ interval_of'[p] = interval_of[p]

LEMMA OnTimeStays ==
  ASSUME StateTypes, Extends, NEW n \in Nat, NEW p, OnTime(n, p)
  PROVE  OnTime(n, p)'
<1>1. p \in DOMAIN interval_of /\ interval_of[p] \in Nat /\ n <= interval_of[p] + stray
  BY DEF OnTime, StateTypes
<1>2. p \in DOMAIN interval_of' /\ interval_of'[p] = interval_of[p]  BY <1>1 DEF Extends
<1>3. QED  BY <1>1, <1>2 DEF OnTime, Extends, StateTypes

LEMMA CountsAreInts ==
  ASSUME StateTypes, NEW w \in Worker, i \in Worker
  PROVE  Len(ended) \in Nat /\ Awaited(w) \in Int /\ Sent(w) \in Int /\ AtHand(w) \in Nat
         /\ Awaited(w) <= Sent(w) /\ Sent(w) <= Len(ended) /\ Sent(w) <= Awaited(w) + 1
  BY DEF StateTypes, Awaited, Sent, AtHand, Worker

Numbered(w) == \E f \in [0 .. Len(queue[w]) -> Nat]: Numbers(w, f)

\* The numbers of a ring stay while nothing is put in or taken out.
LEMMA NumbersStay ==
  ASSUME RingTypes, StateTypes, Extends, NEW w \in Worker, Numbered(w),
         i' \in Worker, StateTypes', Sent(w) <= Sent(w)',
         AtHand(w)' = AtHand(w), UNCHANGED queue[w]
  PROVE  Numbered(w)'
<1>1. PICK f \in [0 .. Len(queue[w]) -> Nat]: Numbers(w, f)  BY DEF Numbered
<1>2. Sent(w) \in Int /\ Sent(w)' \in Int
  BY CountsAreInts DEF RingTypes, Sent, StateTypes
<1>3. PICK q \in Seq(Tuple): q = queue[w]  BY DEF RingTypes
<1>4. Numbers(w, f)'
  <2>1. Len(q) \in Nat /\ queue'[w] = q  BY <1>3
  <2>2. (AtHand(w) <= f[0])'  BY <1>1 DEF Numbers
  <2>3. ASSUME NEW k \in 1 .. Len(q)
        PROVE  /\ \A j \in 0 .. k - 1: f[j] <= f[k] /\ (q[k].flag = "PUNC" => f[j] < f[k])
               /\ q[k].flag = "NORMAL" => OnTime(f[k], q[k].pkt)'
    <3>1. f[k] \in Nat  BY <1>1, <1>3, <2>1
    <3>2. ASSUME q[k].flag = "NORMAL" PROVE OnTime(f[k], q[k].pkt)'
      BY <1>1, <1>3, <3>1, <3>2, OnTimeStays DEF Numbers
    <3>3. QED  BY <1>1, <1>3, <3>2 DEF Numbers
  <2>4. f[Len(q)] <= Sent(w)' + stray'
    <3>1. f[Len(q)] \in Nat /\ f[Len(q)] <= Sent(w) + stray
      BY <1>1, <1>3, <2>1 DEF Numbers
    <3>2. stray \in Nat /\ stray' \in Nat /\ stray <= stray'  BY DEF Extends, StateTypes
    <3>3. QED  BY <1>2, <3>1, <3>2
  <2>5. QED  BY <2>1, <2>2, <2>3, <2>4 DEF Numbers
<1>5. QED  BY <1>1, <1>3, <1>4 DEF Numbered

\* What a worker has stays on time while it takes and counts nothing.
LEMMA HeldStays ==
  ASSUME StateTypes, Extends, NEW w \in Worker, HeldOnTime(w),
         UNCHANGED <<cur_interval[w], tot_byte[w]>>,
         kpc'[w] = "handle" => kpc[w] = "handle" /\ received'[w] = received[w]
  PROVE  HeldOnTime(w)'
<1>1. PICK n \in Nat: n = cur_interval[w]  BY DEF StateTypes
<1>2. ASSUME kpc'[w] = "handle", received'[w].flag = "NORMAL"
      PROVE  OnTime(n, received[w].pkt)'
  <2>1. PICK p: p = received[w].pkt  OBVIOUS
  <2>2. OnTime(n, p)'  BY <1>1, <1>2, <2>1, OnTimeStays DEF HeldOnTime
  <2>3. QED  BY <1>2, <2>1, <2>2 DEF OnTime
<1>3. ASSUME NEW j \in DOMAIN tot_byte[w] PROVE OnTime(n, tot_byte[w][j])'
  <2>1. PICK p: p = tot_byte[w][j]  OBVIOUS
  <2>2. OnTime(n, p)'  BY <1>1, <2>1, OnTimeStays DEF HeldOnTime
  <2>3. QED  BY <2>1, <2>2 DEF OnTime
<1>4. QED  BY <1>1, <1>2, <1>3 DEF HeldOnTime, OnTime

\* A worker that keeps what it holds keeps its packets on time.
LEMMA QuietLate ==
  ASSUME RingTypes, StateTypes, Extends, NEW w \in Worker, Late(w),
         i' \in Worker, StateTypes', Sent(w) <= Sent(w)', AtHand(w)' = AtHand(w),
         UNCHANGED <<queue[w], cur_interval[w], tot_byte[w]>>,
         kpc'[w] = "handle" => kpc[w] = "handle" /\ received'[w] = received[w]
  PROVE  Late(w)'
BY NumbersStay, HeldStays DEF Late, Numbered

\* So does one that is sent an end mark, which is counted, or a packet of the
\* interval main is in.
LEMMA SentLate ==
  ASSUME RingTypes, StateTypes, Extends, NEW w \in Worker, Late(w),
         i \in Worker, i' \in Worker, StateTypes', NEW v \in Tuple,
         queue'[w] = Append(queue[w], v),
         UNCHANGED <<cur_interval[w], tot_byte[w], kpc[w], received[w]>>,
         Sent(w) + stray + (IF v.flag = "PUNC" THEN 1 ELSE 0) <= Sent(w)' + stray',
         v.flag = "NORMAL" => /\ v.pkt \in DOMAIN interval_of'
                              /\ Sent(w) + stray <= interval_of'[v.pkt] + stray'
  PROVE  Late(w)'
<1>1. PICK f \in [0 .. Len(queue[w]) -> Nat]: Numbers(w, f)  BY DEF Late
<1>2. PICK q \in Seq(Tuple): q = queue[w]  BY DEF RingTypes
<1>3. PICK m \in Nat: m = Len(q)  BY <1>2
<1> DEFINE more == IF v.flag = "PUNC" THEN 1 ELSE 0
           g == [k \in 0 .. m + 1 |-> IF k = m + 1 THEN f[m] + more ELSE f[k]]
<1>4. Len(Append(q, v)) = m + 1 /\ Append(q, v)[m + 1] = v
      /\ \A k \in 1 .. m: Append(q, v)[k] = q[k]
  BY <1>2, <1>3
<1>5. f \in [0 .. m -> Nat] /\ g \in [0 .. m + 1 -> Nat]
  <2>1. f \in [0 .. m -> Nat]  BY <1>1, <1>2, <1>3
  <2>2. more \in Nat /\ f[m] \in Nat  BY <1>3, <2>1
  <2>3. ASSUME NEW k \in 0 .. m + 1
        PROVE  (IF k = m + 1 THEN f[m] + more ELSE f[k]) \in Nat
    BY <1>3, <2>1, <2>2
  <2>4. QED  BY <2>1, <2>3
<1>6. g[m + 1] = f[m] + more /\ \A k \in 0 .. m: g[k] = f[k]  BY <1>3
<1>7. Sent(w) \in Int /\ Sent(w)' \in Int /\ stray \in Nat /\ stray' \in Nat
  BY CountsAreInts DEF RingTypes, Sent, StateTypes
<1>8. PICK e \in Seq(Tuple): e = Append(q, v)
  <2>1. Append(q, v) \in Seq(Tuple)  BY <1>2
  <2>2. QED  BY <2>1
<1>9. Numbers(w, g)'
  <2> HIDE DEF g
  <2>1. queue'[w] = e /\ Len(e) = m + 1  BY <1>2, <1>4, <1>8
  <2>2. (AtHand(w) <= g[0])'
    <3>1. AtHand(w)' = AtHand(w)  BY DEF AtHand
    <3>2. AtHand(w) <= f[0]  BY <1>1 DEF Numbers
    <3>3. g[0] = f[0]  BY <1>3, <1>6
    <3>4. QED  BY <3>1, <3>2, <3>3
  <2>3. ASSUME NEW k \in 1 .. m + 1
        PROVE  /\ \A j \in 0 .. k - 1: g[j] <= g[k] /\ (e[k].flag = "PUNC" => g[j] < g[k])
               /\ e[k].flag = "NORMAL" => OnTime(g[k], e[k].pkt)'
    <3>1. CASE k = m + 1
      <4>1. e[k] = v  BY <1>4, <1>8, <3>1
      <4>2. ASSUME NEW j \in 0 .. m PROVE f[j] <= f[m] /\ g[j] = f[j] /\ f[j] \in Nat
        <5>1. j = m \/ (m \in 1 .. m /\ j \in 0 .. m - 1)  BY <1>3
        <5>2. j # m => f[j] <= f[m]  BY <1>1, <1>2, <1>3, <5>1 DEF Numbers
        <5>3. QED  BY <1>5, <1>6, <5>2
      <4>3. f[m] \in Nat /\ g[k] = f[m] + more  BY <1>3, <1>5, <1>6, <3>1
      <4>4. ASSUME v.flag = "NORMAL" PROVE OnTime(g[k], v.pkt)'
        <5>1. g[k] = f[m]  BY <4>3, <4>4
        <5>2. f[m] <= Sent(w) + stray  BY <1>1, <1>2, <1>3 DEF Numbers
        <5>3. interval_of'[v.pkt] \in Nat  BY <4>4 DEF Extends
        <5>4. QED  BY <1>7, <4>3, <4>4, <5>1, <5>2, <5>3 DEF OnTime
      <4>5. ASSUME NEW j \in 0 .. k - 1
            PROVE  g[j] <= g[k] /\ (v.flag = "PUNC" => g[j] < g[k])
        <5>1. j \in 0 .. m  BY <1>3, <3>1, <4>5
        <5>2. f[j] <= f[m] /\ g[j] = f[j] /\ f[j] \in Nat  BY <4>2, <5>1
        <5>3. more \in 0 .. 1 /\ (v.flag = "PUNC" => more = 1)  OBVIOUS
        <5>4. QED  BY <4>3, <5>2, <5>3
      <4>6. QED  BY <4>1, <4>4, <4>5
    <3>2. CASE k \in 1 .. m
      <4>1. e[k] = q[k] /\ g[k] = f[k] /\ f[k] \in Nat /\ \A j \in 0 .. k - 1: g[j] = f[j]
        BY <1>3, <1>4, <1>5, <1>6, <1>8, <3>2
      <4>2. q[k].flag = "NORMAL" => OnTime(f[k], q[k].pkt)'
        BY <1>1, <1>2, <1>3, <3>2, <4>1, OnTimeStays DEF Numbers
      <4>3. QED  BY <1>1, <1>2, <1>3, <3>2, <4>1, <4>2 DEF Numbers
    <3>3. QED  BY <1>3, <3>1, <3>2
  <2>4. g[m + 1] <= Sent(w)' + stray'
    <3>1. f[m] \in Nat /\ f[m] <= Sent(w) + stray  BY <1>1, <1>2, <1>3, <1>5 DEF Numbers
    <3>2. QED  BY <1>6, <1>7, <3>1
  <2>5. QED  BY <2>1, <2>2, <2>3, <2>4 DEF Numbers
<1>10. HeldOnTime(w)'  BY HeldStays DEF Late
<1>11. QED
  <2>1. Len(queue'[w]) = m + 1  BY <1>2, <1>4
  <2>2. QED  BY <1>5, <1>9, <1>10, <2>1 DEF Late

\* A worker that takes a tuple takes its number with it.
LEMMA ReadLate ==
  ASSUME RingInv, StateTypes, NEW w \in Worker, Late(w), WorkerReads(w)
  PROVE  Late(w)'
<1>1. PICK f \in [0 .. Len(queue[w]) -> Nat]: Numbers(w, f)  BY DEF Late
<1>2. PICK q \in Seq(Tuple): q = queue[w]  BY DEF RingInv, RingTypes
<1>3. PICK m \in Nat: m = Len(q)  BY <1>2
<1>4. m > 0 /\ kpc[w] = "read" /\ q # <<>>
  <2>1. visible[w] > 0 /\ visible[w] <= Len(queue[w]) /\ visible[w] \in Nat
    BY DEF WorkerReads, Read, RingInv, RingTypes
  <2>2. QED  BY <1>2, <1>3, <2>1 DEF WorkerReads
<1>5. /\ received'[w] = Head(q) /\ queue'[w] = Tail(q) /\ kpc'[w] = "handle"
      /\ UNCHANGED <<mainVars, skl, tot_byte, cur_interval, files, sem, aux>>
  BY <1>2 DEF WorkerReads, Read, RingInv, RingTypes, StateTypes
<1>6. PICK v \in Tuple: v = q[1]  BY <1>3, <1>4
<1>7. PICK e \in Seq(Tuple): e = Tail(q) /\ Len(e) = m - 1 /\ \A k \in 1 .. m - 1: e[k] = q[k + 1]
  <2>1. Tail(q) \in Seq(Tuple)  BY <1>4
  <2>2. Len(Tail(q)) = m - 1  BY <1>3, <1>4
  <2>3. ASSUME NEW k \in 1 .. m - 1 PROVE Tail(q)[k] = q[k + 1]  BY <1>3, <1>4
  <2>4. QED  BY <2>1, <2>2, <2>3
<1>8. /\ \A k \in 1 .. m:
            /\ \A j \in 0 .. k - 1: f[j] <= f[k] /\ (q[k].flag = "PUNC" => f[j] < f[k])
            /\ q[k].flag = "NORMAL" => OnTime(f[k], q[k].pkt)
      /\ f[m] <= Sent(w) + stray /\ cur_interval[w] <= f[0]
  BY <1>1, <1>2, <1>3, <1>4 DEF Numbers, AtHand
<1>9. f \in [0 .. m -> Nat] /\ cur_interval[w] \in Nat /\ cur_interval'[w] = cur_interval[w]
  BY <1>1, <1>2, <1>3, <1>5 DEF StateTypes
<1>10. f[0] <= f[1] /\ (v.flag = "PUNC" => f[0] < f[1]) /\ (v.flag = "NORMAL" => OnTime(f[1], v.pkt))
  BY <1>4, <1>6, <1>8
<1> DEFINE g == [k \in 0 .. m - 1 |-> f[k + 1]]
<1>11. g \in [0 .. m - 1 -> Nat]
  <2>1. ASSUME NEW k \in 0 .. m - 1 PROVE f[k + 1] \in Nat  BY <1>3, <1>9
  <2>2. QED  BY <2>1
<1>12. \A k \in 0 .. m - 1: g[k] = f[k + 1]  OBVIOUS
<1> HIDE DEF g
<1>13. Numbers(w, g)'
  <2>1. queue'[w] = e /\ Len(e) = m - 1  BY <1>5, <1>7
  <2>2. AtHand(w)' <= g[0]
    <3>1. received'[w] = v  BY <1>4, <1>5, <1>6
    <3>2. g[0] = f[1] /\ f[0] \in Nat /\ f[1] \in Nat
      <4>1. 0 \in 0 .. m - 1 /\ 0 \in 0 .. m /\ 1 \in 0 .. m  BY <1>3, <1>4
      <4>2. g[0] = f[0 + 1]  BY <1>12, <4>1
      <4>3. QED  BY <1>9, <4>1, <4>2
    <3>3. QED  BY <1>8, <1>9, <1>10, <3>1, <3>2 DEF AtHand
  <2>3. ASSUME NEW k \in 1 .. m - 1
        PROVE  /\ \A j \in 0 .. k - 1: g[j] <= g[k] /\ (e[k].flag = "PUNC" => g[j] < g[k])
               /\ e[k].flag = "NORMAL" => OnTime(g[k], e[k].pkt)'
    <3>1. k + 1 \in 1 .. m /\ e[k] = q[k + 1] /\ g[k] = f[k + 1]  BY <1>3, <1>7, <1>12
    <3>2. ASSUME NEW j \in 0 .. k - 1
          PROVE  g[j] <= g[k] /\ (e[k].flag = "PUNC" => g[j] < g[k])
      <4>1. g[j] = f[j + 1] /\ j + 1 \in 0 .. (k + 1) - 1  BY <1>3, <1>12
      <4>2. QED  BY <1>8, <3>1, <4>1
    <3>3. e[k].flag = "NORMAL" => OnTime(g[k], e[k].pkt)  BY <1>8, <3>1
    <3>4. QED  BY <1>5, <3>2, <3>3 DEF OnTime, aux
  <2>4. g[m - 1] <= Sent(w)' + stray'
    <3>1. g[m - 1] = f[m]  BY <1>3, <1>4, <1>12
    <3>2. Sent(w)' = Sent(w) /\ stray' = stray
      BY <1>5 DEF Sent, Closing, mainVars, aux
    <3>3. QED  BY <1>8, <3>1, <3>2
  <2>5. QED  BY <2>1, <2>2, <2>3, <2>4 DEF Numbers
<1>14. HeldOnTime(w)'
  <2>1. v.flag = "NORMAL" => OnTime(cur_interval[w], v.pkt)
    <3>1. ASSUME v.flag = "NORMAL" PROVE OnTime(cur_interval[w], v.pkt)
      <4>1. v.pkt \in DOMAIN interval_of /\ f[1] <= interval_of[v.pkt] + stray
        BY <1>10, <3>1 DEF OnTime
      <4>2. interval_of[v.pkt] \in Nat /\ stray \in Nat  BY <4>1 DEF StateTypes
      <4>3. f[0] \in Nat /\ f[1] \in Nat  BY <1>3, <1>4, <1>9
      <4>4. QED  BY <1>8, <1>9, <1>10, <4>1, <4>2, <4>3 DEF OnTime
    <3>2. QED  BY <3>1
  <2>2. received'[w] = v  BY <1>4, <1>5, <1>6
  <2>3. QED  BY <1>5, <2>1, <2>2 DEF Late, HeldOnTime, OnTime, aux
<1>15. QED
  <2>1. Len(queue'[w]) = m - 1  BY <1>5, <1>7
  <2>2. QED  BY <1>11, <1>13, <1>14, <2>1 DEF Late

\* A packet that is counted is on time, since it was when it was at hand.
LEMMA RecordLate ==
  ASSUME RingTypes, StateTypes, NEW w \in Worker, Late(w), StateTypes', RecordPacket(w)
  PROVE  Late(w)'
<1>1. /\ kpc[w] = "handle" /\ received[w].flag = "NORMAL" /\ kpc'[w] = "read"
      /\ tot_byte'[w] = Append(tot_byte[w], received[w].pkt)
      /\ UNCHANGED <<rings, mainVars, cur_interval, files, sem, aux>>
  BY DEF RecordPacket, StateTypes
<1>2. Extends  BY <1>1 DEF Extends, StateTypes, aux
<1>3. Numbered(w)'
  <2>1. AtHand(w)' = AtHand(w)  BY <1>1 DEF AtHand
  <2>2. Sent(w)' = Sent(w) /\ Sent(w) \in Int /\ i' \in Worker
    BY <1>1, CountsAreInts DEF Sent, Closing, mainVars, aux, RingTypes
  <2>3. UNCHANGED queue[w]  BY <1>1 DEF rings
  <2>4. QED  BY <1>2, <2>1, <2>2, <2>3, NumbersStay DEF Late, Numbered
<1>4. HeldOnTime(w)'
  <2>1. OnTime(cur_interval[w], received[w].pkt) /\ cur_interval'[w] = cur_interval[w]
    BY <1>1 DEF Late, HeldOnTime
  <2>2. PICK s \in Seq(0 .. MaxPackets): s = tot_byte[w]  BY DEF StateTypes
  <2>3. \A j \in DOMAIN s: OnTime(cur_interval[w], s[j])  BY <2>2 DEF Late, HeldOnTime
  <2>4. PICK p \in 0 .. MaxPackets: p = received[w].pkt  BY DEF RingTypes, Tuple
  <2>5. \A j \in DOMAIN Append(s, p): \/ j \in DOMAIN s /\ Append(s, p)[j] = s[j]
                                      \/ Append(s, p)[j] = p
    BY <2>2
  <2>6. \A j \in DOMAIN Append(s, p): OnTime(cur_interval[w], Append(s, p)[j])
    BY <2>1, <2>3, <2>4, <2>5
  <2>7. QED  BY <1>1, <2>1, <2>2, <2>4, <2>6 DEF HeldOnTime, OnTime, aux
<1>5. QED  BY <1>3, <1>4 DEF Late, Numbered

\* A worker that answers an end mark has counted nothing in its new interval.
LEMMA EndLate ==
  ASSUME RingTypes, StateTypes, NEW w \in Worker, Late(w), StateTypes', EndInterval(w)
  PROVE  Late(w)'
<1>1. /\ kpc[w] = "handle" /\ received[w].flag = "PUNC" /\ kpc'[w] = "read"
      /\ tot_byte'[w] = <<>> /\ cur_interval'[w] = cur_interval[w] + 1
      /\ UNCHANGED <<rings, mainVars, aux>>
  BY DEF EndInterval, StateTypes
<1>2. Extends  BY <1>1 DEF Extends, StateTypes, aux
<1>3. Numbered(w)'
  <2>1. AtHand(w)' = AtHand(w)  BY <1>1 DEF AtHand
  <2>2. Sent(w)' = Sent(w) /\ Sent(w) \in Int /\ i' \in Worker
    BY <1>1, CountsAreInts DEF Sent, Closing, mainVars, aux, RingTypes
  <2>3. UNCHANGED queue[w]  BY <1>1 DEF rings
  <2>4. QED  BY <1>2, <2>1, <2>2, <2>3, NumbersStay DEF Late, Numbered
<1>4. HeldOnTime(w)'  BY <1>1 DEF HeldOnTime
<1>5. QED  BY <1>3, <1>4 DEF Late, Numbered

-----------------------------------------------------------------------------
(* Every step keeps the invariant *)

WorkerStep(w) ==
    \/ EndBatch(w) \/ WorkerReady(w) \/ WorkerReads(w)
    \/ RecordPacket(w) \/ EndInterval(w) \/ Finish(w)

LEMMA TypesStep ==
  ASSUME IndInv, [Next]_vars
  PROVE  StateTypes'
<1> USE DEF IndInv, RingInv, RingTypes, StateTypes
<1>1. CASE CreateWorker  BY <1>1 DEF CreateWorker, aux
<1>2. CASE AwaitWorker
  <2>1. sem[i] - 1 \in Nat  BY <1>2 DEF AwaitWorker
  <2>2. QED  BY <1>2, <2>1 DEF AwaitWorker, workerVars, aux
<1>3. CASE NextPacket
  <2>1. Append(ended, interval_cnt) \in Seq(Nat)  OBVIOUS
  <2>2. /\ ended' \in {ended, Append(ended, interval_cnt)} /\ interval_cnt' \in {interval_cnt, 0}
        /\ mpc' \in {"put", "punc"} /\ UNCHANGED <<workerVars, sem, interval_of, stray>>
    BY <1>3 DEF NextPacket
  <2>3. ended' \in Seq(Nat)  BY <2>1, <2>2
  <2>4. interval_cnt' \in Nat  BY <2>2
  <2>5. QED  BY <2>2, <2>3, <2>4 DEF workerVars
<1>4. CASE PutPunc  BY <1>4 DEF PutPunc, workerVars, aux
<1>5. CASE FlushPunc  BY <1>5 DEF FlushPunc, workerVars, aux
<1>6. CASE AwaitPunc
  <2>1. sem[i] - 1 \in Nat  BY <1>6 DEF AwaitPunc
  <2>2. QED  BY <1>6, <2>1 DEF AwaitPunc, workerVars, aux
<1>7. CASE PutPacket
  <2>1. Append(interval_of, Len(ended)) \in Seq(Nat)  OBVIOUS
  <2>2. /\ stray' \in {stray, stray + 1} /\ interval_cnt' = interval_cnt + 1 /\ mpc' = "read"
        /\ interval_of' = Append(interval_of, Len(ended)) /\ UNCHANGED <<workerVars, sem, ended>>
    BY <1>7 DEF PutPacket
  <2>3. QED  BY <2>1, <2>2 DEF workerVars
<1>8. ASSUME NEW w \in Worker, WorkerStep(w) PROVE StateTypes'
  <2>1. CASE EndBatch(w)  BY <2>1 DEF EndBatch, mainVars, workerVars, aux
  <2>2. CASE WorkerReady(w)
    <3>1. sem[w] + 1 \in Nat  OBVIOUS
    <3>2. QED  BY <2>2, <3>1 DEF WorkerReady, mainVars, aux
  <2>3. CASE WorkerReads(w)  BY <2>3 DEF WorkerReads, mainVars, aux
  <2>4. CASE RecordPacket(w)
    <3>1. received[w].pkt \in 0 .. MaxPackets  BY DEF Tuple
    <3>2. Append(tot_byte[w], received[w].pkt) \in Seq(0 .. MaxPackets)  BY <3>1
    <3>3. QED  BY <2>4, <3>2 DEF RecordPacket, mainVars, aux
  <2>5. CASE EndInterval(w)
    <3> HIDE DEF RingInv, RingTypes
    <3>1. sem[w] + 1 \in Nat /\ cur_interval[w] + 1 \in Nat  OBVIOUS
    <3>2. <<>> \in Seq(0 .. MaxPackets)  OBVIOUS
    <3>3. QED  BY <2>5, <3>1, <3>2 DEF EndInterval, mainVars, aux
  <2>6. CASE Finish(w)  BY <2>6 DEF Finish, mainVars, aux
  <2>7. QED  BY <1>8, <2>1, <2>2, <2>3, <2>4, <2>5, <2>6 DEF WorkerStep
<1>9. CASE UNCHANGED vars  BY <1>9 DEF vars, mainVars, workerVars, aux
<1>10. QED  BY <1>1, <1>2, <1>3, <1>4, <1>5, <1>6, <1>7, <1>8, <1>9 DEF Next, WorkerStep

LEMMA MainStep ==
  ASSUME IndInv, [Next]_vars
  PROVE  MainInv'
<1> USE DEF IndInv, RingInv, MainInv, Closing
<1>0. /\ i \in Worker /\ cur \in 0 .. MaxPackets /\ mpc \in {"create", "ready", "read", "punc", "flush", "wait", "put"}
      /\ interval_cnt \in Nat /\ ended \in Seq(Nat) /\ interval_of \in Seq(Nat)
  BY DEF RingTypes, StateTypes
<1>1. CASE CreateWorker
  <2>1. /\ mpc = "create" /\ mpc' = "ready" /\ kpc' = [kpc EXCEPT ![i] = "start"]
        /\ UNCHANGED <<i, cur, ended, interval_of>>
    BY <1>1 DEF CreateWorker, aux
  <2>2. ASSUME NEW w \in Worker, w > i PROVE kpc'[w] = "none"
    <3>1. kpc[w] = "none"  BY <1>0, <2>1, <2>2 DEF Worker
    <3>2. QED  BY <1>0, <2>1, <2>2, <3>1 DEF StateTypes, Worker
  <2>3. QED  BY <2>1, <2>2
<1>2. CASE AwaitWorker
  <2>1. /\ mpc = "ready" /\ UNCHANGED <<kpc, cur, ended, interval_of>>
        /\ \/ i' = i + 1 /\ mpc' = "create"
           \/ i' = 1 /\ mpc' = "read"
    BY <1>2 DEF AwaitWorker, workerVars, aux
  <2>2. ASSUME NEW w \in Worker, w >= i + 1 PROVE kpc[w] = "none"
    BY <1>0, <2>1, <2>2 DEF Worker
  <2>3. Len(interval_of) = 0 /\ DOMAIN interval_of = {}  BY <1>0, <2>1
  <2>4. QED  BY <2>1, <2>2, <2>3
<1>3. CASE NextPacket
  <2>1. /\ mpc = "read" /\ cur' = cur + 1 /\ UNCHANGED <<i, interval_of>>
        /\ \/ mpc' = "put" /\ ended' = ended
           \/ mpc' = "punc" /\ ended' = Append(ended, interval_cnt)
    BY <1>3 DEF NextPacket
  <2>2. Len(ended) \in Nat /\ Len(Append(ended, interval_cnt)) = Len(ended) + 1  BY <1>0
  <2>3. \A p \in DOMAIN interval_of: interval_of[p] <= Len(ended)  BY <2>1
  <2>4. Len(interval_of') = cur' - 1  BY <1>0, <2>1
  <2>5. CASE mpc' = "put" /\ ended' = ended  BY <2>1, <2>2, <2>3, <2>4, <2>5
  <2>6. CASE mpc' = "punc" /\ ended' = Append(ended, interval_cnt)
    <3>1. Len(ended') = Len(ended) + 1 /\ Len(ended') - 1 = Len(ended)  BY <2>2, <2>6
    <3>2. \A p \in DOMAIN interval_of': interval_of'[p] <= Len(ended') - 1
      BY <2>1, <2>3, <3>1
    <3>3. QED  BY <2>1, <2>2, <2>4, <2>6, <3>1, <3>2
  <2>7. QED  BY <2>1, <2>5, <2>6
<1>4. CASE PutPunc  BY <1>4 DEF PutPunc, aux
<1>5. CASE FlushPunc  BY <1>5 DEF FlushPunc, aux
<1>6. CASE AwaitPunc
  <2>1. Len(ended) \in Nat /\ \A p \in DOMAIN interval_of: interval_of[p] \in Nat  BY <1>0
  <2>2. QED  BY <1>0, <1>6, <2>1 DEF AwaitPunc, aux
<1>7. CASE PutPacket
  <2>1. /\ mpc = "put" /\ mpc' = "read" /\ UNCHANGED <<i, cur, ended>>
        /\ interval_of' = Append(interval_of, Len(ended))
    BY <1>7 DEF PutPacket
  <2>2. Len(ended) \in Nat /\ Len(interval_of') = Len(interval_of) + 1  BY <1>0, <2>1
  <2>3. \A p \in DOMAIN interval_of':
            \/ interval_of'[p] = Len(ended)
            \/ p \in DOMAIN interval_of /\ interval_of'[p] = interval_of[p]
    BY <1>0, <2>1
  <2>4. QED  BY <1>0, <2>1, <2>2, <2>3
<1>8. ASSUME NEW w \in Worker, WorkerStep(w) PROVE MainInv'
  <2>1. UNCHANGED <<i, cur, mpc, ended, interval_of>>
    BY <1>8 DEF WorkerStep, EndBatch, WorkerReady, WorkerReads, RecordPacket, EndInterval, Finish,
                mainVars, aux
  <2>2. \/ UNCHANGED kpc
        \/ kpc[w] # "none" /\ \E c \in {"read", "handle", "exit"}: kpc' = [kpc EXCEPT ![w] = c]
    BY <1>8 DEF WorkerStep, EndBatch, WorkerReady, WorkerReads, RecordPacket, EndInterval, Finish,
                workerVars
  <2>3. ASSUME NEW x \in Worker, kpc[x] = "none" PROVE kpc'[x] = "none"
    BY <2>2, <2>3 DEF StateTypes
  <2>4. QED  BY <2>1, <2>3
<1>9. CASE UNCHANGED vars  BY <1>9 DEF vars, mainVars, workerVars, aux
<1>10. QED  BY <1>1, <1>2, <1>3, <1>4, <1>5, <1>6, <1>7, <1>8, <1>9 DEF Next, WorkerStep

LEMMA SemStep ==
  ASSUME IndInv, [Next]_vars, RingTypes', StateTypes'
  PROVE  SemInv'
<1> USE DEF IndInv, RingInv
<1>0. /\ i \in Worker /\ i' \in Worker /\ Len(ended) \in Nat
      /\ mpc \in {"create", "ready", "read", "punc", "flush", "wait", "put"}
      /\ sem \in [Worker -> Nat] /\ cur_interval \in [Worker -> Nat]
      /\ kpc \in [Worker -> {"none", "start", "read", "handle", "exit"}]
  <2>1. ended \in Seq(Nat)  BY DEF StateTypes
  <2>2. Len(ended) \in Nat  BY <2>1
  <2>3. QED  BY <2>2 DEF RingTypes, StateTypes
<1>1. SUFFICES ASSUME NEW w \in Worker
      PROVE  cur_interval'[w] + Started(w)' = sem'[w] + Awaited(w)' + Seen(w)'
  BY DEF SemInv
<1>2. cur_interval[w] + Started(w) = sem[w] + Awaited(w) + Seen(w)  BY DEF SemInv
<1>3. w \in Int /\ i \in Int /\ i' \in Int /\ 1 <= w /\ w <= NumThread /\ NumThread \in Int
      /\ i <= NumThread
  BY <1>0, OvsAssumption DEF Worker
<1>4. ASSUME UNCHANGED <<i, ended, mpc>>
      PROVE  Awaited(w)' = Awaited(w) /\ Seen(w)' = Seen(w)
  BY <1>4 DEF Awaited, Seen, Closing
<1>5. ASSUME UNCHANGED <<kpc, sem, cur_interval>>
      PROVE  Started(w)' = Started(w) /\ sem'[w] = sem[w] /\ cur_interval'[w] = cur_interval[w]
  BY <1>5 DEF Started
<1>6. Awaited(w) \in Int /\ Seen(w) \in Int /\ Started(w) \in Int
      /\ cur_interval[w] \in Nat /\ sem[w] \in Nat
  BY <1>0 DEF Awaited, Seen, Started
<1>7. CASE CreateWorker
  <2>1. mpc = "create" /\ mpc' = "ready" /\ kpc' = [kpc EXCEPT ![i] = "start"]
        /\ UNCHANGED <<i, ended, sem, cur_interval>>
    BY <1>7 DEF CreateWorker, aux
  <2>2. Awaited(w)' = Awaited(w) /\ Seen(w)' = Seen(w)  BY <2>1 DEF Awaited, Seen, Closing
  <2>3. Started(w)' = Started(w)
    <3>1. CASE w = i
      <4>1. kpc[w] = "none"  BY <1>3, <2>1, <3>1 DEF MainInv
      <4>2. QED  BY <1>0, <2>1, <3>1, <4>1 DEF Started
    <3>2. CASE w # i  BY <1>0, <2>1, <3>2 DEF Started
    <3>3. QED  BY <3>1, <3>2
  <2>4. QED  BY <1>2, <2>1, <2>2, <2>3
<1>8. CASE AwaitWorker
  <2>1. /\ mpc = "ready" /\ sem[i] > 0 /\ sem' = [sem EXCEPT ![i] = sem[i] - 1]
        /\ UNCHANGED <<ended, kpc, cur_interval>>
        /\ \/ i' = i + 1 /\ mpc' = "create"
           \/ i = NumThread /\ mpc' = "read"
    BY <1>8 DEF AwaitWorker, workerVars, aux
  <2>2. Awaited(w)' = Awaited(w)  BY <2>1 DEF Awaited, Closing
  <2>3. Started(w)' = Started(w)  BY <2>1 DEF Started
  <2>4. CASE w = i
    <3>1. Seen(w) = 0 /\ Seen(w)' = 1  BY <1>3, <2>1, <2>4 DEF Seen
    <3>2. sem'[w] = sem[w] - 1  BY <1>0, <2>1, <2>4
    <3>3. QED  BY <1>2, <1>6, <2>1, <2>2, <2>3, <3>1, <3>2
  <2>5. CASE w # i
    <3>1. Seen(w)' = Seen(w)  BY <1>3, <2>1, <2>5 DEF Seen
    <3>2. sem'[w] = sem[w]  BY <1>0, <2>1, <2>5
    <3>3. QED  BY <1>2, <2>1, <2>2, <2>3, <3>1, <3>2
  <2>6. QED  BY <2>4, <2>5
<1>9. CASE NextPacket
  <2>1. /\ mpc = "read" /\ UNCHANGED <<i, sem, kpc, cur_interval>>
        /\ \/ mpc' = "put" /\ ended' = ended
           \/ mpc' = "punc" /\ ended' = Append(ended, interval_cnt)
    BY <1>9 DEF NextPacket, workerVars
  <2>2. i = 1  BY <2>1 DEF MainInv
  <2>3. Len(Append(ended, interval_cnt)) = Len(ended) + 1  BY DEF StateTypes
  <2>4. Awaited(w)' = Awaited(w)  BY <1>0, <1>3, <2>1, <2>2, <2>3 DEF Awaited, Closing
  <2>5. Seen(w)' = Seen(w)  BY <2>1 DEF Seen
  <2>6. QED  BY <1>2, <1>5, <2>1, <2>4, <2>5
<1>10. CASE PutPunc \/ FlushPunc
  <2>1. /\ mpc \in {"punc", "flush"} /\ mpc' \in {"flush", "wait"}
        /\ UNCHANGED <<i, ended, sem, kpc, cur_interval>>
    BY <1>10 DEF PutPunc, FlushPunc, workerVars, aux
  <2>2. Awaited(w)' = Awaited(w) /\ Seen(w)' = Seen(w)  BY <2>1 DEF Awaited, Seen, Closing
  <2>3. QED  BY <1>2, <1>5, <2>1, <2>2
<1>11. CASE AwaitPunc
  <2>1. /\ mpc = "wait" /\ sem[i] > 0 /\ sem' = [sem EXCEPT ![i] = sem[i] - 1]
        /\ UNCHANGED <<ended, kpc, cur_interval>>
        /\ \/ i' = i + 1 /\ mpc' = "punc"
           \/ i = NumThread /\ mpc' = "put"
    BY <1>11 DEF AwaitPunc, workerVars, aux
  <2>2. Seen(w)' = Seen(w)  BY <2>1 DEF Seen
  <2>3. Started(w)' = Started(w)  BY <2>1 DEF Started
  <2>4. CASE w = i
    <3>1. Awaited(w)' = Awaited(w) + 1  BY <1>0, <1>3, <2>1, <2>4 DEF Awaited, Closing
    <3>2. sem'[w] = sem[w] - 1  BY <1>0, <2>1, <2>4
    <3>3. QED  BY <1>2, <1>6, <2>1, <2>2, <2>3, <3>1, <3>2
  <2>5. CASE w # i
    <3>1. Awaited(w)' = Awaited(w)  BY <1>0, <1>3, <2>1, <2>5 DEF Awaited, Closing
    <3>2. sem'[w] = sem[w]  BY <1>0, <2>1, <2>5
    <3>3. QED  BY <1>2, <2>1, <2>2, <2>3, <3>1, <3>2
  <2>6. QED  BY <2>4, <2>5
<1>12. CASE PutPacket
  <2>1. mpc = "put" /\ mpc' = "read" /\ UNCHANGED <<i, ended, sem, kpc, cur_interval>>
    BY <1>12 DEF PutPacket, workerVars
  <2>2. Awaited(w)' = Awaited(w) /\ Seen(w)' = Seen(w)  BY <2>1 DEF Awaited, Seen, Closing
  <2>3. QED  BY <1>2, <1>5, <2>1, <2>2
<1>13. ASSUME NEW x \in Worker, WorkerStep(x)
       PROVE  cur_interval'[w] + Started(w)' = sem'[w] + Awaited(w)' + Seen(w)'
  <2>1. UNCHANGED <<i, ended, mpc>>
    BY <1>13 DEF WorkerStep, EndBatch, WorkerReady, WorkerReads, RecordPacket, EndInterval, Finish,
                 mainVars, aux
  <2>2. Awaited(w)' = Awaited(w) /\ Seen(w)' = Seen(w)  BY <1>4, <2>1
  <2>3. ASSUME UNCHANGED <<sem, cur_interval>>, Started(w)' = Started(w)
        PROVE  cur_interval'[w] + Started(w)' = sem'[w] + Awaited(w)' + Seen(w)'
    BY <1>2, <2>2, <2>3
  <2>4. CASE EndBatch(x)  BY <1>5, <2>3, <2>4 DEF EndBatch, workerVars
  <2>5. CASE WorkerReady(x)
    <3>1. /\ kpc[x] = "start" /\ sem' = [sem EXCEPT ![x] = sem[x] + 1]
          /\ kpc' = [kpc EXCEPT ![x] = "read"] /\ UNCHANGED cur_interval
      BY <2>5 DEF WorkerReady
    <3>2. CASE w = x
      <4>1. sem'[w] = sem[w] + 1 /\ Started(w) = 0 /\ Started(w)' = 1
        BY <1>0, <3>1, <3>2 DEF Started
      <4>2. QED  BY <1>2, <1>6, <2>2, <3>1, <4>1
    <3>3. CASE w # x
      <4>1. sem'[w] = sem[w] /\ Started(w)' = Started(w)  BY <1>0, <3>1, <3>3 DEF Started
      <4>2. QED  BY <1>2, <2>2, <3>1, <4>1
    <3>4. QED  BY <3>2, <3>3
  <2>6. CASE WorkerReads(x) \/ RecordPacket(x) \/ Finish(x)
    <3>1. /\ kpc[x] \in {"read", "handle"} /\ UNCHANGED <<sem, cur_interval>>
          /\ \E c \in {"read", "handle", "exit"}: kpc' = [kpc EXCEPT ![x] = c]
      BY <2>6 DEF WorkerReads, RecordPacket, Finish
    <3>2. Started(w)' = Started(w)  BY <1>0, <3>1 DEF Started
    <3>3. QED  BY <2>3, <3>1, <3>2
  <2>7. CASE EndInterval(x)
    <3>1. /\ kpc[x] = "handle" /\ sem' = [sem EXCEPT ![x] = sem[x] + 1]
          /\ kpc' = [kpc EXCEPT ![x] = "read"]
          /\ cur_interval' = [cur_interval EXCEPT ![x] = cur_interval[x] + 1]
      BY <2>7 DEF EndInterval
    <3>2. Started(w)' = Started(w)  BY <1>0, <3>1 DEF Started
    <3>3. CASE w = x
      <4>1. sem'[w] = sem[w] + 1 /\ cur_interval'[w] = cur_interval[w] + 1  BY <1>0, <3>1, <3>3
      <4>2. QED  BY <1>2, <1>6, <2>2, <3>2, <4>1
    <3>4. CASE w # x
      <4>1. sem'[w] = sem[w] /\ cur_interval'[w] = cur_interval[w]  BY <1>0, <3>1, <3>4
      <4>2. QED  BY <1>2, <2>2, <3>2, <4>1
    <3>5. QED  BY <3>3, <3>4
  <2>8. QED  BY <1>13, <2>4, <2>5, <2>6, <2>7 DEF WorkerStep
<1>14. CASE UNCHANGED vars
  BY <1>2, <1>4, <1>5, <1>14 DEF vars, mainVars, workerVars, aux
<1>15. QED
  BY <1>7, <1>8, <1>9, <1>10, <1>11, <1>12, <1>13, <1>14 DEF Next, WorkerStep

LEMMA LateStep ==
  ASSUME IndInv, [Next]_vars, RingTypes', StateTypes', MainInv'
  PROVE  LateInv'
<1> USE DEF IndInv, RingInv
<1>0. /\ RingTypes /\ StateTypes /\ i \in Worker /\ i' \in Worker /\ Len(ended) \in Nat
      /\ mpc \in {"create", "ready", "read", "punc", "flush", "wait", "put"}
  <2>1. ended \in Seq(Nat)  BY DEF StateTypes
  <2>2. Len(ended) \in Nat  BY <2>1
  <2>3. QED  BY <2>2 DEF RingTypes, StateTypes
<1>1. SUFFICES ASSUME NEW w \in Worker PROVE Late(w)'  BY DEF LateInv
<1>2. Late(w)  BY DEF LateInv
<1>3. w \in Int /\ i \in Int /\ 1 <= w /\ w <= NumThread /\ i <= NumThread /\ NumThread \in Int
  BY <1>0, OvsAssumption DEF Worker
<1>4. ASSUME UNCHANGED <<interval_of, stray>> PROVE Extends
  BY <1>4 DEF Extends, StateTypes
<1>5. Sent(w) \in Int /\ Sent(w) <= Len(ended)  BY <1>0, CountsAreInts
\* Steps that leave the worker what it holds.
<1>6. ASSUME UNCHANGED <<interval_of, stray, queue, cur_interval, tot_byte>>,
             Sent(w) <= Sent(w)', AtHand(w)' = AtHand(w),
             kpc'[w] = "handle" => kpc[w] = "handle" /\ received'[w] = received[w]
      PROVE  Late(w)'
  BY <1>0, <1>2, <1>4, <1>6, QuietLate
<1>7. ASSUME UNCHANGED <<interval_of, stray, queue, received, workerVars>>, Sent(w) <= Sent(w)'
      PROVE  Late(w)'
  BY <1>6, <1>7 DEF AtHand, workerVars
<1>8. ASSUME UNCHANGED <<i, mpc, ended>> PROVE Sent(w)' = Sent(w)
  BY <1>8 DEF Sent, Closing
<1>9. CASE CreateWorker
  <2>1. /\ mpc = "create" /\ mpc' = "ready" /\ kpc' = [kpc EXCEPT ![i] = "start"]
        /\ UNCHANGED <<i, ended, interval_of, stray, queue, received, cur_interval, tot_byte>>
    BY <1>9 DEF CreateWorker, aux, rings
  <2>2. Sent(w)' = Sent(w)  BY <2>1 DEF Sent, Closing
  <2>3. kpc[i] = "none"  BY <1>0, <1>3, <2>1 DEF MainInv
  <2>4. w # i => kpc'[w] = kpc[w]  BY <1>0, <2>1 DEF StateTypes
  <2>5. kpc'[i] = "start"  BY <1>0, <2>1 DEF StateTypes
  <2>6. AtHand(w)' = AtHand(w)  BY <2>1, <2>3, <2>4, <2>5 DEF AtHand
  <2>7. QED  BY <1>5, <1>6, <2>1, <2>2, <2>4, <2>5, <2>6
<1>10. CASE AwaitWorker
  <2>1. /\ mpc = "ready" /\ mpc' \in {"create", "read"} /\ UNCHANGED <<rings, ended, workerVars, aux>>
    BY <1>10 DEF AwaitWorker, aux
  <2>2. Sent(w)' = Sent(w)  BY <2>1 DEF Sent, Closing, aux
  <2>3. QED  BY <1>5, <1>7, <2>1, <2>2 DEF rings, aux
<1>11. CASE NextPacket
  <2>1. /\ mpc = "read" /\ UNCHANGED <<rings, i, workerVars, interval_of, stray>>
        /\ \/ mpc' = "put" /\ ended' = ended
           \/ mpc' = "punc" /\ ended' = Append(ended, interval_cnt)
    BY <1>11 DEF NextPacket
  <2>2. i = 1  BY <2>1 DEF MainInv
  <2>3. Len(Append(ended, interval_cnt)) = Len(ended) + 1  BY DEF StateTypes
  <2>4. Sent(w)' = Sent(w)  BY <1>0, <1>3, <2>1, <2>2, <2>3 DEF Sent, Closing
  <2>5. QED  BY <1>5, <1>7, <2>1, <2>4 DEF rings
<1>12. CASE PutPunc
  <2>1. /\ mpc = "punc" /\ mpc' = "flush" /\ Write(i, Punc)
        /\ UNCHANGED <<received, i, workerVars, ended, interval_of, stray>>
    BY <1>12 DEF PutPunc, aux
  <2>2. queue' = [queue EXCEPT ![i] = Append(queue[i], Punc)]  BY <2>1 DEF Write
  <2>3. CASE w = i
    <3>1. Sent(w)' = Sent(w) + 1  BY <1>0, <1>3, <2>1, <2>3 DEF Sent, Closing
    <3>2. queue'[w] = Append(queue[w], Punc)  BY <1>0, <2>2, <2>3 DEF RingTypes
    <3>3. Punc \in Tuple /\ Punc.flag = "PUNC"  BY PuncType DEF Punc
    <3>4. stray \in Nat  BY DEF StateTypes
    <3>5. UNCHANGED <<cur_interval[w], tot_byte[w], kpc[w], received[w]>>  BY <2>1 DEF workerVars
    <3>6. Sent(w) + stray + (IF Punc.flag = "PUNC" THEN 1 ELSE 0) <= Sent(w)' + stray'
      BY <1>5, <2>1, <3>1, <3>3, <3>4
    <3>7. Punc.flag # "NORMAL"  BY <3>3
    <3>8. QED  BY <1>0, <1>2, <1>4, <2>1, <3>2, <3>3, <3>5, <3>6, <3>7, SentLate
  <2>4. CASE w # i
    <3>1. Sent(w)' = Sent(w)  BY <1>0, <1>3, <2>1, <2>4 DEF Sent, Closing
    <3>2. queue'[w] = queue[w]  BY <1>0, <2>2, <2>4 DEF RingTypes
    <3>3. UNCHANGED <<cur_interval, tot_byte, kpc, received>>  BY <2>1 DEF workerVars
    <3>4. AtHand(w)' = AtHand(w)  BY <3>3 DEF AtHand
    <3>5. Sent(w) <= Sent(w)'  BY <1>5, <3>1
    <3>6. QED  BY <1>0, <1>2, <1>4, <2>1, <3>2, <3>3, <3>4, <3>5, QuietLate
  <2>5. QED  BY <2>3, <2>4
<1>13. CASE FlushPunc
  <2>1. /\ mpc = "flush" /\ mpc' = "wait"
        /\ UNCHANGED <<queue, received, i, workerVars, ended, interval_of, stray>>
    BY <1>13 DEF FlushPunc, Flush, aux
  <2>2. Sent(w)' = Sent(w)  BY <2>1 DEF Sent, Closing
  <2>3. QED  BY <1>5, <1>7, <2>1, <2>2
<1>14. CASE AwaitPunc
  <2>1. /\ mpc = "wait" /\ UNCHANGED <<queue, received, workerVars, ended, interval_of, stray>>
        /\ \/ i' = i + 1 /\ mpc' = "punc"
           \/ i = NumThread /\ mpc' = "put"
    BY <1>14 DEF AwaitPunc, aux, rings
  <2>2. Sent(w)' = Sent(w)  BY <1>3, <2>1 DEF Sent, Closing
  <2>3. QED  BY <1>5, <1>7, <2>1, <2>2
<1>15. CASE PutPacket
  <2>1. /\ mpc = "put" /\ mpc' = "read" /\ UNCHANGED <<received, i, cur, workerVars, ended>>
        /\ interval_of' = Append(interval_of, Len(ended))
    BY <1>15 DEF PutPacket
  <2>2. PICK f \in {"NORMAL", "PUNC", "TERM"}:
          /\ Write(index, [flag |-> f, pkt |-> cur])
          /\ (f = "NORMAL" /\ stray' = stray) \/ stray' = stray + 1
    BY <1>15 DEF PutPacket
  <2>3. PICK v \in Tuple: v = [flag |-> f, pkt |-> cur]
    <3>1. cur \in 0 .. MaxPackets  BY DEF RingTypes
    <3>2. QED  BY <3>1, PacketType
  <2>4. queue' = [queue EXCEPT ![index] = Append(queue[index], v)]  BY <2>2, <2>3 DEF Write
  <2>5. stray \in Nat /\ stray' \in Nat /\ stray <= stray'  BY <2>2 DEF StateTypes
  <2>6. interval_of \in Seq(Nat) /\ interval_of' \in Seq(Nat)  BY DEF StateTypes
  <2>7. Extends  BY <2>1, <2>5, <2>6 DEF Extends
  <2>8. Sent(w) = Len(ended) /\ Sent(w)' = Len(ended)  BY <2>1 DEF Sent, Closing
  <2>9. CASE w = index
    <3>1. queue'[w] = Append(queue[w], v)  BY <1>0, <2>4, <2>9 DEF RingTypes
    <3>2. v.flag = f /\ v.pkt = cur  BY <2>3
    <3>3. Sent(w) + stray + (IF v.flag = "PUNC" THEN 1 ELSE 0) <= Sent(w)' + stray'
      BY <1>0, <2>2, <2>5, <2>8, <3>2
    <3>4. cur \in DOMAIN interval_of' /\ interval_of'[cur] = Len(ended)
      <4>1. Len(interval_of) = cur - 1 /\ cur \in Nat
        BY <2>1 DEF MainInv, Closing, RingTypes
      <4>2. QED  BY <2>1, <2>6, <4>1
    <3>5. v.flag = "NORMAL" => /\ v.pkt \in DOMAIN interval_of'
                               /\ Sent(w) + stray <= interval_of'[v.pkt] + stray'
      BY <1>0, <2>5, <2>8, <3>2, <3>4
    <3>6. UNCHANGED <<cur_interval[w], tot_byte[w], kpc[w], received[w]>>  BY <2>1 DEF workerVars
    <3>7. QED  BY <1>0, <1>2, <2>7, <3>1, <3>3, <3>5, <3>6, SentLate
  <2>10. CASE w # index
    <3>1. queue'[w] = queue[w]  BY <1>0, <2>4, <2>10 DEF RingTypes
    <3>2. UNCHANGED <<cur_interval, tot_byte, kpc, received>>  BY <2>1 DEF workerVars
    <3>3. AtHand(w)' = AtHand(w)  BY <3>2 DEF AtHand
    <3>4. Sent(w) <= Sent(w)'  BY <1>0, <2>8
    <3>5. QED  BY <1>0, <1>2, <2>7, <3>1, <3>2, <3>3, <3>4, QuietLate
  <2>11. QED  BY <2>9, <2>10
<1>16. ASSUME NEW x \in Worker, WorkerStep(x) PROVE Late(w)'
  <2>1. UNCHANGED <<i, mpc, ended, interval_of, stray>>
    BY <1>16 DEF WorkerStep, EndBatch, WorkerReady, WorkerReads, RecordPacket, EndInterval, Finish,
                 mainVars, aux
  <2>2. Sent(w)' = Sent(w) /\ Sent(w) <= Sent(w)'  BY <1>5, <1>8, <2>1
  <2>3. CASE w = x
    <3>1. CASE EndBatch(x)  BY <1>7, <2>1, <2>2, <3>1 DEF EndBatch, Flush
    <3>2. CASE WorkerReady(x) \/ Finish(x)
      <4>1. /\ UNCHANGED <<queue, received, cur_interval, tot_byte>>
            /\ \/ kpc[x] = "start" /\ kpc' = [kpc EXCEPT ![x] = "read"]
               \/ kpc[x] = "handle" /\ received[x].flag = "TERM" /\ kpc' = [kpc EXCEPT ![x] = "exit"]
        BY <3>2 DEF WorkerReady, Finish, rings
      <4>2. kpc'[w] # "handle" /\ AtHand(w)' = AtHand(w)  BY <2>3, <4>1 DEF AtHand, StateTypes
      <4>3. QED  BY <1>6, <2>1, <2>2, <4>1, <4>2
    <3>3. CASE WorkerReads(x)  BY <1>0, <1>2, <2>3, <3>3, ReadLate
    <3>4. CASE RecordPacket(x)  BY <1>0, <1>2, <2>3, <3>4, RecordLate
    <3>5. CASE EndInterval(x)  BY <1>0, <1>2, <2>3, <3>5, EndLate
    <3>6. QED  BY <1>16, <3>1, <3>2, <3>3, <3>4, <3>5 DEF WorkerStep
  <2>4. CASE w # x
    <3>1. queue'[w] = queue[w] /\ received'[w] = received[w]
      BY <1>0, <1>16, <2>4 DEF WorkerStep, EndBatch, WorkerReady, WorkerReads, RecordPacket,
           EndInterval, Finish, Read, Flush, rings, RingTypes
    <3>2. cur_interval'[w] = cur_interval[w] /\ tot_byte'[w] = tot_byte[w] /\ kpc'[w] = kpc[w]
      BY <1>0, <1>16, <2>4 DEF WorkerStep, EndBatch, WorkerReady, WorkerReads, RecordPacket,
           EndInterval, Finish, workerVars, StateTypes
    <3>3. AtHand(w)' = AtHand(w)  BY <3>1, <3>2 DEF AtHand
    <3>4. QED  BY <1>0, <1>2, <1>4, <2>1, <2>2, <3>1, <3>2, <3>3, QuietLate
  <2>5. QED  BY <2>3, <2>4
<1>17. CASE UNCHANGED vars
  BY <1>5, <1>7, <1>8, <1>17 DEF vars, mainVars, aux, rings
<1>18. QED
  BY <1>9, <1>10, <1>11, <1>12, <1>13, <1>14, <1>15, <1>16, <1>17 DEF Next, WorkerStep

\* No worker is ahead of the marks it has been sent, or behind those it has
\* answered.
LEMMA WorkerBounds ==
  ASSUME IndInv, NEW w \in Worker
  PROVE  AtHand(w) <= Sent(w) + stray /\ Awaited(w) + Seen(w) - 1 <= cur_interval[w]
<1> USE DEF IndInv, RingInv
<1>1. PICK f \in [0 .. Len(queue[w]) -> Nat]: Numbers(w, f)  BY DEF LateInv, Late
<1>2. PICK m \in Nat: m = Len(queue[w])  BY DEF RingTypes
<1>3. f[0] <= f[m]
  <2>1. f[0] \in Nat  BY <1>1, <1>2
  <2>2. CASE m = 0  BY <2>1, <2>2
  <2>3. CASE m # 0
    <3>1. m \in 1 .. m /\ 0 \in 0 .. m - 1  BY <1>2, <2>3
    <3>2. QED  BY <1>1, <1>2, <3>1 DEF Numbers
  <2>4. QED  BY <2>2, <2>3
<1>4. AtHand(w) <= Sent(w) + stray
  <2>1. f[0] \in Nat /\ f[m] \in Nat  BY <1>1, <1>2
  <2>2. AtHand(w) <= f[0] /\ f[m] <= Sent(w) + stray  BY <1>1, <1>2 DEF Numbers
  <2>3. i \in Worker  BY DEF RingTypes
  <2>4. AtHand(w) \in Nat /\ Sent(w) \in Int /\ stray \in Nat  BY <2>3, CountsAreInts DEF StateTypes
  <2>5. QED  BY <1>3, <2>1, <2>2, <2>4
<1>5. Awaited(w) + Seen(w) - 1 <= cur_interval[w]
  <2>1. cur_interval[w] + Started(w) = sem[w] + Awaited(w) + Seen(w)  BY DEF SemInv
  <2>2. Started(w) \in 0 .. 1 /\ Seen(w) \in 0 .. 1  BY DEF Started, Seen
  <2>3. i \in Worker  BY DEF RingTypes
  <2>4. cur_interval[w] \in Nat /\ sem[w] \in Nat /\ Awaited(w) \in Int
    BY <2>3, CountsAreInts DEF StateTypes
  <2>5. QED  BY <2>1, <2>2, <2>4
<1>6. QED  BY <1>4, <1>5

LEMMA FilesStep ==
  ASSUME IndInv, [Next]_vars, RingTypes', StateTypes'
  PROVE  FilesInv'
<1> USE DEF IndInv, RingInv
<1>1. /\ i \in Worker /\ i \in Int /\ 1 <= i /\ i <= NumThread /\ NumThread \in Worker
      /\ NumThread \in Int /\ ended \in Seq(Nat) /\ Len(ended) \in Nat /\ stray \in Nat
  <2>1. ended \in Seq(Nat)  BY DEF StateTypes
  <2>2. Len(ended) \in Nat  BY <2>1
  <2>3. QED  BY <2>1, <2>2, OvsAssumption DEF RingTypes, StateTypes, Worker
\* Steps without a file.
<1>2. ASSUME UNCHANGED <<files, cur_interval>>, Len(ended) <= Len(ended'), stray' = 0 => stray = 0,
             Len(ended') \in Nat
      PROVE  FilesInv'
  BY <1>1, <1>2 DEF FilesInv
<1>3. CASE \E w \in Worker: EndInterval(w)
  <2>1. PICK w \in Worker: EndInterval(w)  BY <1>3
  <2>2. PICK n \in Nat: n = cur_interval[w]  BY DEF StateTypes
  <2>3. /\ kpc[w] = "handle" /\ received[w].flag = "PUNC" /\ UNCHANGED <<ended, stray>>
        /\ cur_interval' = [cur_interval EXCEPT ![w] = n + 1]
        /\ files' = [x \in DOMAIN files \cup {n} |->
                       IF x = n THEN [by |-> w, sketch |-> skl[w]] ELSE files[x]]
    BY <2>1, <2>2 DEF EndInterval, PrintSketch, aux
  <2>4. SUFFICES ASSUME stray = 0 PROVE FilesInv'
    BY <2>3 DEF FilesInv
  <2>5. AtHand(w) = n + 1  BY <2>2, <2>3 DEF AtHand
  <2>6. Sent(w) \in Int /\ Sent(w) <= Len(ended) /\ Awaited(w) \in Int  BY <1>1, CountsAreInts
  <2>7. n + 1 <= Sent(w)
    <3>1. AtHand(w) <= Sent(w) + stray  BY WorkerBounds
    <3>2. QED  BY <2>4, <2>5, <2>6, <3>1
  <2>8. \A x \in Worker: Seen(x) = 1
    <3>1. Len(ended) > 0  BY <1>1, <2>2, <2>6, <2>7
    <3>2. mpc \notin {"create", "ready"}  BY <3>1 DEF MainInv
    <3>3. QED  BY <3>2 DEF Seen
  <2>9. \A x \in DOMAIN files': x \in 0 .. Len(ended) - 1
    BY <1>1, <2>2, <2>3, <2>4, <2>6, <2>7 DEF FilesInv
  <2>10. ASSUME NEW x \in 0 .. cur_interval'[NumThread] - 1
         PROVE  x \in DOMAIN files' /\ files'[x].by = NumThread
    <3>1. CASE w = NumThread
      <4>1. cur_interval'[NumThread] = n + 1  BY <1>1, <2>3, <3>1 DEF StateTypes
      <4>2. x = n \/ x \in 0 .. cur_interval[NumThread] - 1  BY <2>2, <3>1, <4>1
      <4>3. QED  BY <2>3, <2>4, <3>1, <4>2 DEF FilesInv
    <3>2. CASE w # NumThread
      <4>1. cur_interval'[NumThread] = cur_interval[NumThread]
            /\ cur_interval[NumThread] \in Nat
        BY <1>1, <2>3, <3>2 DEF StateTypes
      <4>2. Awaited(w) <= n
        <5>1. Awaited(w) + Seen(w) - 1 <= n  BY <2>2, WorkerBounds
        <5>2. QED  BY <2>2, <2>6, <2>8, <5>1
      <4>3. w \in Int /\ w < NumThread  BY <3>2, OvsAssumption DEF Worker
      <4>4. Sent(NumThread) <= n
        <5>1. Awaited(w) < Sent(w)  BY <2>2, <2>6, <2>7, <4>2
        <5>2. Closing /\ w = i /\ Awaited(w) = Len(ended) - 1
          BY <1>1, <4>3, <5>1 DEF Awaited, Sent
        <5>3. Sent(NumThread) = Len(ended) - 1  BY <1>1, <4>3, <5>2 DEF Sent
        <5>4. QED  BY <2>2, <4>2, <5>2, <5>3
      <4>5. cur_interval[NumThread] <= n
        <5>1. AtHand(NumThread) <= Sent(NumThread) + stray  BY <1>1, WorkerBounds
        <5>2. cur_interval[NumThread] <= AtHand(NumThread) /\ AtHand(NumThread) \in Nat
          BY <4>1 DEF AtHand
        <5>3. Sent(NumThread) \in Int  BY <1>1, CountsAreInts
        <5>4. QED  BY <2>2, <2>4, <4>1, <4>4, <5>1, <5>2, <5>3
      <4>6. x # n /\ x \in 0 .. cur_interval[NumThread] - 1  BY <2>2, <4>1, <4>5
      <4>7. QED  BY <2>3, <2>4, <4>6 DEF FilesInv
    <3>3. QED  BY <3>1, <3>2
  <2>11. QED  BY <2>3, <2>9, <2>10 DEF FilesInv
<1>4. CASE NextPacket
  <2>1. /\ ended' \in {ended, Append(ended, interval_cnt)}
        /\ UNCHANGED <<files, cur_interval, stray>>
    BY <1>4 DEF NextPacket, workerVars
  <2>2. Len(Append(ended, interval_cnt)) = Len(ended) + 1  BY <1>1 DEF StateTypes
  <2>3. QED  BY <1>1, <1>2, <2>1, <2>2
<1>5. CASE PutPacket
  <2>1. UNCHANGED <<files, cur_interval, ended>> /\ stray' \in {stray, stray + 1}
    BY <1>5 DEF PutPacket, workerVars
  <2>2. QED  BY <1>1, <1>2, <2>1
<1>6. ASSUME UNCHANGED <<files, cur_interval, ended, stray>> PROVE FilesInv'
  BY <1>1, <1>2, <1>6
<1>7. CASE CreateWorker \/ AwaitWorker \/ PutPunc \/ FlushPunc \/ AwaitPunc
  BY <1>6, <1>7 DEF CreateWorker, AwaitWorker, PutPunc, FlushPunc, AwaitPunc, workerVars, aux
<1>8. ASSUME NEW w \in Worker, WorkerStep(w), ~ EndInterval(w) PROVE FilesInv'
  BY <1>6, <1>8 DEF WorkerStep, EndBatch, WorkerReady, WorkerReads, RecordPacket, Finish,
                    workerVars, aux
<1>9. CASE UNCHANGED vars  BY <1>6, <1>9 DEF vars, workerVars, aux
<1>10. QED  BY <1>3, <1>4, <1>5, <1>7, <1>8, <1>9 DEF Next, WorkerStep

LEMMA IndInvStep == IndInv /\ [Next]_vars => IndInv'
<1> SUFFICES ASSUME IndInv, [Next]_vars PROVE IndInv'  OBVIOUS
<1>1. RingInv'  BY StepOfRings DEF IndInv
<1>2. RingTypes'  BY <1>1 DEF RingInv
<1>3. StateTypes'  BY TypesStep
<1>4. MainInv'  BY MainStep
<1>5. QED  BY <1>1, <1>2, <1>3, <1>4, SemStep, LateStep, FilesStep DEF IndInv

-----------------------------------------------------------------------------
LEMMA InvImpliesInStep == IndInv => InStep
<1> SUFFICES ASSUME IndInv PROVE InStep  OBVIOUS
<1> USE DEF IndInv, RingInv
<1>1. SUFFICES ASSUME NEW w \in Worker
      PROVE  /\ \A j \in DOMAIN queue[w]:
                   queue[w][j].flag = "NORMAL" => Current(w, queue[w][j].pkt)
             /\ kpc[w] = "handle" /\ received[w].flag = "NORMAL" => Current(w, received[w].pkt)
             /\ \A j \in DOMAIN tot_byte[w]: Current(w, tot_byte[w][j])
  BY DEF InStep
<1>2. PICK c \in Nat: c = cur_interval[w]  BY DEF StateTypes
<1>3. i \in Worker /\ stray \in Nat /\ interval_of \in Seq(Nat) /\ ended \in Seq(Nat)
  BY DEF RingTypes, StateTypes
\* A number of an interval that is on time, and not before the worker's.
<1>4. ASSUME NEW p, NEW n \in Nat, OnTime(n, p), c <= n PROVE Current(w, p)
  <2>1. p \in DOMAIN interval_of /\ n <= interval_of[p] + stray  BY <1>4 DEF OnTime
  <2>2. interval_of[p] \in Nat /\ Len(ended) \in Nat /\ Len(interval_of) # 0  BY <1>3, <2>1
  <2>3. c <= interval_of[p] + stray  BY <1>3, <1>4, <2>1, <2>2
  <2>4. interval_of[p] <= c
    <3>1. mpc \notin {"create", "ready"}  BY <2>2 DEF MainInv, Closing
    <3>2. Seen(w) = 1  BY <3>1 DEF Seen
    <3>3. interval_of[p] <= Awaited(w)
      <4>1. interval_of[p] <= IF Closing THEN Len(ended) - 1 ELSE Len(ended)
        BY <2>1 DEF MainInv
      <4>2. QED  BY <2>2, <4>1 DEF Awaited
    <3>4. Awaited(w) \in Int  BY <1>3, CountsAreInts
    <3>5. Awaited(w) + Seen(w) - 1 <= c  BY <1>2, WorkerBounds
    <3>6. QED  BY <2>2, <3>2, <3>3, <3>4, <3>5
  <2>5. interval_of[p] - c \in -stray .. 0  BY <1>3, <2>2, <2>3, <2>4
  <2>6. QED  BY <1>2, <2>5 DEF Current
<1>5. ASSUME NEW j \in DOMAIN queue[w], queue[w][j].flag = "NORMAL"
      PROVE  Current(w, queue[w][j].pkt)
  <2>1. PICK f \in [0 .. Len(queue[w]) -> Nat]: Numbers(w, f)  BY DEF LateInv, Late
  <2>2. j \in 1 .. Len(queue[w]) /\ 0 \in 0 .. j - 1 /\ Len(queue[w]) \in Nat
    BY <1>5 DEF RingTypes
  <2>3. f[0] <= f[j] /\ OnTime(f[j], queue[w][j].pkt) /\ AtHand(w) <= f[0]
    BY <1>5, <2>1, <2>2 DEF Numbers
  <2>4. f[0] \in Nat /\ f[j] \in Nat  BY <2>1, <2>2
  <2>5. c <= f[j]  BY <1>2, <2>3, <2>4 DEF AtHand
  <2>6. QED  BY <1>4, <2>3, <2>4, <2>5
<1>6. HeldOnTime(w)  BY DEF LateInv, Late
<1>7. QED  BY <1>2, <1>4, <1>5, <1>6 DEF HeldOnTime

LEMMA InvImpliesFiles == IndInv => LastWorkersFile
<1> SUFFICES ASSUME IndInv, mpc = "read", stray = 0
      PROVE  /\ DOMAIN files = 0 .. Len(ended) - 1
             /\ \A n \in DOMAIN files: files[n].by = NumThread
  BY DEF LastWorkersFile
<1> USE DEF IndInv, RingInv
<1>1. NumThread \in Worker /\ i \in Worker  BY OvsAssumption DEF Worker, RingTypes
<1>2. Awaited(NumThread) = Len(ended) /\ Seen(NumThread) = 1 /\ Len(ended) \in Nat
  BY <1>1, CountsAreInts DEF Awaited, Seen, Closing
<1>3. Len(ended) <= cur_interval[NumThread] /\ cur_interval[NumThread] \in Nat
  BY <1>1, <1>2, WorkerBounds DEF StateTypes
<1>4. \A n \in 0 .. Len(ended) - 1: n \in DOMAIN files /\ files[n].by = NumThread
  BY <1>2, <1>3 DEF FilesInv
<1>5. \A n \in DOMAIN files: n \in 0 .. Len(ended) - 1  BY DEF FilesInv
<1>6. QED  BY <1>4, <1>5

\* The types, the counts of the semaphores, and the numbers of what is in the
\* rings, in every reachable state.
THEOREM Invariance == Spec => []IndInv
BY InitIndInv, IndInvStep, PTL DEF Spec

\* A worker holds packets only of the interval whose number it puts on its
\* file: it may be ahead of theirs by the stray marks at most, and never behind
\* (dp_ovs.c:83, 187-191).
THEOREM InStepHolds == Spec => []InStep
BY Invariance, InvImpliesInStep, PTL

\* Without stray marks there is a file for each interval that has ended, and it
\* is the last worker's (dp_ovs.c:78-80, 187-191).
THEOREM LastWorkersFileHolds == Spec => []LastWorkersFile
BY Invariance, InvImpliesFiles, PTL
=============================================================================
