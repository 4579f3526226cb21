------------------------------- MODULE DpOvs --------------------------------
(***************************************************************************)
(* dp_ovs.c: main takes packets from the kernel's ring and hands them out  *)
(* to several workers in turn, each over a ring of its own.  An interval   *)
(* ends after a number of packets: main then sends TUPLE_PUNC to one       *)
(* worker after the other and waits on the semaphore of each until it has  *)
(* printed and reset its sketch.                                           *)
(*                                                                         *)
(* The workers' rings are FifoChannels, which RingBuffer implements.  The  *)
(* kernel's ring is the stream of the packets that come out of it.  A      *)
(* sketch, and tot_byte, is the sequence of the packets counted in it.     *)
(* main passes packets on with the flag they come with, which the hook in  *)
(* the kernel leaves unset (datapath.c:366, 403-410): any flag, MaxStray   *)
(* times at most another one than TUPLE_NORMAL.  The loop of main has no   *)
(* exit: the code behind it is never reached.                              *)
(***************************************************************************)
EXTENDS Integers, Sequences

CONSTANTS
    NumThread,         \* num_thread
    IntervalLen,       \* interval_len, in packets
    Capacity, Batch,   \* see FifoChannel
    MaxPackets,        \* a bound: the packets that come from the kernel
    MaxStray           \* a bound: those whose flag is not TUPLE_NORMAL

ASSUME OvsAssumption ==
    /\ NumThread \in Nat \ {0} /\ IntervalLen \in Nat \ {0}
    /\ Capacity \in Nat \ {0} /\ Batch \in 1 .. Capacity
    /\ MaxPackets \in Nat /\ MaxStray \in Nat

VARIABLES
    \* the rings, by worker
    queue, visible, received,
    \* main
    mpc,               \* where main is
    i,                 \* the worker of the loop main is in
    cur,               \* the packet at hand, t_ovs: they are numbered as they come
    index,             \* the worker that gets the next packet
    last_interval, opening,   \* opening: main's own cur_interval
    interval_cnt,
    \* the workers
    kpc, skl, tot_byte, cur_interval,
    \* both
    sem, files,
    \* auxiliary
    ended,             \* the number of packets of each interval that has ended
    interval_of,       \* the interval each packet was sent in
    stray              \* the packets whose flag was not TUPLE_NORMAL

rings == <<queue, visible, received>>
mainVars == <<mpc, i, cur, index, last_interval, opening, interval_cnt>>
workerVars == <<kpc, skl, tot_byte, cur_interval, files>>
aux == <<ended, interval_of, stray>>
vars == <<rings, mainVars, workerVars, sem, aux>>

Worker == 1 .. NumThread
Tuple == [flag: {"NORMAL", "PUNC", "TERM"}, pkt: 0 .. MaxPackets]
Zero == [flag |-> "NORMAL", pkt |-> 0]
Punc == [flag |-> "PUNC", pkt |-> 0]

Ring(w) == INSTANCE FifoChannel WITH
    queue <- queue[w], visible <- visible[w], received <- received[w]

Init ==
    /\ queue = [w \in Worker |-> <<>>] /\ visible = [w \in Worker |-> 0]
    /\ received = [w \in Worker |-> Zero]
    /\ mpc = "create" /\ i = 1 /\ cur = 0 /\ index = 1
    /\ last_interval = 0 /\ opening = 0 /\ interval_cnt = 0
    /\ kpc = [w \in Worker |-> "none"] /\ skl = [w \in Worker |-> <<>>]
    /\ tot_byte = [w \in Worker |-> <<>>] /\ cur_interval = [w \in Worker |-> 0]
    /\ sem = [w \in Worker |-> 0]
    /\ files = [n \in {} |-> 0]
    /\ ended = <<>> /\ interval_of = <<>> /\ stray = 0

-----------------------------------------------------------------------------
(* Calls to the rings *)

\* write_ringbuffer(infos[w].rb, &v) returns 0; as long as it fails this has not
\* happened yet.
Write(w, v) ==
    /\ Len(queue[w]) < Capacity
    /\ Len(queue[w]) - visible[w] < Batch
    /\ queue' = [queue EXCEPT ![w] = Append(@, v)]
    /\ UNCHANGED visible

\* flush_ringbuffer, or the end of a batch in write_ringbuffer.
Flush(w) ==
    /\ visible' = [visible EXCEPT ![w] = Len(queue[w])]
    /\ UNCHANGED <<queue, received>>

Read(w) ==
    /\ visible[w] > 0
    /\ received' = [received EXCEPT ![w] = Head(queue[w])]
    /\ queue' = [queue EXCEPT ![w] = Tail(@)]
    /\ visible' = [visible EXCEPT ![w] = @ - 1]

-----------------------------------------------------------------------------
(* main *)

\* The end of a batch: the channel leaves open when it comes, but does not take
\* more than a batch before it has come.
EndBatch(w) ==
    /\ visible[w] < Len(queue[w])
    /\ Flush(w)
    /\ UNCHANGED <<mainVars, workerVars, sem, aux>>

CreateWorker ==
    /\ mpc = "create"
    /\ kpc' = [kpc EXCEPT ![i] = "start"]
    /\ mpc' = "ready"
    /\ UNCHANGED <<rings, i, cur, index, last_interval, opening, interval_cnt,
                   skl, tot_byte, cur_interval, files, sem, aux>>

\* sem_wait after pthread_create; start_ringbuffer_kshm after the last worker.
AwaitWorker ==
    /\ mpc = "ready"
    /\ sem[i] > 0
    /\ sem' = [sem EXCEPT ![i] = @ - 1]
    /\ \/ i < NumThread /\ i' = i + 1 /\ mpc' = "create"
       \/ i = NumThread /\ i' = 1 /\ mpc' = "read"
    /\ UNCHANGED <<rings, cur, index, last_interval, opening, interval_cnt, workerVars, aux>>

\* read_ringbuffer(krb, &t_ovs), and whether the packet opens an interval.
NextPacket ==
    /\ mpc = "read"
    /\ cur < MaxPackets
    /\ cur' = cur + 1
    /\ opening' = interval_cnt \div IntervalLen
    /\ \/ /\ last_interval = 0
          /\ last_interval' = opening'
          /\ mpc' = "put"
          /\ UNCHANGED <<interval_cnt, ended>>
       \/ /\ last_interval # 0 /\ opening' > last_interval
          /\ ended' = Append(ended, interval_cnt)
          /\ interval_cnt' = 0
          /\ mpc' = "punc"
          /\ UNCHANGED last_interval
       \/ /\ last_interval # 0 /\ opening' <= last_interval
          /\ mpc' = "put"
          /\ UNCHANGED <<last_interval, interval_cnt, ended>>
    /\ UNCHANGED <<rings, i, index, workerVars, sem, interval_of, stray>>

PutPunc ==
    /\ mpc = "punc"
    /\ Write(i, Punc)
    /\ mpc' = "flush"
    /\ UNCHANGED <<received, i, cur, index, last_interval, opening, interval_cnt,
                   workerVars, sem, aux>>

FlushPunc ==
    /\ mpc = "flush"
    /\ Flush(i)
    /\ mpc' = "wait"
    /\ UNCHANGED <<i, cur, index, last_interval, opening, interval_cnt, workerVars, sem, aux>>

\* Wrong: main does not wait.
AwaitPuncNot ==
    /\ mpc = "wait"
    /\ \/ i < NumThread /\ i' = i + 1 /\ mpc' = "punc" /\ UNCHANGED last_interval
       \/ i = NumThread /\ i' = 1 /\ mpc' = "put" /\ last_interval' = opening
    /\ UNCHANGED <<rings, cur, index, opening, interval_cnt, workerVars, sem, aux>>

\* sem_wait; after the last worker the packet that opened the interval is sent.
AwaitPunc ==
    /\ mpc = "wait"
    /\ sem[i] > 0
    /\ sem' = [sem EXCEPT ![i] = @ - 1]
    /\ \/ i < NumThread /\ i' = i + 1 /\ mpc' = "punc" /\ UNCHANGED last_interval
       \/ i = NumThread /\ i' = 1 /\ mpc' = "put" /\ last_interval' = opening
    /\ UNCHANGED <<rings, cur, index, opening, interval_cnt, workerVars, aux>>

PutPacket ==
    /\ mpc = "put"
    /\ \/ Write(index, [flag |-> "NORMAL", pkt |-> cur]) /\ UNCHANGED stray
       \/ /\ stray < MaxStray
          /\ stray' = stray + 1
          /\ \E f \in {"PUNC", "TERM"}: Write(index, [flag |-> f, pkt |-> cur])
    /\ interval_cnt' = interval_cnt + 1
    /\ index' = (index % NumThread) + 1
    /\ interval_of' = Append(interval_of, Len(ended))
    /\ mpc' = "read"
    /\ UNCHANGED <<received, i, cur, last_interval, opening, workerVars, sem, ended>>

-----------------------------------------------------------------------------
(* A worker, thread_handler *)

WorkerReady(w) ==
    /\ kpc[w] = "start"
    /\ sem' = [sem EXCEPT ![w] = @ + 1]
    /\ kpc' = [kpc EXCEPT ![w] = "read"]
    /\ UNCHANGED <<rings, mainVars, skl, tot_byte, cur_interval, files, aux>>

WorkerReads(w) ==
    /\ kpc[w] = "read"
    /\ Read(w)
    /\ kpc' = [kpc EXCEPT ![w] = "handle"]
    /\ UNCHANGED <<mainVars, skl, tot_byte, cur_interval, files, sem, aux>>

\* SKL_Update_Fast finds the buckets of the key and counts nothing in them.
UpdateFast(sketch, pkt) == sketch

RecordPacket(w) ==
    /\ kpc[w] = "handle"
    /\ received[w].flag = "NORMAL"
    /\ skl' = [skl EXCEPT ![w] = UpdateFast(@, received[w].pkt)]
    /\ tot_byte' = [tot_byte EXCEPT ![w] = Append(@, received[w].pkt)]
    /\ kpc' = [kpc EXCEPT ![w] = "read"]
    /\ UNCHANGED <<rings, mainVars, cur_interval, files, sem, aux>>

\* SKL_Print: the name of the file says the interval, not the worker.
PrintSketch(w) ==
    files' = [n \in DOMAIN files \cup {cur_interval[w]} |->
                IF n = cur_interval[w] THEN [by |-> w, sketch |-> skl[w]] ELSE files[n]]

\* Wrong: the interval is not counted.
EndIntervalNoCount(w) ==
    /\ kpc[w] = "handle"
    /\ received[w].flag = "PUNC"
    /\ PrintSketch(w)
    /\ tot_byte' = [tot_byte EXCEPT ![w] = <<>>]
    /\ skl' = [skl EXCEPT ![w] = <<>>]
    /\ sem' = [sem EXCEPT ![w] = @ + 1]
    /\ kpc' = [kpc EXCEPT ![w] = "read"]
    /\ UNCHANGED <<rings, mainVars, cur_interval, aux>>

EndInterval(w) ==
    /\ kpc[w] = "handle"
    /\ received[w].flag = "PUNC"
    /\ PrintSketch(w)
    /\ cur_interval' = [cur_interval EXCEPT ![w] = @ + 1]
    /\ tot_byte' = [tot_byte EXCEPT ![w] = <<>>]
    /\ skl' = [skl EXCEPT ![w] = <<>>]
    /\ sem' = [sem EXCEPT ![w] = @ + 1]
    /\ kpc' = [kpc EXCEPT ![w] = "read"]
    /\ UNCHANGED <<rings, mainVars, aux>>

\* The last file goes to the directory of dp_simulate's files.
Finish(w) ==
    /\ kpc[w] = "handle"
    /\ received[w].flag = "TERM"
    /\ skl' = [skl EXCEPT ![w] = <<>>]
    /\ kpc' = [kpc EXCEPT ![w] = "exit"]
    /\ UNCHANGED <<rings, mainVars, tot_byte, cur_interval, files, sem, aux>>

-----------------------------------------------------------------------------
Next ==
    \/ CreateWorker
    \/ AwaitWorker
    \/ NextPacket
    \/ PutPunc
    \/ FlushPunc
    \/ AwaitPunc
    \/ PutPacket
    \/ \E w \in Worker:
          \/ EndBatch(w)
          \/ WorkerReady(w)
          \/ WorkerReads(w)
          \/ RecordPacket(w)
          \/ EndInterval(w)
          \/ Finish(w)

Spec == Init /\ [][Next]_vars

-----------------------------------------------------------------------------
(* Properties *)

\* The use main and the workers make of each ring is the use of a channel: one
\* send, publication or receipt at a time (dp_ovs.c:67, 187-189, 200).
RingsAreChannels ==
    [][\A w \in Worker: Ring(w)!Next \/ UNCHANGED <<queue[w], visible[w], received[w]>>]_rings

\* Worker w is in the interval packet pkt was sent in, or in a later one by as many as
\* there were stray marks at most.
Current(w, pkt) == interval_of[pkt] - cur_interval[w] \in -stray .. 0

\* A worker holds packets only of the interval whose number it puts on its
\* file: those in its ring, at hand and counted, although the workers pass from
\* one interval to the next one after the other (dp_ovs.c:83, 187-191).  A
\* packet that comes with the flag of an end mark puts a worker ahead by one
\* interval, so that it counts later packets in a later interval than theirs, never
\* by more and never in an earlier one, although it also answers a mark of main's.
InStep ==
    \A w \in Worker:
        /\ \A j \in DOMAIN queue[w]: queue[w][j].flag = "NORMAL" => Current(w, queue[w][j].pkt)
        /\ kpc[w] = "handle" /\ received[w].flag = "NORMAL" => Current(w, received[w].pkt)
        /\ \A j \in DOMAIN tot_byte[w]: Current(w, tot_byte[w][j])

\* Workers write files of the same name, and of an interval that has ended the
\* last worker's file is left (dp_ovs.c:78-80, 187-191); no packet has come with
\* the flag of an end mark.
LastWorkersFile ==
    mpc = "read" /\ stray = 0 =>
        /\ DOMAIN files = 0 .. Len(ended) - 1
        /\ \A n \in DOMAIN files: files[n].by = NumThread
=============================================================================
