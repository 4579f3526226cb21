----------------------------- MODULE DpSimulate -----------------------------
(***************************************************************************)
(* dp_simulate.c: main replays a packet trace into a ring buffer and a     *)
(* worker thread records it interval by interval, one output file each.    *)
(* main announces the end of an interval with a TUPLE_PUNC tuple, flushes  *)
(* the ring and waits on a semaphore until the worker has written its file *)
(* and reset its sketch; TUPLE_TERM ends the worker.  The ring is          *)
(* RingBuffer at its full grain: each of the two threads is its own        *)
(* control below and the calls to the ring it makes.  vars are the         *)
(* variables of the ring.                                                  *)
(*                                                                         *)
(* The sketch is the sequence of the packets recorded since the last reset *)
(* (what it computes from them is the subject of SketchLearn); a file is that   *)
(* sequence as it was when the file was written.  There is one worker:     *)
(* num_thread is 1 (dp_simulate.c:113).                                    *)
(***************************************************************************)
EXTENDS RingBuffer, Sequences, FiniteSets, Functions

CONSTANTS
    Traces,            \* the traces replayed: sequences of timestamps, in ms
    IntervalLen        \* interval_len, in ms

\* Timestamps are those of a pcap header, counted from 1970, so the number of
\* the first interval is not 0, the value main keeps for "no packet yet".  The
\* trace is read to a buffer of bounded size, so that one is the longest.
ASSUME TraceAssumption ==
    /\ IntervalLen \in Nat \ {0}
    /\ \A tr \in Traces: tr \in Seq(Nat) /\ \A i \in 1 .. Len(tr): tr[i] >= IntervalLen
    /\ \E longest \in Traces: \A tr \in Traces: Len(tr) <= Len(longest)

VARIABLES
    \* main
    trace,             \* the records of the trace file
    mpc,               \* where main is
    cur,               \* adapter->cur, the number of packets taken
    t,                 \* main's tuple
    last_interval,
    \* the worker
    kpc,               \* where the worker is
    sketch,            \* the packets recorded since the last reset
    cur_interval,      \* the number of the file to write next
    cnt,               \* the packets recorded in all
    \* both
    sem,               \* the semaphore of the worker's info_t
    files              \* the sketch files, in the order of their numbers

mainVars == <<mpc, cur, t, last_interval>>
workerVars == <<kpc, sketch, cur_interval, cnt, files>>
replayVars == <<vars, trace, mainVars, workerVars, sem>>

MaxPacket == CHOOSE n \in {Len(tr): tr \in Traces}: \A tr \in Traces: Len(tr) <= n

\* tuple_t: the flag, and the packet by its place in the trace (0: none yet).
Flag == {"NORMAL", "PUNC", "TERM"}
ReplayTuple == [flag: Flag, pkt: 0 .. MaxPacket]
NoPacket == [flag |-> "NORMAL", pkt |-> 0]

\* What this program puts in its ring.
ReplayTuples == Tuple = ReplayTuple /\ Zero = NoPacket

\* (unsigned long long)(t.pkt_ts*1000/interval_len)
Interval(i) == trace[i] \div IntervalLen

InitReplay ==
    /\ Init
    /\ trace \in Traces
    /\ mpc = "create" /\ cur = 0 /\ t = NoPacket /\ last_interval = 0
    /\ kpc = "start" /\ sketch = <<>> /\ cur_interval = 0 /\ cnt = 0
    /\ sem = 0
    /\ files = <<>>

-----------------------------------------------------------------------------
(* main *)

\* sem_wait after pthread_create: the worker is ready.
AwaitWorker ==
    /\ mpc = "create"
    /\ sem > 0
    /\ sem' = sem - 1
    /\ mpc' = "next"
    /\ UNCHANGED <<vars, trace, cur, t, last_interval, workerVars>>

\* adapter_next, and whether the packet opens an interval.
NextPacket ==
    /\ mpc = "next"
    /\ cur < Len(trace)
    /\ cur' = cur + 1
    /\ \/ /\ last_interval = 0
          /\ last_interval' = Interval(cur + 1)
          /\ t' = [flag |-> "NORMAL", pkt |-> cur + 1]
          /\ mpc' = "put"
       \/ /\ last_interval # 0 /\ Interval(cur + 1) > last_interval
          /\ t' = [flag |-> "PUNC", pkt |-> cur + 1]
          /\ mpc' = "punc"
          /\ UNCHANGED last_interval
       \/ /\ last_interval # 0 /\ Interval(cur + 1) <= last_interval
          /\ t' = [flag |-> "NORMAL", pkt |-> cur + 1]
          /\ mpc' = "put"
          /\ UNCHANGED last_interval
    /\ UNCHANGED <<vars, trace, workerVars, sem>>

\* adapter_next returns -1.
TraceEnds ==
    /\ mpc = "next"
    /\ cur = Len(trace)
    /\ t' = [t EXCEPT !.flag = "TERM"]
    /\ mpc' = "term"
    /\ UNCHANGED <<vars, trace, cur, last_interval, workerVars, sem>>

\* What main does once write_ringbuffer has returned 0.
AfterWrite == [put |-> "next", punc |-> "flush", term |-> "lastflush"]

\* while (write_ringbuffer(rb, &t, sizeof(tuple_t)) < 0) {}
MainWrites ==
    /\ mpc \in DOMAIN AfterWrite
    /\ \/ /\ \/ WriteFails
             \/ WriteBegin(t)
             \/ WriteReload
          /\ UNCHANGED mpc
       \/ /\ WriteStore \/ WritePublish
          /\ mpc' = IF wpc' = "idle" THEN AfterWrite[mpc] ELSE mpc
    /\ UNCHANGED <<trace, cur, t, last_interval, workerVars, sem>>

AfterFlush == [flush |-> "wait", lastflush |-> "join"]

\* flush_ringbuffer(rb)
MainFlushes ==
    /\ mpc \in DOMAIN AfterFlush
    /\ \/ /\ FlushPublish \/ FlushLoad
          /\ UNCHANGED mpc
       \/ /\ FlushStore
          /\ mpc' = AfterFlush[mpc]
    /\ UNCHANGED <<trace, cur, t, last_interval, workerVars, sem>>

\* sem_wait, then the packet that opened the interval is written.
AwaitPunc ==
    /\ mpc = "wait"
    /\ sem > 0
    /\ sem' = sem - 1
    /\ t' = [t EXCEPT !.flag = "NORMAL"]
    /\ last_interval' = Interval(cur)
    /\ mpc' = "put"
    /\ UNCHANGED <<vars, trace, cur, workerVars>>

\* pthread_join returns once the worker has exited.
Join ==
    /\ mpc = "join"
    /\ kpc = "exit"
    /\ mpc' = "done"
    /\ UNCHANGED <<vars, trace, cur, t, last_interval, workerVars, sem>>

Main ==
    \/ AwaitWorker
    \/ NextPacket
    \/ TraceEnds
    \/ MainWrites
    \/ MainFlushes
    \/ AwaitPunc
    \/ Join

-----------------------------------------------------------------------------
(* The worker, thread_handler *)

WorkerReady ==
    /\ kpc = "start"
    /\ sem' = sem + 1
    /\ kpc' = "read"
    /\ UNCHANGED <<vars, trace, mainVars, sketch, cur_interval, cnt, files>>

\* while (read_ringbuffer(rb, &t) < 0) {}
WorkerReads ==
    /\ kpc = "read"
    /\ \/ /\ \/ ReadFails
             \/ ReadBegin
             \/ ReadReload
          /\ UNCHANGED kpc
       \/ /\ ReadStore \/ ReadPublish
          /\ kpc' = IF rpc' = "idle" THEN "handle" ELSE kpc
    /\ UNCHANGED <<trace, mainVars, sketch, cur_interval, cnt, files, sem>>

\* SKL_Update
RecordPacket ==
    /\ kpc = "handle"
    /\ out.flag = "NORMAL"
    /\ sketch' = Append(sketch, out.pkt)
    /\ cnt' = cnt + 1
    /\ kpc' = "read"
    /\ UNCHANGED <<vars, trace, mainVars, cur_interval, files, sem>>

\* SKL_Print to the file of number cur_interval; writing file number n
\* replaces it when it exists.
PrintSketch ==
    files' = [n \in 1 .. (IF cur_interval < Len(files) THEN Len(files) ELSE cur_interval + 1) |->
                IF n = cur_interval + 1 THEN sketch ELSE files[n]]

\* Wrong: the sketch is not reset.
EndIntervalNoReset ==
    /\ kpc = "handle"
    /\ out.flag = "PUNC"
    /\ PrintSketch
    /\ cur_interval' = cur_interval + 1
    /\ sem' = sem + 1
    /\ kpc' = "read"
    /\ UNCHANGED <<vars, trace, mainVars, cnt, sketch>>

\* Wrong: main is not told.
EndIntervalNoPost ==
    /\ kpc = "handle"
    /\ out.flag = "PUNC"
    /\ PrintSketch
    /\ cur_interval' = cur_interval + 1
    /\ sketch' = <<>>
    /\ kpc' = "read"
    /\ UNCHANGED <<vars, trace, mainVars, cnt, sem>>

EndInterval ==
    /\ kpc = "handle"
    /\ out.flag = "PUNC"
    /\ PrintSketch
    /\ cur_interval' = cur_interval + 1
    /\ sketch' = <<>>
    /\ sem' = sem + 1
    /\ kpc' = "read"
    /\ UNCHANGED <<vars, trace, mainVars, cnt>>

\* TUPLE_TERM: the last file, and SKL_Destroy.
Finish ==
    /\ kpc = "handle"
    /\ out.flag = "TERM"
    /\ PrintSketch
    /\ sketch' = <<>>
    /\ kpc' = "exit"
    /\ UNCHANGED <<vars, trace, mainVars, cur_interval, cnt, sem>>

Worker ==
    \/ WorkerReady
    \/ WorkerReads
    \/ RecordPacket
    \/ EndInterval
    \/ Finish

-----------------------------------------------------------------------------
NextReplay == Main \/ Worker

SpecReplay == InitReplay /\ [][NextReplay]_replayVars

\* Two threads under a preemptive scheduler, neither of which ever stops.
FairReplay == SpecReplay /\ WF_replayVars(Main) /\ WF_replayVars(Worker)
-----------------------------------------------------------------------------
(* Properties *)

\* The largest interval number among the first i packets.
HighWater(i) == CHOOSE m \in {Interval(j): j \in 1 .. i}: \A j \in 1 .. i: Interval(j) <= m

\* The number of the interval packet i belongs to, counted from 1 in the order
\* the intervals appear: a packet older than one before it is late and counts
\* for the interval it arrives in.
IntervalNumber(i) == Cardinality({HighWater(j): j \in 1 .. i})

\* The packets of interval k.
PacketsOf(k) == {i \in 1 .. Len(trace): IntervalNumber(i) = k}

\* Every file that has been written holds all the packets of its interval,
\* once, in order, and no packet of another, although the packets, the end
\* marks and the resets travel through the ring and two threads
\* (dp_simulate.c:70-83, 179-186).  When main returns there is a file for every
\* interval and nothing is left in the ring or in the sketch
\* (dp_simulate.c:199-212).
FilesAreIntervals ==
    /\ \A k \in DOMAIN files:
        /\ Range(files[k]) = PacketsOf(k)
        /\ \A j \in 1 .. Len(files[k]) - 1: files[k][j] < files[k][j + 1]
    /\ mpc = "done" =>
        /\ cnt = Len(trace)
        /\ trace # <<>> => Len(files) = IntervalNumber(Len(trace))
        /\ nextReadIndex = nextWriteIndex

\* The threads are out of step for good: the ring is full by a readIndex that
\* flush_ringbuffer rolled back, the reader has read all that is published,
\* and the rest of the batch will never be.
Wedged ==
    /\ mpc \in DOMAIN AfterWrite /\ wpc = "idle" /\ LooksFull
    /\ kpc = "read" /\ rpc = "idle" /\ LooksEmpty

Terminated == mpc = "done" /\ kpc = "exit"

\* Every replay ends with both threads finished, or wedges because of the race
\* in flush_ringbuffer; nothing else stops it (ringbuffer.c:202-205).
EndsOrWedges == <>[]Terminated \/ <>[]Wedged

\* flush_ringbuffer can hide as many slots as the worker reads before its store,
\* and the worker another RbBatch - 1; main waits for a slot with at most
\* RbBatch - 1 tuples unpublished.  The ring has room for both after each
\* interval but the last, whose end is not a TUPLE_PUNC.
HasRoom ==
    \A i \in 2 .. Len(trace):
        LET k == IntervalNumber(i - 1) IN
        IntervalNumber(i) > k => Cardinality(PacketsOf(k)) + 1 + 2 * (RbBatch - 1) < RbSize - 1

\* A replay of a trace the ring has room for ends, whatever the order in which
\* the threads run (dp_simulate.c:179-212).
EndsWithRoom == HasRoom => <>[]Terminated

\* Every replay ends: the comments of dp_simulate.c:179 and 198 say that the
\* threads are notified.
Terminates == <>Terminated
=============================================================================
