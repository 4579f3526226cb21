# A TLA+ verification of SketchLearn

SketchLearn measures network traffic: packets are recorded in a *sketch*, a
matrix of counters whose size does not depend on the number of flows, and a
controller later extracts the large flows from it. This directory models the
parts of the program that keep and hand over that state, checks them with TLC
and proves the core of it with TLAPS. Paths are relative to the repository.

## 1. The system

### Components, their state and their operations

| component | source | state | operations |
|---|---|---|---|
| ring buffer | `ringbuffer.c`, `ringbuffer.h` | six indexes and two batch counters (`struct RBMeta`), the slots | `write_`, `read_`, `flush_ringbuffer`, creation and connection through shared memory or a kernel device |
| trace replayer | `dp_simulate.c` | main: the packet at hand, `last_interval`; worker: the sketch, `cur_interval`; a semaphore; the sketch files | replay a trace, end an interval, end |
| trace adapter | `adapter_record_ram.c` | the trace in memory, `cur`, `cnt` | `adapter_init`, `adapter_next` |
| true flow recorder | `true_flows.c` | as the replayer, with a key table and per-interval extrema | as the replayer |
| key table | `alg_keytbl.c` | lists of entries, their lengths, `num_key` | `record`, `find`, `get_all`, `reset`, `copy`, `read_file` |
| sketch | `alg_sketchlearn.c` | `counts[depth*width][1+2*lgn]`, the bit distributions | update, complete zeroes, copy, merge, diff, reset, print, read, serialise, identify, estimate |
| controller | `controller.c` | sketch, key tables, lists of detected flows | per interval: read the files, extract, remove, report |
| OVS recorder | `dp_ovs.c` | as the replayer, several workers, the kernel ring | receive, dispatch, end an interval |
| kernel ring | `openvswitch/datapath/{ringbuffer,datapath}.c` | the ring in kernel memory, the recording flag | device open/ioctl/mmap, the packet hook |
| DPDK ring | `openvswitch/lib/{ringbuffer,dpif-netdev,dpdk}.c` | the ring in shared memory | the packet hook of every polling thread |
| decoder | `packet.c` | statistics | `decode`, reports |
| preprocessor | `trace_preprocess.c`, `adapter_dir.c` | the pcap file being read, the record file | concatenate pcap files to records |
| hashing, primes | `hash.c`, `util.c` | none | `AwareHash`, `GenHashSeed`, `calc_next_prime` |
| hash table | `hash_table.c` | in no program of the Makefile | |
| P4 pipeline | `p4/*.p4` | registers | the update as match-action tables |
| configuration, pinning | `config.c`, `cpu.c`, `global.c` | none of their own | |
| kernel datapath | `openvswitch/datapath/datapath.c` | datapaths, ports, flows, actions, what RCU has still to free | Generic Netlink commands on datapaths, ports and flows, packets, upcalls, dumps, loading |
| user-space datapath: ports | `openvswitch/lib/dpif-netdev.c` | ports and their queues, polling threads, their lists and the copies of them | open, close, add and delete ports, set masks and affinities, `reconfigure_datapath`, the threads' reload |
| user-space datapath: input | `openvswitch/lib/dpif-netdev.c` | flows and references to them, classifiers, the exact match cache, batches, packets | receive, look up, upcall, carry out actions, put, delete and dump flows |
| Open vSwitch build files | `openvswitch/*/Makefile.in`, `automake.mk`, `Modules.mk` | none | |

### How they interact

    pcap files -> trace_preprocess -> record file -> adapter
        -> main --ring buffer--> worker -> sketch --SKL_Print--> files
             <----semaphore-----                                   |
        true_flows: the same with a key table -> true flow files   |
                                                                   v
                                      controller: SKL_ReadFile, key_tbl_read_file
    OVS: kernel or DPDK packet hook --ring buffer--> dp_ovs --rings--> workers

main and the worker share the ring and one semaphore. Packets, ends of
intervals (`TUPLE_PUNC`) and the end of the trace (`TUPLE_TERM`) travel in the
ring; `sem_post` answers an end of interval. The controller is a program of its
own that meets the others through files. The packet hooks sit in the two
datapaths, which Open vSwitch's daemon fills with ports and flows: by Generic
Netlink in the kernel, by calls in user space.

### What is hard

The ring has no lock: two threads share indexes and slots, each decides on a
stale copy of the other's index and publishes its own in batches, and
`flush_ringbuffer` lets the writer store an index of the reader's. The replayer
spins on both ends of the ring and blocks on the semaphore. Intervals end by a
message overtaking nothing and overtaken by nothing. Counters wrap and part of
them is derived. The key table reads "new" off zeroed memory. The datapaths read
their tables without locks while commands change them: in the kernel memory
lives until the readers that were there have left, in user space polling threads
go by copies of what the main thread changes and are made to reload, hold
references to flows others have deleted, and call themselves when packets
recirculate. PROJECT.json lists
every hazard at its line with the property that covers it.

### What makes each part correct

- ring: a bounded first-in first-out channel; no slot is read while it is
  written; what is published is read; batches are bounded as the diagram of
  `ringbuffer.h:25-35` says
- replayer: each file holds exactly the packets of its interval, each file is
  written once, nothing is lost at the end, and a replay ends
- key table: a map from keys to sums; an entry per key; no write past a list
- sketch: counters are sums of the sizes of the keys that belong to them; a
  completed file is accepted; an estimate is never too small
- controller: what was recorded and what is left in the sketch add up to what
  was read; the extraction ends
- OVS recorder: as the replayer, for several workers
- kernel datapath: nothing is freed in use, twice or never; no two flows of a table
  are one; what is cached of the ports (headroom) and where a dump goes on stay right
- user-space datapath: a queue has one poller, a port in use is open, transmit queues
  are shared as counted, and a reconfiguration ends; no freed flow is used, batches
  hold their own flow's packets, every packet is freed once

## 2. The modules

| module | models | role |
|---|---|---|
| `FifoChannel` | | what the ring promises: a bounded channel with batched visibility |
| `RingBuffer` | `ringbuffer.c` | the ring, one action per access to a shared word |
| `RingProofs` | | theorems about `RingBuffer`, and about `DpSimulate`, `TrueFlows` and `KernelRing`, over `TotalsProofs` |
| `DpSimulate` | `dp_simulate.c`, `adapter_next` | main and worker, over `RingBuffer` |
| `TrueFlows` | `true_flows.c` | the same program with a table of true flows, over `DpSimulate` |
| `KeyMap` | | what the key table promises |
| `KeyTable` | `alg_keytbl.c` | the key table |
| `KeyTableProofs` | | theorems about `KeyTable` |
| `Counters` | `alg_sketchlearn.c` | the counters of a sketch, and the functions of them the program computes |
| `SketchLearn` | `alg_sketchlearn.c` | sketches in memory, files and buffers, over `Counters` |
| `Totals` | | sums of sizes, which properties compare counters and tables with |
| `TotalsProofs` | | lemmas about sums over finite sets |
| `SketchLearnProofs` | | theorems about `Counters`, `SketchLearn` and `Controller`, over `TotalsProofs` |
| `Controller` | `controller.c` | the extraction of large flows, over `Counters` |
| `DpOvs` | `dp_ovs.c` | main and the workers, each over an instance of `FifoChannel` |
| `KernelRing` | `openvswitch/datapath/{datapath,ringbuffer}.c` | the packet hook and the device's commands, over `RingBuffer` |
| `DpOvsProofs` | | theorems about `DpOvs` |
| `Datapath` | `openvswitch/datapath/datapath.c` | the commands, packets, RCU |
| `DatapathProofs` | | theorems about `Datapath` |
| `NetdevPorts` | `openvswitch/lib/dpif-netdev.c` | ports, queues, polling threads and their reconfiguration |
| `NetdevPortsProofs` | | theorems about `NetdevPorts` |
| `NetdevInput` | `openvswitch/lib/dpif-netdev.c` | one polling thread and the flows others change meanwhile |
| `NetdevInputProofs` | | theorems about `NetdevInput` |
| `MC...` | | the values TLC checks each module with |

An operator whose comment begins with "Wrong:" is a fault a programmer could
make in the definition that follows it. It is used by no specification; with it
in place of that definition a property must fail, which shows that the property
can tell.

### RingBuffer

The variables are the fields of `struct RBMeta` under their names, the slots
`data`, and for each thread where it is in its call (`wpc`, `rpc`), the tuple it
writes (`item`) or has read (`out`) and the index `flush_ringbuffer` holds in a
register (`loaded`). Actions are cut at accesses to shared words:
`write_ringbuffer` is `WriteFails` or `WriteBegin`, `WriteReload` (the second load
of `readIndex`), `WriteStore`, `WritePublish`; `flush_ringbuffer` is
`FlushPublish`, `FlushLoad`, `FlushStore`; `read_ringbuffer` is `ReadFails` or
`ReadBegin`, `ReadReload`, `ReadStore`, `ReadPublish`. A thread is copying a slot
for as long as its pc is `"copy"`, so that `NoTornCopy` is about durations.

Memory is sequentially consistent. `readIndex` and `writeIndex` are `volatile`, but
the slots and `nextReadIndex`, which the flush loads from the other thread's side,
are not, and there is no barrier: what is shown holds for builds that keep the
program order of `memcpy` and the index stores, on a processor that keeps the
order of stores and of loads, as x86 does.

`FifoChannel` is the abstract specification. The refinement maps `queue` to the
slots from `nextReadIndex` to `nextWriteIndex`, `visible` to the distance to
`writeIndex` and `received` to `out`; the reader's batching and both caches
disappear. `PublishedIsRead` is the channel's `Delivery` under the same mapping.

### DpSimulate

`DpSimulate` extends `RingBuffer`; `ReplayTuples` says what its `Tuple` and `Zero` are. Each
action of main or the worker that touches the ring is an action of `RingBuffer` conjoined
with where the thread is, so that the composition keeps the ring's grain: `MainWrites` is the spinning write loop, `MainFlushes` the
flush, `WorkerReads` the spinning read loop. A packet is its place in the trace,
the sketch is the sequence of the packets it recorded since its reset (what the
counters make of them is the matter of `SketchLearn`), and a file is that
sequence as it was printed, after `SKL_CompleteZeroes`. `is_output` is taken to be
set, and `num_thread` is 1 as in the code. `FilesAreIntervals` compares the files with
`PacketsOf`, a definition of the intervals that mentions the trace only.

### TrueFlows

`true_flows.c` is `dp_simulate.c` with a key table for the sketch: `TrueFlows` extends
`DpSimulate`, conjoins its actions with what happens to the table, and leaves main as it
is. The table is the map that `KeyTable` implements. `sketch` and `files` then say
from which packets the table and its files were made, and the checks of both programs are
one run. `least` and `largest` are the six extremes the worker keeps; 0 stands for
none yet (`Less`).

### KeyTable

A list is an array of `ListLen` entries of which `list_len` are used; the unused
part is kept in the model because `key_tbl_record` reads it. `Record` is
`key_tbl_record` and the `+=` of every caller; `key_tbl_copy`, `key_tbl_read_file`
are sequences of it. Exhaustion is the process exiting. `Map == INSTANCE KeyMap`
hides lists, places and replaced entries: `sizes` and `since` are what
`key_tbl_find` returns for every key. Sizes do not overflow here (`MaxSize` bounds
them).

### Counters and SketchLearn

`Counters` is a module of operators, so that `SketchLearn` and `Controller` share it:
updating, completing, merging and checking the counters, and `Estimate`, `Possible` and
`Sure`, which bound what `SKL_Identify_Thresh` returns. A bit the code is not certain
of is decided by comparing two probabilities; `Possible` lets it be either, `Sure` are
the keys that are found whichever it is.

A counter is addressed by bucket and by total, set bit or clear bit. All
operations on whole sketches are actions, on any sketch in any order; counters
wrap at `Limit`. `SKL_Print` and `SKL_Serialize` write `file` and `buf`, which at first
hold a fresh sketch. `net` and `zeroNet` are auxiliary: what each key has been
counted with, and the same when the clear-bit counters were derived. `known` is
false for a sketch `SKL_Deserialize` filled without its having been reset, whose
counters mix two sketches. The bit distributions `SKL_CompleteZeroes` also computes
are floating point and not modelled.

### Controller

The state is that of the two nested functions: the sketch, `detect_with_thresh`'s copy
of it and key table, the candidates at hand, the flows accepted and recorded, the
threshold 1/`d`. What `SKL_Identify_Thresh` returns is any set between `Sure` and
`Possible`, and what `SKL_Est_Size` returns any size up to the cut that
`skl_est_bucket_size` makes (the statistics are floating point); 0 stands for every
estimate that is not accepted and for a confidence that is too low. `traffic` and
`taken` are auxiliary: the flows the sketch was printed for, and what has been
removed from the sketch for each.

### DpOvs

The workers' rings are `FifoChannel`s, which `RingBuffer` was shown to implement, so that
`Write`, `Flush` and `Read` are what a caller of the ring can rely on; `RingsAreChannels` says
that every step on a ring is one of the channel's, which `DpOvsProofs` proves. The kernel's ring is the stream
of packets that come out of it. A sketch and the worker's byte count are the
sequences of the packets counted in them. The flag of a packet's tuple is never set by
the hook in the kernel (`datapath.c:366`, `403-410`), so that a packet may come as
anything: as `TUPLE_PUNC` or `TUPLE_TERM`, `MaxStray` times at most. `ended`,
`interval_of` and `stray` are auxiliary: the length of each ended interval, the interval
each packet was sent in, and how many came with the flag of an end mark. `SKL_Update_Fast`
counts nothing, which `UpdateFast` says.

### KernelRing

The hook at the end of `ovs_dp_process_packet` is cut at its loads and stores of
`start_measurement` and, through `RingBuffer`, at those of the ring: `PacketComes` is the
first load, `OfferPacket` the one call of `write_ringbuffer` whose failure drops the
packet, `TestTail` and `SetStop` the second load and the store, `WriteTerm` the loop that
spins until `TUPLE_TERM` is in, `FlushTerm` the flush. `Start` and `Stop` are the two
commands of `device_ioctl`, given in turn by a process that also polls the ring. A
tuple is its kind and the number of the measurement it was made in, `run`, which is
auxiliary, as are `packets`, `starts`, `stops` and `terms`. One processor handles
packets; several that write one ring are the plan's `SharedRing`. The slots
are those the kernel writes; see the observations below for those the process reads.

### Datapath

Objects are the memory they are in. A flow command is cut where it takes and
releases `ovs_mutex`: what it allocates before (`AllocNewFlow`, `AllocSetFlow`), what it does
to the table under the mutex (`InsertFlow`, `InsertFails`, `UpdateActs`, `RemoveFlow`), and
what it frees after (`FreeOld`, `GiveUp`, `FreeRemoved`). Two threads
carry out commands; the commands on ports and datapaths are one step each, since they
hold the mutex from beginning to end. A packet, and a command that executes a packet, is
a reader under RCU which finds a port, a flow and its actions in steps of their own;
`deferred` is what waits, with the readers it waits for. A miss is an upcall,
which copies the packet and frees what it owns on every way out. A dump of ports takes
several replies of `Fit` ports and goes on at a place in a bucket's list. A wildcarded
flow covers every key. `faults` and `budget` are auxiliary.

### NetdevPorts

The main thread holds `port_mutex` all through a command, so that only
`reconfigure_datapath` is cut: where it waits for threads. `main.pc` goes through its
phases (stale ports, the threads to have, the ports to reconfigure, the schedule, the
queues to add, transmit ports), `polls` and `tx` are a thread's lists, `snap` and `cache` the
copies it works by. The signal is at the grain of the condition variable: `ReloadSeq`,
`ReloadSet`, `ReloadWait` on one side, `ReloadDone` under the same mutex on the other.
`Send` chooses a transmit queue, with any set of the thread's queues timed out.
Devices, their queues and failures of theirs are external. When the last handle of a destroyed
datapath is closed the ports are deleted one after the other, then all threads end
(`Ending`) and at last the instance the main thread works with (`DestroyNonPmd`); if every
port had failed before, there are still threads to end. `HMAP_FOR_EACH_SAFE` finds the port
that follows before it deletes one: `main.saved`, which is any port, since the order is that
of the hash map (`Following`), or `None` if there is no other. Deleting a port reconfigures the
others, and destroys those that fail. If the saved port is among them, the loop
goes on with freed memory, and the model has no more steps of the main thread (`Lost`).

### NetdevInput

`stack` is the polling thread's calls: `dp_netdev_input__` with its batches and missed
packets, and `dp_netdev_execute_actions` with what is left of its actions. Other
threads change flows under `flow_mutex` in the steps between. A flow has a reference
count as in the code, and is freed one grace period after the last. The cache has
two places for a key, as `EMC_FOR_EACH_POS_WITH_HASH` gives. Keys have a class (what
ofproto's mask makes of them), a port and a hash; packets that came in by one port still have
one after recirculation (`NetdevInputAssumption`), which is why a call may look in the classifier
of its first packet's port only. Packets are in memory or not, so that
a packet freed twice goes to `freed`. A batch is a sequence of any length, because
`packet_batch_per_flow_update` does not ask whether there is room; from the moment one is
longer than `Burst`, the size of the array in the code, its calls have no more steps
(`Intact`, in `At`), since what they would do is undefined. Other threads go on. `own`, the packets a call was
called with, and `old`, the flows that were dead by then, are auxiliary.
`IsPmd` says which thread this is. Only a pmd thread sweeps its cache (`pmd_thread_main`) and
reloads it; the others share an instance whose cache is filled by `dpif_netdev_run` and
`dpif_netdev_execute` and swept by nobody. The runs have a pmd thread, which has all the
actions; the theorems hold for both. The hook of the DPDK ring, which is compiled in
with DPDK only, changes nothing here and is left out.

## 3. What is checked

| run | configuration | shows |
|---|---|---|
| `replay` | 6 slots, batch 2, all traces of up to 5 packets in up to 3 intervals, two with late packets, one whose interval fills the ring; two flows, two sizes | files of sketches and of true flows are the intervals, complete; the extremes are those of the intervals; the ring implements `FifoChannel` and delivers; ends or wedges; ends if the ring has room for each interval and two batches |
| `replay_wedge` | the trace that fills the ring | *violated*: the replay need not end |
| `key_table` | 2 lists of 2 entries, 4 keys, timestamps -1 to 3, timeout 1 | a map that drops expired keys only, one entry per key |
| `sketch` | 2 sketches, 2 rows of 2 buckets, 3 keys of 2 bits, 4-bit counters, any 5 operations | counters are sums, files are accepted, estimates are upper bounds, a flow that dominates a bucket is found |
| `controller` | 4 keys of 2 bits, 2 rows, all flows of size up to 1 and some that stand out, 2 intervals | ends; sketch and copy are what is left; what is recorded was removed, once |
| `controller_recorded` | the same | *violated*: a flow is recorded with all that was removed for it |
| `ovs` | 3 workers, intervals of 2, capacity 2, batch 2, 20 packets, of which one may come with the flag of an end mark | packets stay in their interval, and a stray mark shifts one by one interval at most; the last worker's file is left |
| `kernel` | 5 slots, batch 2, 8 packets, 3 measurements | order of the ring's indexes, no torn copy; `TUPLE_TERM` is the last of its measurement, comes once, is not dropped and can be read; the hook returns or wedges |
| `datapath` | 2 threads, 1 processor, memory for 2 datapaths, 3 ports, 3 flows and 4 actions, 2 keys, 1 identifier, 2 buckets, 1 port to a reply | nothing is freed in use, twice or never; no twins; a dump reports what stays |
| `netdev_ports` | a local port, 2 polled devices with 2 queues each way, 2 cores | one poller; what is used is open; transmit queues counted and shared; all queues given out at rest; reconfiguration ends, unless the port saved by `dp_netdev_free` was destroyed |
| `netdev_input` | a pmd thread, 4 packets, 2 flows, 3 keys in 2 classes, 2 cache entries, bursts of 2, recirculation once | held flows live, batches fit, no overlap, batches open, overrun only by packets of another call, packets freed once; dead flows are freed |
| `netdev_input_own` | the same, a flow put and two bursts with one upcall | *violated*: the batches of a call hold its own packets |

`TypeOK` of `RingBuffer` and `KeyTable`, `WriterBatchBound`, `UnusedIsZero`, `NeverReplaced`,
`HeadroomIsMost` and `RingsAreChannels` are proved (section 4) and not repeated in a run.

### The bounds

The ring is checked in the programs that use it, and its theorems are about any use of it. Five slots
and a batch of two (`kernel`) are the least in which the ring wraps between
the halves of a batch, holds two unpublished parts at once, fills up with a
stale `readIndex` and is not a multiple of the batch; the packets of a replay, each of which is
another tuple, tell a lost, a repeated and a swapped one apart, since the channel compares contents. Replay:
up to three intervals, empty traces, gaps, intervals of a packet, of one batch, and of more
than the ring holds; with six slots there are traces with and without the room
`HasRoom` asks for. Key table: one list that can be exhausted and one that
cannot. Sketch: keys that collide in one row, and in both; two updates of 5 wrap
a counter; five operations are an update of each of two sketches, a completion,
a combination, and what is done with the result. Controller: all four keys of two
bits, one row in which they all meet and one that separates two pairs; flows of
size 0 and 1, and pairs of 3 and 2 that pass every threshold, so that a flow is
found, found again at the next threshold, wrongly found, and dropped. Two intervals
show that nothing is carried over. OVS: a first, a middle and a last worker; 20
packets end three intervals, which have 4, 6 and 8, so that `index` is at each
worker when an interval ends; a batch as large as the ring fills it. One stray mark can
reach any worker in any interval, before, between and after main's marks. Kernel: the
ring wraps, is full when a packet and when `TUPLE_TERM` comes, and can wedge; of three
measurements the second can begin and end while the hook is still at the first one's end.

In the runs of the two datapaths `Budgets` bounds how much of each kind happens in one history, a
few kinds at a time, so that what interacts is together and the product of all is not.
Datapath: either ports come and go with headrooms of 0 to 2 and a dump between, or
datapaths go with packets under way, or up to four flow commands of two threads meet a
packet; three ports in two buckets put two in one list, and a reply has room for one, so
that a dump stops inside a list. `MaxRoom` bounds the headrooms. NetdevPorts: two polled ports of two queues and two
cores move queues between threads in every way two threads can; two transmit queues for three
threads (two cores and the main thread) make them be shared, and devices, ports and masks
change, and fail, while a thread sends, up to all ports failing before the datapath is freed. NetdevInput: two flows of memory make every flow be
replaced in the cache by the other; keys `k1` and `k2` share a flow and collide in the
cache; a burst of two, one nested call and one upcall at each depth are what a batch
pointer can be wrong about; `refused`, `runt`, `disable` and `reload` are the early returns. The
programs are to drop, to recirculate twice, and all that is left; a program that recirculates twice,
in an upcall of the second packet of a burst whose first has opened the batch, makes three
packets in a batch for two: the run reaches overruns, and what follows them in other threads.

The configurations of `DpSimulate`, `TrueFlows`, `KeyTable`, `SketchLearn`, `Controller` and `DpOvs` do not
check deadlock: a replay and the controller end, the table's process exits, and
`MaxOps` and `MaxPackets` end a run; `Datapath` and `NetdevPorts` stop when their budget is
spent, `NetdevPorts` also when it is `Lost`, and `NetdevInput` when the thread has overrun a batch and the others
are through. `KernelRing`, whose reader polls for ever, never stops and is checked.

### Fairness

`DpSimulate` assumes that main
and the worker take steps, two threads under a preemptive scheduler; a thread waiting on
the semaphore is not enabled and needs no fairness until it is posted. `Controller` is
one sequential program and assumes that it goes on while it can. `KernelRing` assumes
that the hook, once entered, runs until it returns, and that the process polls; no packet
need come and no command be given. `NetdevPorts` assumes that the main thread, which calls
`dpif_netdev_run` in a loop, goes on with a reconfiguration and that each polling thread runs;
that its wait ends with the signal is an assumption of the code, which calls
`ovs_mutex_cond_wait` without a loop, and so of the model. `NetdevInput` assumes that threads go
on with what they have begun, that a pmd thread sweeps its cache (it does every 1024
rounds of `pmd_thread_main`) and that grace periods end. Of a thread that is not a pmd thread no sweep is assumed:
`Sweep` is not enabled, and `DeadIsFreed` says nothing. Nothing is assumed of the order in which threads run.

### What was found

1. `flush_ringbuffer` (`ringbuffer.c:204`) copies the reader's `nextReadIndex` to `readIndex`
   from the writer's thread. Between its load and its store the reader may read
   on and publish a later index, which the store takes back. The order of the
   indexes survives this (`RingOrder`, proved), so no tuple is lost or torn; but as
   many freed slots as were read in between stay hidden, up to all of the ring, against
   the diagram of `ringbuffer.h:34`. The hidden slots can be what main waits for: if
   the ring is full in main's eyes while less than a batch is unpublished, the
   worker has nothing to read and publishes nothing, and both spin for ever
   (`Wedged`, run `replay_wedge`). `EndsOrWedges` shows that nothing else keeps a replay from
   ending, and `EndsWithRoom` that a ring with room for an interval beyond two batches
   does not wedge. With 2000 slots and batches of 50 it takes an interval of about 1900
   packets read at the wrong time.
2. `detect_with_thresh` starts every threshold with an empty table of found keys, so
   that a flow estimated too small at 1/2 can be extracted again at 1/3. The second
   part is removed from the sketch (`controller.c:183`) but not recorded, since the key
   has been (`controller.c:162`): it is reported nowhere (run `controller_recorded`).
3. The comment of `dpif-netdev.c:4347-4355` says that the batch pointers of a call's flows are reset
   before a packet can be recirculated, since it would be "wrongly appended" to a batch of the
   outer call. `handle_packet_upcall` carries out the actions of an upcall earlier (`4186`), from
   `fast_path_processing`, while the batches that `emc_processing` has opened are not reset. What these actions
   recirculate goes to a nested call, and is appended to the outer call's batch if it
   matches that batch's flow (run `netdev_input_own`); the comment of the member `batch`
   (`384-387`), "reset after the batch has been sent out", is not right either, as no batch is
   sent out before all are reset. Such a packet is
   carried out with its own flow and once (`BatchesFit`, `FreedOnce`), as long as there
   is room. A batch has room for `NETDEV_MAX_BURST` packets, which is what a call may have by
   itself; several recirculations in the upcalls of one burst can make it more, and
   `packet_batch_per_flow_update` (`4024`) then stores past the end. `BurstIsEnough` shows that a batch
   is never overrun in another way, and `BatchIsOpen` that nothing is recirculated in between
   but by an upcall. It takes a flow in the cache and a burst that begins with a packet of it,
   and packets without a flow whose actions make them packets of that same flow, which is
   ofproto's choice: a tunnel's output port is the `in_port` of what comes out, and a
   recirculation id may come up again in a nested call.

Observations met while modelling, which no run refutes:

- `SKL_Update_Fast`, with which `dp_ovs` records packets, hashes the key and counts
  nothing: the call that would is commented out (`alg_sketchlearn.c:509`). Every sketch
  `dp_ovs` prints is empty.
- The hook does not set the flag of a packet's tuple, and the workers of `dp_ovs` decide
  by it: a stray value ends a worker's interval or the worker.
- The kernel's slots begin behind `struct RBAppro` (`datapath/ringbuffer.c:12-14`), the
  process takes them to begin behind `struct RBMeta` (`ringbuffer.c:165`): it follows the right
  indexes and copies from the wrong place.
- The hook tests for TAIL and stores STOP in two steps (`datapath.c:412-413`). A start
  command that comes in between is overwritten, and nothing is recorded until the
  next one, although `datapath.c:114` says of it that it makes the kernel write.
- Each interval of `dp_ovs` is longer than the one before by `interval_len` packets,
  because `interval_cnt` starts again at 0 and `last_interval` does not.
- The workers of `dp_ovs` write files of the same name, so that only the last worker's
  is left (`LastWorkersFile`).
- The last interval of `true_flows` never enters the extremes: they are compared when
  an interval ends with `TUPLE_PUNC`, and the last one ends with `TUPLE_TERM`. The line that
  would report them is commented out (`true_flows.c:155`).
- `ovs_flow_cmd_set` without actions hands an error pointer to `kfree_skb` when no reply
  can be built (`datapath.c:1317-1345`, `SetReplyFails`).
- `dp_init` undoes what it has registered, but not the Generic Netlink families when the ring
  or the device fails, nor the ring when the device does (`Undone`).
- A datapath can be named by any of its internal ports, not only by its local one
  (`get_dp_rcu`).
- `do_add_port` returns 0 although the reconfiguration it starts may have removed the port
  again (`PortFails`); and whether transmit queues are shared is found out anew only for
  ports that are reconfigured, although the number of threads changes for all.
- `dp_netdev_free` loops over the ports with the next one saved (`dpif-netdev.c:1157`), and `do_del_port`
  reconfigures the datapath, which destroys a port that does not take on its configuration
  (`3278-3281`). If that is the saved one, the loop uses freed memory (`Lost`). `Settles`
  excepts it; in all other cases a reconfiguration ends.
- The cache of the instance that is not a pmd thread is never swept (`emc_cache_slow_sweep` is called in
  `pmd_thread_main` only). Flows that were deleted stay there, with their memory, until their
  entries are used for others or the datapath is freed.
- `SKL_Deserialize` leaves the counters of the target that are 0 in the buffer as they were
  (`alg_sketchlearn.c:1146`). `CountersAreSums` speaks only of targets that were reset before; no
  program calls the function.
- Ports that go with their device or with a network namespace (`datapath.c:2476`) go without an update of
  the headroom, which `HeadroomIsMost` shows for ports that commands remove. Both are not
  modelled.
- An upcall installs a flow without looking at `MAX_FLOWS`, which `dpif_netdev_flow_put` does.

## 4. What is proved

`RingProofs` proves, for every `RbSize > 1`, `RbBatch > 0`, set of tuples and
initial tuple (the three ASSUMEs of `RingBuffer`):

| theorem | statement |
|---|---|
| `TypeCorrect` | `Spec => []TypeOK` |
| `RingOrderHolds` | `Spec => []RingOrder` |
| `NoTornCopyHolds` | `Spec => []NoTornCopy` |
| `WriterBatchHolds` | `Spec => []WriterBatchBound` |
| `Refinement` | `Spec => ImplementsChannel` |

The argument rests on one inductive invariant, `IndInv`. Going round the ring from
`localReadIndex`, `RingOrder` puts the six indexes in order; by itself it is not
inductive, because whether a step keeps it depends on what a thread has found out
earlier in its call. `WriterKnows` records that: a writer about to reload has seen a
`readIndex` other than the next slot, a writer that copies has a free slot ahead,
and the index a flush has loaded lies between `localReadIndex` and
`nextReadIndex`, which is why a late store of it does no harm. `ReaderKnows` says the same of the reader,
and `BatchCovers` that `wBatchCount` counts at least what is unpublished. Distances
are a modulus written as a case distinction (`Dist`), so that all arithmetic is
linear; the lemmas on `Dist` and `SlotAfter` are stated once. Refinement maps each
step to a send, a publication, a receipt or a stutter.

`KeyTableProofs` proves, for every number and length of lists, hash function, timeout,
set of timestamps other than 0 and set of sizes (`KeyTableAssumption`):

| theorem | statement |
|---|---|
| `TypeCorrect` | `Spec => []TypeOK` |
| `UnusedIsZeroHolds` | `Spec => []UnusedIsZero` |
| `EachKeyOnceHolds` | `Spec => []EachKeyOnce` |
| `NeverReplacedHolds` | `Spec => NeverReplaced`, if -1 is the only timestamp |
| `Refinement` | `Spec => ImplementsMap` |

`EachKeyOnce` speaks of what `key_tbl_find` returns; the inductive invariant says it of
the places: a used place holds a key that hashes to its list (`Placed`), two places of
a list hold two keys (`Distinct`), and `UnusedIsZero`, without which a new entry would
start with an old size. `RecordedAt` proves once that writing an entry at a place
keeps all of it if no other place of the list has the key; the three branches of
`key_tbl_record` differ only in the place. For the refinement, `KnownAfter` says that
`Find` returns the same places for all other keys except the one that was replaced,
and `RecordAdds` concludes that this is an `Add` of the map. `FirstIsIn` rests on the
well-foundedness of `<`. Nothing is assumed of the order of timestamps: that they
do not decrease is a guard of the model, not used in the proofs.

`DpOvsProofs` proves, for every number of workers, capacity, batch and length of an interval
(`OvsAssumption`), with any number of stray flags:

| theorem | statement |
|---|---|
| `RingsAreChannelsHolds` | `Spec => RingsAreChannels` |
| `Invariance` | `Spec => []IndInv` |
| `InStepHolds` | `Spec => []InStep` |
| `LastWorkersFileHolds` | `Spec => []LastWorkersFile` |

Each step is a send, a publication or a receipt on the ring of one worker and nothing on
the others; `RingInv` (the types of the rings and of main's loop variables, and that no more
is visible than there is) is what makes the updates of one worker's entry leave the
others'. With `Refinement` of `RingProofs` this is the composition of the two: `dp_ovs`
asks of its rings what they keep.

`InStep` compares two numbers that are counted apart, a worker's `cur_interval` and main's.
`SemInv` is an equation between the worker's number, what its semaphore holds and
the end marks main has awaited, which keeps the worker from falling behind. What keeps it from
running ahead is in its ring: `Late` says that the tuples there can be numbered by
the interval they will be counted in, growing with every end mark (`Numbers`), so that no
packet is numbered higher than its interval by more than the stray marks there have been.
`FilesInv` adds, without stray marks, whose file each number has.

`SketchLearnProofs` proves, for every finite set of keys, number of rows, width and hash
functions, number of bits and width of a counter (`CountersAssumption`, `SketchAssumption`):

| theorem | statement |
|---|---|
| `Invariance` | `Spec => []IndInv` |
| `CountersAreSumsHolds` | `Spec => []CountersAreSums` |
| `AcceptsCompletedHolds` | `Spec => []AcceptsCompleted` |
| `NeverUnderestimatesHolds` | `Spec => []NeverUnderestimates` |
| `MajorityFoundHolds` | `Spec => []MajorityFound` |

The inductive invariant says of sketches, of the file and of the buffer alike that
they are `Sums` of what `net`, `zeroNet` and `written` name. A step adds, subtracts or replaces
sizes, so all rests on what a sum over a set of keys does: it is linear (`TotalLinear`), the sum of
its parts (`TotalSplit`), and a counter that wraps is the sum modulo `Limit` (`Cong`, `Wrap`). The
sum is a recursive function of the library, and its laws, which are in `TotalsProofs`, need induction over finite sets.
The library's theorem for that takes an operator; `SubsetInduction`
takes a set of sets instead, and is proved from the well-foundedness of `<`. The two
last theorems are about sketches without overflow, whose counters are plain sums of
natural numbers: a bucket has at least what any of its keys has (`EstimateCovers`), and where one
flow has more than the rest, each of its bits is told by the larger of two
counters (`MajoritySure`).

`SketchLearnProofs` also proves, about `Controller`, for any flows of any sizes, also of more
than the counters hold, and any number of intervals (`TrafficAssumption`):

| theorem | statement |
|---|---|
| `InferenceInvariance` | `SpecInference => []InferenceInv` |
| `SketchIsRemainderHolds` | `SpecInference => []SketchIsRemainder` |
| `RecordedWereTakenHolds` | `SpecInference => []RecordedWereTaken` |

The invariant names the vector of sizes that each sketch is of: the sketch, of what was not taken
(`SketchInv`); its copy, of what was neither taken nor accepted since (`CopyInv`), so that the two are one
again when a threshold is given up. The program removes flows in a loop over a list of estimates,
in the model a fold; what the fold does to the counters is what `Tally`, a fold over the same list, does to
the sizes. An estimate may exceed what is left of a flow, and sizes below 0 wrap with the
counters: all is said of sizes modulo `Limit`. `RecordsFit` says that the list of recorded
flows and the sizes taken are about the same keys, each once.

`DatapathProofs` proves, for any datapaths, ports, flows, actions, processors, threads,
identifiers, keys, buckets and budgets (`DatapathAssumption`):

| theorem | statement |
|---|---|
| `Invariance` | `Spec => []IndInv` |
| `TypesHold` | `Spec => []MemoryTypes` |
| `HeldIsLiveHolds` | `Spec => []HeldIsLive` |
| `ActsHaveOneOwnerHolds` | `Spec => []ActsHaveOneOwner` |
| `NoTwinsHolds` | `Spec => []NoTwins` |
| `HeadroomIsMostHolds` | `Spec => []HeadroomIsMost` |
| `DumpReportsHolds` | `Spec => []DumpReports` |

`HeldInv` says for each step of a reader what it holds and why that is there: it is linked, or it
waits for a grace period that began with this reader in it (`WaitsFor`), or a command still has it
in hand. The last way is why the commands' steps are part of the argument: `CmdInv` says what a
command has at each of them, `OneOwner` that actions belong to one flow, one command or one waiting
entry. `DeferredInv` says that what waits is unlinked, which keeps new readers from it and makes it
wait once. `NoTwins` holds on top of this invariant, since a lookup under the mutex decides on
the insertion and not the one before. `HeadroomIsMost` is not inductive: when the neediest port
goes the code looks for the next one among those left, so that `Needs` also says that the headroom is
some port's and that the local port, which needs none, is there for as long as the
datapath. `DumpReports` is about the end of a dump; until then a port that has been there all
the while is reported, or its place is `Ahead` of the place where the next reply begins, or its bucket has moved up (`DumpInv`).
Ports are put at the head of a bucket (`GrowPlaces`), which moves the others away from that place and never past it: a port may
be reported twice, but is not left out. `ListedInv`, that each attached port is in the list
of its bucket, is what a dump starts from.

`NetdevPortsProofs` proves, for any finite sets of devices, polled devices and cores, numbers of
queues and budgets (`NetdevPortsAssumption`), also when devices change and fail:

| theorem | statement |
|---|---|
| `Invariance` | `Spec => [](IndInv /\ FreeInv /\ MaskType)` |
| `OnePollerHolds` | `Spec => []OnePoller` |
| `InUseIsOpenHolds` | `Spec => []InUseIsOpen` |
| `TxqUsedCountsHolds` | `Spec => []TxqUsedCounts` |
| `OwnTxqHolds` | `Spec => []OwnTxq` |
| `AtRestHolds` | `Spec => []AtRest` |

`OnePoller` speaks of the copies by which threads poll, and the main thread only changes
the lists. The invariant that ties them together is `CopiesInv`: a thread that is not `Due` to reload goes by a
part of its lists. So a queue may be given to a thread only when no other has it in its list or its
copy (`OwnerInv`), and a port may be closed or changed only when it is `Gone` from the
lists and the threads have reloaded (`GoneInv`, by the phase of the reconfiguration, which
`Phase` reads through the handshake). `HandshakeInv` follows the handshake at the grain of the
condition variable. `TxqUsedCounts` is kept by counting `Users` of a queue before and after each step
(`CountOne`, `ReleasedFrame`); `OwnTxq` rests on `TidInv`, that threads have different numbers below the
number of threads, and on `ThreadsCounted`, that a port that does not share its transmit queues
has as many as there are threads.

`IndInv` says that nothing goes by too much, and `AtRest` that nothing goes by too little either, which needs two more
inductive parts. `SyncedInv` is about the copies: those of a thread are exactly its lists (`Exact`) unless it is marked to reload
(`need`), a thread that is marked is still to be told by the main thread (`Waits`), and one that has been told to end is
waited for. So the flag `need_reload` may be reset only after the lists that a reload copies have last
changed. `RestInv` is about the lists, from the scheduling of the queues on: every queue with a thread is in the list of that
thread once step 6 has come to its port (`PollsInv`), every thread with a queue has all ports (`TxInv`), and a
queue has no thread only if there is none for it (`ScheduleInv`), unless a command since then has asked for queues to be
scheduled again (`request`). `TxInv` stands on `NumbersInv`: whether a
thread has a port already is looked up by the port's number. The calls between reconfigurations keep all of this as they end with one of their own
or leave lists and pins alone.
`FreeInv` is for the end of a datapath: as long as there are ports `dp_netdev_free` has one saved, so
that when it has none it ends the threads with no port left. That the saved one is still
there cannot be proved; it is not so in the code.

`NetdevInputProofs` proves, for any memory, packets, keys with their classes, ports and hashes, size of the cache,
programs, burst, bounds and budgets (`NetdevInputAssumption`):

| theorem | statement |
|---|---|
| `NetdevInvariance` | `Spec => []IndInv` |
| `HeldIsLiveHolds` | `Spec => []HeldIsLive` |
| `BatchIsOpenHolds` | `Spec => []BatchIsOpen` |
| `BurstIsEnoughHolds` | `Spec => []BurstIsEnough` |
| `FreedOnceHolds` | `Spec => []FreedOnce` |
| `NoOverlapHolds` | `Spec => []NoOverlap` |
| `BatchesFitHolds` | `Spec => []BatchesFit` |

`MemoryInv` is about references. The count of a flow is one for the table and one for each
entry of the cache (`Counted`), and a flow without references is freed once (`DeferredOnce`). What the calls and a
dump use is not counted: it is referenced or waits for a grace period that has
them as readers (`HeldInv` of `CallInv`, and `DumpInv`). So when a cache entry is overwritten under a call that works with
its flow, the flow outlives the call. `BatchIsOpen` is part of `CallInv`, because a call that queues a
packet goes by the batch pointer of the flow, whichever call has set it. That the call which
has set it has a nested call only while it is in an upcall (`Nested`) is the order of `ResetBatches` and
`ExecuteBatch`. `BurstIsEnough` follows from where the packets of a call are: those it was called with are a
burst at most, and each is in one batch at most.
All theorems about this module are about executions up to an overrun, since the thread has no step after one.

`PacketInv` says that a packet in memory has one call that must free it or give it away (`Own`), and
that a call which may not (`may_steal`) works with the packets of a call below it
(`LentInv`). `Own` follows the place a call has reached: packets it has yet to look up, those
that wait for an upcall or a rule (`Pending`), those in batches that have not been executed.

`FitInv` says whose packets a flow gets: entries of the cache are of flows that match their
key (`EmcFit`); as long as a call looks for rules its packets are of one port (`MissedAlike`);
what it has found matches the packet and was not dead when it began (`RulesFit`), and
so do the batches (`QueuedFit`). It holds over a step because the flows a call
holds keep their keys, which needs `MemoryInv`, and its packets theirs, which needs `PacketInv`:
a packet is freed and used again by someone else only when no call has it.

`RingProofs` also proves, about the three programs that use the ring at its full grain, for every
size and batch of it, any number of packets and commands, any set of traces (`TraceAssumption`:
intervals of a length other than 0, timestamps of at least that, and a longest trace, since the
program reads it to a buffer of a fixed size) and any keys and sizes of their packets
(`TrueFlowsAssumption`: sizes are not 0):

| theorem | statement |
|---|---|
| `ReplayFilesAreIntervals` | `SpecReplay => []FilesAreIntervals` |
| `TrueFlowsReplay` | `SpecFlows => SpecReplay` |
| `TrueFilesHold` | `SpecFlows => []TrueFilesAreIntervals` |
| `ExtremesHold` | `SpecFlows => []ExtremesAreOfIntervals` |
| `KernelTermIsLast` | `SpecKernel => []TermIsLast` |
| `KernelTermIsPublished` | `SpecKernel => TermIsPublished` |

The programs extend `RingBuffer`, so that the theorems about it can be cited of their rings. What a
tuple is differs from program to program and cannot be the ring's constant for all of them:
that `Tuple` and `Zero` are what the program defines (`ReplayTuples`, `KernelTuples`) is the hypothesis of each
theorem, and the modules TLC checks the programs with assume it of the values they give. That a step of
a program is one of the ring's, which keeps `IndInv`, is `ReplayStepsRing` and `HookStepsRing`; what
it does to the contents of the ring is the step of `FifoChannel` that `Refinement` found, so that all
that follows is about a sequence.

For the replayer that sequence is `Unread`, the tuple the worker has in hand and those in the
ring, and `StreamInv` says what it is: the packets from the one after the last
recorded to the last sent, then the mark of an end if there is one. The rest of the invariant
tells main and the worker apart from each other: between the mark and the `sem_post` that answers it
the worker's interval is one behind main's (`Intervals`, `Unanswered`), the sketch has the packets of the
worker's interval only (`SketchInv`), and so has the file it becomes (`FilesInv`). That
`IntervalNumber` counts main's intervals is a lemma about the high waters of the trace (`NextNumber`).

The true flows add to this that the table is the sum, by key, of the packets the sketch would hold
(`TableInv`): one packet more is one entry changed or added (`BytesOfMore`) and its size more in all
(`AllBytesOfMore`). The extremes bound what has been counted of each interval, and are attained
(`Bounds`). That 0 can stand for no interval yet holds because nothing counted of an interval that ends is 0
(`MeasureType`): `PuncEndsFile` finds a packet in front of each `TUPLE_PUNC`.

For the hook, a `TUPLE_TERM` in the ring or on its way to it is of a measurement that has ended
(`Ended`), whatever start and stop commands have come since it was seen, which keeps later packets behind it in a later one;
`TermBehind` follows it from the memcpy to the end of the flush.

What stays with TLC. Liveness is outside what TLAPS proves: `PublishedIsRead`, `EndsOrWedges`,
`EndsWithRoom`, `HookReturns`, `Settles`, `DeadIsFreed` and the termination of `Controller`. Some
induction over data is possible, where the induction is over a set that stands for what is shown, as in
`TotalsProofs`. Every invariant and action property
that a passing run checks is proved.

## 5. What is not modelled, and the plan

In this order:

1. `SharedRing`: several writers on one ring without a lock, which is what several kernel
   processors (`datapath.c:410`) and several polling threads (`dpif-netdev.c:4095`, with one
   static tuple) are; with one writer it is `RingBuffer`, with two the batch bound and the
   order of the indexes are in question.
2. `ShmHandshake`: creation and connection through the semaphore in shared memory.
3. `Adapters`: directory and record adapters; `Decode`: the decoder's decisions
   and counters.
4. `Algorithms`: `calc_next_prime`, mangling; `P4Pipeline`: the match-action update
   against `loginsert`; `HashTable`.
5. Several polling threads over one set of flows (`NetdevInput` has one, and its cache is
   its own), and masks that overlap.

What is worth proving next comes with these modules: no invariant of the present runs is left.

Left out for good: configuration files, processor pinning and logging (no state
or no effect on it), floating-point statistics, and of the two datapaths the statistics,
meters, connection tracking, tunnel headers, the parsing and formatting of messages, the
commands that only read, and a second network namespace.
