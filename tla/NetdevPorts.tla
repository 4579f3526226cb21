---------------------------- MODULE NetdevPorts ----------------------------
(***************************************************************************)
(* The user-space datapath, openvswitch/lib/dpif-netdev.c: its ports, the  *)
(* threads that poll their receive queues (pmd threads), and               *)
(* reconfigure_datapath, which gives ports and queues to threads while the *)
(* threads run.                                                            *)
(*                                                                         *)
(* The main thread holds port_mutex all through a command.  It changes the *)
(* lists poll_list and tx_ports of a thread, which go on to use the copies *)
(* they made, and then makes the thread reload: it signals, and waits on a *)
(* condition variable for the thread to have made new copies.              *)
(*                                                                         *)
(* A port is the device it stands for.  Devices, and the cores of the      *)
(* system, are external.  The caches of tunnel ports, which are loaded and *)
(* freed together with those of ports to send to, are left out, and so are *)
(* the counters; time passes when a step says that it does.  The wait for  *)
(* a thread is taken to end with its signal, on which the code relies too. *)
(***************************************************************************)
EXTENDS Integers, FiniteSets, Sequences, FiniteSetsExt, SequencesExt

CONSTANTS
    Dev,               \* devices
    PmdDev,            \* those that are polled (netdev_is_pmd)
    Core,              \* processor cores
    Numa,              \* the numa node of each core and device
    MaxRxq, MaxTxq,    \* the queues a polled device offers
    MaxNo,             \* the highest port number
    Mask,              \* values of pmd-cpu-mask, as sets of cores
    DefaultCores,      \* NR_PMD_THREADS cores of each numa node
    Affinity,          \* values of pmd-rxq-affinity: a core or None for each queue
    Budgets,           \* a bound: how much of each kind happens
    Local, NonPmd, None

ASSUME NetdevPortsAssumption ==
    /\ PmdDev \subseteq Dev /\ Local \in Dev \ PmdDev
    /\ MaxRxq \in Nat \ {0} /\ MaxTxq \in Nat \ {0} /\ MaxNo \in Nat \ {0}
    /\ Mask \subseteq SUBSET Core /\ DefaultCores \subseteq Core
    /\ Affinity \subseteq [0 .. MaxRxq - 1 -> Core \cup {None}]
    /\ IsFiniteSet(Core) /\ IsFiniteSet(Dev)
    /\ NonPmd \notin Core /\ None \notin Core \cup Dev

VARIABLES
    port,              \* struct dp_netdev_port
    netdev,            \* struct netdev: queues it has and asks for, and whether it needs
                       \* to be reconfigured
    pmd,               \* struct dp_netdev_pmd_thread
    cmask,             \* dp->pmd_cmask
    request,           \* reconfigure_seq # last_reconfigure_seq
    main,              \* where the main thread is; in dp_netdev_free, the port the loop
                       \* has saved
    ref,               \* dp->ref_cnt: the handles, and whether dp->destroyed
    budget             \* what may still happen

vars == <<port, netdev, pmd, cmask, request, main, ref, budget>>

Thread == Core \cup {NonPmd}
Queue == PmdDev \X (0 .. MaxRxq - 1)
LOCAL_NO == 0          \* ODPP_LOCAL

NoPort == [st |-> "none", no |-> 0, need |-> FALSE, rxq |-> 0, dynamic |-> FALSE,
           used |-> <<>>, aff |-> [q \in 0 .. MaxRxq - 1 |-> None],
           pmd |-> [q \in 0 .. MaxRxq - 1 |-> None]]
NoPmd == [pc |-> "none", tid |-> 0, polls |-> {}, tx |-> {}, need |-> FALSE, seq |-> FALSE,
          reload |-> FALSE, latch |-> FALSE, snap |-> {}, cache |-> <<>>]
Idle == [pc |-> "idle", todo |-> {}, on |-> None, next |-> "idle", del |-> {}, saved |-> None]

\* netdev_open: a polled device wants to be configured first.
NewNetdev(d, rxq) ==
    [rxq |-> 1, txq |-> 1, want |-> 1, wantrx |-> rxq, reconf |-> d \in PmdDev]

Init ==
    /\ port = [d \in Dev |-> NoPort]
    /\ netdev = [d \in Dev |-> NewNetdev(d, 1)]
    /\ pmd = [c \in Thread |-> NoPmd]
    /\ cmask = None
    /\ request = FALSE
    /\ main = Idle
    /\ ref = [handles |-> 0, destroyed |-> FALSE]
    /\ budget \in Budgets

Ports == {d \in Dev: port[d].st = "in"}           \* dp->ports
Polling == {c \in Thread: pmd[c].pc # "none"}     \* dp->poll_threads
Running == Polling \ {NonPmd}
Spend(kind) == budget[kind] > 0 /\ budget' = [budget EXCEPT ![kind] = @ - 1]

-----------------------------------------------------------------------------
(* Transmit queues (XPS) *)

\* Thread c gives up the queues it uses to send to the ports ds.
\* dpif_netdev_xps_revalidate_pmd, for ports whose queues are shared out.
Released(c, ds) ==
    LET mine == {d \in ds \cap DOMAIN pmd[c].cache: port[d].dynamic /\ pmd[c].cache[d] >= 0} IN
    [d \in Dev |-> IF d \in mine THEN [port[d] EXCEPT !.used[pmd[c].cache[d]] = @ - 1]
                   ELSE port[d]]

\* dpif_netdev_xps_get_tx_qid: the first of the least used queues.
LeastUsed(used) == Min({q \in DOMAIN used: \A r \in DOMAIN used: used[q] <= used[r]})

\* What is in use when thread c, whose queues for the ports late have timed out,
\* sends to port d: dpif_netdev_xps_get_tx_qid.
SendXps(c, d, late) ==
    LET kept == pmd[c].cache[d] >= 0 /\ d \notin late
        after == Released(c, late)
        q == LeastUsed(after[d].used)
        old == {e \in late: port[e].dynamic} IN
    IF kept THEN UNCHANGED <<port, pmd>>
    ELSE /\ port' = [after EXCEPT ![d].used[q] = @ + 1]
         /\ pmd' = [pmd EXCEPT ![c].cache =
                      [e \in DOMAIN @ |-> IF e = d THEN q ELSE IF e \in old THEN -1 ELSE @[e]]]

\* dp_execute_cb, OVS_ACTION_ATTR_OUTPUT: a queue from XPS, or the thread's own.
Send(c) ==
    /\ pmd[c].pc = "poll"
    /\ \E d \in DOMAIN pmd[c].cache, late \in SUBSET DOMAIN pmd[c].cache:
        /\ Spend("send")
        /\ port[d].dynamic
        /\ SendXps(c, d, late)
    /\ UNCHANGED <<netdev, cmask, request, main, ref>>

-----------------------------------------------------------------------------
(* The polling threads *)

\* pmd_load_cached_ports: the copies are made anew, without the queues in use.
Copied(c) == [d \in {e \in pmd[c].tx: netdev[e].txq > 0} |-> -1]

\* Wrong: the queues in use are not given up.
LoadQueuesKeepsTxq(c, pc) ==
    /\ pmd' = [pmd EXCEPT ![c].snap = pmd[c].polls, ![c].cache = Copied(c), ![c].pc = pc]
    /\ UNCHANGED port

\* pmd_load_queues_and_ports
LoadQueues(c, pc) ==
    /\ port' = Released(c, DOMAIN pmd[c].cache)
    /\ pmd' = [pmd EXCEPT ![c].snap = pmd[c].polls, ![c].cache = Copied(c), ![c].pc = pc]

\* pmd_thread_main up to its loop.
Start(c) ==
    /\ pmd[c].pc = "start"
    /\ LoadQueues(c, IF pmd[c].polls = {} THEN "block" ELSE "poll")
    /\ UNCHANGED <<netdev, cmask, request, main, ref, budget>>

\* A thread without queues waits until reload_seq changes.
Unblock(c) ==
    /\ pmd[c].pc = "block" /\ pmd[c].seq
    /\ pmd' = [pmd EXCEPT ![c].pc = "poll"]
    /\ UNCHANGED <<port, netdev, cmask, request, main, ref, budget>>

\* Every so often the loop looks whether it is to reload.
Reload(c) ==
    /\ pmd[c].pc = "poll" /\ pmd[c].reload
    /\ LoadQueues(c, "loaded")
    /\ UNCHANGED <<netdev, cmask, request, main, ref, budget>>

\* The main thread holds cond_mutex until it waits.
Locked(c) == main.pc \in {"signal", "set"} /\ main.on = c

\* Wrong: the condition is signalled without cond_mutex.
ReloadDoneUnlocked(c) ==
    /\ pmd[c].pc = "loaded"
    /\ pmd' = [pmd EXCEPT ![c].reload = FALSE, ![c].seq = FALSE,
                          ![c].pc = IF pmd[c].latch THEN "exit"
                                    ELSE IF pmd[c].snap = {} THEN "block" ELSE "poll"]
    /\ main' = IF main.pc = "wait" /\ main.on = c THEN [main EXCEPT !.pc = "woken"] ELSE main
    /\ UNCHANGED <<port, netdev, cmask, request, ref, budget>>

\* dp_netdev_pmd_reload_done; exit_latch was read just before.
ReloadDone(c) ==
    /\ pmd[c].pc = "loaded" /\ ~Locked(c)
    /\ pmd' = [pmd EXCEPT ![c].reload = FALSE, ![c].seq = FALSE,
                          ![c].pc = IF pmd[c].latch THEN "exit"
                                    ELSE IF pmd[c].snap = {} THEN "block" ELSE "poll"]
    /\ main' = IF main.pc = "wait" /\ main.on = c THEN [main EXCEPT !.pc = "woken"] ELSE main
    /\ UNCHANGED <<port, netdev, cmask, request, ref, budget>>

\* The end of pmd_thread_main: pmd_free_cached_ports.
Exit(c) ==
    /\ pmd[c].pc = "exit"
    /\ port' = Released(c, DOMAIN pmd[c].cache)
    /\ pmd' = [pmd EXCEPT ![c].pc = "ended", ![c].cache = <<>>, ![c].snap = {}]
    /\ UNCHANGED <<netdev, cmask, request, main, ref, budget>>

PmdThread(c) == Start(c) \/ Unblock(c) \/ Reload(c) \/ ReloadDone(c) \/ Exit(c)

-----------------------------------------------------------------------------
(* dp_netdev_reload_pmd__ *)

\* The main thread makes the threads cs reload, one by one, and goes on at next.
Reloading(cs, next) == [main EXCEPT !.pc = "reload", !.todo = cs, !.next = next]

\* The instance for all other threads has no thread: its copies are made at once.
ReloadNonPmd ==
    /\ main.pc = "reload" /\ NonPmd \in main.todo
    /\ port' = Released(NonPmd, DOMAIN pmd[NonPmd].cache)
    /\ pmd' = [pmd EXCEPT ![NonPmd].cache = Copied(NonPmd), ![NonPmd].need = FALSE]
    /\ main' = [main EXCEPT !.todo = @ \ {NonPmd}]
    /\ UNCHANGED <<netdev, cmask, request, ref, budget>>

\* The threads are to end: dp_netdev_destroy_all_pmds.
Ending == main.next \in {"create", "destroy"}

\* seq_change(reload_seq), with cond_mutex held.  A thread that is to end has its
\* exit_latch set before.
ReloadSeq ==
    /\ main.pc = "reload"
    /\ \E c \in main.todo \ {NonPmd}:
        /\ pmd' = [pmd EXCEPT ![c].seq = TRUE, ![c].latch = Ending]
        /\ main' = [main EXCEPT !.pc = "signal", !.on = c, !.todo = @ \ {c}]
    /\ UNCHANGED <<port, netdev, cmask, request, ref, budget>>

ReloadSet ==
    /\ main.pc = "signal"
    /\ pmd' = [pmd EXCEPT ![main.on].reload = TRUE]
    /\ main' = [main EXCEPT !.pc = "set"]
    /\ UNCHANGED <<port, netdev, cmask, request, ref, budget>>

\* ovs_mutex_cond_wait releases cond_mutex.
ReloadWait ==
    /\ main.pc = "set"
    /\ main' = [main EXCEPT !.pc = "wait"]
    /\ UNCHANGED <<port, netdev, pmd, cmask, request, ref, budget>>

\* A thread that goes on is done with, one that ends is joined: dp_netdev_del_pmd.
ReloadNext ==
    /\ main.pc = "woken"
    /\ IF Ending
         THEN /\ pmd[main.on].pc = "ended"
              /\ pmd' = [pmd EXCEPT ![main.on] = NoPmd]
         ELSE pmd' = [pmd EXCEPT ![main.on].need = FALSE]
    /\ main' = [main EXCEPT !.pc = "reload", !.on = None]
    /\ UNCHANGED <<port, netdev, cmask, request, ref, budget>>

ReloadEnd ==
    /\ main.pc = "reload" /\ main.todo = {}
    /\ main' = [main EXCEPT !.pc = main.next, !.todo = IF main.next \in {"ports", "add"}
                                                        THEN Ports ELSE {}]
    /\ UNCHANGED <<port, netdev, pmd, cmask, request, ref, budget>>

Handshake ==
    ReloadNonPmd \/ ReloadSeq \/ ReloadSet \/ ReloadWait \/ ReloadNext \/ ReloadEnd

-----------------------------------------------------------------------------
(* reconfigure_datapath *)

NeedReload == {c \in Polling: pmd[c].need}

\* The cores that should run a thread: reconfigure_pmd_threads.
WantedCores ==
    IF Ports \cap PmdDev = {} THEN {} ELSE IF cmask = None THEN DefaultCores ELSE cmask

\* Step 1: when the set of cores has changed all threads are ended.
Threads ==
    /\ main.pc = "threads"
    /\ request' = FALSE
    /\ main' = IF WantedCores = Running THEN [main EXCEPT !.pc = "stale"]
               ELSE Reloading(Running, "create")
    /\ UNCHANGED <<port, netdev, pmd, cmask, ref, budget>>

\* Wrong: the number of the thread itself is not counted.
CreateFromZero ==
    /\ main.pc = "create"
    /\ LET order == SetToSeq(WantedCores) IN
       pmd' = [c \in Thread |-> IF c \in WantedCores
                                  THEN [NoPmd EXCEPT !.pc = "start",
                                          !.tid = (CHOOSE i \in DOMAIN order: order[i] = c) - 1]
                                  ELSE pmd[c]]
    /\ main' = [main EXCEPT !.pc = "stale"]
    /\ UNCHANGED <<port, netdev, cmask, request, ref, budget>>

\* dp_netdev_configure_pmd of the new threads: static_tx_qid is how many there are.
Create ==
    /\ main.pc = "create"
    /\ LET order == SetToSeq(WantedCores) IN
       pmd' = [c \in Thread |-> IF c \in WantedCores
                                  THEN [NoPmd EXCEPT !.pc = "start",
                                          !.tid = CHOOSE i \in DOMAIN order: order[i] = c]
                                  ELSE pmd[c]]
    /\ main' = [main EXCEPT !.pc = "stale"]
    /\ UNCHANGED <<port, netdev, cmask, request, ref, budget>>

\* netdev_set_tx_multiq: a polled device asks to be reconfigured.
Multiq(d, n) ==
    IF d \in PmdDev /\ netdev[d].want # n
      THEN [netdev[d] EXCEPT !.want = n, !.reconf = TRUE] ELSE netdev[d]

\* pmd_remove_stale_ports
WithoutStale(p, stale) ==
    LET polls == {q \in p.polls: q[1] \notin stale}
        tx == p.tx \ stale IN
    [p EXCEPT !.polls = polls, !.tx = tx, !.need = @ \/ polls # p.polls \/ tx # p.tx]

\* Step 2: the ports that have been removed or need to be reconfigured are taken
\* from the threads, which reload.
Stale ==
    /\ main.pc = "stale"
    /\ netdev' = [d \in Dev |-> IF d \in Ports THEN Multiq(d, Cardinality(Polling)) ELSE netdev[d]]
    /\ port' = [d \in Dev |-> [port[d] EXCEPT !.need = @ \/ (d \in Ports /\ netdev'[d].reconf)]]
    /\ LET stale == {d \in Dev: port'[d].need \/ d \notin Ports} IN
       pmd' = [c \in Thread |-> WithoutStale(pmd[c], stale)]
    /\ main' = Reloading({c \in Polling: pmd'[c].need}, "ports")
    /\ UNCHANGED <<cmask, request, ref, budget>>

\* netdev_reconfigure
Applied(d) ==
    IF ~netdev[d].reconf THEN netdev[d]
    ELSE [netdev[d] EXCEPT !.reconf = FALSE, !.rxq = netdev[d].wantrx,
                           !.txq = IF netdev[d].want > MaxTxq THEN MaxTxq ELSE netdev[d].want]

\* Wrong: whether the device needs it is asked again, not taken from step 2.
PortReconfigureAsks(d) ==
    /\ main.pc = "ports" /\ d \in main.todo
    /\ port[d].need \/ netdev[d].reconf
    /\ netdev' = [netdev EXCEPT ![d] = Applied(d)]
    /\ port' = [port EXCEPT ![d].need = FALSE, ![d].rxq = netdev'[d].rxq,
                            ![d].used = [q \in 0 .. netdev'[d].txq - 1 |-> 0],
                            ![d].dynamic = netdev'[d].txq < Cardinality(Polling)]
    /\ main' = [main EXCEPT !.todo = @ \ {d}]
    /\ UNCHANGED <<pmd, cmask, request, ref, budget>>

\* Step 3, port_reconfigure: the queues are closed, the device takes on its
\* configuration, and the queues it now has are opened.
PortReconfigure(d) ==
    /\ main.pc = "ports" /\ d \in main.todo /\ port[d].need
    /\ netdev' = [netdev EXCEPT ![d] = Applied(d)]
    /\ port' = [port EXCEPT ![d].need = FALSE, ![d].rxq = netdev'[d].rxq,
                            ![d].used = [q \in 0 .. netdev'[d].txq - 1 |-> 0],
                            ![d].dynamic = netdev'[d].txq < Cardinality(Polling)]
    /\ main' = [main EXCEPT !.todo = @ \ {d}]
    /\ UNCHANGED <<pmd, cmask, request, ref, budget>>

\* The device does not take on its configuration, or a queue cannot be opened: the
\* port is removed and destroyed.
PortFails(d) ==
    /\ main.pc = "ports" /\ d \in main.todo /\ port[d].need
    /\ Spend("fail")
    /\ \/ netdev[d].reconf /\ UNCHANGED netdev
       \/ netdev' = [netdev EXCEPT ![d] = Applied(d)]
    /\ port' = [port EXCEPT ![d] = NoPort]
    /\ main' = [main EXCEPT !.todo = @ \ {d}]
    /\ UNCHANGED <<pmd, cmask, request, ref>>

\* The open queues of polled ports, port by port.
Queues == {q \in Queue: q[1] \in Ports /\ q[2] < port[q[1]].rxq}
Pin(q) == port[q[1]].aff[q[2]]
Isolated == {Pin(q): q \in {r \in Queues: Pin(r) \in Running}}

\* The queues that are not pinned and get a thread of the same numa node before q.
Before(q) == {r \in Queues: /\ Pin(r) = None /\ Numa[r[1]] = Numa[q[1]]
                            /\ \/ r[1] # q[1] /\ port[r[1]].no < port[q[1]].no
                               \/ r[1] = q[1] /\ r[2] < q[2]}

\* The threads of numa node n that poll no pinned queue.
Eligible(n) == SetToSeq({c \in Running \ Isolated: Numa[c] = n})

\* rxq_scheduling: pinned queues to their cores, the others round robin.
Scheduled(q) ==
    IF Pin(q) # None THEN IF Pin(q) \in Running THEN Pin(q) ELSE None
    ELSE LET threads == Eligible(Numa[q[1]]) IN
         IF threads = <<>> THEN None
         ELSE threads[(Cardinality(Before(q)) % Len(threads)) + 1]

\* Wrong: queues are given to other threads before those that had them reload.
ScheduleAtOnce ==
    /\ main.pc = "ports" /\ \A d \in main.todo: ~port[d].need
    /\ port' = [d \in Dev |->
                  IF d \in Ports \cap PmdDev
                    THEN [port[d] EXCEPT !.pmd = [i \in 0 .. MaxRxq - 1 |->
                             IF <<d, i>> \in Queues THEN Scheduled(<<d, i>>) ELSE None]]
                    ELSE port[d]]
    /\ pmd' = [c \in Thread |->
                 LET polls == {q \in pmd[c].polls: port'[q[1]].pmd[q[2]] = c} IN
                 [pmd[c] EXCEPT !.polls = polls, !.need = @ \/ polls # pmd[c].polls]]
    /\ main' = Reloading({}, "add")
    /\ UNCHANGED <<netdev, cmask, request, ref, budget>>

\* Steps 4 and 5: each queue gets its thread; the others drop it and reload.
Schedule ==
    /\ main.pc = "ports" /\ \A d \in main.todo: ~port[d].need
    /\ port' = [d \in Dev |->
                  IF d \in Ports \cap PmdDev
                    THEN [port[d] EXCEPT !.pmd = [i \in 0 .. MaxRxq - 1 |->
                             IF <<d, i>> \in Queues THEN Scheduled(<<d, i>>) ELSE None]]
                    ELSE port[d]]
    /\ pmd' = [c \in Thread |->
                 LET polls == {q \in pmd[c].polls: port'[q[1]].pmd[q[2]] = c} IN
                 [pmd[c] EXCEPT !.polls = polls, !.need = @ \/ polls # pmd[c].polls]]
    /\ main' = Reloading({c \in Polling: pmd'[c].need}, "add")
    /\ UNCHANGED <<netdev, cmask, request, ref, budget>>

\* Wrong: a thread that polls something already is not made to reload.
AddQueuesQuietly(d) ==
    /\ main.pc = "add" /\ d \in main.todo
    /\ LET new(c) == {q \in Queues: q[1] = d /\ port[d].pmd[q[2]] = c} IN
       pmd' = [c \in Thread |-> [pmd[c] EXCEPT !.polls = @ \cup new(c),
                                               !.need = @ \/ (pmd[c].polls = {} /\ new(c) # {})]]
    /\ main' = [main EXCEPT !.todo = @ \ {d}]
    /\ UNCHANGED <<port, netdev, cmask, request, ref, budget>>

\* Step 6: the queues of a port go to their threads.
AddQueues(d) ==
    /\ main.pc = "add" /\ d \in main.todo
    /\ LET new(c) == {q \in Queues: q[1] = d /\ port[d].pmd[q[2]] = c} IN
       pmd' = [c \in Thread |-> [pmd[c] EXCEPT !.polls = @ \cup new(c),
                                               !.need = @ \/ ~(new(c) \subseteq pmd[c].polls)]]
    /\ main' = [main EXCEPT !.todo = @ \ {d}]
    /\ UNCHANGED <<port, netdev, cmask, request, ref, budget>>

\* The ports go to every thread that has a queue; a port is looked up by number.
AddTx ==
    /\ main.pc = "add" /\ main.todo = {}
    /\ LET new(c) == {d \in Ports: \A e \in pmd[c].tx: port[e].no # port[d].no}
           gets == {c \in Polling: c = NonPmd \/ pmd[c].polls # {}} IN
       pmd' = [c \in Thread |-> IF c \in gets
                                  THEN [pmd[c] EXCEPT !.tx = @ \cup new(c),
                                                      !.need = @ \/ new(c) # {}]
                                  ELSE pmd[c]]
    /\ main' = Reloading({c \in Polling: pmd'[c].need}, "end")
    /\ UNCHANGED <<port, netdev, cmask, request, ref, budget>>

\* What HMAP_FOR_EACH_SAFE goes on with while the ports ds are there: any of them, or
\* nothing.
Following(ds) == IF ds = {} THEN {None} ELSE ds

\* What follows reconfigure_datapath: port_destroy of the port that was removed.
\* dp_netdev_free then removes the port it has saved, having found the one that
\* follows, and ends the threads when there is none.  If the reconfiguration has
\* destroyed the port that was saved, what comes next is undefined: there is no step.
End ==
    /\ main.pc = "end"
    /\ LET d == main.saved
           freed == [e \in Dev |-> IF e \in main.del THEN NoPort ELSE port[e]] IN
       \/ /\ ref.handles > 0
          /\ main' = Idle
          /\ port' = freed
       \/ /\ ref.handles = 0 /\ d = None
          /\ main' = [Reloading(Running, "destroy") EXCEPT !.del = {}]
          /\ port' = freed
       \/ /\ ref.handles = 0 /\ d \in Ports
          /\ \E n \in Following(Ports \ {d}):
               main' = [Idle EXCEPT !.pc = "threads", !.del = {d}, !.saved = n]
          /\ port' = [freed EXCEPT ![d].st = "removed"]
    /\ UNCHANGED <<netdev, pmd, cmask, request, ref, budget>>

Lost == main.pc = "end" /\ ref.handles = 0 /\ main.saved \notin Ports \cup {None}

\* dp_netdev_free, when all threads have ended: the instance for the others goes.
DestroyNonPmd ==
    /\ main.pc = "destroy"
    /\ main' = Idle
    /\ pmd' = [pmd EXCEPT ![NonPmd] = NoPmd]
    /\ UNCHANGED <<port, netdev, cmask, request, ref, budget>>

Reconfigure ==
    \/ Threads \/ Create \/ Stale
    \/ \E d \in Dev: PortReconfigure(d) \/ PortFails(d) \/ AddQueues(d)
    \/ Schedule \/ AddTx \/ End \/ DestroyNonPmd

-----------------------------------------------------------------------------
(* The commands of the main thread *)

\* do_add_port
AddPort(d, no) ==
    /\ port' = [port EXCEPT ![d] = [NoPort EXCEPT !.st = "in", !.no = no, !.need = TRUE]]
    /\ netdev' = [netdev EXCEPT ![d] = NewNetdev(d, @.wantrx)]
    /\ main' = [Idle EXCEPT !.pc = "threads"]

\* create_dp_netdev, from dpif_netdev_open
CreateDp ==
    /\ main.pc = "idle" /\ Polling = {}
    /\ Spend("open")
    /\ pmd' = [pmd EXCEPT ![NonPmd].pc = "poll"]
    /\ AddPort(Local, LOCAL_NO)
    /\ ref' = [handles |-> 1, destroyed |-> FALSE]
    /\ cmask' = None /\ request' = FALSE

Open == main.pc = "idle" /\ ref.handles > 0

\* choose_port: the first number that is free.
ChoosePort == {no \in 1 .. MaxNo: \A d \in Ports: port[d].no # no}

\* dpif_netdev_port_add, with a number or without
PortAdd ==
    /\ Open /\ Spend("add")
    /\ \E d \in Dev \ Ports, no \in {None} \cup 1 .. MaxNo:
        /\ ChoosePort # {}
        /\ no = None \/ no \in ChoosePort
        /\ AddPort(d, IF no = None THEN Min(ChoosePort) ELSE no)
    /\ UNCHANGED <<pmd, cmask, request, ref>>

\* dpif_netdev_port_del: not the local port
PortDel ==
    /\ Open /\ Spend("del")
    /\ \E d \in Ports:
        /\ port[d].no # LOCAL_NO
        /\ port' = [port EXCEPT ![d].st = "removed"]
        /\ main' = [Idle EXCEPT !.pc = "threads", !.del = {d}]
    /\ UNCHANGED <<netdev, pmd, cmask, request, ref>>

\* dpif_netdev_pmd_set
PmdSet ==
    /\ Open /\ Spend("set")
    /\ \E m \in (Mask \cup {None}) \ {cmask}: cmask' = m
    /\ request' = TRUE
    /\ UNCHANGED <<port, netdev, pmd, main, ref>>

\* dpif_netdev_port_set_config
SetAffinity ==
    /\ Open /\ Spend("set")
    /\ \E d \in Ports \cap PmdDev: \E a \in Affinity \ {port[d].aff}:
        port' = [port EXCEPT ![d].aff = a]
    /\ request' = TRUE
    /\ UNCHANGED <<netdev, pmd, cmask, main, ref>>

\* A device is given another number of receive queues, or asks for attention.
DeviceChanges ==
    /\ Spend("dev")
    /\ \E d \in PmdDev \cap Ports, n \in 1 .. MaxRxq:
        netdev' = [netdev EXCEPT ![d].wantrx = n, ![d].reconf = TRUE]
    /\ UNCHANGED <<port, pmd, cmask, request, main, ref>>

\* dpif_netdev_run; it also processes what the other devices have received.
Run ==
    /\ Open
    /\ request \/ \E d \in Ports: netdev[d].reconf
    /\ main' = [Idle EXCEPT !.pc = "threads"]
    /\ UNCHANGED <<port, netdev, pmd, cmask, request, ref, budget>>

\* dpif_netdev_open of the datapath there is
OpenAgain ==
    /\ main.pc = "idle" /\ Polling # {} /\ Spend("open")
    /\ ref' = [ref EXCEPT !.handles = @ + 1]
    /\ UNCHANGED <<port, netdev, pmd, cmask, request, main>>

\* dpif_netdev_destroy
Destroy ==
    /\ Open /\ Spend("close") /\ ~ref.destroyed
    /\ ref' = [ref EXCEPT !.destroyed = TRUE]
    /\ UNCHANGED <<port, netdev, pmd, cmask, request, main>>

\* dpif_netdev_close; dp_netdev_free when there is no other reference
Close ==
    /\ Open /\ Spend("close")
    /\ ref' = [ref EXCEPT !.handles = @ - 1]
    /\ IF ref.handles = 1 /\ ref.destroyed
         THEN \E n \in Following(Ports): main' = [Idle EXCEPT !.pc = "end", !.saved = n]
         ELSE UNCHANGED main
    /\ UNCHANGED <<port, netdev, pmd, cmask, request>>

Command ==
    \/ CreateDp \/ OpenAgain \/ Destroy \/ Close
    \/ PortAdd \/ PortDel \/ PmdSet \/ SetAffinity

Next ==
    \/ Command
    \/ Run
    \/ Reconfigure
    \/ Handshake
    \/ DeviceChanges
    \/ \E c \in Core: PmdThread(c)
    \/ \E c \in Thread: Send(c)

\* The main thread calls dpif_netdev_run again and again, and the threads run.
Fairness ==
    /\ WF_vars(Run \/ Reconfigure \/ Handshake)
    /\ \A c \in Core: WF_vars(PmdThread(c))

Spec == Init /\ [][Next]_vars /\ Fairness

-----------------------------------------------------------------------------
(* Properties *)

\* No receive queue is polled by two threads, also while queues go from one to
\* another (dpif-netdev.c:3325-3328).
OnePoller == \A c, e \in Core: c # e => pmd[c].snap \cap pmd[e].snap = {}

Uses(c, d) == d \in DOMAIN pmd[c].cache \/ \E q \in pmd[c].snap: q[1] = d

\* Whatever a thread goes by, port or queue, is still there and open; and no
\* thread goes by a port that is being reconfigured (dpif-netdev.c:3262-3271).
InUseIsOpen ==
    /\ \A c \in Thread:
        /\ \A q \in pmd[c].snap: q[2] < port[q[1]].rxq
        /\ \A d \in Dev: Uses(c, d) => port[d].st # "none"
    /\ main.pc = "ports" =>
        \A d \in main.todo: port[d].need => \A c \in Thread: ~Uses(c, d)

\* txq_used is the number of threads that use each transmit queue
\* (dpif-netdev.c:309), although the queues of a port are made anew when it is
\* reconfigured and threads end or reload with queues in use.
TxqUsedCounts ==
    \A d \in Dev: \A q \in DOMAIN port[d].used:
        port[d].used[q] = Cardinality({c \in Thread: d \in DOMAIN pmd[c].cache
                                                      /\ pmd[c].cache[d] = q})

\* Without XPS a thread sends to a polled device on a queue that the device has
\* and that no other thread uses (dpif-netdev.c:514-517).
OwnTxq ==
    \A d \in PmdDev: ~port[d].dynamic =>
        \A c \in Thread: d \in DOMAIN pmd[c].cache =>
            /\ pmd[c].tid < netdev[d].txq
            /\ \A e \in Thread \ {c}: d \in DOMAIN pmd[e].cache => pmd[c].tid # pmd[e].tid

\* When reconfigure_datapath is done each thread polls what has been scheduled for
\* it and sends to the ports of the datapath, and a queue without a thread is
\* pinned to a core without one or finds none at its numa node.
AtRest ==
    main.pc = "idle" =>
        /\ \A c \in Running: pmd[c].snap = {q \in Queues: port[q[1]].pmd[q[2]] = c}
        /\ \A c \in Polling: c = NonPmd \/ pmd[c].snap # {} => DOMAIN pmd[c].cache = Ports
        /\ request \/ \A q \in Queues: port[q[1]].pmd[q[2]] = None =>
                        Pin(q) # None \/ Eligible(Numa[q[1]]) = <<>>

\* Every reconfiguration comes to an end, with all the threads that had to reload
\* or to end, and everything that was asked for gets its own, but for a datapath that
\* is being freed when its next port does not take on its configuration: dp_netdev_free
\* then follows a pointer to what reconfigure_datapath has freed (dpif-netdev.c:1157).
Settles ==
    []<>(\/ Lost
         \/ main.pc = "idle" /\ (ref.handles > 0 => ~request /\ \A d \in Ports: ~netdev[d].reconf))
=============================================================================
