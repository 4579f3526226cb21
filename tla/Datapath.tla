------------------------------ MODULE Datapath ------------------------------
(***************************************************************************)
(* The kernel datapath, openvswitch/datapath/datapath.c, around the hook   *)
(* of KernelRing: the Generic Netlink commands that make and change        *)
(* datapaths, ports and flows, the processors that look packets up in the  *)
(* tables meanwhile, and the loading of the module.                        *)
(*                                                                         *)
(* Commands run in parallel (parallel_ops) and change the tables under     *)
(* ovs_mutex; what a command does before it takes the mutex and after it   *)
(* has released it are steps of their own.  Packets are processed under    *)
(* rcu_read_lock: an object that is unlinked is freed when the readers     *)
(* that were under way have finished.                                      *)
(*                                                                         *)
(* An object is the memory it is in; its state is "free" when the memory   *)
(* is.  A command that fails before it changes anything is no step.  The   *)
(* statistics, the user features and the bodies of the messages are left   *)
(* out, and so is a second network namespace.                              *)
(***************************************************************************)
EXTENDS Integers, FiniteSets, Sequences, FiniteSetsExt, SequencesExt

CONSTANTS
    DpObj, VportObj, FlowObj, ActObj,   \* a bound: the memory for each kind of object
    Cpu, Thread,       \* the processors, and the threads that carry out commands
    Ufid,              \* unique flow identifiers
    Key,               \* packet keys
    MaxRoom, Room,     \* the headroom a device may need, an unsigned short
    MaxPorts,          \* DP_MAX_PORTS
    Buckets,           \* DP_VPORT_HASH_BUCKETS
    Fit,               \* the ports a reply to a dump has room for
    Budgets,           \* a bound: how much of each kind happens
    Null

ASSUME DatapathAssumption ==
    /\ MaxPorts \in Nat \ {0} /\ Buckets \in Nat \ {0} /\ Fit \in Nat \ {0}
    /\ MaxRoom \in Nat /\ Room \subseteq 0 .. MaxRoom /\ 0 \in Room
    /\ Null \notin Cpu \cup Thread \cup Ufid \cup DpObj \cup FlowObj \cup ActObj \cup VportObj
    /\ Cpu \cap Thread = {}

VARIABLES
    dp,                \* struct datapath
    dps,               \* ovs_net->dps
    ports,             \* dp->ports: for every bucket its list
    vport,             \* struct vport
    flow,              \* struct sw_flow
    act,               \* struct sw_flow_actions: whether the memory is in use
    cpu,               \* what each processor, and each executing thread, reads
    cmd,               \* the flow command each thread is carrying out
    deferred,          \* call_rcu: objects, and the readers they wait for
    dump,              \* OVS_VPORT_CMD_GET with NLM_F_DUMP
    registered,        \* what dp_init has registered, in order
    faults,            \* what went wrong with memory
    budget             \* what may still happen

portVars == <<dp, dps, ports, vport>>
flowVars == <<flow, act>>
vars == <<portVars, flowVars, cpu, cmd, deferred, dump, registered, faults, budget>>

LOCAL_PORT == 0        \* OVSP_LOCAL

Idle == [pc |-> "idle", vport |-> Null, dp |-> Null, key |-> Null, flow |-> Null, act |-> Null]
NoCmd == [pc |-> "idle", flow |-> Null, act |-> Null, old |-> Null]
NoVport == [st |-> "free", no |-> 0, internal |-> FALSE, dp |-> Null,
            room |-> 0, rx |-> 0]
NoPorts == [b \in 0 .. Buckets - 1 |-> <<>>]
NoFlow == [st |-> "free", dp |-> Null, key |-> Null, wild |-> FALSE, ufid |-> Null, act |-> Null]
NoDump == [pc |-> "idle", dp |-> Null, at |-> <<0, 0>>, seen |-> {}, base |-> {}, shift |-> {}]

\* The subsystems dp_init registers, one after the other; the last two are the
\* memory of the ring and the device.
Subsystems == <<"compat", "fifos", "rtnl", "flow", "vport", "pernet", "notifier", "netdev",
                "genl", "mmap", "chrdev">>

Init ==
    /\ dp = [d \in DpObj |-> [st |-> "free", maxroom |-> 0]]
    /\ dps = {}
    /\ ports = [d \in DpObj |-> NoPorts]
    /\ vport = [v \in VportObj |-> NoVport]
    /\ flow = [f \in FlowObj |-> NoFlow]
    /\ act = [a \in ActObj |-> "free"]
    /\ cpu = [c \in Cpu \cup Thread |-> Idle]
    /\ cmd = [t \in Thread |-> NoCmd]
    /\ deferred = {}
    /\ dump = NoDump
    /\ registered = <<>>
    /\ faults = {}
    /\ budget \in Budgets

-----------------------------------------------------------------------------
(* Loading the module *)

\* What the labels of dp_init undo when step n fails: everything before it, but
\* not the Generic Netlink families nor the ring when it is the ring or the
\* device that failed.
Undone(n) == SelectSeq(SubSeq(Subsystems, 1, n - 1), LAMBDA s: s \in {"genl", "mmap"})

\* dp_init fails at step n: what has been registered before is unregistered.
LoadFails(n) ==
    /\ registered = <<>>
    /\ registered' = Undone(n)
    /\ UNCHANGED <<portVars, flowVars, cpu, cmd, deferred, dump, faults, budget>>

Load ==
    /\ registered = <<>>
    /\ registered' = Subsystems
    /\ UNCHANGED <<portVars, flowVars, cpu, cmd, deferred, dump, faults, budget>>

Loaded == registered = Subsystems

-----------------------------------------------------------------------------
(* RCU *)

Reading == {c \in Cpu \cup Thread: cpu[c].pc # "idle"}

Later(kind, obj) == [kind |-> kind, obj |-> obj, wait |-> Reading]

\* rcu_read_unlock
Leaves(c) == {[x EXCEPT !.wait = @ \ {c}]: x \in deferred}

\* Freeing actions: NULL is ignored, memory that is not in use is a fault.
FreeAct(acts, a) == IF a = Null THEN acts ELSE [acts EXCEPT ![a] = "free"]
DoubleFree(acts, a) == IF a # Null /\ acts[a] = "free" THEN {"double free"} ELSE {}

\* ovs_flow_free frees the flow with the actions it points to.
FreeFlow(f) ==
    /\ flow' = [flow EXCEPT ![f] = NoFlow]
    /\ act' = FreeAct(act, flow[f].act)
    /\ faults' = faults \cup DoubleFree(act, flow[f].act)

\* destroy_dp_rcu: the table with its flows, and the datapath.
FreeDp(d) ==
    LET fs == {f \in FlowObj: flow[f].st = "table" /\ flow[f].dp = d} IN
    /\ dp' = [dp EXCEPT ![d] = [st |-> "free", maxroom |-> 0]]
    /\ flow' = [f \in FlowObj |-> IF f \in fs THEN NoFlow ELSE flow[f]]
    /\ act' = [a \in ActObj |-> IF \E f \in fs: flow[f].act = a THEN "free" ELSE act[a]]

\* A grace period has passed.
Reclaim ==
    \E x \in deferred:
        /\ x.wait = {}
        /\ deferred' = deferred \ {x}
        /\ \/ /\ x.kind = "flow"
              /\ FreeFlow(x.obj)
              /\ UNCHANGED portVars
           \/ /\ x.kind = "act"
              /\ act' = FreeAct(act, x.obj)
              /\ faults' = faults \cup DoubleFree(act, x.obj)
              /\ UNCHANGED <<portVars, flow>>
           \/ /\ x.kind = "vport"
              /\ vport' = [vport EXCEPT ![x.obj] = NoVport]
              /\ UNCHANGED <<dp, dps, ports, flowVars, faults>>
           \/ /\ x.kind = "dp"
              /\ FreeDp(x.obj)
              /\ UNCHANGED <<dps, ports, vport, faults>>
        /\ UNCHANGED <<cpu, cmd, dump, registered, budget>>

\* An object to allocate: it does not matter which of those that are free.
Fresh(free) == IF free = {} THEN {} ELSE {CHOOSE x \in free: TRUE}
FreshFlow == Fresh({f \in FlowObj: flow[f].st = "free"})
FreshAct == Fresh({a \in ActObj: act[a] = "free"})
FreshVport == Fresh({v \in VportObj: vport[v].st = "free"})
FreshDp == Fresh({d \in DpObj: dp[d].st = "free"})

Spend(kind) == budget[kind] > 0 /\ budget' = [budget EXCEPT ![kind] = @ - 1]

-----------------------------------------------------------------------------
(* Datapaths and ports; each command is carried out under ovs_mutex *)

Attached == {v \in VportObj: vport[v].st = "live"}
PortsOf(d) == {v \in Attached: vport[v].dp = d}

\* get_dp_rcu: the datapath of an internal device, which may be any internal
\* port of it.  lookup_datapath also takes the name of the local port.
GetDp == {vport[v].dp: v \in {w \in Attached: vport[w].internal}}

\* ovs_vport_ovsl
LookupVport(d, no) == {v \in PortsOf(d): vport[v].no = no}

\* vport_hash_bucket
Bucket(v) == vport[v].no % Buckets

\* new_vport: the port goes to the head of its bucket.
NewVport(d, v, r) ==
    /\ vport[v].st = "free"
    /\ ports' = [ports EXCEPT ![d][r.no % Buckets] = <<v>> \o @]

\* ovs_dp_cmd_new.  The datapath is found through its port from then on.
NewDp ==
    \E d \in FreshDp, v \in FreshVport:
        LET r == [st |-> "live", no |-> LOCAL_PORT, internal |-> TRUE, dp |-> d,
                  room |-> 0, rx |-> 0] IN
        /\ Loaded /\ Spend("dp")
        /\ dp' = [dp EXCEPT ![d].st = "live"]
        /\ NewVport(d, v, r)
        /\ vport' = [vport EXCEPT ![v] = r]
        /\ dps' = dps \cup {d}
        /\ UNCHANGED <<flowVars, cpu, cmd, deferred, dump, registered, faults>>

\* hlist_del_rcu: a bucket when port v has gone.
Unlinked(bucket, v) == RemoveAt(bucket, CHOOSE i \in DOMAIN bucket: bucket[i] = v)

\* The bucket of a port that goes away moves up under a dump; the number of a
\* datapath that goes away is not found again.
Shifts(vs, ds) ==
    LET here == {w \in vs: vport[w].dp = dump.dp} IN
    IF dump.dp \in ds THEN [dump EXCEPT !.dp = Null, !.base = {}]
    ELSE [dump EXCEPT !.base = @ \ vs,
                      !.shift = IF dump.pc = "more" THEN @ \cup {Bucket(v): v \in here} ELSE @]

\* __dp_destroy: the ports, the local one last, the list, and later the rest.
\* ovs_dp_cmd_del does it to one datapath, ovs_exit_net to all.
DestroyDps(ds) ==
    LET vs == UNION {PortsOf(d): d \in ds} IN
    /\ ports' = [d \in DpObj |-> IF d \in ds THEN NoPorts ELSE ports[d]]
    /\ vport' = [v \in VportObj |-> IF v \in vs THEN [vport[v] EXCEPT !.st = "dead"] ELSE vport[v]]
    /\ dps' = dps \ ds
    /\ dp' = [d \in DpObj |-> IF d \in ds THEN [dp[d] EXCEPT !.st = "dead"] ELSE dp[d]]
    /\ deferred' = deferred \cup {Later("vport", v): v \in vs} \cup {Later("dp", d): d \in ds}
    /\ dump' = Shifts(vs, ds)

\* ovs_dp_cmd_del
DelDp ==
    /\ Loaded /\ Spend("dp")
    /\ \E d \in GetDp: DestroyDps({d})
    /\ UNCHANGED <<flowVars, cpu, cmd, registered, faults>>

\* ovs_exit_net
NetExit ==
    /\ dps # {}
    /\ Spend("exit")
    /\ DestroyDps(dps)
    /\ UNCHANGED <<flowVars, cpu, cmd, registered, faults>>

\* update_headroom: the largest any port needs, set at each of them.
UpdateHeadroom(d, vp) ==
    LET vs == {v \in VportObj: vp[v].st = "live" /\ vp[v].dp = d}
        most == Max({vp[v].room: v \in vs} \cup {0}) IN
    /\ dp' = [dp EXCEPT ![d].maxroom = most]
    /\ vport' = [v \in VportObj |-> IF v \in vs THEN [vp[v] EXCEPT !.rx = most] ELSE vp[v]]

\* The port number a command asks for, or the first that is free.
PortNo(d, no) ==
    IF no > 0 THEN {m \in {no}: LookupVport(d, m) = {}}
    ELSE LET free == {m \in 1 .. MaxPorts - 1: LookupVport(d, m) = {}} IN
         IF free = {} THEN {} ELSE {Min(free)}

\* ovs_vport_cmd_new
AddPort ==
    \E v \in FreshVport, no \in 0 .. MaxPorts - 1, internal \in BOOLEAN, room \in Room:
        /\ Loaded /\ Spend("port")
        /\ internal => room = 0       \* IFF_PHONY_HEADROOM
        /\ \E d \in GetDp: \E m \in PortNo(d, no):
            LET r == [st |-> "live", no |-> m, internal |-> internal, dp |-> d, room |-> room,
                      rx |-> dp[d].maxroom] IN
            /\ NewVport(d, v, r)
            /\ IF room > dp[d].maxroom
                 THEN UpdateHeadroom(d, [vport EXCEPT ![v] = r])
                 ELSE vport' = [vport EXCEPT ![v] = r] /\ UNCHANGED dp
        /\ UNCHANGED <<dps, flowVars, cpu, cmd, deferred, dump, registered, faults>>

\* ovs_vport_cmd_del
DelPort ==
    \E v \in Attached:
        LET d == vport[v].dp
            gone == [vport EXCEPT ![v].st = "dead"] IN
        /\ Loaded /\ Spend("port")
        /\ vport[v].no # LOCAL_PORT
        /\ ports' = [ports EXCEPT ![d][Bucket(v)] = Unlinked(@, v)]
        /\ IF vport[v].room = dp[d].maxroom
             THEN UpdateHeadroom(d, gone)
             ELSE vport' = gone /\ UNCHANGED dp
        /\ deferred' = deferred \cup {Later("vport", v)}
        /\ dump' = Shifts({v}, {})
        /\ UNCHANGED <<dps, flowVars, cpu, cmd, registered, faults>>

-----------------------------------------------------------------------------
(* Dumping the ports of a datapath, a reply at a time *)

StartDump ==
    /\ dump.pc = "idle"
    /\ Spend("dump")
    /\ \E d \in dps: dump' = [NoDump EXCEPT !.pc = "more", !.dp = d, !.base = PortsOf(d)]
    /\ UNCHANGED <<portVars, flowVars, cpu, cmd, deferred, registered, faults>>

Before(p, q) == p[1] < q[1] \/ (p[1] = q[1] /\ p[2] < q[2])

\* Wrong: the places to skip in the first bucket are skipped in each.
TodoSkips(d, at) ==
    {p \in UNION {{b} \X (0 .. Len(ports[d][b]) - 1): b \in 0 .. Buckets - 1}:
        p[1] >= at[1] /\ p[2] >= at[2]}

\* The places not reported so far: from cb->args on.
Todo(d, at) ==
    {p \in UNION {{b} \X (0 .. Len(ports[d][b]) - 1): b \in 0 .. Buckets - 1}: ~Before(p, at)}

\* ovs_vport_cmd_dump; a port's place is its bucket and how many are before it.
DumpSome ==
    /\ dump.pc = "more" /\ dump.dp # Null
    /\ LET todo == Todo(dump.dp, dump.at)
           sent == {p \in todo: Cardinality({q \in todo: Before(q, p)}) < Fit}
           rest == todo \ sent IN
       dump' = [dump EXCEPT
                  !.seen = @ \cup {ports[dump.dp][p[1]][p[2] + 1]: p \in sent},
                  !.at = IF rest = {} THEN <<Buckets, 0>>
                         ELSE CHOOSE p \in rest: \A q \in rest \ {p}: Before(p, q),
                  !.pc = IF rest = {} THEN "done" ELSE "more"]
    /\ UNCHANGED <<portVars, flowVars, cpu, cmd, deferred, registered, faults, budget>>

\* Everything is reported, or get_dp_rcu finds the datapath no more.
EndDump ==
    /\ dump.pc = "done" \/ (dump.pc = "more" /\ dump.dp = Null)
    /\ dump' = NoDump
    /\ UNCHANGED <<portVars, flowVars, cpu, cmd, deferred, registered, faults, budget>>

-----------------------------------------------------------------------------
(* The flow table, whose lookups are external, and the flow commands *)

Flows(d) == {f \in FlowObj: flow[f].st = "table" /\ flow[f].dp = d}

\* ovs_flow_tbl_lookup: the flows a packet matches; a flow matches all packets
\* or those with its key.
LookupKey(d, k) == {f \in Flows(d): flow[f].wild \/ flow[f].key = k}

\* ovs_flow_tbl_lookup_ufid
LookupUfid(d, u) == {f \in Flows(d): u # Null /\ flow[f].ufid = u}

\* ovs_flow_tbl_lookup_exact: the flow is identified by the key it was made with.
LookupExact(d, k) == {f \in Flows(d): flow[f].ufid = Null /\ flow[f].key = k}

\* ovs_flow_cmp
SameFlow(f, k) == flow[f].key = k /\ (flow[f].ufid # Null => ~flow[f].wild)

\* ovs_flow_cmd_new up to ovs_lock: the new flow and its actions.
AllocNewFlow(t) ==
    \E f \in FreshFlow, a \in FreshAct, k \in Key, u \in Ufid \cup {Null}, wild \in BOOLEAN:
        /\ Loaded /\ cmd[t].pc = "idle" /\ cpu[t].pc = "idle" /\ Spend("flow")
        /\ flow' = [flow EXCEPT ![f] = [st |-> "new", dp |-> Null, key |-> k, wild |-> wild,
                                        ufid |-> u, act |-> Null]]
        /\ act' = [act EXCEPT ![a] = "used"]
        /\ cmd' = [cmd EXCEPT ![t] = [pc |-> "new", flow |-> f, act |-> a, old |-> Null]]
        /\ UNCHANGED <<portVars, cpu, deferred, dump, registered, faults>>

\* Labels err_kfree_acts and err_kfree_flow: the actions the command still
\* holds, and the flow with the actions it points to.
GiveUp(t, acts) ==
    /\ flow' = [flow EXCEPT ![cmd[t].flow] = NoFlow]
    /\ act' = FreeAct(FreeAct(act, acts), flow[cmd[t].flow].act)
    /\ cmd' = [cmd EXCEPT ![t] = NoCmd]
    /\ UNCHANGED <<portVars, cpu, deferred, dump, registered, faults, budget>>

\* Wrong: acts is not set to NULL, and the flow's actions are freed twice.
InsertFailsTwice(t) ==
    /\ flow' = [flow EXCEPT ![cmd[t].flow] = NoFlow]
    /\ act' = FreeAct(act, cmd[t].act)
    /\ faults' = faults \cup DoubleFree(act', cmd[t].act)
    /\ cmd' = [cmd EXCEPT ![t] = NoCmd]
    /\ UNCHANGED <<portVars, cpu, deferred, dump, registered, budget>>

\* ovs_flow_tbl_insert fails after the flow has been given its actions.
InsertFails(t) ==
    /\ flow' = [flow EXCEPT ![cmd[t].flow] = NoFlow]
    /\ act' = FreeAct(act, cmd[t].act)
    /\ cmd' = [cmd EXCEPT ![t] = NoCmd]
    /\ UNCHANGED <<portVars, cpu, deferred, dump, registered, faults, budget>>

InsertFlow(t, d) ==
    /\ flow' = [flow EXCEPT ![cmd[t].flow].st = "table", ![cmd[t].flow].dp = d,
                            ![cmd[t].flow].act = cmd[t].act]
    /\ cmd' = [cmd EXCEPT ![t] = NoCmd]
    /\ UNCHANGED <<portVars, act, cpu, deferred, dump, registered, faults, budget>>

\* The actions of flow g are replaced.  The old ones, and the flow that was
\* made in vain, are freed after ovs_unlock.
UpdateActs(t, g) ==
    /\ flow' = [flow EXCEPT ![g].act = cmd[t].act]
    /\ cmd' = [cmd EXCEPT ![t].pc = "replaced", ![t].act = Null, ![t].old = flow[g].act]
    /\ UNCHANGED <<portVars, act, cpu, deferred, dump, registered, faults, budget>>

\* Wrong: only the identifier is looked up when there is one.
DuplicatesByUfid(d, f) ==
    IF flow[f].ufid # Null THEN LookupUfid(d, flow[f].ufid) ELSE LookupKey(d, flow[f].key)

\* The flow a new one would duplicate.
Duplicates(d, f) ==
    IF LookupUfid(d, flow[f].ufid) # {} THEN LookupUfid(d, flow[f].ufid)
    ELSE LookupKey(d, flow[f].key)

\* The flow to update when flow g was found for key k.
ToUpdate(d, g, k) ==
    IF SameFlow(g, k) THEN {g} ELSE IF flow[g].ufid = Null THEN LookupExact(d, k) ELSE {}

\* ovs_flow_cmd_new under ovs_mutex, or its failure: no reply, no datapath, or a
\* flow that it must not or cannot update.
NewFlow(t) ==
    /\ cmd[t].pc = "new"
    /\ \/ GiveUp(t, cmd[t].act)
       \/ \E d \in GetDp:
            /\ Duplicates(d, cmd[t].flow) = {}
            /\ InsertFlow(t, d) \/ InsertFails(t)
       \/ \E d \in GetDp: \E f \in Duplicates(d, cmd[t].flow):
            \E g \in ToUpdate(d, f, flow[cmd[t].flow].key): UpdateActs(t, g)

\* ovs_flow_cmd_set up to ovs_lock, when it brings new actions.
AllocSetFlow(t) ==
    \E a \in FreshAct:
        /\ Loaded /\ cmd[t].pc = "idle" /\ cpu[t].pc = "idle" /\ Spend("flow")
        /\ act' = [act EXCEPT ![a] = "used"]
        /\ cmd' = [cmd EXCEPT ![t] = [pc |-> "set", flow |-> Null, act |-> a, old |-> Null]]
        /\ UNCHANGED <<portVars, flow, cpu, deferred, dump, registered, faults>>

\* The flows commands name, by identifier or by key.
Named == (UNION {LookupUfid(d, u): d \in GetDp, u \in Ufid})
         \cup (UNION {LookupExact(d, k): d \in GetDp, k \in Key})

\* ovs_flow_cmd_set under ovs_mutex, or the failure of what it does before.
SetFlow(t) ==
    /\ cmd[t].pc = "set"
    /\ \/ /\ act' = FreeAct(act, cmd[t].act)
          /\ cmd' = [cmd EXCEPT ![t] = NoCmd]
          /\ UNCHANGED <<portVars, flow, cpu, deferred, dump, registered, faults, budget>>
       \/ \E f \in Named: UpdateActs(t, f)

\* Wrong: the old actions are freed at once.
FreeOldNow(t) ==
    /\ cmd[t].pc = "replaced"
    /\ flow' = IF cmd[t].flow = Null THEN flow ELSE [flow EXCEPT ![cmd[t].flow] = NoFlow]
    /\ act' = FreeAct(act, cmd[t].old)
    /\ cmd' = [cmd EXCEPT ![t] = NoCmd]
    /\ UNCHANGED <<portVars, cpu, deferred, dump, registered, faults, budget>>

\* After ovs_unlock: ovs_nla_free_flow_actions_rcu(old_acts), and ovs_flow_free
\* of the flow ovs_flow_cmd_new made in vain.
FreeOld(t) ==
    /\ cmd[t].pc = "replaced"
    /\ deferred' = deferred \cup {Later("act", cmd[t].old)}
    /\ flow' = IF cmd[t].flow = Null THEN flow ELSE [flow EXCEPT ![cmd[t].flow] = NoFlow]
    /\ cmd' = [cmd EXCEPT ![t] = NoCmd]
    /\ UNCHANGED <<portVars, act, cpu, dump, registered, faults, budget>>

\* ovs_flow_cmd_set without new actions, whose reply cannot be allocated: the
\* label err_unlock_ovs frees what is not a buffer but an error number.
SetReplyFails ==
    /\ Loaded /\ Spend("flow")
    /\ Named # {}
    /\ faults' = faults \cup {"error pointer"}
    /\ UNCHANGED <<portVars, flowVars, cpu, cmd, deferred, dump, registered>>

\* ovs_flow_cmd_del up to ovs_unlock.
RemoveFlow(t) ==
    /\ Loaded /\ cmd[t].pc = "idle" /\ cpu[t].pc = "idle" /\ Spend("flow")
    /\ \E f \in Named:
        /\ flow' = [flow EXCEPT ![f].st = "removed", ![f].dp = Null]
        /\ cmd' = [cmd EXCEPT ![t] = [pc |-> "removed", flow |-> f, act |-> Null, old |-> Null]]
    /\ UNCHANGED <<portVars, act, cpu, deferred, dump, registered, faults>>

\* The rest of it: the reply is made from the flow, which is then freed.
FreeRemoved(t) ==
    /\ cmd[t].pc = "removed"
    /\ deferred' = deferred \cup {Later("flow", cmd[t].flow)}
    /\ cmd' = [cmd EXCEPT ![t] = NoCmd]
    /\ UNCHANGED <<portVars, flowVars, cpu, dump, registered, faults, budget>>

\* ovs_flow_cmd_del without a key: ovs_flow_tbl_flush.
Flush ==
    /\ Loaded /\ Spend("flow")
    /\ \E d \in GetDp:
        /\ flow' = [f \in FlowObj |-> IF f \in Flows(d)
                                        THEN [flow[f] EXCEPT !.st = "removed", !.dp = Null]
                                        ELSE flow[f]]
        /\ deferred' = deferred \cup {Later("flow", f): f \in Flows(d)}
    /\ UNCHANGED <<portVars, act, cpu, cmd, dump, registered, faults>>

-----------------------------------------------------------------------------
(* Packets *)

\* The receive handler of a port calls ovs_dp_process_packet.
Receive(c) ==
    \E v \in Attached, k \in Key:
        /\ Spend("packet")
        /\ cpu[c].pc = "idle"
        /\ cpu' = [cpu EXCEPT ![c] = [pc |-> "lookup", vport |-> v, dp |-> Null, key |-> k,
                                     flow |-> Null, act |-> Null]]
        /\ UNCHANGED <<portVars, flowVars, cmd, deferred, dump, registered, faults>>

\* The flow, in the table of the port's datapath.
Lookup(c) ==
    /\ cpu[c].pc = "lookup"
    /\ LET d == vport[cpu[c].vport].dp
           hits == LookupKey(d, cpu[c].key) IN
       \/ \E f \in hits: cpu' = [cpu EXCEPT ![c].pc = "found", ![c].dp = d, ![c].flow = f]
       \/ hits = {} /\ cpu' = [cpu EXCEPT ![c].pc = "upcall", ![c].dp = d]
    /\ UNCHANGED <<portVars, flowVars, cmd, deferred, dump, registered, faults, budget>>

\* rcu_dereference(flow->sf_acts)
TakeActs(c) ==
    /\ cpu[c].pc = "found"
    /\ cpu' = [cpu EXCEPT ![c].pc = "execute", ![c].act = flow[cpu[c].flow].act]
    /\ UNCHANGED <<portVars, flowVars, cmd, deferred, dump, registered, faults, budget>>

\* queue_userspace_packet: the steps that may fail.
UpcallSteps == <<"ifindex", "clone", "vlan", "size", "alloc", "copy", "send", "sent">>

\* The buffers the function owns when it fails at that step: the copy it makes of
\* a packet with a VLAN tag, and the message, until it is sent.
Owned(step, tagged) ==
    {b \in {"copy", "message"}:
        \/ b = "copy" /\ tagged /\ step \in {"size", "alloc", "copy", "send", "sent"}
        \/ b = "message" /\ step = "copy"}

\* What it frees: nothing before the label out, both from there on, where
\* user_skb is NULL once it has been sent.
Freed(step, tagged) ==
    IF step \in {"ifindex", "clone", "vlan"} THEN {}
    ELSE {b \in {"copy", "message"}:
            (b = "copy" /\ tagged) \/ (b = "message" /\ step = "copy")}

\* ovs_dp_upcall: the packet goes to user space or is lost.
Upcall(c) ==
    /\ cpu[c].pc = "upcall"
    /\ \E step \in ToSet(UpcallSteps), tagged \in BOOLEAN:
        faults' = faults \cup
                    IF Owned(step, tagged) # Freed(step, tagged) THEN {"buffer"} ELSE {}
    /\ cpu' = [cpu EXCEPT ![c] = Idle]
    /\ deferred' = Leaves(c)
    /\ UNCHANGED <<portVars, flowVars, cmd, dump, registered, budget>>

\* ovs_execute_actions
Execute(c) ==
    /\ c \in Cpu /\ cpu[c].pc = "execute"
    /\ cpu' = [cpu EXCEPT ![c] = Idle]
    /\ deferred' = Leaves(c)
    /\ UNCHANGED <<portVars, flowVars, cmd, dump, registered, faults, budget>>

\* ovs_packet_cmd_execute up to rcu_read_lock: a flow and actions of its own.
AllocPacket(t) ==
    \E f \in FreshFlow, a \in FreshAct:
        /\ Loaded /\ cmd[t].pc = "idle" /\ cpu[t].pc = "idle" /\ Spend("packet")
        /\ flow' = [flow EXCEPT ![f] = [st |-> "new", dp |-> Null, key |-> Null, wild |-> FALSE,
                                        ufid |-> Null, act |-> a]]
        /\ act' = [act EXCEPT ![a] = "used"]
        /\ cmd' = [cmd EXCEPT ![t] = [pc |-> "packet", flow |-> f, act |-> Null, old |-> Null]]
        /\ UNCHANGED <<portVars, cpu, deferred, dump, registered, faults>>

\* The datapath and the input port, or else the local one, if they are there.
StartPacket(t) ==
    /\ cmd[t].pc = "packet" /\ cpu[t].pc = "idle"
    /\ \/ \E d \in GetDp: \E v \in PortsOf(d):
            /\ cpu' = [cpu EXCEPT ![t] = [pc |-> "execute", vport |-> v, dp |-> d, key |-> Null,
                                         flow |-> cmd[t].flow, act |-> flow[cmd[t].flow].act]]
            /\ UNCHANGED <<portVars, flowVars, cmd, deferred, dump, registered, faults, budget>>
       \/ GiveUp(t, Null)

EndPacket(t) ==
    /\ cpu[t].pc = "execute"
    /\ cpu' = [cpu EXCEPT ![t] = Idle]
    /\ deferred' = Leaves(t)
    /\ FreeFlow(cmd[t].flow)
    /\ cmd' = [cmd EXCEPT ![t] = NoCmd]
    /\ UNCHANGED <<portVars, dump, registered, budget>>

-----------------------------------------------------------------------------
Ports == NewDp \/ DelDp \/ NetExit \/ AddPort \/ DelPort

Dumps == StartDump \/ DumpSome \/ EndDump

FlowCommand(t) ==
    \/ AllocNewFlow(t) \/ NewFlow(t)
    \/ AllocSetFlow(t) \/ SetFlow(t) \/ FreeOld(t)
    \/ RemoveFlow(t) \/ FreeRemoved(t)
    \/ AllocPacket(t) \/ StartPacket(t) \/ EndPacket(t)

Packet(c) == Receive(c) \/ Lookup(c) \/ TakeActs(c) \/ Upcall(c) \/ Execute(c)

Next ==
    \/ Load
    \/ \E n \in DOMAIN Subsystems: LoadFails(n)
    \/ Ports
    \/ Dumps
    \/ \E t \in Thread: FlowCommand(t)
    \/ Flush
    \/ SetReplyFails
    \/ \E c \in Cpu: Packet(c)
    \/ Reclaim

Spec == Init /\ [][Next]_vars

-----------------------------------------------------------------------------
(* Properties *)

\* What a processor, or a command that executes a packet, is using is in memory:
\* ports, datapaths, flows and actions are freed only when the readers that
\* found them have finished, whoever removes or replaces them meanwhile
\* (datapath.c:300-308, 357-392, 1190, 1479).
HeldIsLive ==
    \A c \in Reading:
        /\ cpu[c].vport # Null => vport[cpu[c].vport].st # "free"
        /\ cpu[c].dp # Null => dp[cpu[c].dp].st # "free"
        /\ cpu[c].flow # Null => flow[cpu[c].flow].st # "free"
        /\ cpu[c].act # Null => act[cpu[c].act] # "free"

\* Who has the actions a: flows, commands, and what waits to be freed.
Owners(a) ==
    {f \in FlowObj: flow[f].act = a} \cup {t \in Thread: cmd[t].act = a \/ cmd[t].old = a}
    \cup {x \in deferred: x.kind = "act" /\ x.obj = a}

\* Actions that are in use have one owner, which frees them, and actions that are
\* not have none: no path of a command, failing or not, loses them or frees them
\* twice (datapath.c:1133, 1190, 1198-1204, 1341-1345).
ActsHaveOneOwner ==
    /\ \A a \in ActObj: Cardinality(Owners(a)) = IF act[a] = "used" THEN 1 ELSE 0
    /\ faults \subseteq {"error pointer"}

\* No flow of a table has the identifier of another, nor its mask and masked key
\* (datapath.c:1123-1126).
NoTwins ==
    \A f, g \in FlowObj:
        flow[f].st = "table" /\ flow[g].st = "table" /\ flow[f].dp = flow[g].dp /\ f # g =>
            /\ flow[f].ufid # Null => flow[f].ufid # flow[g].ufid
            /\ ~(flow[f].wild /\ flow[g].wild)
            /\ ~flow[f].wild /\ ~flow[g].wild => flow[f].key # flow[g].key

\* The headroom of a datapath, which is kept up to date port by port, is what its
\* neediest port needs, and every port reserves it, as commands add and remove ports
\* (datapath.c:2066-2086, 2155-2158, 2252-2258).  A device that goes away and a network
\* namespace that ends (2476) take ports without one, and update no headroom.
HeadroomIsMost ==
    \A d \in DpObj: dp[d].st = "live" =>
        /\ dp[d].maxroom = Max({vport[v].room: v \in PortsOf(d)})
        /\ \A v \in PortsOf(d) : vport[v].no # LOCAL_PORT => vport[v].rx = dp[d].maxroom

\* A port that is there all the while is reported by a dump, which takes several
\* replies and goes by the place of a port in its bucket, unless another port of
\* its bucket was removed meanwhile (datapath.c:2314-2335).
DumpReports ==
    dump.pc = "done" => \A v \in dump.base: v \in dump.seen \/ Bucket(v) \in dump.shift
=============================================================================
