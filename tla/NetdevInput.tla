---------------------------- MODULE NetdevInput ----------------------------
(***************************************************************************)
(* The user-space datapath, openvswitch/lib/dpif-netdev.c: how a polling   *)
(* thread finds the flow of each packet and carries out its actions, while *)
(* other threads put and delete flows.                                     *)
(*                                                                         *)
(* A packet is looked up in the exact match cache, which the thread alone  *)
(* uses and which holds references to flows, then in the classifier, which *)
(* others change under flow_mutex, and then by an upcall, which makes a    *)
(* flow.  Actions may recirculate packets: the thread then calls itself,   *)
(* and has a stack of calls.                                               *)
(*                                                                         *)
(* What ofproto answers to an upcall and odp_execute_actions are external. *)
(* The masks ofproto makes do not overlap: keys of one class and one port  *)
(* are matched by the same flow.  A batch is looked up at once; as rules   *)
(* do not overlap, the order of the subtables, which the thread optimizes  *)
(* from time to time, makes no difference.  Statistics, and the copies for *)
(* truncated packets, are left out.                                        *)
(*                                                                         *)
(* A batch has room for a burst, which the code does not check.  What the  *)
(* thread does once it has stored a packet past the end is undefined: the  *)
(* model has no more steps of it then, and the other threads go on.        *)
(***************************************************************************)
EXTENDS Integers, FiniteSets, Sequences, FiniteSetsExt, SequencesExt

CONSTANTS
    FlowObj, Packet,   \* a bound: the memory for flows and packets
    Key,               \* packet keys (miniflows)
    Class, Port, Hash, \* of each key: its megaflow, in_port and hash
    Recirc,            \* the key of a packet once it is recirculated
    Slots,             \* EM_FLOW_HASH_ENTRIES
    Program,           \* lists of actions
    Burst,             \* NETDEV_MAX_BURST
    MAX_FLOWS, MAX_RECIRC_DEPTH,
    IsPmd,             \* whether the thread is a pmd thread (pmd_thread_main), or one
                       \* of the others, which share an instance (dpif_netdev_run)
    Budgets,           \* a bound: how much of each kind happens
    Null

ASSUME NetdevInputAssumption ==
    /\ Slots \in Nat \ {0} /\ Burst \in Nat \ {0}
    /\ MAX_FLOWS \in Nat \ {0} /\ MAX_RECIRC_DEPTH \in Nat
    /\ Hash \in [Key -> Nat \ {0}] /\ Recirc \in [Key -> Key]
    /\ \A j, k \in Key: Port[j] = Port[k] => Port[Recirc[j]] = Port[Recirc[k]]
    /\ Program \subseteq Seq({"output", "recirc", "tunnel", "userspace"})
    /\ IsPmd \in BOOLEAN
    /\ Null \notin FlowObj \cup Packet \cup Key

VARIABLES
    flow,              \* struct dp_netdev_flow
    ref,               \* its ref_cnt
    batch,             \* its member batch: a call, and a batch of that call
    cls,               \* the rules of the classifiers
    table,             \* flow_table
    emc,               \* flow_cache
    sweep,             \* its sweep_idx
    pkt,               \* struct dp_packet
    stack,             \* the calls the polling thread is in
    cmd,               \* what another thread does under flow_mutex
    dump,              \* the flows a dump is about to report
    deferred,          \* ovsrcu_postpone: flows, and the readers they wait for
    enabled,           \* whether upcalls are: upcall_rwlock is not held for writing
    freed,             \* packets that were freed though they were free
    budget             \* what may still happen

flowVars == <<flow, ref, deferred>>
tableVars == <<cls, table, cmd, dump>>
cacheVars == <<emc, sweep>>
pktVars == <<pkt, freed>>
vars == <<flowVars, batch, tableVars, cacheVars, pktVars, stack, enabled, budget>>

NoFlow == [st |-> "free", key |-> Null, acts |-> <<>>, dead |-> FALSE]
NoCmd == [pc |-> "idle", todo |-> {}, cur |-> Null]
Empty == [flow |-> Null, key |-> Null]

Init ==
    /\ flow = [f \in FlowObj |-> NoFlow]
    /\ ref = [f \in FlowObj |-> 0]
    /\ batch = [f \in FlowObj |-> Null]
    /\ cls = {} /\ table = {}
    /\ emc = [s \in 0 .. Slots - 1 |-> Empty]
    /\ sweep = 0
    /\ pkt = [p \in Packet |-> Null]
    /\ stack = <<>>
    /\ cmd = NoCmd
    /\ dump = {}
    /\ deferred = {}
    /\ enabled = FALSE
    /\ freed = {}
    /\ budget \in Budgets

Spend(kind) == budget[kind] > 0 /\ budget' = [budget EXCEPT ![kind] = @ - 1]
Locked == cmd.pc # "idle"                                   \* flow_mutex

-----------------------------------------------------------------------------
(* Flows and references to them *)

Readers == (IF stack = <<>> THEN {} ELSE {"pmd"}) \cup (IF dump = {} THEN {} ELSE {"dump"})

\* dp_netdev_flow_ref and dp_netdev_flow_unref: references are taken by the bag
\* more and given up by the bag less; a flow without any is freed after a grace
\* period.
References(more, less) ==
    LET n(f) == ref[f] + (IF f \in DOMAIN more THEN more[f] ELSE 0)
                       - (IF f \in DOMAIN less THEN less[f] ELSE 0) IN
    /\ ref' = [f \in FlowObj |-> n(f)]
    /\ deferred' = deferred \cup
         {[flow |-> f, wait |-> Readers]: f \in {g \in FlowObj: ref[g] > 0 /\ n(g) = 0}}

One(f) == IF f = Null THEN <<>> ELSE [x \in {f} |-> 1]

\* dp_netdev_flow_free, when no reader is left.
Reclaim ==
    \E x \in deferred:
        /\ x.wait = {}
        /\ deferred' = deferred \ {x}
        /\ flow' = [flow EXCEPT ![x.flow] = NoFlow]
        /\ UNCHANGED <<ref, batch, tableVars, cacheVars, pktVars, stack, enabled, budget>>

\* A reader has finished.
Leaves(r) == {[x EXCEPT !.wait = @ \ {r}]: x \in deferred}

FreshFlow == LET free == {f \in FlowObj: flow[f].st = "free"} IN
             IF free = {} THEN {} ELSE {CHOOSE f \in free: TRUE}

\* dpcls_lookup in the classifier of port; any rule that matches.
Lookup(port, k) == {f \in cls: Port[flow[f].key] = port /\ Class[flow[f].key] = Class[k]}

\* dp_netdev_flow_add
FlowAdd(f, k, acts) ==
    /\ flow' = [flow EXCEPT ![f] = [NoFlow EXCEPT !.st = "live", !.key = k, !.acts = acts]]
    /\ ref' = [ref EXCEPT ![f] = 1]
    /\ batch' = [batch EXCEPT ![f] = Null]
    /\ cls' = cls \cup {f}
    /\ table' = table \cup {f}

-----------------------------------------------------------------------------
(* The exact match cache *)

\* EMC_FOR_EACH_POS_WITH_HASH, EM_FLOW_HASH_SEGS = 2
Places(k) == <<Hash[k] % Slots, (Hash[k] \div Slots) % Slots>>

Alive(s) == emc[s].flow # Null /\ ~flow[emc[s].flow].dead

HashAt(s) == IF emc[s].key = Null THEN 0 ELSE Hash[emc[s].key]

\* Wrong: the flow of an entry may be dead.
EmcLookupAny(k) ==
    LET hits == {i \in 1 .. 2: emc[Places(k)[i]].key = k /\ emc[Places(k)[i]].flow # Null} IN
    IF hits = {} THEN Null ELSE emc[Places(k)[Min(hits)]].flow

\* emc_lookup
EmcLookup(k) ==
    LET hits == {i \in 1 .. 2: emc[Places(k)[i]].key = k /\ Alive(Places(k)[i])} IN
    IF hits = {} THEN Null ELSE emc[Places(k)[Min(hits)]].flow

\* The entry emc_insert uses: the one of the key, or else an empty one, or the one
\* whose hash is smaller.
EmcPlace(k) ==
    LET s == Places(k)[1]
        t == Places(k)[2] IN
    CASE emc[s].key = k -> s
      [] emc[s].key # k /\ emc[t].key = k -> t
      [] OTHER -> IF (Alive(s) /\ ~Alive(t)) \/ HashAt(t) < HashAt(s) THEN t ELSE s

\* Wrong: a flow that has no reference left gets one (dp_netdev_flow_ref is not asked).
EmcInsertAnyway(k, f) ==
    LET s == EmcPlace(k)
        old == emc[s].flow
        new == f IN
    IF old = f THEN emc' = [emc EXCEPT ![s].key = k] /\ UNCHANGED <<ref, deferred>>
    ELSE /\ emc' = [emc EXCEPT ![s] = [flow |-> new, key |-> k]]
         /\ References(One(new), One(old))

\* emc_insert and emc_change_entry
EmcInsert(k, f) ==
    LET s == EmcPlace(k)
        old == emc[s].flow
        new == IF ref[f] > 0 THEN f ELSE Null IN
    IF old = f THEN emc' = [emc EXCEPT ![s].key = k] /\ UNCHANGED <<ref, deferred>>
    ELSE /\ emc' = [emc EXCEPT ![s] = [flow |-> new, key |-> k]]
         /\ References(One(new), One(old))

\* Wrong: sweep_idx stays.
SweepOneEntry ==
    /\ IsPmd /\ stack = <<>>
    /\ UNCHANGED sweep
    /\ IF emc[sweep].flow # Null /\ ~Alive(sweep)
         THEN /\ emc' = [emc EXCEPT ![sweep].flow = Null]
              /\ References(<<>>, One(emc[sweep].flow))
         ELSE UNCHANGED <<emc, ref, deferred>>
    /\ UNCHANGED <<flow, batch, tableVars, pktVars, stack, enabled, budget>>

\* emc_cache_slow_sweep, one entry whenever a pmd thread quiesces; no other thread
\* sweeps its cache.
Sweep ==
    /\ IsPmd /\ stack = <<>>
    /\ sweep' = (sweep + 1) % Slots
    /\ IF emc[sweep].flow # Null /\ ~Alive(sweep)
         THEN /\ emc' = [emc EXCEPT ![sweep].flow = Null]
              /\ References(<<>>, One(emc[sweep].flow))
         ELSE UNCHANGED <<emc, ref, deferred>>
    /\ UNCHANGED <<flow, batch, tableVars, pktVars, stack, enabled, budget>>

\* A pmd thread reloads: emc_cache_uninit and emc_cache_init.
Reload ==
    /\ IsPmd /\ stack = <<>> /\ Spend("reload")
    /\ LET held == {emc[s].flow: s \in DOMAIN emc} \ {Null} IN
       References(<<>>, [f \in held |-> Cardinality({s \in DOMAIN emc: emc[s].flow = f})])
    /\ emc' = [s \in DOMAIN emc |-> Empty]
    /\ sweep' = 0
    /\ UNCHANGED <<flow, batch, tableVars, pktVars, stack, enabled>>

-----------------------------------------------------------------------------
(* The stack of calls *)

Top == Last(stack)
SetTop(fr) == [stack EXCEPT ![Len(stack)] = fr]

\* dp_netdev_input__.  The fields own and old are the packets it was called with and
\* the flows that were removed by then; the code has neither.
InputCall(pkts) == [kind |-> "input", pc |-> "emc", pkts |-> pkts, missed |-> <<>>, i |-> 1,
                    new |-> Null, acts |-> <<>>, batches |-> <<>>, own |-> ToSet(pkts),
                    old |-> {f \in FlowObj: flow[f].dead /\ ref[f] > 0}]
\* dp_netdev_execute_actions
Actions(pkts, acts, steal) == [kind |-> "actions", pkts |-> pkts, acts |-> acts, steal |-> steal]
\* OVS_ACTION_ATTR_USERSPACE in dp_execute_cb
Userspace(pkts, steal) == [kind |-> "userspace", pkts |-> pkts, steal |-> steal]
\* the caller of dpif_netdev_execute
Caller(p) == [kind |-> "caller", pkts |-> <<p>>]

Frames(kind) == {l \in DOMAIN stack: stack[l].kind = kind}

\* No packet was stored past the end of a batch.
Intact == \A l \in Frames("input"): \A b \in ToSet(stack[l].batches): Len(b.pkts) <= Burst

\* recirc_depth
Depth == Cardinality({l \in 2 .. Len(stack): stack[l].kind = "input"})

Upcalling == \E l \in DOMAIN stack:
                 \/ stack[l].kind = "userspace"
                 \/ stack[l].kind = "input" /\ stack[l].pc \in {"upcall", "install", "insert"}

FreePackets == {p \in Packet: pkt[p] = Null}

\* n packets from the pool, if it has as many.
Fresh(n) ==
    LET fits == {s \in [1 .. n -> FreePackets]: \A i, j \in 1 .. n: i # j => s[i] # s[j]} IN
    IF fits = {} THEN {} ELSE {CHOOSE s \in fits: TRUE}

\* dp_packet_delete_batch
Delete(ps) ==
    /\ pkt' = [p \in Packet |-> IF p \in ps THEN Null ELSE pkt[p]]
    /\ freed' = freed \cup {p \in ps: pkt[p] = Null}

\* The last call returns; the thread is then through with the flows it looked at.
Return ==
    /\ stack' = Front(stack)
    /\ deferred' = IF Len(stack) = 1 THEN Leaves("pmd") ELSE deferred

\* dp_netdev_queue_batches: p joins the batch flow f has, of whichever call that is,
\* or starts one of the call that is last in s.  packet_batch_per_flow_update does
\* not ask whether the batch is full.
QueueBatches(s, p, f) ==
    IF batch[f] = Null
    THEN LET n == Len(Last(s).batches) + 1 IN
         /\ batch' = [batch EXCEPT ![f] = <<Len(s), n>>]
         /\ stack' = [s EXCEPT ![Len(s)].batches = Append(@, [flow |-> f, pkts |-> <<p>>])]
    ELSE /\ stack' = [s EXCEPT ![batch[f][1]].batches[batch[f][2]].pkts = Append(@, p)]
         /\ UNCHANGED batch

-----------------------------------------------------------------------------
(* dp_netdev_input__ *)

At(pc) == stack # <<>> /\ Top.kind = "input" /\ Top.pc = pc /\ Intact

\* A burst is received from a port.
Input ==
    /\ stack = <<>> /\ Spend("input")
    /\ \E n \in 1 .. Burst: \E keys \in [1 .. n -> Key]: \E ps \in Fresh(n):
        /\ \A i \in 1 .. n: Port[keys[i]] = Port[keys[1]]
        /\ stack' = <<InputCall(ps)>>
        /\ pkt' = [p \in Packet |-> IF p \in ToSet(ps) THEN keys[CHOOSE i \in 1 .. n: ps[i] = p]
                                    ELSE pkt[p]]
    /\ UNCHANGED <<flowVars, batch, tableVars, cacheVars, freed, enabled>>

\* Wrong: a packet whose flow is in the cache is counted among the missed as well.
EmcProcessingBoth ==
    /\ At("emc") /\ Top.pkts # <<>>
    /\ LET p == Head(Top.pkts)
           fr == [Top EXCEPT !.pkts = Tail(@)]
           miss == [fr EXCEPT !.missed = Append(@, [p |-> p, key |-> pkt[p], rule |-> Null])]
           f == EmcLookup(pkt[p]) IN
       IF f # Null THEN QueueBatches(SetTop(miss), p, f)
       ELSE stack' = SetTop(miss) /\ UNCHANGED batch
    /\ UNCHANGED <<flowVars, tableVars, cacheVars, pktVars, enabled, budget>>

\* emc_processing, of one packet, which may be too short.
EmcProcessing ==
    /\ At("emc") /\ Top.pkts # <<>>
    /\ LET p == Head(Top.pkts)
           fr == [Top EXCEPT !.pkts = Tail(@)]
           f == EmcLookup(pkt[p]) IN
       \/ /\ Spend("runt")
          /\ Delete({p})
          /\ stack' = SetTop(fr)
          /\ UNCHANGED batch
       \/ /\ IF f # Null THEN QueueBatches(SetTop(fr), p, f)
             ELSE /\ stack' = SetTop([fr EXCEPT !.missed =
                                  Append(@, [p |-> p, key |-> pkt[p], rule |-> Null])])
                  /\ UNCHANGED batch
          /\ UNCHANGED <<pktVars, budget>>
    /\ UNCHANGED <<flowVars, tableVars, cacheVars, enabled>>

AnyRule(port, k) == IF Lookup(port, k) = {} THEN Null ELSE CHOOSE f \in Lookup(port, k): TRUE

\* fast_path_processing: the classifier of the first packet's port, and the packets
\* that must be dropped as upcalls are disabled.
Classify ==
    /\ At("emc") /\ Top.pkts = <<>>
    /\ LET ms == Top.missed
           rs == [i \in DOMAIN ms |->
                    [ms[i] EXCEPT !.rule = AnyRule(Port[ms[1].key], ms[i].key)]]
           lost == {i \in DOMAIN rs: rs[i].rule = Null}
           next == CASE ms = <<>> -> "reset"
                     [] ms # <<>> /\ lost # {} /\ enabled -> "upcall"
                     [] OTHER -> "queue" IN
       /\ stack' = SetTop([Top EXCEPT !.missed = rs, !.pc = next])
       /\ IF next = "queue" THEN Delete({rs[i].p: i \in lost})
          ELSE UNCHANGED pktVars
    /\ UNCHANGED <<flowVars, batch, tableVars, cacheVars, enabled, budget>>

NextUpcall == [Top EXCEPT !.i = @ + 1, !.pc = "upcall", !.new = Null, !.acts = <<>>]

\* fast_path_processing, the next packet without a rule, up to where
\* handle_packet_upcall has the answer and begins the actions.
MissUpcall ==
    /\ At("upcall")
    /\ LET i == Top.i
           m == Top.missed[i]
           f == AnyRule(Port[m.key], m.key) IN
       \/ /\ i > Len(Top.missed)
          /\ stack' = SetTop([Top EXCEPT !.pc = "queue", !.i = 1])
          /\ UNCHANGED <<pktVars, budget>>
       \/ /\ i <= Len(Top.missed)
          /\ m.rule # Null \/ f # Null
          /\ stack' = SetTop([NextUpcall EXCEPT !.missed[i].rule = IF m.rule # Null THEN @ ELSE f])
          /\ UNCHANGED <<pktVars, budget>>
       \/ /\ i <= Len(Top.missed) /\ m.rule = Null /\ f = Null
          /\ \/ /\ Delete({m.p})                                     \* an error
                /\ stack' = SetTop(NextUpcall)
                /\ UNCHANGED budget
             \/ \E acts \in Program, nospace \in BOOLEAN:              \* ENOSPC
                /\ Spend("upcall")
                /\ stack' = Append(SetTop(IF nospace THEN NextUpcall
                                         ELSE [Top EXCEPT !.pc = "install", !.acts = acts]),
                                  Actions(<<m.p>>, acts, TRUE))
                /\ UNCHANGED pktVars
    /\ UNCHANGED <<flowVars, batch, tableVars, cacheVars, enabled>>

\* Wrong: the flow is not looked up again.
InstallBlindly ==
    /\ At("install") /\ ~Locked
    /\ LET k == Top.missed[Top.i].key
           old == Null IN
       \/ /\ old # Null
          /\ stack' = SetTop([Top EXCEPT !.pc = "insert", !.new = old])
          /\ UNCHANGED <<flow, ref, batch, cls, table>>
       \/ \E f \in FreshFlow:
          /\ old = Null
          /\ stack' = SetTop([Top EXCEPT !.pc = "insert", !.new = f])
          /\ FlowAdd(f, k, Top.acts)
    /\ UNCHANGED <<deferred, cmd, dump, cacheVars, pktVars, enabled, budget>>

\* handle_packet_upcall: under flow_mutex the flow is looked up again, and added.
Install ==
    /\ At("install") /\ ~Locked
    /\ LET k == Top.missed[Top.i].key
           old == AnyRule(Port[k], k) IN
       \/ /\ old # Null
          /\ stack' = SetTop([Top EXCEPT !.pc = "insert", !.new = old])
          /\ UNCHANGED <<flow, ref, batch, cls, table>>
       \/ \E f \in FreshFlow:
          /\ old = Null
          /\ stack' = SetTop([Top EXCEPT !.pc = "insert", !.new = f])
          /\ FlowAdd(f, k, Top.acts)
    /\ UNCHANGED <<deferred, cmd, dump, cacheVars, pktVars, enabled, budget>>

\* handle_packet_upcall, after the unlock.
Insert ==
    /\ At("insert")
    /\ EmcInsert(Top.missed[Top.i].key, Top.new)
    /\ stack' = SetTop(NextUpcall)
    /\ UNCHANGED <<flow, batch, tableVars, sweep, pktVars, enabled, budget>>

\* fast_path_processing: a packet with a rule goes to the batch of its flow.
QueueRule ==
    /\ At("queue")
    /\ IF Top.i > Len(Top.missed)
       THEN /\ stack' = SetTop([Top EXCEPT !.pc = "reset"])
            /\ UNCHANGED <<ref, deferred, emc, batch>>
       ELSE LET m == Top.missed[Top.i]
                fr == [Top EXCEPT !.i = @ + 1] IN
            IF m.rule = Null THEN stack' = SetTop(fr) /\ UNCHANGED <<ref, deferred, emc, batch>>
            ELSE EmcInsert(m.key, m.rule) /\ QueueBatches(SetTop(fr), m.p, m.rule)
    /\ UNCHANGED <<flow, tableVars, sweep, pktVars, enabled, budget>>

\* Wrong: the last batch is not reset.
ResetAllButOne ==
    /\ At("reset")
    /\ stack' = SetTop([Top EXCEPT !.pc = "execute", !.i = 1])
    /\ batch' = [f \in FlowObj |-> IF \E b \in ToSet(Front(Top.batches)): b.flow = f THEN Null ELSE batch[f]]
    /\ UNCHANGED <<flowVars, tableVars, cacheVars, pktVars, enabled, budget>>

\* All batches are reset before any is executed.
ResetBatches ==
    /\ At("reset")
    /\ stack' = SetTop([Top EXCEPT !.pc = "execute", !.i = 1])
    /\ batch' = [f \in FlowObj |-> IF \E b \in ToSet(Top.batches): b.flow = f THEN Null ELSE batch[f]]
    /\ UNCHANGED <<flowVars, tableVars, cacheVars, pktVars, enabled, budget>>

\* packet_batch_per_flow_execute, with the actions the flow has by now.
ExecuteBatch ==
    /\ At("execute") /\ Top.i <= Len(Top.batches)
    /\ LET b == Top.batches[Top.i] IN
       stack' = Append(SetTop([Top EXCEPT !.i = @ + 1]), Actions(b.pkts, flow[b.flow].acts, TRUE))
    /\ UNCHANGED <<flowVars, batch, tableVars, cacheVars, pktVars, enabled, budget>>

InputReturns ==
    /\ At("execute") /\ Top.i > Len(Top.batches)
    /\ Return
    /\ UNCHANGED <<flow, ref, batch, tableVars, cacheVars, pktVars, enabled, budget>>

-----------------------------------------------------------------------------
(* Actions *)

\* dpif_netdev_execute
ExecuteCall ==
    /\ stack = <<>> /\ Spend("call")
    /\ \E k \in Key, acts \in Program: \E ps \in Fresh(1):
        /\ stack' = <<Caller(ps[1]), Actions(ps, acts, FALSE)>>
        /\ pkt' = [pkt EXCEPT ![ps[1]] = k]
    /\ UNCHANGED <<flowVars, batch, tableVars, cacheVars, freed, enabled>>

\* The caller has the packet still, and frees it.
CallerFrees ==
    /\ stack # <<>> /\ Top.kind = "caller"
    /\ Delete(ToSet(Top.pkts)) /\ Return
    /\ UNCHANGED <<flow, ref, batch, tableVars, cacheVars, enabled, budget>>

Doing(kinds) == /\ stack # <<>> /\ Top.kind = "actions" /\ Top.acts # <<>>
                /\ Head(Top.acts) \in kinds

\* The last action may take the packets, if the caller gave them.
MaySteal == Top.steal /\ Len(Top.acts) = 1
AfterAction == [Top EXCEPT !.acts = Tail(@), !.pkts = IF MaySteal THEN <<>> ELSE @]

\* OVS_ACTION_ATTR_OUTPUT and OVS_ACTION_ATTR_CT, and what is dropped: recirculation
\* that is too deep, a packet for user space while upcalls are disabled.
Drop ==
    /\ \/ Doing({"output"})
       \/ Doing({"recirc", "tunnel"}) /\ Depth >= MAX_RECIRC_DEPTH
       \/ Doing({"userspace"}) /\ ~enabled
    /\ stack' = SetTop(AfterAction)
    /\ IF MaySteal THEN Delete(ToSet(Top.pkts)) ELSE UNCHANGED pktVars
    /\ UNCHANGED <<flowVars, batch, tableVars, cacheVars, enabled, budget>>

\* Wrong: the packets are not copied for the actions that follow.
RecirculateOriginals ==
    /\ Doing({"recirc", "tunnel"}) /\ Depth < MAX_RECIRC_DEPTH
    /\ LET n == Len(Top.pkts) IN
       \E ps \in {Top.pkts}: \E keep \in SUBSET (1 .. n):
          LET from(p) == CHOOSE i \in 1 .. n: ps[i] = p
              kept == [j \in 1 .. Cardinality(keep) |->
                         ps[CHOOSE i \in keep: Cardinality({x \in keep: x < i}) = j - 1]] IN
          /\ IF keep = 1 .. n THEN UNCHANGED budget
             ELSE Head(Top.acts) = "tunnel" /\ Spend("refused")
          /\ pkt' = [p \in Packet |-> CASE p \notin ToSet(ps) -> pkt[p]
                                        [] p \in ToSet(kept) -> Recirc[pkt[Top.pkts[from(p)]]]
                                        [] OTHER -> Null]
          /\ freed' = freed \cup {p \in ToSet(Top.pkts): pkt[p] = Null}
          /\ stack' = IF kept = <<>> THEN SetTop(AfterAction)
                      ELSE Append(SetTop(AfterAction), InputCall(kept))
    /\ UNCHANGED <<flowVars, batch, tableVars, cacheVars, enabled>>

\* OVS_ACTION_ATTR_RECIRC, OVS_ACTION_ATTR_TUNNEL_PUSH and _POP: the packets, or
\* copies, are input again; a tunnel may refuse all (push) or some (pop).
Recirculate ==
    /\ Doing({"recirc", "tunnel"}) /\ Depth < MAX_RECIRC_DEPTH
    /\ LET n == Len(Top.pkts) IN
       \E ps \in IF MaySteal THEN {Top.pkts} ELSE Fresh(n): \E keep \in SUBSET (1 .. n):
          LET from(p) == CHOOSE i \in 1 .. n: ps[i] = p
              kept == [j \in 1 .. Cardinality(keep) |->
                         ps[CHOOSE i \in keep: Cardinality({x \in keep: x < i}) = j - 1]] IN
          /\ IF keep = 1 .. n THEN UNCHANGED budget
             ELSE Head(Top.acts) = "tunnel" /\ Spend("refused")
          /\ pkt' = [p \in Packet |-> CASE p \notin ToSet(ps) -> pkt[p]
                                        [] p \in ToSet(kept) -> Recirc[pkt[Top.pkts[from(p)]]]
                                        [] OTHER -> Null]
          /\ freed' = freed \cup {p \in ToSet(Top.pkts): pkt[p] = Null}
          /\ stack' = IF kept = <<>> THEN SetTop(AfterAction)
                      ELSE Append(SetTop(AfterAction), InputCall(kept))
    /\ UNCHANGED <<flowVars, batch, tableVars, cacheVars, enabled>>

\* OVS_ACTION_ATTR_USERSPACE
ToUserspace ==
    /\ Doing({"userspace"}) /\ enabled
    /\ stack' = Append(SetTop(AfterAction), Userspace(Top.pkts, MaySteal))
    /\ UNCHANGED <<flowVars, batch, tableVars, cacheVars, pktVars, enabled, budget>>

\* dp_execute_userspace_action, of one packet; then the lock is released.
UserspaceUpcall ==
    /\ stack # <<>> /\ Top.kind = "userspace"
    /\ IF Top.pkts = <<>> THEN stack' = Front(stack) /\ UNCHANGED <<pktVars, budget>>
       ELSE LET p == Head(Top.pkts)
                fr == SetTop([Top EXCEPT !.pkts = Tail(@)]) IN
            \/ \E acts \in Program:
                  /\ Spend("upcall")
                  /\ stack' = Append(fr, Actions(<<p>>, acts, Top.steal))
                  /\ UNCHANGED pktVars
            \/ /\ stack' = fr
               /\ IF Top.steal THEN Delete({p}) ELSE UNCHANGED pktVars
               /\ UNCHANGED budget
    /\ UNCHANGED <<flowVars, batch, tableVars, cacheVars, enabled>>

\* odp_execute_actions is through.
ActionsReturn ==
    /\ stack # <<>> /\ Top.kind = "actions" /\ Top.acts = <<>>
    /\ IF Top.steal THEN Delete(ToSet(Top.pkts)) ELSE UNCHANGED pktVars
    /\ Return
    /\ UNCHANGED <<flow, ref, batch, tableVars, cacheVars, enabled, budget>>

-----------------------------------------------------------------------------
(* Other threads *)

\* flow_put_on_pmd
FlowPut ==
    /\ ~Locked /\ Spend("put")
    /\ \E k \in Key, acts \in Program, create, modify \in BOOLEAN:
        LET f == AnyRule(Port[k], k) IN
        \/ /\ f = Null /\ create /\ Cardinality(table) < MAX_FLOWS
           /\ \E new \in FreshFlow: FlowAdd(new, k, acts)
        \/ /\ f # Null /\ modify /\ flow[f].key = k
           /\ flow' = [flow EXCEPT ![f].acts = acts]
           /\ UNCHANGED <<ref, batch, cls, table>>
    /\ UNCHANGED <<deferred, cmd, dump, cacheVars, pktVars, stack, enabled>>

\* flow_del_on_pmd and dp_netdev_pmd_flow_flush take flow_mutex.
BeginRemoval ==
    /\ ~Locked /\ Spend("del")
    /\ \/ \E f \in table: cmd' = [cmd EXCEPT !.pc = "next", !.todo = {f}]
       \/ cmd' = [cmd EXCEPT !.pc = "next", !.todo = table]
    /\ UNCHANGED <<flowVars, batch, cls, table, dump, cacheVars, pktVars, stack, enabled>>

\* dp_netdev_pmd_remove_flow takes the rule out of the classifier, ...
Unlink ==
    /\ cmd.pc = "next"
    /\ IF cmd.todo = {} THEN cmd' = NoCmd /\ UNCHANGED cls
       ELSE \E f \in cmd.todo:
              /\ cls' = cls \ {f}
              /\ cmd' = [pc |-> "unlinked", todo |-> cmd.todo \ {f}, cur |-> f]
    /\ UNCHANGED <<flowVars, batch, table, dump, cacheVars, pktVars, stack, enabled, budget>>

\* ... then out of the table, and gives up the reference they had.
Retire ==
    /\ cmd.pc = "unlinked"
    /\ table' = table \ {cmd.cur}
    /\ flow' = [flow EXCEPT ![cmd.cur].dead = TRUE]
    /\ References(<<>>, One(cmd.cur))
    /\ cmd' = [cmd EXCEPT !.pc = "next", !.cur = Null]
    /\ UNCHANGED <<batch, cls, dump, cacheVars, pktVars, stack, enabled, budget>>

\* dpif_netdev_flow_dump_next finds some flows, and then reports them.
DumpNext ==
    /\ dump = {} /\ table # {} /\ Spend("dump")
    /\ dump' \in SUBSET table \ {{}}
    /\ UNCHANGED <<flowVars, batch, cls, table, cmd, cacheVars, pktVars, stack, enabled>>
DumpReports ==
    /\ dump # {}
    /\ dump' = {}
    /\ deferred' = Leaves("dump")
    /\ UNCHANGED <<flow, ref, batch, cls, table, cmd, cacheVars, pktVars, stack, enabled, budget>>

\* dp_netdev_enable_upcall and dp_netdev_disable_upcall, which waits for the upcalls
\* under way.
EnableUpcalls ==
    /\ ~enabled
    /\ enabled' = TRUE
    /\ UNCHANGED <<flowVars, batch, tableVars, cacheVars, pktVars, stack, budget>>
DisableUpcalls ==
    /\ enabled /\ ~Upcalling /\ Spend("disable")
    /\ enabled' = FALSE
    /\ UNCHANGED <<flowVars, batch, tableVars, cacheVars, pktVars, stack>>

Call == \/ EmcProcessing \/ Classify \/ MissUpcall \/ Install \/ Insert \/ QueueRule
        \/ ResetBatches \/ ExecuteBatch \/ InputReturns \/ CallerFrees
        \/ Drop \/ Recirculate \/ ToUserspace \/ UserspaceUpcall \/ ActionsReturn

Next == \/ Input \/ ExecuteCall \/ Call \/ Sweep \/ Reload
        \/ FlowPut \/ BeginRemoval \/ Unlink \/ Retire \/ DumpNext \/ DumpReports
        \/ EnableUpcalls \/ DisableUpcalls \/ Reclaim

\* Threads go on with what they have begun, a pmd thread quiesces and sweeps, and
\* grace periods end.
Fairness == /\ WF_vars(Call) /\ WF_vars(Sweep) /\ WF_vars(Reclaim)
            /\ WF_vars(Unlink \/ Retire) /\ WF_vars(DumpReports)

Spec == Init /\ [][Next]_vars /\ Fairness

-----------------------------------------------------------------------------
(* Properties *)

Held == {emc[s].flow: s \in DOMAIN emc} \cup cls \cup table \cup dump
        \cup UNION {{stack[l].new} \cup {m.rule: m \in ToSet(stack[l].missed)}
                    \cup {b.flow: b \in ToSet(stack[l].batches)}: l \in Frames("input")}

\* A flow that the cache, a classifier, the table, a batch, a lookup under way or a
\* dump refers to has not been freed (dp_netdev_flow_unref, line 1566).
HeldIsLive == \A f \in Held \ {Null}: flow[f].st = "live"

\* The packets of a batch match its flow, and the flow was not removed before the call
\* that queues them began: the cache does not answer with dead flows (emc_lookup, line
\* 1959), nor with a key of another flow.
BatchesFit ==
    \A l \in Frames("input"): \A b \in ToSet(stack[l].batches):
        /\ b.flow \notin stack[l].old
        /\ stack[l].pc # "execute" =>
             \A p \in ToSet(b.pkts): /\ pkt[p] # Null
                                     /\ Class[pkt[p]] = Class[flow[b.flow].key]
                                     /\ Port[pkt[p]] = Port[flow[b.flow].key]

\* No two rules of a classifier match the same packets (handle_packet_upcall, line
\* 4193: one may be installed while the upcall is under way).
NoOverlap == \A f, g \in cls: f # g => ~(/\ Class[flow[f].key] = Class[flow[g].key]
                                         /\ Port[flow[f].key] = Port[flow[g].key])

\* The batch a flow refers to is one of its own, of a call that has not begun to
\* execute batches; a call that recirculates packets while it has such a batch does
\* so in an upcall (dp_netdev_input__, line 4347: all are reset before one is executed).
BatchIsOpen ==
    \A f \in FlowObj: batch[f] # Null =>
        LET l == batch[f][1] IN
        /\ l \in Frames("input") /\ stack[l].pc # "execute"
        /\ batch[f][2] \in DOMAIN stack[l].batches
        /\ stack[l].batches[batch[f][2]].flow = f
        /\ (\E k \in Frames("input"): k > l) => stack[l].pc \in {"upcall", "install"}

\* A burst is all that a batch must have room for, but for recirculation: what is
\* stored past the end of a batch (packet_batch_per_flow_update, line 4024) is there
\* because a packet of another call is in the batch.
BurstIsEnough ==
    \A l \in Frames("input"): \A b \in ToSet(stack[l].batches):
        Len(b.pkts) > Burst => \E p \in ToSet(b.pkts): p \notin stack[l].own

\* A call collects its own packets in its batches: one that is recirculated is not
\* "appended to batches[k] of the 1st call" (dp_netdev_input__, line 4353).
OwnBatches ==
    \A l \in Frames("input"): \A b \in ToSet(stack[l].batches): ToSet(b.pkts) \subseteq stack[l].own

\* Every packet is freed once, whoever gets it last: no packet is freed again, and
\* none is left when the thread has returned.
FreedOnce == freed = {} /\ (stack = <<>> => FreePackets = Packet)

\* Once no more flows are removed, all that were have been freed, if it is a pmd
\* thread that has them in its cache: it gives up its references as it sweeps
\* (emc_cache_slow_sweep, line 657).  A thread that has overrun a batch is not asked.
DeadIsFreed == IsPmd => <>[](Intact => \A f \in FlowObj: ~flow[f].dead)
=============================================================================
