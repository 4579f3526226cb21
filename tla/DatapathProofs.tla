--------------------------- MODULE DatapathProofs ---------------------------
(***************************************************************************)
(* Memory in the kernel datapath: what a reader holds is not freed, and    *)
(* everything allocated for a flow has one owner; the tables hold no twins *)
(* and datapaths have the headroom their ports need; a dump of the ports   *)
(* leaves none out.  For any number of datapaths, ports, flows, actions,   *)
(* processors and threads.                                                 *)
(***************************************************************************)
EXTENDS Datapath, NaturalsInduction, FiniteSetTheorems, TLAPS

Reader == Cpu \cup Thread
Opt(S) == S \cup {Null}
Rooms == 0 .. MaxRoom
Waiting(kind, objs) == [kind: {kind}, obj: objs, wait: SUBSET Reader]

\* The types of what the proofs are about: everything but what is registered and
\* the bound; the places of the ports in their buckets and the dump come last.
PortTypes ==
    /\ dp \in [DpObj -> [st: {"free", "live", "dead"}, maxroom: Rooms]]
    /\ dps \subseteq DpObj
    /\ vport \in [VportObj -> [st: {"free", "live", "dead"}, no: Nat, internal: BOOLEAN,
                               dp: Opt(DpObj), room: Rooms, rx: Rooms]]

FlowRecords == [st: {"free", "new", "table", "removed"}, dp: Opt(DpObj), key: Opt(Key),
                wild: BOOLEAN, ufid: Opt(Ufid), act: Opt(ActObj)]
CpuRecords == [pc: {"idle", "lookup", "found", "upcall", "execute"},
               vport: Opt(VportObj), dp: Opt(DpObj), key: Opt(Key),
               flow: Opt(FlowObj), act: Opt(ActObj)]
CmdRecords == [pc: {"idle", "new", "set", "replaced", "removed", "packet"},
               flow: Opt(FlowObj), act: Opt(ActObj), old: Opt(ActObj)]

FlowTypes ==
    /\ flow \in [FlowObj -> FlowRecords]
    /\ act \in [ActObj -> {"free", "used"}]

CpuTypes == cpu \in [Reader -> CpuRecords]

CmdTypes == cmd \in [Thread -> CmdRecords]

DeferredTypes ==
    deferred \subseteq Waiting("vport", VportObj) \cup Waiting("dp", DpObj)
                         \cup Waiting("flow", FlowObj) \cup Waiting("act", ActObj)

MemoryTypes == PortTypes /\ FlowTypes /\ CpuTypes /\ CmdTypes /\ DeferredTypes

\* A port that is attached belongs to a live datapath, and so does the list.
PortsInv ==
    /\ \A v \in VportObj: vport[v].st = "live" =>
          vport[v].dp \in DpObj /\ dp[vport[v].dp].st = "live"
    /\ \A d \in dps: dp[d].st = "live"

\* What waits to be freed is unlinked, and waits once.
DeferredInv ==
    /\ \A x, y \in deferred: x.kind = y.kind /\ x.obj = y.obj => x = y
    /\ \A x \in deferred:
          /\ x.kind = "vport" => vport[x.obj].st = "dead"
          /\ x.kind = "dp" => dp[x.obj].st = "dead"
          /\ x.kind = "flow" => flow[x.obj].st = "removed" /\ \A t \in Thread: cmd[t].flow # x.obj

\* What a command has in hand at each of its steps; no two have the same flow.
CmdHolds(t) ==
    LET f == cmd[t].flow IN
    /\ cmd[t].pc \in {"idle", "set"} => f = Null
    /\ cmd[t].pc \in {"new", "packet", "removed"} => f # Null
    /\ cmd[t].pc \in {"new", "replaced"} /\ f # Null => flow[f].st = "new" /\ flow[f].act = Null
    /\ cmd[t].pc = "packet" => flow[f].st = "new" /\ flow[f].act # Null
    /\ cmd[t].pc = "removed" => flow[f].st = "removed"
    /\ cmd[t].act # Null <=> cmd[t].pc \in {"new", "set"}
    /\ cmd[t].old # Null <=> cmd[t].pc = "replaced"

CmdInv ==
    /\ \A t \in Thread: CmdHolds(t)
    /\ \A t, u \in Thread: cmd[t].flow = cmd[u].flow /\ cmd[t].flow # Null => t = u

\* The three ways to have actions.
FlowHas(f, a) == flow[f].act = a
CmdHas(t, a) == cmd[t].act = a \/ cmd[t].old = a
WaitHas(x, a) == x.kind = "act" /\ x.obj = a

\* Actions are had in one of the three ways, by one, if they are in use.
OneOwner(a) ==
    /\ act[a] = "used" <=> \/ \E f \in FlowObj: FlowHas(f, a)
                           \/ \E t \in Thread: CmdHas(t, a)
                           \/ \E x \in deferred: WaitHas(x, a)
    /\ \A f, g \in FlowObj: FlowHas(f, a) /\ FlowHas(g, a) => f = g
    /\ \A t, u \in Thread: CmdHas(t, a) /\ CmdHas(u, a) => t = u
    /\ \A f \in FlowObj, t \in Thread: ~ (FlowHas(f, a) /\ CmdHas(t, a))
    /\ \A f \in FlowObj, x \in deferred: ~ (FlowHas(f, a) /\ WaitHas(x, a))
    /\ \A t \in Thread, x \in deferred: ~ (CmdHas(t, a) /\ WaitHas(x, a))

\* A flow that packets may find has actions.
ActsInv ==
    /\ \A f \in FlowObj:
          /\ flow[f].st = "free" => flow[f].act = Null
          /\ flow[f].st \in {"table", "removed"} => flow[f].act # Null
    /\ \A a \in ActObj: OneOwner(a)

FaultsInv == faults \subseteq {"error pointer"}

\* If the object waits to be freed, it waits for reader c.
WaitsFor(kind, obj, c) == \A x \in deferred: x.kind = kind /\ x.obj = obj => c \in x.wait

\* The port a reader came by, and the port's datapath, with the flows in its
\* table, outlive it.
HeldPort(c) ==
    LET v == cpu[c].vport
        d == vport[v].dp IN
    /\ v # Null /\ vport[v].st # "free" /\ WaitsFor("vport", v, c)
    /\ d # Null /\ dp[d].st # "free" /\ WaitsFor("dp", d, c)
    /\ cpu[c].dp \in {Null, d}

\* A flow a reader has found is in the table of that datapath, or removed from
\* it, or the one a command made for its packet.
HeldFlow(c) ==
    LET f == cpu[c].flow IN
    \/ flow[f].st = "table" /\ flow[f].dp = cpu[c].dp
    \/ flow[f].st = "removed" /\ WaitsFor("flow", f, c)
    \/ c \in Thread /\ flow[f].st = "new" /\ cmd[c].flow = f

\* The actions a reader has taken are still the flow's, or have been replaced
\* and wait for it, or are about to.
HeldAct(c) ==
    LET a == cpu[c].act IN
    \/ FlowHas(cpu[c].flow, a)
    \/ \E t \in Thread: cmd[t].old = a
    \/ (\E x \in deferred: WaitHas(x, a)) /\ WaitsFor("act", a, c)

\* What reader c holds at each of its steps.
HeldOf(c) ==
    /\ cpu[c].pc \in {"idle", "lookup"} => cpu[c].dp = Null
    /\ cpu[c].pc \in {"idle", "lookup", "upcall"} => cpu[c].flow = Null
    /\ cpu[c].pc \in {"idle", "lookup", "upcall", "found"} => cpu[c].act = Null
    /\ cpu[c].pc = "idle" => cpu[c].vport = Null
    /\ cpu[c].pc # "idle" => HeldPort(c)
    /\ cpu[c].pc \in {"found", "execute"} => cpu[c].dp # Null /\ cpu[c].flow # Null /\ HeldFlow(c)
    /\ cpu[c].act # Null => HeldAct(c)
    /\ c \in Thread /\ cpu[c].pc # "idle" =>
          cpu[c].pc = "execute" /\ cmd[c].pc = "packet" /\ cpu[c].flow = cmd[c].flow

HeldInv == \A c \in Reader: HeldOf(c)

\* A datapath has its local port, which needs no headroom; its headroom is that
\* of a port, none needs more, and every port but the local one reserves it.
Needs(d) ==
    /\ \E v \in PortsOf(d): vport[v].no = LOCAL_PORT /\ vport[v].room = 0
    /\ \E v \in PortsOf(d): vport[v].room = dp[d].maxroom
    /\ \A v \in PortsOf(d):
          /\ vport[v].room <= dp[d].maxroom
          /\ vport[v].no # LOCAL_PORT => vport[v].rx = dp[d].maxroom

HeadroomInv ==
    \A d \in DpObj: /\ dp[d].st = "free" => dp[d].maxroom = 0
                    /\ dp[d].st = "live" => Needs(d)

IndInv ==
    /\ MemoryTypes /\ PortsInv /\ DeferredInv /\ CmdInv /\ ActsInv /\ FaultsInv /\ HeldInv
-----------------------------------------------------------------------------
(* Lemmas about the operators of Datapath *)

\* An object to allocate is one that is free.
LEMMA FreshIn == \A S: Fresh(S) \subseteq S
  BY DEF Fresh

LEMMA FreshObjects ==
  /\ \A f \in FreshFlow: f \in FlowObj /\ flow[f].st = "free"
  /\ \A a \in FreshAct: a \in ActObj /\ act[a] = "free"
  /\ \A v \in FreshVport: v \in VportObj /\ vport[v].st = "free"
  /\ \A d \in FreshDp: d \in DpObj /\ dp[d].st = "free"
  BY FreshIn DEF FreshFlow, FreshAct, FreshVport, FreshDp

\* The flows a lookup finds are in the table; those a command finds are in the
\* table of a live datapath.
LEMMA GetDpLive == PortsInv => \A d \in GetDp: d \in DpObj /\ dp[d].st = "live"
  BY DEF PortsInv, GetDp, Attached

LEMMA NamedInTable ==
  PortsInv => \A f \in Named: f \in FlowObj /\ flow[f].st = "table" /\ flow[f].dp \in GetDp
  BY DEF Named, LookupUfid, LookupExact, Flows

LEMMA LaterType ==
  ASSUME MemoryTypes
  PROVE  /\ \A v \in VportObj: Later("vport", v) \in Waiting("vport", VportObj)
         /\ \A d \in DpObj: Later("dp", d) \in Waiting("dp", DpObj)
         /\ \A f \in FlowObj: Later("flow", f) \in Waiting("flow", FlowObj)
         /\ \A a \in ActObj: Later("act", a) \in Waiting("act", ActObj)
  BY DEF Later, Waiting, Reading, Reader

LEMMA WaitingFields ==
  ASSUME MemoryTypes, NEW x \in deferred
  PROVE  /\ x = [kind |-> x.kind, obj |-> x.obj, wait |-> x.wait]
         /\ x.wait \subseteq Reader
         /\ x.kind \in {"vport", "dp", "flow", "act"}
         /\ x.kind = "vport" => x.obj \in VportObj
         /\ x.kind = "dp" => x.obj \in DpObj
         /\ x.kind = "flow" => x.obj \in FlowObj
         /\ x.kind = "act" => x.obj \in ActObj
  BY DEF MemoryTypes, DeferredTypes, Waiting

\* What waits still waits for all readers but the one that leaves.
LEMMA LeavesEach ==
  ASSUME MemoryTypes, NEW c \in Reader
  PROVE  /\ \A y \in Leaves(c): \E x \in deferred:
              y.kind = x.kind /\ y.obj = x.obj /\ y.wait = x.wait \ {c}
         /\ \A x \in deferred: \E y \in Leaves(c): 
              y.kind = x.kind /\ y.obj = x.obj /\ y.wait = x.wait \ {c}
         /\ \A y \in Leaves(c): y = [kind |-> y.kind, obj |-> y.obj, wait |-> y.wait]
         /\ Leaves(c) \subseteq Waiting("vport", VportObj) \cup Waiting("dp", DpObj)
                            \cup Waiting("flow", FlowObj) \cup Waiting("act", ActObj)
<1>1. ASSUME NEW x \in deferred
      PROVE  [x EXCEPT !.wait = @ \ {c}] = [kind |-> x.kind, obj |-> x.obj, wait |-> x.wait \ {c}]
  BY WaitingFields
<1>2. Leaves(c) = {[kind |-> x.kind, obj |-> x.obj, wait |-> x.wait \ {c}]: x \in deferred}
  BY <1>1 DEF Leaves
<1>3. ASSUME NEW x \in deferred
      PROVE  [kind |-> x.kind, obj |-> x.obj, wait |-> x.wait \ {c}] \in
                Waiting("vport", VportObj) \cup Waiting("dp", DpObj)
                  \cup Waiting("flow", FlowObj) \cup Waiting("act", ActObj)
  <2>1. x.wait \ {c} \in SUBSET Reader  BY WaitingFields
  <2>2. QED  BY <2>1, WaitingFields DEF Waiting
<1>4. \A y \in Leaves(c): \E x \in deferred:
          y = [kind |-> x.kind, obj |-> x.obj, wait |-> x.wait \ {c}]
  BY <1>2
<1>5. \A x \in deferred: [kind |-> x.kind, obj |-> x.obj, wait |-> x.wait \ {c}] \in Leaves(c)
  BY <1>2
<1>6. \A x \in deferred: \E y \in Leaves(c):
          y.kind = x.kind /\ y.obj = x.obj /\ y.wait = x.wait \ {c}
  <2>1. TAKE x \in deferred
  <2>2. [kind |-> x.kind, obj |-> x.obj, wait |-> x.wait \ {c}] \in Leaves(c)  BY <1>5
  <2>3. QED  BY <2>2
<1>7. QED  BY <1>3, <1>4, <1>6

LEMMA RoomsAreNumbers == 0 \in Rooms /\ \A s \in Rooms: s \in Nat /\ s <= MaxRoom
  BY DatapathAssumption DEF Rooms

LEMMA RoomIsRoom == Room \subseteq Rooms
  BY DatapathAssumption DEF Rooms

\* The least and the largest of a set of bounded numbers are in it.
LEMMA MinIn ==
  ASSUME NEW S \in SUBSET Nat, S # {}
  PROVE  Min(S) \in S /\ \A y \in S: Min(S) <= y
<1>1. PICK x \in S: \A y \in S: ~ (<<y, x>> \in OpToRel(<, Nat))
  BY NatLessThanWellFounded, WFMin
<1>2. \A y \in S: x <= y
  <2>1. SUFFICES ASSUME NEW y \in S, y < x PROVE FALSE  OBVIOUS
  <2>2. <<y, x>> \in Nat \X Nat /\ <<y, x>>[1] < <<y, x>>[2]  BY <2>1
  <2>3. QED  BY <1>1, <2>2 DEF OpToRel
<1>3. QED  BY <1>2 DEF Min

LEMMA MaxIn ==
  ASSUME NEW S \in SUBSET Rooms, S # {}
  PROVE  Max(S) \in S /\ \A y \in S: Max(S) >= y
<1> DEFINE T == {MaxRoom - s: s \in S}
<1>1. \A s \in S: s \in Nat /\ s <= MaxRoom /\ MaxRoom - s \in Nat /\ MaxRoom - s \in T
  <2> MaxRoom \in Nat  BY DatapathAssumption
  <2>1. TAKE s \in S
  <2>2. s \in Nat /\ s <= MaxRoom  BY RoomsAreNumbers
  <2>3. QED  BY <2>2
<1>2. T \in SUBSET Nat
  <2>1. \A t \in T: \E s \in S: t = MaxRoom - s  OBVIOUS
  <2>2. QED  BY <1>1, <2>1
<1>3. T # {}  BY <1>1
<1>4. \A t \in T: \E s \in S: t = MaxRoom - s  OBVIOUS
<1> HIDE DEF T
<1>5. Min(T) \in T /\ \A y \in T: Min(T) <= y  BY <1>2, <1>3, MinIn
<1>6. PICK x \in S: Min(T) = MaxRoom - x  BY <1>4, <1>5
<1>7. ASSUME NEW y \in S PROVE x >= y
  <2>1. MaxRoom - x <= MaxRoom - y  BY <1>1, <1>5, <1>6
  <2>2. QED  BY <1>1, <2>1, DatapathAssumption
<1>8. QED  BY <1>7 DEF Max

\* The number of a new port.
LEMMA PortNoType == \A d \in DpObj, no \in 0 .. MaxPorts - 1: PortNo(d, no) \subseteq Nat
<1>1. SUFFICES ASSUME NEW d \in DpObj, NEW no \in 0 .. MaxPorts - 1 PROVE PortNo(d, no) \subseteq Nat
  OBVIOUS
<1> DEFINE free == {m \in 1 .. MaxPorts - 1: LookupVport(d, m) = {}}
<1>2. no \in Nat  BY DatapathAssumption
<1>3. free \in SUBSET Nat
  <2>1. free \subseteq 1 .. MaxPorts - 1  OBVIOUS
  <2>2. \A m \in 1 .. MaxPorts - 1: m \in Nat  BY DatapathAssumption
  <2>3. QED  BY <2>1, <2>2
<1>4. free # {} => Min(free) \in Nat  BY <1>3, MinIn
<1>5. QED  BY <1>2, <1>4 DEF PortNo

-----------------------------------------------------------------------------
(* Types *)

\* What update_headroom does to a datapath and its ports.
LEMMA UpdateHeadroomEach ==
  ASSUME PortTypes, NEW d \in DpObj,
         NEW vp \in [VportObj -> [st: {"free", "live", "dead"}, no: Nat, internal: BOOLEAN,
                                  dp: Opt(DpObj), room: Rooms, rx: Rooms]],
         UpdateHeadroom(d, vp)
  PROVE  LET vs == {v \in VportObj: vp[v].st = "live" /\ vp[v].dp = d}
             most == Max({vp[v].room: v \in vs} \cup {0}) IN
         /\ most \in {vp[v].room: v \in vs} \cup {0}
         /\ \A v \in vs: most >= vp[v].room
         /\ most \in Rooms
         /\ dp' = [dp EXCEPT ![d].maxroom = most]
         /\ vport' = [v \in VportObj |-> IF v \in vs THEN [vp[v] EXCEPT !.rx = most] ELSE vp[v]]
<1> DEFINE vs == {v \in VportObj: vp[v].st = "live" /\ vp[v].dp = d}
           rs == {vp[v].room: v \in vs} \cup {0}
           most == Max(rs)
<1>1. rs \in SUBSET Rooms /\ rs # {}
  <2>1. \A v \in vs: vp[v].room \in Rooms  OBVIOUS
  <2>2. 0 \in Rooms  BY RoomsAreNumbers
  <2>3. QED  BY <2>1, <2>2
<1>2. most \in rs /\ \A y \in rs: most >= y
  <2> HIDE DEF rs
  <2> QED  BY <1>1, MaxIn
<1>3. \A v \in vs: vp[v].room \in rs  OBVIOUS
<1>4. \A v \in vs: most >= vp[v].room
  <2> HIDE DEF rs, vs
  <2> QED  BY <1>2, <1>3
<1>5. most \in Rooms
  <2> HIDE DEF rs
  <2> QED  BY <1>1, <1>2
<1>6. dp' = [dp EXCEPT ![d].maxroom = most]  BY DEF UpdateHeadroom
<1>7. vport' = [v \in VportObj |-> IF v \in vs THEN [vp[v] EXCEPT !.rx = most] ELSE vp[v]]
  BY DEF UpdateHeadroom
<1>8. QED  BY <1>2, <1>4, <1>5, <1>6, <1>7

\* The same, as to what the other parts of a port are.
LEMMA UpdateHeadroomKeeps ==
  ASSUME PortTypes, NEW d \in DpObj,
         NEW vp \in [VportObj -> [st: {"free", "live", "dead"}, no: Nat, internal: BOOLEAN,
                                  dp: Opt(DpObj), room: Rooms, rx: Rooms]],
         UpdateHeadroom(d, vp), dps' = dps
  PROVE  /\ PortTypes'
         /\ \A e \in DpObj: dp'[e].st = dp[e].st
         /\ \A v \in VportObj: /\ vport'[v].st = vp[v].st /\ vport'[v].dp = vp[v].dp
                               /\ vport'[v].no = vp[v].no /\ vport'[v].room = vp[v].room
<1> DEFINE vs == {v \in VportObj: vp[v].st = "live" /\ vp[v].dp = d}
           most == Max({vp[v].room: v \in vs} \cup {0})
<1>1. /\ most \in Rooms
      /\ dp' = [dp EXCEPT ![d].maxroom = most]
      /\ vport' = [v \in VportObj |-> IF v \in vs THEN [vp[v] EXCEPT !.rx = most] ELSE vp[v]]
  BY UpdateHeadroomEach
<1> HIDE DEF most, vs
<1>2. dp' \in [DpObj -> [st: {"free", "live", "dead"}, maxroom: Rooms]]
      /\ \A e \in DpObj: dp'[e].st = dp[e].st
  BY <1>1 DEF PortTypes
<1>3. ASSUME NEW v \in VportObj
      PROVE  /\ vport'[v] \in [st: {"free", "live", "dead"}, no: Nat, internal: BOOLEAN,
                               dp: Opt(DpObj), room: Rooms, rx: Rooms]
             /\ vport'[v].st = vp[v].st /\ vport'[v].dp = vp[v].dp
             /\ vport'[v].no = vp[v].no /\ vport'[v].room = vp[v].room
  BY <1>1
<1>4. vport' \in [VportObj -> [st: {"free", "live", "dead"}, no: Nat, internal: BOOLEAN,
                               dp: Opt(DpObj), room: Rooms, rx: Rooms]]
  BY <1>1, <1>3
<1>5. QED  BY <1>2, <1>3, <1>4 DEF PortTypes

-----------------------------------------------------------------------------
(* Frames: what a step must keep for the invariant to hold after it *)

\* If nobody stops waiting for reader c, what waited for it still does.
LEMMA WaitsKept ==
  ASSUME NEW c \in Reader,
         \A y \in deferred': c \in y.wait \/ (\E x \in deferred:
             x.kind = y.kind /\ x.obj = y.obj /\ (c \in x.wait => c \in y.wait)),
         NEW kind, NEW obj, WaitsFor(kind, obj, c)
  PROVE  WaitsFor(kind, obj, c)'
  BY DEF WaitsFor

\* A reader's port stays when neither it nor its datapath is freed.
LEMMA HeldPortKept ==
  ASSUME NEW c \in Reader, HeldPort(c), cpu'[c] = cpu[c], MemoryTypes,
         \A y \in deferred': c \in y.wait \/ (\E x \in deferred:
             x.kind = y.kind /\ x.obj = y.obj /\ (c \in x.wait => c \in y.wait)),
         \A v \in VportObj: vport[v].st # "free" /\ WaitsFor("vport", v, c) =>
             vport'[v].st # "free" /\ vport'[v].dp = vport[v].dp,
         \A d \in DpObj: dp[d].st # "free" /\ WaitsFor("dp", d, c) => dp'[d].st # "free"
  PROVE  HeldPort(c)'
<1>1. PICK v \in VportObj: v = cpu[c].vport
  BY DEF HeldPort, MemoryTypes, CpuTypes, CpuRecords, Opt
<1>2. PICK d \in DpObj: d = vport[v].dp
  BY <1>1 DEF HeldPort, MemoryTypes, PortTypes, Opt
<1>3. /\ vport[v].st # "free" /\ WaitsFor("vport", v, c)
      /\ dp[d].st # "free" /\ WaitsFor("dp", d, c)
      /\ cpu[c].dp \in {Null, d} /\ v # Null /\ d # Null
  BY <1>1, <1>2 DEF HeldPort
<1>4. WaitsFor("vport", v, c)' /\ WaitsFor("dp", d, c)'
  BY <1>3, WaitsKept
<1>5. vport'[v].st # "free" /\ vport'[v].dp = d /\ dp'[d].st # "free"
  BY <1>2, <1>3
<1>6. cpu'[c].vport = v /\ cpu'[c].dp = cpu[c].dp  BY <1>1
<1>7. QED  BY <1>3, <1>4, <1>5, <1>6 DEF HeldPort

\* What a reader holds stays when the reader does and each thing it holds does.
LEMMA HeldOfKept ==
  ASSUME NEW c \in Reader, HeldOf(c), cpu'[c] = cpu[c],
         cpu[c].pc # "idle" =>
             /\ HeldPort(c) => HeldPort(c)'
             /\ cpu[c].flow # Null /\ HeldFlow(c) => HeldFlow(c)'
             /\ cpu[c].act # Null /\ HeldAct(c) => HeldAct(c)'
             /\ c \in Thread => cmd'[c].pc = cmd[c].pc /\ cmd'[c].flow = cmd[c].flow
  PROVE  HeldOf(c)'
<1>1. CASE cpu[c].pc = "idle"  BY <1>1 DEF HeldOf
<1>2. CASE cpu[c].pc # "idle"  BY <1>2 DEF HeldOf
<1>3. QED  BY <1>1, <1>2

\* A step of no reader keeps what readers hold.
LEMMA HeldInvKept ==
  ASSUME HeldInv, cpu' = cpu,
         \A c \in Reader: cpu[c].pc # "idle" =>
             /\ HeldPort(c) => HeldPort(c)'
             /\ cpu[c].flow # Null /\ HeldFlow(c) => HeldFlow(c)'
             /\ cpu[c].act # Null /\ HeldAct(c) => HeldAct(c)'
             /\ c \in Thread => cmd'[c].pc = cmd[c].pc /\ cmd'[c].flow = cmd[c].flow
  PROVE  HeldInv'
  BY HeldOfKept DEF HeldInv

\* A step on ports and datapaths: it frees none, and what it unlinks waits for
\* all readers.
LEMMA PortStepKeeps ==
  ASSUME IndInv, PortTypes', PortsInv', DeferredTypes',
         UNCHANGED <<flow, act, cmd, cpu, faults>>,
         deferred \subseteq deferred',
         \A y \in deferred' \ deferred:
             /\ y.kind \in {"vport", "dp"} /\ y.wait = Reading
             /\ y.kind = "vport" => vport[y.obj].st = "live" /\ vport'[y.obj].st = "dead"
             /\ y.kind = "dp" => dp[y.obj].st = "live" /\ dp'[y.obj].st = "dead",
         \A y, z \in deferred' \ deferred: y.kind = z.kind /\ y.obj = z.obj => y = z,
         \A v \in VportObj:
             /\ vport[v].st = "dead" => vport'[v].st = "dead"
             /\ vport[v].st # "free" => vport'[v].st # "free" /\ vport'[v].dp = vport[v].dp,
         \A d \in DpObj:
             /\ dp[d].st = "dead" => dp'[d].st = "dead"
             /\ dp[d].st # "free" => dp'[d].st # "free"
  PROVE  IndInv'
<1>1. MemoryTypes' /\ MemoryTypes
  BY DEF IndInv, MemoryTypes, FlowTypes, FlowRecords, CpuTypes, CpuRecords, CmdTypes, CmdRecords
<1>2. DeferredInv'
  <2>1. \A x \in deferred: (x.kind = "vport" => x.obj \in VportObj) /\ (x.kind = "dp" => x.obj \in DpObj)
    BY <1>1, WaitingFields
  <2>2. ASSUME NEW x \in deferred', NEW y \in deferred', x.kind = y.kind, x.obj = y.obj
        PROVE  x = y
    <3>1. CASE x \in deferred /\ y \in deferred  BY <2>2, <3>1 DEF IndInv, DeferredInv
    <3>2. CASE x \in deferred /\ y \notin deferred  BY <2>2, <3>2 DEF IndInv, DeferredInv
    <3>3. CASE x \notin deferred /\ y \in deferred  BY <2>2, <3>3 DEF IndInv, DeferredInv
    <3>4. CASE x \notin deferred /\ y \notin deferred  BY <2>2, <3>4
    <3>5. QED  BY <3>1, <3>2, <3>3, <3>4
  <2>3. ASSUME NEW x \in deferred'
        PROVE  /\ x.kind = "vport" => vport'[x.obj].st = "dead"
               /\ x.kind = "dp" => dp'[x.obj].st = "dead"
               /\ x.kind = "flow" => flow'[x.obj].st = "removed"
                                     /\ \A t \in Thread: cmd'[t].flow # x.obj
    <3>1. CASE x \in deferred  BY <2>1, <3>1 DEF IndInv, DeferredInv
    <3>2. CASE x \notin deferred  BY <3>2
    <3>3. QED  BY <3>1, <3>2
  <2>4. QED  BY <2>2, <2>3 DEF DeferredInv
<1>3. CmdInv'  BY DEF IndInv, CmdInv, CmdHolds
<1>4. ActsInv'
  <2>1. \A x, a: x \in deferred' /\ WaitHas(x, a) => x \in deferred  BY DEF WaitHas
  <2>2. ActsInv /\ deferred \subseteq deferred'  BY DEF IndInv
  <2>3. QED  BY <2>1, <2>2 DEF ActsInv, OneOwner, FlowHas, CmdHas, WaitHas
<1>5. FaultsInv'  BY DEF IndInv, FaultsInv
<1>6. HeldInv'
  <2>1. ASSUME NEW c \in Reader, cpu[c].pc # "idle"
        PROVE  /\ HeldPort(c) => HeldPort(c)'
               /\ cpu[c].flow # Null /\ HeldFlow(c) => HeldFlow(c)'
               /\ cpu[c].act # Null /\ HeldAct(c) => HeldAct(c)'
    <3>1. c \in Reading  BY <2>1 DEF Reading, Reader
    <3>2. \A y \in deferred': c \in y.wait \/ (\E x \in deferred:
             x.kind = y.kind /\ x.obj = y.obj /\ (c \in x.wait => c \in y.wait))
      BY <3>1
    <3>3. HeldPort(c) => HeldPort(c)'  BY <1>1, <3>2, HeldPortKept
    <3>4. HeldFlow(c) => HeldFlow(c)'
      <4>1. \A f: WaitsFor("flow", f, c) => WaitsFor("flow", f, c)'  BY <3>2, WaitsKept
      <4>2. QED  BY <4>1 DEF HeldFlow
    <3>5. HeldAct(c) => HeldAct(c)'
      <4>1. \A a: WaitsFor("act", a, c) => WaitsFor("act", a, c)'  BY <3>2, WaitsKept
      <4>2. QED  BY <4>1 DEF HeldAct, FlowHas, WaitHas
    <3>6. QED  BY <3>3, <3>4, <3>5
  <2>2. HeldInv  BY DEF IndInv
  <2>3. QED  BY <2>1, <2>2, HeldInvKept
<1>7. QED  BY <1>1, <1>2, <1>3, <1>4, <1>5, <1>6 DEF IndInv

-----------------------------------------------------------------------------
(* Datapaths and ports *)

LEMMA NewDpKeeps == ASSUME IndInv, NewDp PROVE IndInv'
<1>1. PICK d \in FreshDp, v \in FreshVport:
        LET r == [st |-> "live", no |-> LOCAL_PORT, internal |-> TRUE, dp |-> d,
                  room |-> 0, rx |-> 0] IN
        /\ dp' = [dp EXCEPT ![d].st = "live"]
        /\ vport' = [vport EXCEPT ![v] = r]
        /\ dps' = dps \cup {d}
        /\ UNCHANGED <<flowVars, cpu, cmd, deferred, faults>>
  BY DEF NewDp
<1>2. d \in DpObj /\ dp[d].st = "free" /\ v \in VportObj /\ vport[v].st = "free"
  BY FreshObjects
<1> DEFINE r == [st |-> "live", no |-> 0, internal |-> TRUE, dp |-> d, room |-> 0, rx |-> 0]
<1>3. vport' = [vport EXCEPT ![v] = r]  BY <1>1 DEF LOCAL_PORT
<1>4. r.st = "live" /\ r.dp = d
      /\ r \in [st: {"free", "live", "dead"}, no: Nat, internal: BOOLEAN,
                dp: Opt(DpObj), room: Rooms, rx: Rooms]
  BY <1>2, RoomsAreNumbers DEF Opt
<1> HIDE DEF r
<1>5. PortTypes'
  <2>1. PortTypes  BY DEF IndInv, MemoryTypes
  <2>2. dp' \in [DpObj -> [st: {"free", "live", "dead"}, maxroom: Rooms]]
    BY <1>1, <1>2, <2>1 DEF PortTypes
  <2>3. vport' \in [VportObj -> [st: {"free", "live", "dead"}, no: Nat, internal: BOOLEAN,
                               dp: Opt(DpObj), room: Rooms, rx: Rooms]]
    BY <1>2, <1>3, <1>4, <2>1 DEF PortTypes
  <2>4. QED  BY <1>1, <1>2, <2>1, <2>2, <2>3 DEF PortTypes
<1>6. /\ \A e \in DpObj: dp'[e].st = IF e = d THEN "live" ELSE dp[e].st
      /\ \A w \in VportObj: vport'[w] = IF w = v THEN r ELSE vport[w]
  BY <1>1, <1>2, <1>3 DEF IndInv, MemoryTypes, PortTypes
<1>7. PortsInv'
  BY <1>1, <1>2, <1>4, <1>6 DEF IndInv, PortsInv, MemoryTypes, PortTypes
<1>8. deferred' = deferred /\ UNCHANGED <<flow, act, cmd, cpu, faults>>
  BY <1>1 DEF flowVars
<1>9. DeferredTypes'  BY <1>8 DEF IndInv, MemoryTypes, DeferredTypes
<1>10. /\ \A w \in VportObj:
             /\ vport[w].st = "dead" => vport'[w].st = "dead"
             /\ vport[w].st # "free" => vport'[w].st # "free" /\ vport'[w].dp = vport[w].dp
       /\ \A e \in DpObj:
             /\ dp[e].st = "dead" => dp'[e].st = "dead"
             /\ dp[e].st # "free" => dp'[e].st # "free"
  BY <1>2, <1>6
<1>11. QED  BY <1>5, <1>7, <1>8, <1>9, <1>10, PortStepKeeps

\* The headroom of a datapath and its ports is all that update_headroom changes.
LEMMA AddPortKeeps == ASSUME IndInv, AddPort PROVE IndInv'
<1> DEFINE PortRecords == [st: {"free", "live", "dead"}, no: Nat, internal: BOOLEAN,
                           dp: Opt(DpObj), room: Rooms, rx: Rooms]
<1>1. PICK v \in FreshVport, no \in 0 .. MaxPorts - 1, internal \in BOOLEAN, room \in Room,
           d \in GetDp: \E m \in PortNo(d, no):
        LET r == [st |-> "live", no |-> m, internal |-> internal, dp |-> d, room |-> room,
                  rx |-> dp[d].maxroom] IN
        /\ IF room > dp[d].maxroom
             THEN UpdateHeadroom(d, [vport EXCEPT ![v] = r])
             ELSE vport' = [vport EXCEPT ![v] = r] /\ UNCHANGED dp
        /\ UNCHANGED <<dps, flowVars, cpu, cmd, deferred, faults>>
  BY DEF AddPort
<1>2. v \in VportObj /\ vport[v].st = "free" /\ d \in DpObj /\ dp[d].st = "live"
  BY FreshObjects, GetDpLive DEF IndInv
<1>3. PICK m \in PortNo(d, no): 
        LET r == [st |-> "live", no |-> m, internal |-> internal, dp |-> d, room |-> room,
                  rx |-> dp[d].maxroom] IN
        /\ IF room > dp[d].maxroom
             THEN UpdateHeadroom(d, [vport EXCEPT ![v] = r])
             ELSE vport' = [vport EXCEPT ![v] = r] /\ UNCHANGED dp
  BY <1>1
<1>4. PortTypes  BY DEF IndInv, MemoryTypes
<1>5. PICK r \in PortRecords:
        /\ r.st = "live" /\ r.dp = d
        /\ IF room > dp[d].maxroom
             THEN UpdateHeadroom(d, [vport EXCEPT ![v] = r])
             ELSE vport' = [vport EXCEPT ![v] = r] /\ UNCHANGED dp
  <2>1. m \in Nat  BY <1>2, <1>3, PortNoType
  <2>2. room \in Rooms  BY RoomIsRoom
  <2>3. dp[d].maxroom \in Rooms  BY <1>2, <1>4 DEF PortTypes
  <2>4. [st |-> "live", no |-> m, internal |-> internal, dp |-> d, room |-> room,
         rx |-> dp[d].maxroom] \in PortRecords
    BY <1>2, <2>1, <2>2, <2>3 DEF Opt
  <2>5. QED  BY <1>3, <2>4
<1>6. [vport EXCEPT ![v] = r] \in [VportObj -> PortRecords]
  BY <1>2, <1>4 DEF PortTypes
<1>7. PICK vp \in [VportObj -> PortRecords]: vp = [vport EXCEPT ![v] = r]
  BY <1>6
<1>8. \A w \in VportObj: vp[w] = IF w = v THEN r ELSE vport[w]
  BY <1>2, <1>4, <1>7 DEF PortTypes
<1>9. /\ PortTypes'
      /\ \A e \in DpObj: dp'[e].st = dp[e].st
      /\ \A w \in VportObj: vport'[w].st = vp[w].st /\ vport'[w].dp = vp[w].dp
  <2>1. CASE room > dp[d].maxroom
    <3>1. UpdateHeadroom(d, vp) /\ dps' = dps  BY <1>1, <1>5, <1>7, <2>1
    <3>2. QED  BY <1>2, <1>4, <3>1, UpdateHeadroomKeeps
  <2>2. CASE ~ (room > dp[d].maxroom)
    <3>1. vport' = vp /\ dp' = dp /\ dps' = dps  BY <1>1, <1>5, <1>7, <2>2
    <3>2. QED  BY <1>4, <3>1 DEF PortTypes
  <2>3. QED  BY <2>1, <2>2
<1>10. PortsInv'
  BY <1>1, <1>2, <1>4, <1>5, <1>8, <1>9 DEF IndInv, PortsInv, PortTypes
<1>11. deferred' = deferred /\ UNCHANGED <<flow, act, cmd, cpu, faults>>
  BY <1>1 DEF flowVars
<1>12. DeferredTypes'  BY <1>11 DEF IndInv, MemoryTypes, DeferredTypes
<1>13. /\ \A w \in VportObj:
             /\ vport[w].st = "dead" => vport'[w].st = "dead"
             /\ vport[w].st # "free" => vport'[w].st # "free" /\ vport'[w].dp = vport[w].dp
       /\ \A e \in DpObj:
             /\ dp[e].st = "dead" => dp'[e].st = "dead"
             /\ dp[e].st # "free" => dp'[e].st # "free"
  BY <1>2, <1>8, <1>9
<1>14. QED  BY <1>9, <1>10, <1>11, <1>12, <1>13, PortStepKeeps

\* What __dp_destroy does to live datapaths, one or all.
LEMMA DestroyKeeps ==
  ASSUME IndInv, NEW ds \in SUBSET DpObj, \A d \in ds: dp[d].st = "live",
         DestroyDps(ds), UNCHANGED <<flowVars, cpu, cmd, faults>>
  PROVE  IndInv'
<1>1. PICK vs \in SUBSET VportObj:
        /\ \A v \in VportObj: v \in vs <=> vport[v].st = "live" /\ vport[v].dp \in ds
        /\ vport' = [v \in VportObj |-> IF v \in vs THEN [vport[v] EXCEPT !.st = "dead"] ELSE vport[v]]
        /\ dps' = dps \ ds
        /\ dp' = [d \in DpObj |-> IF d \in ds THEN [dp[d] EXCEPT !.st = "dead"] ELSE dp[d]]
        /\ deferred' = deferred \cup {Later("vport", v): v \in vs} \cup {Later("dp", d): d \in ds}
  <2> DEFINE vs == UNION {PortsOf(d): d \in ds}
  <2>1. \A v: v \in vs <=> v \in VportObj /\ vport[v].st = "live" /\ vport[v].dp \in ds
    BY DEF PortsOf, Attached
  <2>2. vs \in SUBSET VportObj  BY <2>1
  <2>3. /\ vport' = [v \in VportObj |-> IF v \in vs THEN [vport[v] EXCEPT !.st = "dead"] ELSE vport[v]]
        /\ dps' = dps \ ds
        /\ dp' = [d \in DpObj |-> IF d \in ds THEN [dp[d] EXCEPT !.st = "dead"] ELSE dp[d]]
        /\ deferred' = deferred \cup {Later("vport", v): v \in vs} \cup {Later("dp", d): d \in ds}
    BY DEF DestroyDps
  <2> HIDE DEF vs
  <2>4. QED  BY <2>1, <2>2, <2>3
<1>2. MemoryTypes /\ PortTypes  BY DEF IndInv, MemoryTypes
<1>3. \A v \in VportObj:
        /\ vport'[v].st = IF v \in vs THEN "dead" ELSE vport[v].st
        /\ vport'[v].dp = vport[v].dp
        /\ vport'[v] \in [st: {"free", "live", "dead"}, no: Nat, internal: BOOLEAN,
                          dp: Opt(DpObj), room: Rooms, rx: Rooms]
  BY <1>1, <1>2 DEF PortTypes
<1>4. \A d \in DpObj:
        /\ dp'[d].st = IF d \in ds THEN "dead" ELSE dp[d].st
        /\ dp'[d] \in [st: {"free", "live", "dead"}, maxroom: Rooms]
  BY <1>1, <1>2 DEF PortTypes
<1>5. PortTypes'
  <2>1. vport' \in [VportObj -> [st: {"free", "live", "dead"}, no: Nat, internal: BOOLEAN,
                          dp: Opt(DpObj), room: Rooms, rx: Rooms]]
    BY <1>1, <1>3
  <2>2. dp' \in [DpObj -> [st: {"free", "live", "dead"}, maxroom: Rooms]]
    BY <1>1, <1>4
  <2>3. QED  BY <1>1, <1>2, <2>1, <2>2 DEF PortTypes
<1>6. PortsInv'
  <2>1. PortsInv /\ dps \subseteq DpObj  BY <1>2 DEF IndInv, PortTypes
  <2>2. QED  BY <1>1, <1>3, <1>4, <2>1 DEF PortsInv
<1>7. DeferredTypes'
  <2>1. \A v \in vs: Later("vport", v) \in Waiting("vport", VportObj)  BY <1>2, LaterType
  <2>2. \A d \in ds: Later("dp", d) \in Waiting("dp", DpObj)  BY <1>2, LaterType
  <2>3. DeferredTypes  BY <1>2 DEF MemoryTypes
  <2>4. QED  BY <1>1, <2>1, <2>2, <2>3 DEF DeferredTypes
<1>8. \A y \in deferred' \ deferred:
        /\ y = [kind |-> y.kind, obj |-> y.obj, wait |-> Reading]
        /\ \/ y.kind = "vport" /\ y.obj \in vs
           \/ y.kind = "dp" /\ y.obj \in ds
  BY <1>1 DEF Later
<1>9. /\ deferred \subseteq deferred'
      /\ \A y \in deferred' \ deferred:
             /\ y.kind \in {"vport", "dp"} /\ y.wait = Reading
             /\ y.kind = "vport" => vport[y.obj].st = "live" /\ vport'[y.obj].st = "dead"
             /\ y.kind = "dp" => dp[y.obj].st = "live" /\ dp'[y.obj].st = "dead"
  <2>1. deferred \subseteq deferred'  BY <1>1
  <2>2. ASSUME NEW y \in deferred' \ deferred
        PROVE  /\ y.kind \in {"vport", "dp"} /\ y.wait = Reading
               /\ y.kind = "vport" => vport[y.obj].st = "live" /\ vport'[y.obj].st = "dead"
               /\ y.kind = "dp" => dp[y.obj].st = "live" /\ dp'[y.obj].st = "dead"
    <3>1. y.wait = Reading  BY <1>8
    <3>2. CASE y.kind = "vport" /\ y.obj \in vs  BY <1>1, <1>3, <3>1, <3>2
    <3>3. CASE y.kind = "dp" /\ y.obj \in ds  BY <1>4, <3>1, <3>3
    <3>4. QED  BY <1>8, <3>2, <3>3
  <2>3. QED  BY <2>1, <2>2
<1>10. \A y, z \in deferred' \ deferred: y.kind = z.kind /\ y.obj = z.obj => y = z
  BY <1>8
<1>11. /\ \A w \in VportObj:
             /\ vport[w].st = "dead" => vport'[w].st = "dead"
             /\ vport[w].st # "free" => vport'[w].st # "free" /\ vport'[w].dp = vport[w].dp
       /\ \A e \in DpObj:
             /\ dp[e].st = "dead" => dp'[e].st = "dead"
             /\ dp[e].st # "free" => dp'[e].st # "free"
  BY <1>3, <1>4
<1>12. UNCHANGED <<flow, act, cmd, cpu, faults>>  BY DEF flowVars
<1>13. QED  BY <1>5, <1>6, <1>7, <1>9, <1>10, <1>11, <1>12, PortStepKeeps

LEMMA DelDpKeeps == ASSUME IndInv, DelDp PROVE IndInv'
<1>1. PICK d \in GetDp: DestroyDps({d})  BY DEF DelDp
<1>2. d \in DpObj /\ dp[d].st = "live"  BY GetDpLive DEF IndInv
<1>3. UNCHANGED <<flowVars, cpu, cmd, faults>>  BY DEF DelDp
<1>4. QED  BY <1>1, <1>2, <1>3, DestroyKeeps

LEMMA NetExitKeeps == ASSUME IndInv, NetExit PROVE IndInv'
<1>1. dps \in SUBSET DpObj /\ \A d \in dps: dp[d].st = "live"
  BY DEF IndInv, MemoryTypes, PortTypes, PortsInv
<1>2. DestroyDps(dps) /\ UNCHANGED <<flowVars, cpu, cmd, faults>>  BY DEF NetExit
<1>3. QED  BY <1>1, <1>2, DestroyKeeps

LEMMA DelPortKeeps == ASSUME IndInv, DelPort PROVE IndInv'
<1> DEFINE PortRecords == [st: {"free", "live", "dead"}, no: Nat, internal: BOOLEAN,
                           dp: Opt(DpObj), room: Rooms, rx: Rooms]
<1>1. PICK v \in Attached:
        /\ IF vport[v].room = dp[vport[v].dp].maxroom
             THEN UpdateHeadroom(vport[v].dp, [vport EXCEPT ![v].st = "dead"])
             ELSE vport' = [vport EXCEPT ![v].st = "dead"] /\ UNCHANGED dp
        /\ deferred' = deferred \cup {Later("vport", v)}
        /\ UNCHANGED <<dps, flowVars, cpu, cmd, faults>>
  BY DEF DelPort
<1>2. PICK d \in DpObj: d = vport[v].dp /\ dp[d].st = "live"
  BY DEF Attached, IndInv, PortsInv
<1>3. v \in VportObj /\ vport[v].st = "live"  BY DEF Attached
<1>4. MemoryTypes /\ PortTypes  BY DEF IndInv, MemoryTypes
<1>5. [vport EXCEPT ![v].st = "dead"] \in [VportObj -> PortRecords]
  BY <1>3, <1>4 DEF PortTypes
<1>6. PICK vp \in [VportObj -> PortRecords]: vp = [vport EXCEPT ![v].st = "dead"]
  BY <1>5
<1>7. \A w \in VportObj: vp[w].st = (IF w = v THEN "dead" ELSE vport[w].st) /\ vp[w].dp = vport[w].dp
  BY <1>3, <1>4, <1>6 DEF PortTypes
<1>8. /\ PortTypes'
      /\ \A e \in DpObj: dp'[e].st = dp[e].st
      /\ \A w \in VportObj: vport'[w].st = vp[w].st /\ vport'[w].dp = vp[w].dp
  <2>1. CASE vport[v].room = dp[d].maxroom
    <3>1. UpdateHeadroom(d, vp) /\ dps' = dps  BY <1>1, <1>2, <1>6, <2>1
    <3>2. QED  BY <1>4, <3>1, UpdateHeadroomKeeps
  <2>2. CASE vport[v].room # dp[d].maxroom
    <3>1. vport' = vp /\ dp' = dp /\ dps' = dps  BY <1>1, <1>2, <1>6, <2>2
    <3>2. QED  BY <1>4, <3>1 DEF PortTypes
  <2>3. QED  BY <2>1, <2>2
<1>9. PortsInv'
  BY <1>1, <1>4, <1>7, <1>8 DEF IndInv, PortsInv, PortTypes
<1>10. DeferredTypes'
  <2>1. Later("vport", v) \in Waiting("vport", VportObj)  BY <1>3, <1>4, LaterType
  <2>2. QED  BY <1>1, <1>4, <2>1 DEF MemoryTypes, DeferredTypes
<1>11. /\ deferred \subseteq deferred'
       /\ \A y \in deferred' \ deferred:
             /\ y.kind \in {"vport", "dp"} /\ y.wait = Reading
             /\ y.kind = "vport" => vport[y.obj].st = "live" /\ vport'[y.obj].st = "dead"
             /\ y.kind = "dp" => dp[y.obj].st = "live" /\ dp'[y.obj].st = "dead"
       /\ \A y, z \in deferred' \ deferred: y.kind = z.kind /\ y.obj = z.obj => y = z
  <2>1. \A y \in deferred' \ deferred: y = [kind |-> "vport", obj |-> v, wait |-> Reading]
    BY <1>1 DEF Later
  <2>2. QED  BY <1>1, <1>3, <1>7, <1>8, <2>1
<1>12. /\ \A w \in VportObj:
             /\ vport[w].st = "dead" => vport'[w].st = "dead"
             /\ vport[w].st # "free" => vport'[w].st # "free" /\ vport'[w].dp = vport[w].dp
       /\ \A e \in DpObj:
             /\ dp[e].st = "dead" => dp'[e].st = "dead"
             /\ dp[e].st # "free" => dp'[e].st # "free"
  BY <1>3, <1>7, <1>8
<1>13. UNCHANGED <<flow, act, cmd, cpu, faults>>  BY <1>1 DEF flowVars
<1>14. QED  BY <1>8, <1>9, <1>10, <1>11, <1>12, <1>13, PortStepKeeps

-----------------------------------------------------------------------------
(* Flow commands *)

\* A flow stays in its table or is removed from it, and actions that were
\* replaced are in a command's hands.
KeepsFlows ==
    \A f \in FlowObj:
        /\ flow[f].st = "table" => \/ flow'[f].st = "table" /\ flow'[f].dp = flow[f].dp
                                   \/ flow'[f].st = "removed"
        /\ flow[f].st = "removed" => flow'[f].st = "removed"
        /\ flow[f].st \in {"table", "removed"} =>
               \/ flow'[f].act = flow[f].act
               \/ \E t \in Thread: cmd'[t].old = flow[f].act

\* A command that executes a packet is left alone.
KeepsPackets ==
    \A t \in Thread: cmd[t].pc = "packet" /\ cpu[t].pc # "idle" =>
        /\ cmd'[t] = cmd[t]
        /\ cmd[t].flow \in FlowObj => flow'[cmd[t].flow] = flow[cmd[t].flow]

\* Replaced actions stay in a command's hands or wait.
KeepsOld ==
    \A t \in Thread: cmd[t].old # Null =>
        \/ cmd'[t].old = cmd[t].old
        \/ \E x \in deferred': WaitHas(x, cmd[t].old)

\* What is unlinked waits for all readers.
DefersForAll ==
    /\ deferred \subseteq deferred'
    /\ \A y \in deferred' \ deferred: y.wait = Reading

\* A step of a flow command, as readers see it.
LEMMA FlowStepKeeps ==
  ASSUME IndInv, FlowTypes', CmdTypes', DeferredTypes', DeferredInv', CmdInv', ActsInv',
         UNCHANGED <<dp, dps, vport, cpu, faults>>,
         KeepsFlows, KeepsPackets, KeepsOld, DefersForAll
  PROVE  IndInv'
<1> USE DEF KeepsFlows, KeepsPackets, KeepsOld, DefersForAll
<1>1. MemoryTypes' /\ MemoryTypes
  BY DEF IndInv, MemoryTypes, PortTypes, CpuTypes, CpuRecords
<1>2. PortsInv' /\ FaultsInv'  BY DEF IndInv, PortsInv, FaultsInv
<1>3. HeldInv /\ ActsInv /\ DeferredInv  BY DEF IndInv
<1>4. HeldInv'
  <2>1. ASSUME NEW c \in Reader, cpu[c].pc # "idle"
        PROVE  /\ HeldPort(c) => HeldPort(c)'
               /\ cpu[c].flow # Null /\ HeldFlow(c) => HeldFlow(c)'
               /\ cpu[c].act # Null /\ HeldAct(c) => HeldAct(c)'
               /\ c \in Thread => cmd'[c].pc = cmd[c].pc /\ cmd'[c].flow = cmd[c].flow
    <3>1. c \in Reading  BY <2>1 DEF Reading, Reader
    <3>2. \A y \in deferred': c \in y.wait \/ (\E x \in deferred:
             x.kind = y.kind /\ x.obj = y.obj /\ (c \in x.wait => c \in y.wait))
      BY <3>1
    <3>3. \A k, o: WaitsFor(k, o, c) => WaitsFor(k, o, c)'  BY <3>2, WaitsKept
    <3>4. HeldPort(c) => HeldPort(c)'  BY <1>1, <3>2, HeldPortKept
    <3>5. c \in Thread => cmd[c].pc = "packet" /\ cmd'[c] = cmd[c] /\ cpu[c].flow = cmd[c].flow
                          /\ (cmd[c].flow \in FlowObj => flow'[cmd[c].flow] = flow[cmd[c].flow])
      BY <1>3, <2>1 DEF HeldInv, HeldOf
    <3>6. cpu[c].flow # Null /\ HeldFlow(c) => HeldFlow(c)'
      <4>1. SUFFICES ASSUME cpu[c].flow # Null, HeldFlow(c) PROVE HeldFlow(c)'  OBVIOUS
      <4>2. PICK f \in FlowObj: f = cpu[c].flow
        BY <1>1, <4>1 DEF MemoryTypes, CpuTypes, CpuRecords, Opt
      <4>3. CASE flow[f].st = "table" /\ flow[f].dp = cpu[c].dp
        <5>1. WaitsFor("flow", f, c)  BY <1>3, <4>3 DEF WaitsFor, DeferredInv
        <5>2. WaitsFor("flow", f, c)'  BY <3>3, <5>1
        <5>3. QED  BY <4>2, <4>3, <5>2 DEF HeldFlow
      <4>4. CASE flow[f].st = "removed" /\ WaitsFor("flow", f, c)
        <5>1. WaitsFor("flow", f, c)'  BY <3>3, <4>4
        <5>2. QED  BY <4>2, <4>4, <5>1 DEF HeldFlow
      <4>5. CASE c \in Thread /\ flow[f].st = "new" /\ cmd[c].flow = f
        BY <3>5, <4>2, <4>5 DEF HeldFlow
      <4>6. QED  BY <4>1, <4>2, <4>3, <4>4, <4>5 DEF HeldFlow
    <3>7. cpu[c].act # Null /\ HeldAct(c) => HeldAct(c)'
      <4>1. SUFFICES ASSUME cpu[c].act # Null, HeldAct(c) PROVE HeldAct(c)'  OBVIOUS
      <4>2. PICK a \in ActObj: a = cpu[c].act
        BY <1>1, <4>1 DEF MemoryTypes, CpuTypes, CpuRecords, Opt
      <4>3. cpu[c].flow # Null /\ HeldFlow(c)
        BY <1>3, <2>1, <4>1, <1>1 DEF HeldInv, HeldOf, MemoryTypes, CpuTypes, CpuRecords
      <4>4. PICK f \in FlowObj: f = cpu[c].flow
        BY <1>1, <4>3 DEF MemoryTypes, CpuTypes, CpuRecords, Opt
      <4>5. (\E t \in Thread: cmd'[t].old = a) => HeldAct(c)'
        BY <4>2 DEF HeldAct
      <4>6. CASE FlowHas(f, a)
        <5>1. flow'[f].act = a \/ \E t \in Thread: cmd'[t].old = a
          <6>1. CASE flow[f].st \in {"table", "removed"}  BY <4>6, <6>1 DEF FlowHas
          <6>2. CASE c \in Thread /\ flow[f].st = "new" /\ cmd[c].flow = f
            BY <3>5, <4>6, <6>2 DEF FlowHas
          <6>3. QED  BY <4>3, <4>4, <6>1, <6>2 DEF HeldFlow
        <5>2. flow'[f].act = a => HeldAct(c)'  BY <4>2, <4>4 DEF HeldAct, FlowHas
        <5>3. QED  BY <4>5, <5>1, <5>2
      <4>7. ASSUME NEW t \in Thread, cmd[t].old = a PROVE HeldAct(c)'
        <5>1. WaitsFor("act", a, c)
          BY <1>3, <4>7 DEF ActsInv, OneOwner, CmdHas, WaitHas, WaitsFor
        <5>2. WaitsFor("act", a, c)'  BY <3>3, <5>1
        <5>3. cmd'[t].old = a \/ \E x \in deferred': WaitHas(x, a)
          BY <4>1, <4>2, <4>7
        <5>4. QED  BY <4>2, <4>5, <5>2, <5>3 DEF HeldAct, WaitHas
      <4>8. CASE (\E x \in deferred: WaitHas(x, a)) /\ WaitsFor("act", a, c)
        <5>1. WaitsFor("act", a, c)'  BY <3>3, <4>8
        <5>2. \E x \in deferred': WaitHas(x, a)'  BY <4>8 DEF WaitHas
        <5>3. QED  BY <4>2, <5>1, <5>2 DEF HeldAct
      <4>9. QED  BY <4>1, <4>2, <4>4, <4>6, <4>7, <4>8 DEF HeldAct
    <3>8. QED  BY <3>4, <3>5, <3>6, <3>7
  <2>2. QED  BY <1>3, <2>1, HeldInvKept
<1>5. QED  BY <1>1, <1>2, <1>4 DEF IndInv

\* Who has actions, when a step changes nothing of it, and when it leaves them
\* with one flow, one command or one wait, or with nobody.
LEMMA OwnerKept ==
  ASSUME NEW a, OneOwner(a), act'[a] = act[a],
         \A f \in FlowObj: flow'[f].act = a <=> flow[f].act = a,
         \A t \in Thread: (cmd'[t].act = a \/ cmd'[t].old = a) <=> (cmd[t].act = a \/ cmd[t].old = a),
         \A x: WaitHas(x, a) => (x \in deferred' <=> x \in deferred)
  PROVE  OneOwner(a)'
<1>1. \A x \in deferred: WaitHas(x, a) => x \in deferred' /\ WaitHas(x, a)'  BY DEF WaitHas
<1>2. \A x \in deferred': WaitHas(x, a)' => x \in deferred /\ WaitHas(x, a)  BY DEF WaitHas
<1>3. \A f \in FlowObj: FlowHas(f, a)' <=> FlowHas(f, a)  BY DEF FlowHas
<1>4. \A t \in Thread: CmdHas(t, a)' <=> CmdHas(t, a)  BY DEF CmdHas
<1>5. QED  BY <1>1, <1>2, <1>3, <1>4 DEF OneOwner

LEMMA OwnerIsFlow ==
  ASSUME NEW a, act'[a] = "used", NEW f \in FlowObj, flow'[f].act = a,
         \A g \in FlowObj: flow'[g].act = a => g = f,
         \A t \in Thread: cmd'[t].act # a /\ cmd'[t].old # a,
         \A x \in deferred': ~ WaitHas(x, a)
  PROVE  OneOwner(a)'
  BY DEF OneOwner, FlowHas, CmdHas, WaitHas

LEMMA OwnerIsCmd ==
  ASSUME NEW a, act'[a] = "used", NEW t \in Thread, cmd'[t].act = a \/ cmd'[t].old = a,
         \A f \in FlowObj: flow'[f].act # a,
         \A u \in Thread: cmd'[u].act = a \/ cmd'[u].old = a => u = t,
         \A x \in deferred': ~ WaitHas(x, a)
  PROVE  OneOwner(a)'
  BY DEF OneOwner, FlowHas, CmdHas, WaitHas

LEMMA OwnerIsWait ==
  ASSUME NEW a, act'[a] = "used", \E x \in deferred': WaitHas(x, a),
         \A f \in FlowObj: flow'[f].act # a,
         \A t \in Thread: cmd'[t].act # a /\ cmd'[t].old # a
  PROVE  OneOwner(a)'
  BY DEF OneOwner, FlowHas, CmdHas, WaitHas

LEMMA OwnerIsNobody ==
  ASSUME NEW a, act'[a] # "used",
         \A f \in FlowObj: flow'[f].act # a,
         \A t \in Thread: cmd'[t].act # a /\ cmd'[t].old # a,
         \A x \in deferred': ~ WaitHas(x, a)
  PROVE  OneOwner(a)'
  BY DEF OneOwner, FlowHas, CmdHas, WaitHas

\* A command that is not at work, and whose flow stays as it is.
LEMMA CmdKept ==
  ASSUME NEW t \in Thread, CmdHolds(t), cmd'[t] = cmd[t],
         cmd[t].flow # Null => flow'[cmd[t].flow].st = flow[cmd[t].flow].st
                               /\ flow'[cmd[t].flow].act = flow[cmd[t].flow].act
  PROVE  CmdHolds(t)'
<1>1. PICK m: m = cmd[t]  OBVIOUS
<1>2. PICK f: f = m.flow  OBVIOUS
<1>3. CASE f = Null  BY <1>1, <1>2, <1>3 DEF CmdHolds
<1>4. CASE f # Null  BY <1>1, <1>2, <1>4 DEF CmdHolds
<1>5. QED  BY <1>3, <1>4

LEMMA CmdsTyped ==
  ASSUME MemoryTypes, NEW t \in Thread
  PROVE  /\ cmd[t].flow # Null => cmd[t].flow \in FlowObj
         /\ cmd[t].act # Null => cmd[t].act \in ActObj
         /\ cmd[t].old # Null => cmd[t].old \in ActObj
  BY DEF MemoryTypes, CmdTypes, CmdRecords, Opt

\* What is not in use has no owner, and what a command has no flow has.
LEMMA FreeHasNoOwner ==
  ASSUME ActsInv, NEW a \in ActObj, act[a] = "free"
  PROVE  /\ \A f \in FlowObj: flow[f].act # a
         /\ \A t \in Thread: cmd[t].act # a /\ cmd[t].old # a
         /\ \A x \in deferred: ~ WaitHas(x, a)
  BY DEF ActsInv, OneOwner, FlowHas, CmdHas

LEMMA CmdOwns ==
  ASSUME ActsInv, NEW a \in ActObj, NEW t \in Thread, cmd[t].act = a \/ cmd[t].old = a
  PROVE  /\ act[a] = "used"
         /\ \A f \in FlowObj: flow[f].act # a
         /\ \A u \in Thread: cmd[u].act = a \/ cmd[u].old = a => u = t
         /\ \A x \in deferred: ~ WaitHas(x, a)
  BY DEF ActsInv, OneOwner, FlowHas, CmdHas

LEMMA FlowOwns ==
  ASSUME ActsInv, NEW a \in ActObj, NEW f \in FlowObj, flow[f].act = a
  PROVE  /\ act[a] = "used"
         /\ \A g \in FlowObj: flow[g].act = a => g = f
         /\ \A t \in Thread: cmd[t].act # a /\ cmd[t].old # a
         /\ \A x \in deferred: ~ WaitHas(x, a)
  BY DEF ActsInv, OneOwner, FlowHas, CmdHas

\* A command has a flow made for it, which nothing waits for and no command
\* shares, and a step of another command does not change.
LEMMA OwnFlow ==
  ASSUME IndInv, NEW t \in Thread, cmd[t].pc \in {"new", "replaced", "packet"}, cmd[t].flow # Null
  PROVE  /\ cmd[t].flow \in FlowObj /\ flow[cmd[t].flow].st = "new"
         /\ \A u \in Thread: u # t => cmd[u].flow # cmd[t].flow
         /\ \A x \in deferred: x.kind = "flow" => x.obj # cmd[t].flow
<1>1. cmd[t].flow \in FlowObj  BY CmdsTyped DEF IndInv
<1>2. flow[cmd[t].flow].st = "new"  BY DEF IndInv, CmdInv, CmdHolds
<1>3. \A u \in Thread: u # t => cmd[u].flow # cmd[t].flow  BY DEF IndInv, CmdInv
<1>4. \A x \in deferred: x.kind = "flow" => x.obj # cmd[t].flow
  BY DEF IndInv, DeferredInv
<1>5. QED  BY <1>1, <1>2, <1>3, <1>4

\* Memory that is free is no command's, and nothing waits to free it.
LEMMA FreeFlowIsNoOnes ==
  ASSUME IndInv, NEW f \in FlowObj, flow[f].st = "free"
  PROVE  /\ \A t \in Thread: cmd[t].flow # f
         /\ \A x \in deferred: x.kind = "flow" => x.obj # f
         /\ flow[f].act = Null
<1>1. ASSUME NEW t \in Thread PROVE cmd[t].flow # f
  <2>1. CmdHolds(t)  BY DEF IndInv, CmdInv
  <2>2. cmd[t].pc \in {"idle", "new", "set", "replaced", "removed", "packet"} /\ f # Null
    BY DatapathAssumption DEF IndInv, MemoryTypes, CmdTypes, CmdRecords
  <2>3. QED  BY <2>1, <2>2 DEF CmdHolds
<1>2. \A x \in deferred: x.kind = "flow" => x.obj # f  BY DEF IndInv, DeferredInv
<1>3. flow[f].act = Null  BY DEF IndInv, ActsInv
<1>4. QED  BY <1>1, <1>2, <1>3

\* An entry of the table of commands, and what the others keep of the invariant.
LEMMA OthersHold ==
  ASSUME IndInv, NEW t \in Thread,
         \A u \in Thread: u # t => cmd'[u] = cmd[u],
         \A f \in FlowObj: flow[f].st \in {"new", "removed"} /\ f # cmd[t].flow =>
             flow'[f].st = flow[f].st /\ flow'[f].act = flow[f].act,
         CmdHolds(t)',
         cmd'[t].flow # Null => \A u \in Thread: u # t => cmd[u].flow # cmd'[t].flow
  PROVE  CmdInv'
<1>1. ASSUME NEW u \in Thread, u # t PROVE CmdHolds(u)'
  <2>1. CmdHolds(u)  BY DEF IndInv, CmdInv
  <2>2. cmd[u].flow # Null => flow[cmd[u].flow].st \in {"new", "removed"} /\ cmd[u].flow # cmd[t].flow
    <3>1. cmd[u].pc \in {"idle", "new", "set", "replaced", "removed", "packet"}
      BY DEF IndInv, MemoryTypes, CmdTypes, CmdRecords
    <3>2. QED  BY <1>1, <2>1, <3>1 DEF IndInv, CmdInv, CmdHolds
  <2>3. cmd[u].flow # Null => cmd[u].flow \in FlowObj  BY CmdsTyped DEF IndInv
  <2>4. QED  BY <1>1, <2>1, <2>2, <2>3, CmdKept
<1>2. ASSUME NEW u \in Thread, NEW w \in Thread, cmd'[u].flow = cmd'[w].flow, cmd'[u].flow # Null
      PROVE  u = w
  BY <1>2 DEF IndInv, CmdInv
<1>3. QED  BY <1>1, <1>2 DEF CmdInv

LEMMA AllocNewFlowKeeps == ASSUME IndInv, NEW t \in Thread, AllocNewFlow(t) PROVE IndInv'
<1>1. PICK f \in FlowObj, a \in ActObj,
           r \in [st: {"new"}, dp: {Null}, key: Opt(Key), wild: BOOLEAN, ufid: Opt(Ufid), act: {Null}]:
        /\ flow[f].st = "free" /\ act[a] = "free"
        /\ cmd[t].pc = "idle" /\ cpu[t].pc = "idle"
        /\ flow' = [flow EXCEPT ![f] = r]
        /\ act' = [act EXCEPT ![a] = "used"]
        /\ cmd' = [cmd EXCEPT ![t] = [pc |-> "new", flow |-> f, act |-> a, old |-> Null]]
        /\ UNCHANGED <<portVars, cpu, deferred, faults>>
  <2>1. PICK f \in FreshFlow, a \in FreshAct, k \in Key, u \in Ufid \cup {Null}, wild \in BOOLEAN:
          /\ Loaded /\ cmd[t].pc = "idle" /\ cpu[t].pc = "idle" /\ Spend("flow")
          /\ flow' = [flow EXCEPT ![f] = [st |-> "new", dp |-> Null, key |-> k, wild |-> wild,
                                          ufid |-> u, act |-> Null]]
          /\ act' = [act EXCEPT ![a] = "used"]
          /\ cmd' = [cmd EXCEPT ![t] = [pc |-> "new", flow |-> f, act |-> a, old |-> Null]]
          /\ UNCHANGED <<portVars, cpu, deferred, dump, registered, faults>>
    BY Zenon DEF AllocNewFlow
  <2>2. [st |-> "new", dp |-> Null, key |-> k, wild |-> wild, ufid |-> u, act |-> Null]
            \in [st: {"new"}, dp: {Null}, key: Opt(Key), wild: BOOLEAN, ufid: Opt(Ufid), act: {Null}]
    BY DEF Opt
  <2>3. PICK r \in [st: {"new"}, dp: {Null}, key: Opt(Key), wild: BOOLEAN, ufid: Opt(Ufid), act: {Null}]:
          r = [st |-> "new", dp |-> Null, key |-> k, wild |-> wild, ufid |-> u, act |-> Null]
    BY <2>2
  <2>4. flow' = [flow EXCEPT ![f] = r]  BY <2>1, <2>3
  <2>5. UNCHANGED <<portVars, cpu, deferred, faults>>  BY <2>1
  <2>6. f \in FlowObj /\ flow[f].st = "free" /\ a \in ActObj /\ act[a] = "free"  BY FreshObjects
  <2>7. QED  BY <2>1, <2>4, <2>5, <2>6, Zenon
<1>2. f # Null /\ a # Null  BY DatapathAssumption
<1>3. MemoryTypes /\ FlowTypes /\ CmdTypes /\ DeferredTypes /\ ActsInv /\ DeferredInv
  BY DEF IndInv, MemoryTypes
<1>4. /\ \A g \in FlowObj: flow'[g] = IF g = f THEN r ELSE flow[g]
      /\ \A b \in ActObj: act'[b] = IF b = a THEN "used" ELSE act[b]
      /\ \A s \in Thread: s # t => cmd'[s] = cmd[s]
      /\ cmd'[t].pc = "new" /\ cmd'[t].flow = f /\ cmd'[t].act = a /\ cmd'[t].old = Null
  BY <1>1, <1>3 DEF FlowTypes, FlowRecords, CmdTypes, CmdRecords
<1>5. FlowTypes'
  <2>1. r \in [st: {"free", "new", "table", "removed"}, dp: Opt(DpObj),
                key: Opt(Key), wild: BOOLEAN, ufid: Opt(Ufid), act: Opt(ActObj)]
    BY DEF Opt
  <2>2. QED  BY <1>1, <1>3, <2>1 DEF FlowTypes, FlowRecords
<1>6. CmdTypes'
  <2>1. [pc |-> "new", flow |-> f, act |-> a, old |-> Null] \in
          [pc: {"idle", "new", "set", "replaced", "removed", "packet"},
           flow: Opt(FlowObj), act: Opt(ActObj), old: Opt(ActObj)]
    BY DEF Opt
  <2>2. QED  BY <1>1, <1>3, <2>1 DEF CmdTypes, CmdRecords
<1>7. DeferredTypes'  BY <1>1, <1>3 DEF DeferredTypes
<1>8. /\ \A s \in Thread: cmd[s].flow # f
      /\ \A x \in deferred: x.kind = "flow" => x.obj # f
      /\ flow[f].act = Null
  BY <1>1, FreeFlowIsNoOnes
<1>9. cmd[t].flow = Null /\ cmd[t].act = Null /\ cmd[t].old = Null
  BY <1>1 DEF IndInv, CmdInv, CmdHolds
<1>10. CmdInv'
  <2>1. CmdHolds(t)'  BY <1>2, <1>4 DEF CmdHolds
  <2>2. QED  BY <1>1, <1>4, <1>8, <2>1, OthersHold
<1>11. DeferredInv'
  <2>1. \A x \in deferred: x.kind = "flow" => x.obj \in FlowObj  BY <1>3, WaitingFields
  <2>2. UNCHANGED <<dp, vport, deferred>>  BY <1>1 DEF portVars
  <2>3. \A x \in deferred: x.kind = "flow" =>
          flow'[x.obj].st = "removed" /\ \A s \in Thread: cmd'[s].flow # x.obj
    BY <1>3, <1>4, <1>8, <2>1 DEF DeferredInv
  <2>4. QED  BY <1>3, <2>2, <2>3 DEF DeferredInv
<1>12. ActsInv'
  <2>1. ASSUME NEW b \in ActObj PROVE OneOwner(b)'
    <3>1. CASE b = a
      <4>1. /\ \A g \in FlowObj: flow[g].act # a
            /\ \A s \in Thread: cmd[s].act # a /\ cmd[s].old # a
            /\ \A x \in deferred: ~ WaitHas(x, a)
        BY <1>1, <1>3, FreeHasNoOwner
      <4>2. QED  BY <1>1, <1>2, <1>4, <3>1, <4>1, OwnerIsCmd
    <3>2. CASE b # a
      <4>1. b # Null /\ OneOwner(b)  BY <1>3, DatapathAssumption DEF ActsInv
      <4>2. QED  BY <1>1, <1>4, <1>8, <1>9, <3>2, <4>1, OwnerKept
    <3>3. QED  BY <3>1, <3>2
  <2>2. \A g \in FlowObj:
          /\ flow'[g].st = "free" => flow'[g].act = Null
          /\ flow'[g].st \in {"table", "removed"} => flow'[g].act # Null
    BY <1>3, <1>4 DEF ActsInv
  <2>3. QED  BY <2>1, <2>2 DEF ActsInv
<1>13. UNCHANGED <<dp, dps, vport, cpu, faults, deferred>>  BY <1>1 DEF portVars
<1>14. KeepsFlows  BY <1>1, <1>4 DEF KeepsFlows
<1>15. KeepsPackets  BY <1>1, <1>4, <1>8 DEF KeepsPackets
<1>16. KeepsOld  BY <1>4, <1>9 DEF KeepsOld
<1>17. DefersForAll  BY <1>13 DEF DefersForAll
<1>18. QED
  BY <1>5, <1>6, <1>7, <1>10, <1>11, <1>12, <1>13, <1>14, <1>15, <1>16, <1>17, FlowStepKeeps

\* What waits goes on waiting when the step makes nothing wait.
LEMMA DeferredKept ==
  ASSUME IndInv, UNCHANGED <<dp, vport, deferred>>,
         \A f \in FlowObj: flow[f].st = "removed" => flow'[f].st = "removed",
         \A x \in deferred: x.kind = "flow" => \A t \in Thread: cmd'[t].flow # x.obj
  PROVE  DeferredTypes' /\ DeferredInv'
<1>1. DeferredTypes /\ DeferredInv  BY DEF IndInv, MemoryTypes
<1>2. \A x \in deferred: x.kind = "flow" => x.obj \in FlowObj
  BY <1>1, WaitingFields DEF IndInv
<1>3. DeferredTypes'  BY <1>1 DEF DeferredTypes
<1>4. QED  BY <1>1, <1>2, <1>3 DEF DeferredInv

LEMMA NoFlowType ==
  NoFlow \in FlowRecords
BY DEF NoFlow, FlowRecords, Opt

LEMMA NoCmdType ==
  NoCmd \in CmdRecords
BY DEF NoCmd, CmdRecords, Opt

\* A command gives up what it has made: a flow, and the actions in its hand or
\* in the flow.
LEMMA DropKeeps ==
  ASSUME IndInv, NEW t \in Thread, cmd[t].pc \in {"new", "packet"}, cpu[t].pc = "idle",
         NEW a \in ActObj,
         cmd[t].pc = "new" => cmd[t].act = a,
         cmd[t].pc = "packet" => flow[cmd[t].flow].act = a,
         flow' = [flow EXCEPT ![cmd[t].flow] = NoFlow],
         act' = [act EXCEPT ![a] = "free"],
         cmd' = [cmd EXCEPT ![t] = NoCmd],
         UNCHANGED <<portVars, cpu, deferred, faults>>
  PROVE  IndInv'
<1>1. CmdHolds(t)  BY DEF IndInv, CmdInv
<1>2. cmd[t].flow # Null /\ cmd[t].old = Null  BY <1>1 DEF CmdHolds
<1>3. PICK f \in FlowObj: f = cmd[t].flow  BY <1>2, OwnFlow
<1>4. /\ flow[f].st = "new"
      /\ \A u \in Thread: u # t => cmd[u].flow # f
      /\ \A x \in deferred: x.kind = "flow" => x.obj # f
      /\ flow[f].act \in {Null, a} /\ cmd[t].act \in {Null, a}
  BY <1>1, <1>2, <1>3, OwnFlow DEF CmdHolds
<1>5. /\ FlowTypes /\ CmdTypes /\ ActsInv /\ DeferredInv
      /\ UNCHANGED <<dp, dps, vport, cpu, faults, deferred>>
  BY DEF IndInv, MemoryTypes, portVars
<1>6. /\ \A g \in FlowObj: flow'[g] = IF g = f THEN NoFlow ELSE flow[g]
      /\ \A b \in ActObj: act'[b] = IF b = a THEN "free" ELSE act[b]
      /\ \A s \in Thread: cmd'[s] = IF s = t THEN NoCmd ELSE cmd[s]
  BY <1>3, <1>5 DEF FlowTypes, FlowRecords, CmdTypes, CmdRecords
<1>7. /\ NoFlow.st = "free" /\ NoFlow.act = Null
      /\ NoCmd.pc = "idle" /\ NoCmd.flow = Null /\ NoCmd.act = Null /\ NoCmd.old = Null
  BY DEF NoFlow, NoCmd
<1>8. FlowTypes' /\ CmdTypes'
  BY <1>3, <1>5, NoFlowType, NoCmdType DEF FlowTypes, FlowRecords, CmdTypes, CmdRecords
<1>9. DeferredTypes' /\ DeferredInv'
  <2>1. \A x \in deferred: x.kind = "flow" => \A s \in Thread: cmd'[s].flow # x.obj
    <3>1. \A x \in deferred: x.kind = "flow" => x.obj # Null
      BY <1>5, WaitingFields, DatapathAssumption DEF IndInv
    <3>2. QED  BY <1>5, <1>6, <1>7, <3>1 DEF DeferredInv
  <2>2. \A g \in FlowObj: flow[g].st = "removed" => flow'[g].st = "removed"
    BY <1>4, <1>6
  <2>3. QED  BY <1>5, <2>1, <2>2, DeferredKept
<1>10. CmdInv'
  <2>1. CmdHolds(t)'  BY <1>6, <1>7 DEF CmdHolds
  <2>2. QED  BY <1>3, <1>6, <1>7, <2>1, OthersHold
<1>11. ActsInv'
  <2>1. ASSUME NEW b \in ActObj PROVE OneOwner(b)'
    <3>1. b # Null /\ OneOwner(b)  BY <1>5, DatapathAssumption DEF ActsInv
    <3>2. CASE b = a
      <4>1. /\ \A g \in FlowObj: flow'[g].act # a
            /\ \A s \in Thread: cmd'[s].act # a /\ cmd'[s].old # a
            /\ \A x \in deferred': ~ WaitHas(x, a)
        <5>1. CASE cmd[t].pc = "new"
          BY <1>4, <1>5, <1>6, <1>7, <3>1, <3>2, <5>1, CmdOwns
        <5>2. CASE cmd[t].pc = "packet"
          BY <1>3, <1>4, <1>5, <1>6, <1>7, <3>1, <3>2, <5>2, FlowOwns
        <5>3. QED  BY <5>1, <5>2
      <4>2. act'[a] # "used"  BY <1>6
      <4>3. QED  BY <3>2, <4>1, <4>2, OwnerIsNobody
    <3>3. CASE b # a
      BY <1>2, <1>4, <1>5, <1>6, <1>7, <3>1, <3>3, OwnerKept
    <3>4. QED  BY <3>2, <3>3
  <2>2. \A g \in FlowObj:
          /\ flow'[g].st = "free" => flow'[g].act = Null
          /\ flow'[g].st \in {"table", "removed"} => flow'[g].act # Null
    BY <1>5, <1>6, <1>7 DEF ActsInv
  <2>3. QED  BY <2>1, <2>2 DEF ActsInv
<1>12. KeepsFlows  BY <1>4, <1>6 DEF KeepsFlows
<1>13. KeepsPackets  BY <1>4, <1>6 DEF KeepsPackets
<1>14. KeepsOld  BY <1>2, <1>6 DEF KeepsOld
<1>15. DefersForAll  BY <1>5 DEF DefersForAll
<1>16. QED
  BY <1>5, <1>8, <1>9, <1>10, <1>11, <1>12, <1>13, <1>14, <1>15, FlowStepKeeps

\* A command that has made a flow for a table does not read.
LEMMA CmdsDoNotRead ==
  ASSUME IndInv, NEW t \in Thread, cmd[t].pc # "packet"
  PROVE  cpu[t].pc = "idle"
BY DEF IndInv, HeldInv, HeldOf, Reader

LEMMA GiveUpNewKeeps ==
  ASSUME IndInv, NEW t \in Thread, cmd[t].pc = "new",
         GiveUp(t, cmd[t].act) \/ InsertFails(t)
  PROVE  IndInv'
<1>1. CmdHolds(t)  BY DEF IndInv, CmdInv
<1>2. cmd[t].act # Null /\ cmd[t].flow # Null /\ flow[cmd[t].flow].act = Null
  BY <1>1 DEF CmdHolds
<1>3. PICK a \in ActObj: a = cmd[t].act  BY <1>2, CmdsTyped DEF IndInv
<1>4. act' = [act EXCEPT ![a] = "free"]
  BY <1>2, <1>3 DEF GiveUp, InsertFails, FreeAct
<1>5. /\ flow' = [flow EXCEPT ![cmd[t].flow] = NoFlow]
      /\ cmd' = [cmd EXCEPT ![t] = NoCmd]
      /\ UNCHANGED <<portVars, cpu, deferred, faults>>
  BY DEF GiveUp, InsertFails
<1>6. QED  BY <1>3, <1>4, <1>5, CmdsDoNotRead, DropKeeps

LEMMA GiveUpPacketKeeps ==
  ASSUME IndInv, NEW t \in Thread, cmd[t].pc = "packet", cpu[t].pc = "idle", GiveUp(t, Null)
  PROVE  IndInv'
<1>1. CmdHolds(t)  BY DEF IndInv, CmdInv
<1>2. cmd[t].flow # Null /\ flow[cmd[t].flow].act # Null  BY <1>1 DEF CmdHolds
<1>3. PICK a \in ActObj: a = flow[cmd[t].flow].act
  BY <1>2, OwnFlow DEF IndInv, MemoryTypes, FlowTypes, FlowRecords, Opt
<1>4. act' = [act EXCEPT ![a] = "free"]  BY <1>2, <1>3 DEF GiveUp, FreeAct
<1>5. /\ flow' = [flow EXCEPT ![cmd[t].flow] = NoFlow]
      /\ cmd' = [cmd EXCEPT ![t] = NoCmd]
      /\ UNCHANGED <<portVars, cpu, deferred, faults>>
  BY DEF GiveUp
<1>6. QED  BY <1>3, <1>4, <1>5, DropKeeps

\* The flow of a command is in no table.
LEMMA CmdFlowInNoTable ==
  ASSUME IndInv, NEW t \in Thread, NEW f \in FlowObj, flow[f].st = "table"
  PROVE  cmd[t].flow # f
<1>1. CmdHolds(t)  BY DEF IndInv, CmdInv
<1>2. cmd[t].pc \in {"idle", "new", "set", "replaced", "removed", "packet"} /\ f # Null
  BY DatapathAssumption DEF IndInv, MemoryTypes, CmdTypes, CmdRecords
<1>3. QED  BY <1>1, <1>2 DEF CmdHolds

LEMMA InsertFlowKeeps ==
  ASSUME IndInv, NEW t \in Thread, cmd[t].pc = "new", NEW d \in GetDp, InsertFlow(t, d)
  PROVE  IndInv'
<1>1. CmdHolds(t)  BY DEF IndInv, CmdInv
<1>2. cmd[t].flow # Null /\ cmd[t].act # Null /\ cmd[t].old = Null  BY <1>1 DEF CmdHolds
<1>3. PICK f \in FlowObj: f = cmd[t].flow  BY <1>2, OwnFlow
<1>4. PICK a \in ActObj: a = cmd[t].act  BY <1>2, CmdsTyped DEF IndInv
<1>5. d \in DpObj /\ a # Null  BY GetDpLive, DatapathAssumption DEF IndInv
<1>6. /\ flow[f].st = "new" /\ flow[f].act = Null
      /\ \A u \in Thread: u # t => cmd[u].flow # f
      /\ \A x \in deferred: x.kind = "flow" => x.obj # f
  BY <1>1, <1>2, <1>3, OwnFlow DEF CmdHolds
<1>7. /\ FlowTypes /\ CmdTypes /\ ActsInv /\ DeferredInv
      /\ UNCHANGED <<dp, dps, vport, cpu, faults, deferred, act>>
  BY DEF IndInv, MemoryTypes, portVars, InsertFlow
<1>8. PICK r \in FlowRecords: r = [flow[f] EXCEPT !.st = "table", !.dp = d, !.act = a]
  BY <1>5, <1>7 DEF FlowTypes, FlowRecords, Opt
<1>9. r.st = "table" /\ r.act = a  BY <1>7, <1>8 DEF FlowTypes, FlowRecords
<1>10. flow' = [flow EXCEPT ![f] = r]
  BY <1>3, <1>4, <1>7, <1>8 DEF InsertFlow, FlowTypes
<1>11. cmd' = [cmd EXCEPT ![t] = NoCmd]  BY DEF InsertFlow
<1>12. /\ \A g \in FlowObj: flow'[g] = IF g = f THEN r ELSE flow[g]
       /\ \A s \in Thread: cmd'[s] = IF s = t THEN NoCmd ELSE cmd[s]
  BY <1>7, <1>10, <1>11 DEF FlowTypes, CmdTypes
<1>13. NoCmd.pc = "idle" /\ NoCmd.flow = Null /\ NoCmd.act = Null /\ NoCmd.old = Null
  BY DEF NoCmd
<1>14. FlowTypes' /\ CmdTypes'
  BY <1>7, <1>10, <1>11, NoCmdType DEF FlowTypes, CmdTypes
<1>15. DeferredTypes' /\ DeferredInv'
  <2>1. \A x \in deferred: x.kind = "flow" => \A s \in Thread: cmd'[s].flow # x.obj
    <3>1. \A x \in deferred: x.kind = "flow" => x.obj # Null
      BY <1>7, WaitingFields, DatapathAssumption DEF IndInv
    <3>2. QED  BY <1>7, <1>12, <1>13, <3>1 DEF DeferredInv
  <2>2. \A g \in FlowObj: flow[g].st = "removed" => flow'[g].st = "removed"
    BY <1>6, <1>12
  <2>3. QED  BY <1>7, <2>1, <2>2, DeferredKept
<1>16. CmdInv'
  <2>1. CmdHolds(t)'  BY <1>12, <1>13 DEF CmdHolds
  <2>2. QED  BY <1>3, <1>12, <1>13, <2>1, OthersHold
<1>17. ActsInv'
  <2>1. ASSUME NEW b \in ActObj PROVE OneOwner(b)'
    <3>1. b # Null /\ OneOwner(b)  BY <1>7, DatapathAssumption DEF ActsInv
    <3>2. CASE b = a
      <4>1. /\ act[a] = "used" /\ \A x \in deferred: ~ WaitHas(x, a)
            /\ \A g \in FlowObj: flow[g].act # a
            /\ \A s \in Thread: cmd[s].act = a \/ cmd[s].old = a => s = t
        BY <1>4, <1>7, CmdOwns
      <4>2. /\ \A g \in FlowObj: flow'[g].act = a => g = f
            /\ \A s \in Thread: cmd'[s].act # a /\ cmd'[s].old # a
        BY <1>5, <1>12, <1>13, <4>1
      <4>3. act'[a] = "used" /\ flow'[f].act = a /\ \A x \in deferred': ~ WaitHas(x, a)
        BY <1>7, <1>9, <1>12, <4>1
      <4>4. QED  BY <3>2, <4>2, <4>3, OwnerIsFlow
    <3>3. CASE b # a
      BY <1>2, <1>4, <1>6, <1>7, <1>9, <1>12, <1>13, <3>1, <3>3, OwnerKept
    <3>4. QED  BY <3>2, <3>3
  <2>2. \A g \in FlowObj:
          /\ flow'[g].st = "free" => flow'[g].act = Null
          /\ flow'[g].st \in {"table", "removed"} => flow'[g].act # Null
    BY <1>5, <1>7, <1>9, <1>12 DEF ActsInv
  <2>3. QED  BY <2>1, <2>2 DEF ActsInv
<1>18. KeepsFlows  BY <1>6, <1>12 DEF KeepsFlows
<1>19. cpu[t].pc = "idle"  BY CmdsDoNotRead
<1>20. KeepsPackets  BY <1>6, <1>12, <1>19 DEF KeepsPackets
<1>21. KeepsOld  BY <1>2, <1>12 DEF KeepsOld
<1>22. DefersForAll  BY <1>7 DEF DefersForAll
<1>23. QED
  BY <1>7, <1>14, <1>15, <1>16, <1>17, <1>18, <1>20, <1>21, <1>22, FlowStepKeeps

LEMMA UpdateActsKeeps ==
  ASSUME IndInv, NEW t \in Thread, cmd[t].pc \in {"new", "set"},
         NEW g \in FlowObj, flow[g].st = "table", UpdateActs(t, g)
  PROVE  IndInv'
<1>1. CmdHolds(t)  BY DEF IndInv, CmdInv
<1>2. /\ cmd[t].act # Null /\ cmd[t].old = Null
      /\ cmd[t].flow # Null => flow[cmd[t].flow].st = "new" /\ flow[cmd[t].flow].act = Null
  BY <1>1 DEF CmdHolds
<1>3. PICK a \in ActObj: a = cmd[t].act  BY <1>2, CmdsTyped DEF IndInv
<1>4. /\ FlowTypes /\ CmdTypes /\ ActsInv /\ DeferredInv
      /\ UNCHANGED <<dp, dps, vport, cpu, faults, deferred, act>>
  BY DEF IndInv, MemoryTypes, portVars, UpdateActs
<1>5. PICK o \in ActObj: o = flow[g].act
  BY <1>4 DEF ActsInv, FlowTypes, FlowRecords, Opt
<1>6. PICK r \in FlowRecords: r = [flow[g] EXCEPT !.act = a]
  BY <1>4 DEF FlowTypes, FlowRecords, Opt
<1>7. r.st = "table" /\ r.act = a  BY <1>4, <1>6 DEF FlowTypes, FlowRecords
<1>8. PICK m \in CmdRecords: m = [cmd[t] EXCEPT !.pc = "replaced", !.act = Null, !.old = o]
  BY <1>4 DEF CmdTypes, CmdRecords, Opt
<1>9. m.pc = "replaced" /\ m.act = Null /\ m.old = o /\ m.flow = cmd[t].flow
  BY <1>4, <1>8 DEF CmdTypes, CmdRecords
<1>10. flow' = [flow EXCEPT ![g] = r] /\ cmd' = [cmd EXCEPT ![t] = m]
  BY <1>3, <1>4, <1>5, <1>6, <1>8 DEF UpdateActs, FlowTypes, CmdTypes
<1>11. /\ \A h \in FlowObj: flow'[h] = IF h = g THEN r ELSE flow[h]
       /\ \A s \in Thread: cmd'[s] = IF s = t THEN m ELSE cmd[s]
  BY <1>4, <1>10 DEF FlowTypes, CmdTypes
<1>12. FlowTypes' /\ CmdTypes'  BY <1>4, <1>10 DEF FlowTypes, CmdTypes
<1>13. \A s \in Thread: cmd[s].flow # g  BY CmdFlowInNoTable
<1>14. a # o /\ a # Null /\ o # Null
  BY <1>3, <1>4, <1>5, CmdOwns, DatapathAssumption
<1>15. DeferredTypes' /\ DeferredInv'
  <2>1. \A x \in deferred: x.kind = "flow" => \A s \in Thread: cmd'[s].flow # x.obj
    BY <1>4, <1>9, <1>11 DEF DeferredInv
  <2>2. \A h \in FlowObj: flow[h].st = "removed" => flow'[h].st = "removed"
    BY <1>11
  <2>3. QED  BY <1>4, <2>1, <2>2, DeferredKept
<1>16. CmdInv'
  <2>1. cmd[t].flow # Null => flow'[cmd[t].flow] = flow[cmd[t].flow]
    BY <1>11, <1>13, CmdsTyped DEF IndInv
  <2>2. CmdHolds(t)'  BY <1>2, <1>9, <1>11, <1>14, <2>1 DEF CmdHolds
  <2>3. cmd[t].flow # Null => \A s \in Thread: s # t => cmd[s].flow # cmd[t].flow
    BY DEF IndInv, CmdInv
  <2>4. QED  BY <1>9, <1>11, <2>2, <2>3, OthersHold
<1>17. ActsInv'
  <2>1. ASSUME NEW b \in ActObj PROVE OneOwner(b)'
    <3>1. b # Null /\ OneOwner(b)  BY <1>4, DatapathAssumption DEF ActsInv
    <3>2. /\ act[a] = "used" /\ \A x \in deferred: ~ WaitHas(x, a)
          /\ \A h \in FlowObj: flow[h].act # a
          /\ \A s \in Thread: cmd[s].act = a \/ cmd[s].old = a => s = t
      BY <1>3, <1>4, CmdOwns
    <3>3. /\ act[o] = "used" /\ \A x \in deferred: ~ WaitHas(x, o)
          /\ \A h \in FlowObj: flow[h].act = o => h = g
          /\ \A s \in Thread: cmd[s].act # o /\ cmd[s].old # o
      BY <1>4, <1>5, FlowOwns
    <3>4. CASE b = a
      <4>1. /\ \A h \in FlowObj: flow'[h].act = a => h = g
            /\ \A s \in Thread: cmd'[s].act # a /\ cmd'[s].old # a
        BY <1>9, <1>11, <1>14, <3>2
      <4>2. act'[a] = "used" /\ flow'[g].act = a /\ \A x \in deferred': ~ WaitHas(x, a)
        BY <1>4, <1>7, <1>11, <3>2
      <4>3. QED  BY <3>4, <4>1, <4>2, OwnerIsFlow
    <3>5. CASE b = o
      <4>1. /\ \A h \in FlowObj: flow'[h].act # o
            /\ \A s \in Thread: cmd'[s].act = o \/ cmd'[s].old = o => s = t
        BY <1>7, <1>11, <1>14, <3>3
      <4>2. act'[o] = "used" /\ cmd'[t].old = o /\ \A x \in deferred': ~ WaitHas(x, o)
        BY <1>4, <1>9, <1>11, <3>3
      <4>3. QED  BY <3>5, <4>1, <4>2, OwnerIsCmd
    <3>6. CASE b # a /\ b # o
      BY <1>2, <1>3, <1>4, <1>5, <1>7, <1>9, <1>11, <3>1, <3>6, OwnerKept
    <3>7. QED  BY <3>4, <3>5, <3>6
  <2>2. \A h \in FlowObj:
          /\ flow'[h].st = "free" => flow'[h].act = Null
          /\ flow'[h].st \in {"table", "removed"} => flow'[h].act # Null
    BY <1>4, <1>7, <1>11, <1>14 DEF ActsInv
  <2>3. QED  BY <2>1, <2>2 DEF ActsInv
<1>18. KeepsFlows
  <2>1. r.dp = flow[g].dp  BY <1>4, <1>6 DEF FlowTypes, FlowRecords
  <2>2. cmd'[t].old = flow[g].act  BY <1>5, <1>9, <1>11
  <2>3. QED  BY <1>7, <1>11, <2>1, <2>2 DEF KeepsFlows
<1>19. KeepsPackets  BY <1>11, <1>13 DEF KeepsPackets
<1>20. KeepsOld  BY <1>2, <1>11 DEF KeepsOld
<1>21. DefersForAll  BY <1>4 DEF DefersForAll
<1>22. QED
  BY <1>4, <1>12, <1>15, <1>16, <1>17, <1>18, <1>19, <1>20, <1>21, FlowStepKeeps

LEMMA AllocSetFlowKeeps == ASSUME IndInv, NEW t \in Thread, AllocSetFlow(t) PROVE IndInv'
<1>1. PICK a \in ActObj:
        /\ act[a] = "free" /\ cmd[t].pc = "idle"
        /\ act' = [act EXCEPT ![a] = "used"]
        /\ cmd' = [cmd EXCEPT ![t] = [pc |-> "set", flow |-> Null, act |-> a, old |-> Null]]
        /\ UNCHANGED <<portVars, flow, cpu, deferred, faults>>
  <2>1. PICK a \in FreshAct:
          /\ Loaded /\ cmd[t].pc = "idle" /\ cpu[t].pc = "idle" /\ Spend("flow")
          /\ act' = [act EXCEPT ![a] = "used"]
          /\ cmd' = [cmd EXCEPT ![t] = [pc |-> "set", flow |-> Null, act |-> a, old |-> Null]]
          /\ UNCHANGED <<portVars, flow, cpu, deferred, dump, registered, faults>>
    BY Zenon DEF AllocSetFlow
  <2>2. UNCHANGED <<portVars, flow, cpu, deferred, faults>>  BY <2>1
  <2>3. QED  BY <2>1, <2>2, FreshObjects, Zenon
<1>2. CmdHolds(t)  BY DEF IndInv, CmdInv
<1>3. cmd[t].flow = Null /\ cmd[t].act = Null /\ cmd[t].old = Null
  BY <1>1, <1>2 DEF CmdHolds
<1>4. /\ FlowTypes /\ CmdTypes /\ ActsInv /\ DeferredInv
      /\ UNCHANGED <<dp, dps, vport, cpu, faults, deferred, flow>>
  BY <1>1 DEF IndInv, MemoryTypes, portVars
<1>5. PICK m \in CmdRecords: m = [pc |-> "set", flow |-> Null, act |-> a, old |-> Null]
  BY DEF CmdRecords, Opt
<1>6. m.pc = "set" /\ m.flow = Null /\ m.act = a /\ m.old = Null  BY <1>5
<1>7. cmd' = [cmd EXCEPT ![t] = m]  BY <1>1, <1>5
<1>8. /\ \A b \in ActObj: act'[b] = IF b = a THEN "used" ELSE act[b]
      /\ \A s \in Thread: cmd'[s] = IF s = t THEN m ELSE cmd[s]
  BY <1>1, <1>4, <1>7 DEF FlowTypes, CmdTypes
<1>9. FlowTypes' /\ CmdTypes'  BY <1>1, <1>4, <1>7 DEF FlowTypes, CmdTypes
<1>10. DeferredTypes' /\ DeferredInv'
  <2>1. \A x \in deferred: x.kind = "flow" => \A s \in Thread: cmd'[s].flow # x.obj
    <3>1. \A x \in deferred: x.kind = "flow" => x.obj # Null
      BY <1>4, WaitingFields, DatapathAssumption DEF IndInv
    <3>2. QED  BY <1>4, <1>6, <1>8, <3>1 DEF DeferredInv
  <2>2. QED  BY <1>4, <2>1, DeferredKept
<1>11. a # Null  BY DatapathAssumption
<1>12. CmdInv'
  <2>1. CmdHolds(t)'  BY <1>6, <1>8, <1>11 DEF CmdHolds
  <2>2. QED  BY <1>4, <1>6, <1>8, <2>1, OthersHold
<1>13. ActsInv'
  <2>1. ASSUME NEW b \in ActObj PROVE OneOwner(b)'
    <3>1. CASE b = a
      <4>1. /\ \A g \in FlowObj: flow[g].act # a
            /\ \A s \in Thread: cmd[s].act # a /\ cmd[s].old # a
            /\ \A x \in deferred: ~ WaitHas(x, a)
        BY <1>1, <1>4, FreeHasNoOwner
      <4>2. QED  BY <1>4, <1>6, <1>8, <3>1, <4>1, OwnerIsCmd
    <3>2. CASE b # a
      <4>1. b # Null /\ OneOwner(b)  BY <1>4, DatapathAssumption DEF ActsInv
      <4>2. QED  BY <1>3, <1>4, <1>6, <1>8, <3>2, <4>1, OwnerKept
    <3>3. QED  BY <3>1, <3>2
  <2>2. QED  BY <1>4, <2>1 DEF ActsInv
<1>14. KeepsFlows  BY <1>4 DEF KeepsFlows
<1>15. KeepsPackets  BY <1>1, <1>4, <1>8 DEF KeepsPackets
<1>16. KeepsOld  BY <1>3, <1>8 DEF KeepsOld
<1>17. DefersForAll  BY <1>4 DEF DefersForAll
<1>18. QED
  BY <1>4, <1>9, <1>10, <1>12, <1>13, <1>14, <1>15, <1>16, <1>17, FlowStepKeeps

LEMMA SetFlowKeeps == ASSUME IndInv, NEW t \in Thread, SetFlow(t) PROVE IndInv'
<1>1. cmd[t].pc = "set"  BY DEF SetFlow
<1>2. ASSUME NEW g \in Named, UpdateActs(t, g) PROVE IndInv'
  BY <1>1, <1>2, NamedInTable, UpdateActsKeeps DEF IndInv
<1>3. ASSUME act' = FreeAct(act, cmd[t].act), cmd' = [cmd EXCEPT ![t] = NoCmd],
             UNCHANGED <<portVars, flow, cpu, deferred, faults>>
      PROVE  IndInv'
  <2>1. CmdHolds(t)  BY DEF IndInv, CmdInv
  <2>2. cmd[t].flow = Null /\ cmd[t].act # Null /\ cmd[t].old = Null
    BY <1>1, <2>1 DEF CmdHolds
  <2>3. PICK a \in ActObj: a = cmd[t].act  BY <2>2, CmdsTyped DEF IndInv
  <2>4. /\ FlowTypes /\ CmdTypes /\ ActsInv /\ DeferredInv
        /\ UNCHANGED <<dp, dps, vport, cpu, faults, deferred, flow>>
    BY <1>3 DEF IndInv, MemoryTypes, portVars
  <2>5. act' = [act EXCEPT ![a] = "free"]  BY <1>3, <2>2, <2>3 DEF FreeAct
  <2>6. NoCmd.pc = "idle" /\ NoCmd.flow = Null /\ NoCmd.act = Null /\ NoCmd.old = Null
    BY DEF NoCmd
  <2>7. /\ \A b \in ActObj: act'[b] = IF b = a THEN "free" ELSE act[b]
        /\ \A s \in Thread: cmd'[s] = IF s = t THEN NoCmd ELSE cmd[s]
    BY <1>3, <2>4, <2>5 DEF FlowTypes, CmdTypes
  <2>8. FlowTypes' /\ CmdTypes'
    BY <1>3, <2>4, <2>5, NoCmdType DEF FlowTypes, CmdTypes
  <2>9. DeferredTypes' /\ DeferredInv'
    <3>1. \A x \in deferred: x.kind = "flow" => \A s \in Thread: cmd'[s].flow # x.obj
      <4>1. \A x \in deferred: x.kind = "flow" => x.obj # Null
        BY <2>4, WaitingFields, DatapathAssumption DEF IndInv
      <4>2. QED  BY <2>4, <2>6, <2>7, <4>1 DEF DeferredInv
    <3>2. QED  BY <2>4, <3>1, DeferredKept
  <2>10. CmdInv'
    <3>1. CmdHolds(t)'  BY <2>6, <2>7 DEF CmdHolds
    <3>2. QED  BY <2>4, <2>6, <2>7, <3>1, OthersHold
  <2>11. ActsInv'
    <3>1. ASSUME NEW b \in ActObj PROVE OneOwner(b)'
      <4>1. b # Null /\ OneOwner(b)  BY <2>4, DatapathAssumption DEF ActsInv
      <4>2. CASE b = a
        <5>1. /\ \A x \in deferred: ~ WaitHas(x, a)
              /\ \A h \in FlowObj: flow[h].act # a
              /\ \A s \in Thread: cmd[s].act = a \/ cmd[s].old = a => s = t
          BY <2>3, <2>4, CmdOwns
        <5>2. \A s \in Thread: cmd'[s].act # a /\ cmd'[s].old # a
          BY <2>6, <2>7, <4>1, <4>2, <5>1
        <5>3. QED  BY <2>4, <2>7, <4>2, <5>1, <5>2, OwnerIsNobody
      <4>3. CASE b # a
        BY <2>2, <2>3, <2>4, <2>6, <2>7, <4>1, <4>3, OwnerKept
      <4>4. QED  BY <4>2, <4>3
    <3>2. QED  BY <2>4, <3>1 DEF ActsInv
  <2>12. KeepsFlows  BY <2>4 DEF KeepsFlows
  <2>13. KeepsPackets  BY <1>1, <2>4, <2>7 DEF KeepsPackets
  <2>14. KeepsOld  BY <2>2, <2>7 DEF KeepsOld
  <2>15. DefersForAll  BY <2>4 DEF DefersForAll
  <2>16. QED
    BY <2>4, <2>8, <2>9, <2>10, <2>11, <2>12, <2>13, <2>14, <2>15, FlowStepKeeps
<1>4. QED  BY <1>2, <1>3 DEF SetFlow

LEMMA FreeOldKeeps == ASSUME IndInv, NEW t \in Thread, FreeOld(t) PROVE IndInv'
<1>1. cmd[t].pc = "replaced" /\ CmdHolds(t)  BY DEF IndInv, CmdInv, FreeOld
<1>2. /\ cmd[t].act = Null /\ cmd[t].old # Null
      /\ cmd[t].flow # Null => flow[cmd[t].flow].st = "new" /\ flow[cmd[t].flow].act = Null
  BY <1>1 DEF CmdHolds
<1>3. PICK o \in ActObj: o = cmd[t].old  BY <1>2, CmdsTyped DEF IndInv
<1>4. /\ FlowTypes /\ CmdTypes /\ ActsInv /\ DeferredInv /\ DeferredTypes
      /\ UNCHANGED <<dp, dps, vport, cpu, faults, act>>
      /\ cmd' = [cmd EXCEPT ![t] = NoCmd]
  BY DEF IndInv, MemoryTypes, portVars, FreeOld
<1>5. PICK y \in Waiting("act", ActObj): y = Later("act", o)  BY LaterType DEF IndInv
<1>6. deferred' = deferred \cup {y} /\ y.kind = "act" /\ y.obj = o /\ y.wait = Reading
  BY <1>3, <1>5 DEF FreeOld, Later
<1>7. PICK f: f = cmd[t].flow  OBVIOUS
<1>8. \A g \in FlowObj: flow'[g] = IF g = f THEN NoFlow ELSE flow[g]
  <2>1. CASE f = Null
    BY <1>7, <2>1, DatapathAssumption DEF FreeOld
  <2>2. CASE f # Null
    BY <1>4, <1>7, <2>2 DEF FreeOld, FlowTypes
  <2>3. QED  BY <2>1, <2>2
<1>9. flow' \in [FlowObj -> FlowRecords]
  BY <1>4, <1>7, NoFlowType DEF FreeOld, FlowTypes
<1>10. /\ NoFlow.st = "free" /\ NoFlow.act = Null
       /\ NoCmd.pc = "idle" /\ NoCmd.flow = Null /\ NoCmd.act = Null /\ NoCmd.old = Null
  BY DEF NoFlow, NoCmd
<1>11. \A s \in Thread: cmd'[s] = IF s = t THEN NoCmd ELSE cmd[s]
  BY <1>4 DEF CmdTypes
<1>12. FlowTypes' /\ CmdTypes' /\ DeferredTypes'
  BY <1>4, <1>6, <1>9, NoCmdType DEF FlowTypes, CmdTypes, DeferredTypes
<1>13. f \in FlowObj =>
         /\ flow[f].st = "new" /\ flow[f].act = Null
         /\ \A u \in Thread: u # t => cmd[u].flow # f
         /\ \A x \in deferred: x.kind = "flow" => x.obj # f
  BY <1>1, <1>2, <1>7, OwnFlow, DatapathAssumption
<1>14. /\ act[o] = "used" /\ \A x \in deferred: ~ WaitHas(x, o)
       /\ \A g \in FlowObj: flow[g].act # o
       /\ \A s \in Thread: cmd[s].act = o \/ cmd[s].old = o => s = t
  BY <1>3, <1>4, CmdOwns
<1>15. DeferredInv'
  <2>1. ASSUME NEW x \in deferred', NEW z \in deferred', x.kind = z.kind, x.obj = z.obj
        PROVE  x = z
    BY <1>4, <1>6, <1>14, <2>1 DEF DeferredInv, WaitHas
  <2>2. ASSUME NEW x \in deferred', x.kind = "flow"
        PROVE  flow'[x.obj].st = "removed" /\ \A s \in Thread: cmd'[s].flow # x.obj
    <3>1. x \in deferred /\ x.obj \in FlowObj /\ x.obj # Null
      BY <1>6, <2>2, WaitingFields, DatapathAssumption DEF IndInv
    <3>2. QED  BY <1>4, <1>8, <1>10, <1>11, <1>13, <2>2, <3>1 DEF DeferredInv
  <2>3. ASSUME NEW x \in deferred'
        PROVE  /\ x.kind = "vport" => vport'[x.obj].st = "dead"
               /\ x.kind = "dp" => dp'[x.obj].st = "dead"
    BY <1>4, <1>6 DEF DeferredInv
  <2>4. QED  BY <2>1, <2>2, <2>3 DEF DeferredInv
<1>16. CmdInv'
  <2>1. CmdHolds(t)'  BY <1>10, <1>11 DEF CmdHolds
  <2>2. QED  BY <1>7, <1>8, <1>10, <1>11, <2>1, OthersHold
<1>17. ActsInv'
  <2>1. ASSUME NEW b \in ActObj PROVE OneOwner(b)'
    <3>1. b # Null /\ OneOwner(b)  BY <1>4, DatapathAssumption DEF ActsInv
    <3>2. CASE b = o
      <4>1. WaitHas(y, o) /\ y \in deferred'  BY <1>6 DEF WaitHas
      <4>2. \A g \in FlowObj: flow'[g].act # o
        BY <1>8, <1>10, <1>14, <3>1, <3>2
      <4>3. \A s \in Thread: cmd'[s].act # o /\ cmd'[s].old # o
        BY <1>10, <1>11, <1>14, <3>1, <3>2
      <4>4. act'[o] = "used"  BY <1>4, <1>14
      <4>5. QED  BY <3>2, <4>1, <4>2, <4>3, <4>4, OwnerIsWait
    <3>3. CASE b # o
      <4>1. \A x: WaitHas(x, b) => (x \in deferred' <=> x \in deferred)
        BY <1>6, <3>3 DEF WaitHas
      <4>2. \A g \in FlowObj: flow'[g].act = b <=> flow[g].act = b
        BY <1>8, <1>10, <1>13, <3>1
      <4>3. \A s \in Thread: (cmd'[s].act = b \/ cmd'[s].old = b) <=> (cmd[s].act = b \/ cmd[s].old = b)
        BY <1>2, <1>3, <1>10, <1>11, <3>1, <3>3
      <4>4. QED  BY <1>4, <3>1, <4>1, <4>2, <4>3, OwnerKept
    <3>4. QED  BY <3>2, <3>3
  <2>2. \A g \in FlowObj:
          /\ flow'[g].st = "free" => flow'[g].act = Null
          /\ flow'[g].st \in {"table", "removed"} => flow'[g].act # Null
    BY <1>4, <1>8, <1>10 DEF ActsInv
  <2>3. QED  BY <2>1, <2>2 DEF ActsInv
<1>18. KeepsFlows  BY <1>8, <1>13 DEF KeepsFlows
<1>19. KeepsPackets  BY <1>1, <1>8, <1>11, <1>13 DEF KeepsPackets
<1>20. KeepsOld
  <2>1. WaitHas(y, o) /\ y \in deferred'  BY <1>6 DEF WaitHas
  <2>2. QED  BY <1>3, <1>11, <2>1 DEF KeepsOld
<1>21. DefersForAll  BY <1>6 DEF DefersForAll
<1>22. QED
  BY <1>4, <1>12, <1>15, <1>16, <1>17, <1>18, <1>19, <1>20, <1>21, FlowStepKeeps

LEMMA RemoveFlowKeeps == ASSUME IndInv, NEW t \in Thread, RemoveFlow(t) PROVE IndInv'
<1>1. PICK f \in Named:
        /\ flow' = [flow EXCEPT ![f].st = "removed", ![f].dp = Null]
        /\ cmd' = [cmd EXCEPT ![t] = [pc |-> "removed", flow |-> f, act |-> Null, old |-> Null]]
  BY DEF RemoveFlow
<1>2. f \in FlowObj /\ flow[f].st = "table"  BY NamedInTable DEF IndInv
<1>3. CmdHolds(t) /\ cmd[t].pc = "idle"  BY DEF IndInv, CmdInv, RemoveFlow
<1>4. cmd[t].flow = Null /\ cmd[t].act = Null /\ cmd[t].old = Null
  BY <1>3 DEF CmdHolds
<1>5. /\ FlowTypes /\ CmdTypes /\ ActsInv /\ DeferredInv
      /\ UNCHANGED <<dp, dps, vport, cpu, faults, deferred, act>>
  BY DEF IndInv, MemoryTypes, portVars, RemoveFlow
<1>6. PICK r \in FlowRecords: r = [flow[f] EXCEPT !.st = "removed", !.dp = Null]
  BY <1>2, <1>5 DEF FlowTypes, FlowRecords, Opt
<1>7. r.st = "removed" /\ r.act = flow[f].act
  BY <1>2, <1>5, <1>6 DEF FlowTypes, FlowRecords
<1>8. PICK m \in CmdRecords: m = [pc |-> "removed", flow |-> f, act |-> Null, old |-> Null]
  BY <1>2 DEF CmdRecords, Opt
<1>9. m.pc = "removed" /\ m.flow = f /\ m.act = Null /\ m.old = Null  BY <1>8
<1>10. flow' = [flow EXCEPT ![f] = r] /\ cmd' = [cmd EXCEPT ![t] = m]
  BY <1>1, <1>2, <1>5, <1>6, <1>8 DEF FlowTypes
<1>11. /\ \A g \in FlowObj: flow'[g] = IF g = f THEN r ELSE flow[g]
       /\ \A s \in Thread: cmd'[s] = IF s = t THEN m ELSE cmd[s]
  BY <1>2, <1>5, <1>10 DEF FlowTypes, CmdTypes
<1>12. FlowTypes' /\ CmdTypes'  BY <1>2, <1>5, <1>10 DEF FlowTypes, CmdTypes
<1>13. \A s \in Thread: cmd[s].flow # f  BY <1>2, CmdFlowInNoTable
<1>14. f # Null  BY <1>2, DatapathAssumption
<1>15. DeferredTypes' /\ DeferredInv'
  <2>1. \A x \in deferred: x.kind = "flow" => \A s \in Thread: cmd'[s].flow # x.obj
    BY <1>2, <1>5, <1>9, <1>11 DEF DeferredInv
  <2>2. \A h \in FlowObj: flow[h].st = "removed" => flow'[h].st = "removed"
    BY <1>7, <1>11
  <2>3. QED  BY <1>5, <2>1, <2>2, DeferredKept
<1>16. CmdInv'
  <2>1. CmdHolds(t)'  BY <1>2, <1>7, <1>9, <1>11, <1>14 DEF CmdHolds
  <2>2. QED  BY <1>2, <1>9, <1>11, <1>13, <2>1, OthersHold
<1>17. ActsInv'
  <2>1. ASSUME NEW b \in ActObj PROVE OneOwner(b)'
    <3>1. b # Null /\ OneOwner(b)  BY <1>5, DatapathAssumption DEF ActsInv
    <3>2. QED  BY <1>4, <1>5, <1>7, <1>9, <1>11, <3>1, OwnerKept
  <2>2. \A h \in FlowObj:
          /\ flow'[h].st = "free" => flow'[h].act = Null
          /\ flow'[h].st \in {"table", "removed"} => flow'[h].act # Null
    BY <1>2, <1>5, <1>7, <1>11 DEF ActsInv
  <2>3. QED  BY <2>1, <2>2 DEF ActsInv
<1>18. KeepsFlows  BY <1>2, <1>7, <1>11 DEF KeepsFlows
<1>19. KeepsPackets  BY <1>3, <1>11, <1>13 DEF KeepsPackets
<1>20. KeepsOld  BY <1>4, <1>11 DEF KeepsOld
<1>21. DefersForAll  BY <1>5 DEF DefersForAll
<1>22. QED
  BY <1>5, <1>12, <1>15, <1>16, <1>17, <1>18, <1>19, <1>20, <1>21, FlowStepKeeps

LEMMA FreeRemovedKeeps == ASSUME IndInv, NEW t \in Thread, FreeRemoved(t) PROVE IndInv'
<1>1. cmd[t].pc = "removed" /\ CmdHolds(t)  BY DEF IndInv, CmdInv, FreeRemoved
<1>2. cmd[t].flow # Null /\ cmd[t].act = Null /\ cmd[t].old = Null
  BY <1>1 DEF CmdHolds
<1>3. PICK f \in FlowObj: f = cmd[t].flow  BY <1>2, CmdsTyped DEF IndInv
<1>4. /\ FlowTypes /\ CmdTypes /\ ActsInv /\ DeferredInv /\ DeferredTypes
      /\ UNCHANGED <<dp, dps, vport, cpu, faults, act, flow>>
      /\ cmd' = [cmd EXCEPT ![t] = NoCmd]
  BY DEF IndInv, MemoryTypes, portVars, flowVars, FreeRemoved
<1>5. flow[f].st = "removed" /\ \A s \in Thread: s # t => cmd[s].flow # f
  BY <1>1, <1>2, <1>3 DEF CmdHolds, IndInv, CmdInv
<1>6. PICK y \in Waiting("flow", FlowObj): y = Later("flow", f)  BY LaterType DEF IndInv
<1>7. deferred' = deferred \cup {y} /\ y.kind = "flow" /\ y.obj = f /\ y.wait = Reading
  BY <1>3, <1>6 DEF FreeRemoved, Later
<1>8. NoCmd.pc = "idle" /\ NoCmd.flow = Null /\ NoCmd.act = Null /\ NoCmd.old = Null
  BY DEF NoCmd
<1>9. \A s \in Thread: cmd'[s] = IF s = t THEN NoCmd ELSE cmd[s]
  BY <1>4 DEF CmdTypes
<1>10. FlowTypes' /\ CmdTypes' /\ DeferredTypes'
  BY <1>4, <1>7, NoCmdType DEF FlowTypes, CmdTypes, DeferredTypes
<1>11. \A x \in deferred: ~ (x.kind = "flow" /\ x.obj = f)
  BY <1>3, <1>4 DEF DeferredInv
<1>12. f # Null  BY DatapathAssumption
<1>13. DeferredInv'
  <2>1. ASSUME NEW x \in deferred', NEW z \in deferred', x.kind = z.kind, x.obj = z.obj
        PROVE  x = z
    BY <1>4, <1>7, <1>11, <2>1 DEF DeferredInv
  <2>2. ASSUME NEW x \in deferred', x.kind = "flow"
        PROVE  flow'[x.obj].st = "removed" /\ \A s \in Thread: cmd'[s].flow # x.obj
    <3>1. CASE x \in deferred
      <4>1. x.obj # Null
        BY <2>2, <3>1, WaitingFields, DatapathAssumption DEF IndInv
      <4>2. QED  BY <1>4, <1>8, <1>9, <2>2, <3>1, <4>1 DEF DeferredInv
    <3>2. CASE x = y  BY <1>4, <1>5, <1>7, <1>8, <1>9, <1>12, <3>2
    <3>3. QED  BY <1>7, <3>1, <3>2
  <2>3. ASSUME NEW x \in deferred'
        PROVE  /\ x.kind = "vport" => vport'[x.obj].st = "dead"
               /\ x.kind = "dp" => dp'[x.obj].st = "dead"
    BY <1>4, <1>7 DEF DeferredInv
  <2>4. QED  BY <2>1, <2>2, <2>3 DEF DeferredInv
<1>14. CmdInv'
  <2>1. CmdHolds(t)'  BY <1>8, <1>9 DEF CmdHolds
  <2>2. QED  BY <1>4, <1>8, <1>9, <2>1, OthersHold
<1>15. ActsInv'
  <2>1. ASSUME NEW b \in ActObj PROVE OneOwner(b)'
    <3>1. b # Null /\ OneOwner(b)  BY <1>4, DatapathAssumption DEF ActsInv
    <3>2. \A x: WaitHas(x, b) => (x \in deferred' <=> x \in deferred)
      BY <1>7 DEF WaitHas
    <3>3. QED  BY <1>2, <1>4, <1>8, <1>9, <3>1, <3>2, OwnerKept
  <2>2. QED  BY <1>4, <2>1 DEF ActsInv
<1>16. KeepsFlows  BY <1>4 DEF KeepsFlows
<1>17. KeepsPackets  BY <1>1, <1>4, <1>9 DEF KeepsPackets
<1>18. KeepsOld  BY <1>2, <1>9 DEF KeepsOld
<1>19. DefersForAll  BY <1>7 DEF DefersForAll
<1>20. QED
  BY <1>4, <1>10, <1>13, <1>14, <1>15, <1>16, <1>17, <1>18, <1>19, FlowStepKeeps

LEMMA FlushKeeps == ASSUME IndInv, Flush PROVE IndInv'
<1>1. PICK d \in GetDp:
        /\ flow' = [f \in FlowObj |-> IF f \in Flows(d)
                                        THEN [flow[f] EXCEPT !.st = "removed", !.dp = Null]
                                        ELSE flow[f]]
        /\ deferred' = deferred \cup {Later("flow", f): f \in Flows(d)}
  BY DEF Flush
<1>2. PICK fs \in SUBSET FlowObj: fs = Flows(d)  BY DEF Flows
<1>3. \A f \in fs: flow[f].st = "table"  BY <1>2 DEF Flows
<1>4. /\ FlowTypes /\ CmdTypes /\ ActsInv /\ DeferredInv /\ DeferredTypes /\ CmdInv
      /\ UNCHANGED <<dp, dps, vport, cpu, faults, act, cmd>>
  BY DEF IndInv, MemoryTypes, portVars, Flush
<1>5. ASSUME NEW f \in FlowObj
      PROVE  /\ flow'[f] \in FlowRecords
             /\ f \notin fs => flow'[f] = flow[f]
             /\ f \in fs => flow'[f].st = "removed" /\ flow'[f].act = flow[f].act
  <2>1. CASE f \notin fs  BY <1>1, <1>2, <1>4, <2>1 DEF FlowTypes
  <2>2. CASE f \in fs
    <3>1. PICK r \in FlowRecords: r = [flow[f] EXCEPT !.st = "removed", !.dp = Null]
      BY <1>4 DEF FlowTypes, FlowRecords, Opt
    <3>2. r.st = "removed" /\ r.act = flow[f].act
      BY <1>4, <3>1 DEF FlowTypes, FlowRecords
    <3>3. flow'[f] = r  BY <1>1, <1>2, <2>2, <3>1
    <3>4. QED  BY <2>2, <3>2, <3>3
  <2>3. QED  BY <2>1, <2>2
<1>6. flow' \in [FlowObj -> FlowRecords]
  <2> DEFINE nf(f) == IF f \in Flows(d) THEN [flow[f] EXCEPT !.st = "removed", !.dp = Null]
                                        ELSE flow[f]
  <2>1. flow' = [f \in FlowObj |-> nf(f)]  BY <1>1, Zenon
  <2> HIDE DEF nf
  <2>2. QED  BY <1>5, <2>1
<1>7. PICK ys \in SUBSET Waiting("flow", FlowObj): ys = {Later("flow", f): f \in fs}
  BY LaterType DEF IndInv
<1>8. /\ deferred' = deferred \cup ys
      /\ \A y \in ys: \E f \in fs: y = Later("flow", f)
      /\ \A y \in ys: y.kind = "flow" /\ y.obj \in fs /\ y.wait = Reading
  <2>1. deferred' = deferred \cup ys  BY <1>1, <1>2, <1>7, Zenon
  <2>2. \A y \in ys: \E f \in fs: y = Later("flow", f)  BY <1>7, Zenon
  <2>3. \A y \in ys: y.kind = "flow" /\ y.obj \in fs /\ y.wait = Reading
    BY <2>2 DEF Later
  <2>4. QED  BY <2>1, <2>2, <2>3, Zenon
<1>9. FlowTypes' /\ CmdTypes' /\ DeferredTypes'
  BY <1>4, <1>6, <1>7, <1>8 DEF FlowTypes, CmdTypes, DeferredTypes
<1>10. /\ \A x \in deferred: x.kind = "flow" => x.obj \notin fs
       /\ \A s \in Thread: cmd[s].flow \notin fs
  BY <1>3, <1>4, CmdFlowInNoTable DEF DeferredInv
<1>11. DeferredInv'
  <2>1. ASSUME NEW x \in deferred', NEW z \in deferred', x.kind = z.kind, x.obj = z.obj
        PROVE  x = z
    <3>1. \A u, w \in ys: u.obj = w.obj => u = w  BY <1>8 DEF Later
    <3>2. \A u \in ys, w \in deferred: ~ (u.kind = w.kind /\ u.obj = w.obj)
      BY <1>8, <1>10
    <3>3. QED  BY <1>4, <1>8, <2>1, <3>1, <3>2 DEF DeferredInv
  <2>2. ASSUME NEW x \in deferred', x.kind = "flow"
        PROVE  flow'[x.obj].st = "removed" /\ \A s \in Thread: cmd'[s].flow # x.obj
    <3>1. CASE x \in deferred
      <4>1. x.obj \in FlowObj /\ x.obj \notin fs
        BY <1>10, <2>2, <3>1, WaitingFields DEF IndInv
      <4>2. QED  BY <1>4, <1>5, <2>2, <3>1, <4>1 DEF DeferredInv
    <3>2. CASE x \in ys  BY <1>4, <1>5, <1>8, <1>10, <3>2
    <3>3. QED  BY <1>8, <3>1, <3>2
  <2>3. ASSUME NEW x \in deferred'
        PROVE  /\ x.kind = "vport" => vport'[x.obj].st = "dead"
               /\ x.kind = "dp" => dp'[x.obj].st = "dead"
    BY <1>4, <1>8 DEF DeferredInv
  <2>4. QED  BY <2>1, <2>2, <2>3 DEF DeferredInv
<1>12. CmdInv'
  <2>1. ASSUME NEW s \in Thread PROVE CmdHolds(s)'
    <3>1. cmd[s].flow # Null => flow'[cmd[s].flow] = flow[cmd[s].flow]
      BY <1>5, <1>10, CmdsTyped DEF IndInv
    <3>2. QED  BY <1>4, <3>1, CmdKept DEF CmdInv
  <2>2. QED  BY <1>4, <2>1 DEF CmdInv
<1>13. ActsInv'
  <2>1. ASSUME NEW b \in ActObj PROVE OneOwner(b)'
    <3>1. OneOwner(b)  BY <1>4 DEF ActsInv
    <3>2. \A x: WaitHas(x, b) => (x \in deferred' <=> x \in deferred)
      BY <1>8 DEF WaitHas
    <3>3. \A f \in FlowObj: flow'[f].act = b <=> flow[f].act = b  BY <1>5
    <3>4. QED  BY <1>4, <3>1, <3>2, <3>3, OwnerKept
  <2>2. \A h \in FlowObj:
          /\ flow'[h].st = "free" => flow'[h].act = Null
          /\ flow'[h].st \in {"table", "removed"} => flow'[h].act # Null
    BY <1>3, <1>4, <1>5 DEF ActsInv
  <2>3. QED  BY <2>1, <2>2 DEF ActsInv
<1>14. KeepsFlows  BY <1>3, <1>5 DEF KeepsFlows
<1>15. KeepsPackets  BY <1>4, <1>5, <1>10 DEF KeepsPackets
<1>16. KeepsOld  BY <1>4 DEF KeepsOld
<1>17. DefersForAll  BY <1>8 DEF DefersForAll
<1>18. QED
  BY <1>4, <1>9, <1>11, <1>12, <1>13, <1>14, <1>15, <1>16, <1>17, FlowStepKeeps

LEMMA AllocPacketKeeps == ASSUME IndInv, NEW t \in Thread, AllocPacket(t) PROVE IndInv'
<1>1. PICK f \in FreshFlow, a \in FreshAct:
        /\ Loaded /\ cmd[t].pc = "idle" /\ cpu[t].pc = "idle" /\ Spend("packet")
        /\ flow' = [flow EXCEPT ![f] = [st |-> "new", dp |-> Null, key |-> Null, wild |-> FALSE,
                                        ufid |-> Null, act |-> a]]
        /\ act' = [act EXCEPT ![a] = "used"]
        /\ cmd' = [cmd EXCEPT ![t] = [pc |-> "packet", flow |-> f, act |-> Null, old |-> Null]]
        /\ UNCHANGED <<portVars, cpu, deferred, dump, registered, faults>>
  BY Zenon DEF AllocPacket
<1>2. f \in FlowObj /\ flow[f].st = "free" /\ a \in ActObj /\ act[a] = "free"
  BY FreshObjects
<1>3. f # Null /\ a # Null  BY <1>2, DatapathAssumption
<1>4. CmdHolds(t)  BY DEF IndInv, CmdInv
<1>5. cmd[t].flow = Null /\ cmd[t].act = Null /\ cmd[t].old = Null
  BY <1>1, <1>4 DEF CmdHolds
<1>6. /\ FlowTypes /\ CmdTypes /\ ActsInv /\ DeferredInv
      /\ UNCHANGED <<dp, dps, vport, cpu, faults, deferred>>
  BY <1>1 DEF IndInv, MemoryTypes, portVars
<1>7. PICK r \in FlowRecords: r = [st |-> "new", dp |-> Null, key |-> Null, wild |-> FALSE,
                                   ufid |-> Null, act |-> a]
  BY <1>2 DEF FlowRecords, Opt
<1>8. r.st = "new" /\ r.act = a  BY <1>7
<1>9. PICK m \in CmdRecords: m = [pc |-> "packet", flow |-> f, act |-> Null, old |-> Null]
  BY <1>2 DEF CmdRecords, Opt
<1>10. m.pc = "packet" /\ m.flow = f /\ m.act = Null /\ m.old = Null  BY <1>9
<1>11. flow' = [flow EXCEPT ![f] = r] /\ cmd' = [cmd EXCEPT ![t] = m]
  BY <1>1, <1>7, <1>9
<1>12. /\ \A g \in FlowObj: flow'[g] = IF g = f THEN r ELSE flow[g]
       /\ \A b \in ActObj: act'[b] = IF b = a THEN "used" ELSE act[b]
       /\ \A s \in Thread: cmd'[s] = IF s = t THEN m ELSE cmd[s]
  BY <1>1, <1>2, <1>6, <1>11 DEF FlowTypes, CmdTypes
<1>13. FlowTypes' /\ CmdTypes'
  <2>1. flow' \in [FlowObj -> FlowRecords]  BY <1>2, <1>6, <1>11 DEF FlowTypes
  <2>2. act' \in [ActObj -> {"free", "used"}]  BY <1>1, <1>2, <1>6 DEF FlowTypes
  <2>3. cmd' \in [Thread -> CmdRecords]  BY <1>6, <1>11 DEF CmdTypes
  <2>4. QED  BY <2>1, <2>2, <2>3 DEF FlowTypes, CmdTypes
<1>14. /\ \A s \in Thread: cmd[s].flow # f
       /\ \A x \in deferred: x.kind = "flow" => x.obj # f
       /\ flow[f].act = Null
  BY <1>2, FreeFlowIsNoOnes
<1>15. DeferredTypes' /\ DeferredInv'
  <2>1. \A x \in deferred: x.kind = "flow" => \A s \in Thread: cmd'[s].flow # x.obj
    BY <1>6, <1>10, <1>12, <1>14 DEF DeferredInv
  <2>2. \A g \in FlowObj: flow[g].st = "removed" => flow'[g].st = "removed"
    BY <1>2, <1>12
  <2>3. QED  BY <1>6, <2>1, <2>2, DeferredKept
<1>16. CmdInv'
  <2>1. CmdHolds(t)'  BY <1>2, <1>3, <1>8, <1>10, <1>12 DEF CmdHolds
  <2>2. QED  BY <1>2, <1>10, <1>12, <1>14, <2>1, OthersHold
<1>17. ActsInv'
  <2>1. ASSUME NEW b \in ActObj PROVE OneOwner(b)'
    <3>1. b # Null /\ OneOwner(b)  BY <1>6, DatapathAssumption DEF ActsInv
    <3>2. CASE b = a
      <4>1. /\ \A g \in FlowObj: flow[g].act # a
            /\ \A s \in Thread: cmd[s].act # a /\ cmd[s].old # a
            /\ \A x \in deferred: ~ WaitHas(x, a)
        BY <1>2, <1>6, FreeHasNoOwner
      <4>2. act'[a] = "used" /\ flow'[f].act = a /\ \A x \in deferred': ~ WaitHas(x, a)
        BY <1>2, <1>6, <1>8, <1>12, <4>1
      <4>3. /\ \A g \in FlowObj: flow'[g].act = a => g = f
            /\ \A s \in Thread: cmd'[s].act # a /\ cmd'[s].old # a
        BY <1>3, <1>10, <1>12, <4>1
      <4>4. QED  BY <1>2, <3>2, <4>2, <4>3, OwnerIsFlow
    <3>3. CASE b # a
      BY <1>5, <1>6, <1>8, <1>10, <1>12, <1>14, <3>1, <3>3, OwnerKept
    <3>4. QED  BY <3>2, <3>3
  <2>2. \A g \in FlowObj:
          /\ flow'[g].st = "free" => flow'[g].act = Null
          /\ flow'[g].st \in {"table", "removed"} => flow'[g].act # Null
    BY <1>6, <1>8, <1>12 DEF ActsInv
  <2>3. QED  BY <2>1, <2>2 DEF ActsInv
<1>18. KeepsFlows  BY <1>2, <1>12 DEF KeepsFlows
<1>19. KeepsPackets  BY <1>1, <1>12, <1>14 DEF KeepsPackets
<1>20. KeepsOld  BY <1>5, <1>12 DEF KeepsOld
<1>21. DefersForAll  BY <1>6 DEF DefersForAll
<1>22. QED
  BY <1>6, <1>13, <1>15, <1>16, <1>17, <1>18, <1>19, <1>20, <1>21, FlowStepKeeps

\* The flow a command finds to update is in a table.
LEMMA ToUpdateInTable ==
  ASSUME NEW d, NEW f \in FlowObj, NEW h \in Duplicates(d, f), NEW k, NEW g \in ToUpdate(d, h, k)
  PROVE  g \in FlowObj /\ flow[g].st = "table"
BY DEF Duplicates, ToUpdate, LookupUfid, LookupKey, LookupExact, Flows

LEMMA NewFlowKeeps == ASSUME IndInv, NEW t \in Thread, NewFlow(t) PROVE IndInv'
<1>1. cmd[t].pc = "new"  BY DEF NewFlow
<1>2. CASE GiveUp(t, cmd[t].act)  BY <1>1, <1>2, GiveUpNewKeeps
<1>3. ASSUME NEW d \in GetDp, InsertFlow(t, d) PROVE IndInv'
  BY <1>1, <1>3, InsertFlowKeeps
<1>4. CASE InsertFails(t)  BY <1>1, <1>4, GiveUpNewKeeps
<1>5. ASSUME NEW d \in GetDp, NEW h \in Duplicates(d, cmd[t].flow),
             NEW g \in ToUpdate(d, h, flow[cmd[t].flow].key), UpdateActs(t, g)
      PROVE  IndInv'
  <2>1. CmdHolds(t)  BY DEF IndInv, CmdInv
  <2>2. cmd[t].flow \in FlowObj  BY <1>1, <2>1, OwnFlow DEF CmdHolds
  <2>3. g \in FlowObj /\ flow[g].st = "table"  BY <2>2, ToUpdateInTable
  <2>4. QED  BY <1>1, <1>5, <2>3, UpdateActsKeeps
<1>6. QED  BY <1>2, <1>3, <1>4, <1>5 DEF NewFlow

-----------------------------------------------------------------------------
(* Packets *)

\* What waits when a reader leaves, and who has the actions that wait.
LEMMA LeavesHasAct ==
  ASSUME MemoryTypes, NEW c \in Reader, NEW a
  PROVE  (\E y \in Leaves(c): WaitHas(y, a)) <=> (\E x \in deferred: WaitHas(x, a))
BY LeavesEach DEF WaitHas

LEMMA OwnerLeft ==
  ASSUME NEW a, OneOwner(a), act'[a] = act[a],
         \A f \in FlowObj: flow'[f].act = a <=> flow[f].act = a,
         \A t \in Thread: (cmd'[t].act = a \/ cmd'[t].old = a) <=> (cmd[t].act = a \/ cmd[t].old = a),
         (\E y \in deferred': WaitHas(y, a)) <=> (\E x \in deferred: WaitHas(x, a))
  PROVE  OneOwner(a)'
<1>1. (\E y \in deferred': WaitHas(y, a)') <=> (\E x \in deferred: WaitHas(x, a))  BY DEF WaitHas
<1>2. \A f \in FlowObj: FlowHas(f, a)' <=> FlowHas(f, a)  BY DEF FlowHas
<1>3. \A t \in Thread: CmdHas(t, a)' <=> CmdHas(t, a)  BY DEF CmdHas
<1>4. QED  BY <1>1, <1>2, <1>3 DEF OneOwner

LEMMA DeferredLeft ==
  ASSUME IndInv, NEW c \in Reader, UNCHANGED <<dp, vport>>, deferred' \in {deferred, Leaves(c)},
         \A f \in FlowObj: flow[f].st = "removed" => flow'[f].st = "removed",
         \A x \in deferred: x.kind = "flow" => \A t \in Thread: cmd'[t].flow # x.obj
  PROVE  DeferredTypes' /\ DeferredInv'
<1>1. CASE deferred' = deferred  BY <1>1, DeferredKept
<1>2. CASE deferred' = Leaves(c)
  <2>1. MemoryTypes /\ DeferredInv  BY DEF IndInv
  <2>2. \A x \in deferred: x.kind = "flow" => x.obj \in FlowObj  BY <2>1, WaitingFields
  <2>3. DeferredTypes'  BY <1>2, <2>1, LeavesEach DEF DeferredTypes
  <2>4. ASSUME NEW y \in deferred', NEW z \in deferred', y.kind = z.kind, y.obj = z.obj
        PROVE  y = z
    <3>1. /\ y = [kind |-> y.kind, obj |-> y.obj, wait |-> y.wait]
          /\ z = [kind |-> z.kind, obj |-> z.obj, wait |-> z.wait]
      BY <1>2, <2>1, LeavesEach
    <3>2. PICK x \in deferred: y.kind = x.kind /\ y.obj = x.obj /\ y.wait = x.wait \ {c}
      BY <1>2, <2>1, LeavesEach
    <3>3. PICK w \in deferred: z.kind = w.kind /\ z.obj = w.obj /\ z.wait = w.wait \ {c}
      BY <1>2, <2>1, LeavesEach
    <3>4. x.kind = w.kind /\ x.obj = w.obj  BY <2>4, <3>2, <3>3
    <3>5. x = w  BY <2>1, <3>4, Zenon DEF DeferredInv
    <3>6. QED  BY <2>4, <3>1, <3>2, <3>3, <3>5, Zenon
  <2>5. ASSUME NEW y \in deferred'
        PROVE  /\ y.kind = "vport" => vport'[y.obj].st = "dead"
               /\ y.kind = "dp" => dp'[y.obj].st = "dead"
               /\ y.kind = "flow" => flow'[y.obj].st = "removed"
                                     /\ \A t \in Thread: cmd'[t].flow # y.obj
    <3>1. PICK x \in deferred: y.kind = x.kind /\ y.obj = x.obj
      BY <1>2, <2>1, LeavesEach
    <3>2. QED  BY <2>1, <2>2, <3>1 DEF DeferredInv
  <2>6. QED  BY <2>3, <2>4, <2>5 DEF DeferredInv
<1>3. QED  BY <1>1, <1>2

\* What the others hold when reader c makes a step.
LEMMA OthersRead ==
  ASSUME IndInv, NEW c \in Reader, NEW b \in Reader, b # c, cpu'[b] = cpu[b],
         UNCHANGED <<dp, vport>>, deferred' \in {deferred, Leaves(c)},
         \A f \in FlowObj: flow[f].st \in {"table", "removed"} => flow'[f] = flow[f],
         \A t \in Thread: /\ cmd'[t].old = cmd[t].old
                          /\ t # c => cmd'[t] = cmd[t] /\ (cmd[t].flow \in FlowObj =>
                                                             flow'[cmd[t].flow] = flow[cmd[t].flow])
  PROVE  HeldOf(b)'
<1>1. MemoryTypes /\ HeldOf(b)  BY DEF IndInv, HeldInv
<1>2. \A y \in deferred': \E x \in deferred:
          x.kind = y.kind /\ x.obj = y.obj /\ (b \in x.wait => b \in y.wait)
  <2>1. CASE deferred' = deferred  BY <2>1
  <2>2. CASE deferred' = Leaves(c)  BY <1>1, <2>2, LeavesEach
  <2>3. QED  BY <2>1, <2>2
<1>3. \A k, o: WaitsFor(k, o, b) => WaitsFor(k, o, b)'  BY <1>2, WaitsKept
<1>4. SUFFICES ASSUME cpu[b].pc # "idle"
               PROVE  /\ HeldPort(b) => HeldPort(b)'
                      /\ cpu[b].flow # Null /\ HeldFlow(b) => HeldFlow(b)'
                      /\ cpu[b].act # Null /\ HeldAct(b) => HeldAct(b)'
                      /\ b \in Thread => cmd'[b].pc = cmd[b].pc /\ cmd'[b].flow = cmd[b].flow
  BY <1>1, HeldOfKept
<1>5. HeldPort(b) => HeldPort(b)'  BY <1>1, <1>2, HeldPortKept
<1>6. ASSUME NEW f \in FlowObj, f = cpu[b].flow, HeldFlow(b)
      PROVE  flow'[f] = flow[f] /\ HeldFlow(b)'
  <2>1. CASE flow[f].st = "table" /\ flow[f].dp = cpu[b].dp
    BY <1>6, <2>1 DEF HeldFlow
  <2>2. CASE flow[f].st = "removed" /\ WaitsFor("flow", f, b)
    <3>1. WaitsFor("flow", f, b)'  BY <1>3, <2>2
    <3>2. QED  BY <1>6, <2>2, <3>1 DEF HeldFlow
  <2>3. CASE b \in Thread /\ flow[f].st = "new" /\ cmd[b].flow = f
    BY <1>6, <2>3 DEF HeldFlow
  <2>4. QED  BY <1>6, <2>1, <2>2, <2>3 DEF HeldFlow
<1>7. cpu[b].flow # Null => cpu[b].flow \in FlowObj
  BY <1>1 DEF MemoryTypes, CpuTypes, CpuRecords, Opt
<1>8. cpu[b].flow # Null /\ HeldFlow(b) => HeldFlow(b)'  BY <1>6, <1>7
<1>9. ASSUME cpu[b].act # Null, HeldAct(b) PROVE HeldAct(b)'
  <2>1. PICK a: a = cpu[b].act  OBVIOUS
  <2>2. CASE FlowHas(cpu[b].flow, a)
    <3>1. cpu[b].flow # Null /\ HeldFlow(b)
      BY <1>1, <1>9 DEF HeldOf, MemoryTypes, CpuTypes, CpuRecords
    <3>2. PICK f \in FlowObj: f = cpu[b].flow  BY <1>7, <3>1
    <3>3. flow'[f] = flow[f]  BY <1>6, <3>1, <3>2
    <3>4. QED  BY <2>1, <2>2, <3>2, <3>3 DEF HeldAct, FlowHas
  <2>3. CASE \E t \in Thread: cmd[t].old = a
    BY <2>1, <2>3 DEF HeldAct
  <2>4. CASE (\E x \in deferred: WaitHas(x, a)) /\ WaitsFor("act", a, b)
    <3>1. \E y \in deferred': WaitHas(y, a)  BY <1>1, <2>4, LeavesHasAct
    <3>2. WaitsFor("act", a, b)'  BY <1>3, <2>4
    <3>3. QED  BY <2>1, <3>1, <3>2 DEF HeldAct, WaitHas
  <2>5. QED  BY <1>9, <2>1, <2>2, <2>3, <2>4 DEF HeldAct
<1>10. b \in Thread => cmd'[b] = cmd[b]  OBVIOUS
<1>11. QED  BY <1>5, <1>8, <1>9, <1>10

\* A step of reader c that changes no table.
LEMMA ReaderStepKeeps ==
  ASSUME IndInv, NEW c \in Reader, CpuTypes', FaultsInv', HeldOf(c)',
         UNCHANGED <<dp, dps, vport, flow, act, cmd>>, deferred' \in {deferred, Leaves(c)},
         \A b \in Reader: b # c => cpu'[b] = cpu[b]
  PROVE  IndInv'
<1>1. MemoryTypes /\ DeferredInv /\ ActsInv  BY DEF IndInv
<1>2. DeferredTypes' /\ DeferredInv'
  BY <1>1, DeferredLeft DEF DeferredInv
<1>3. MemoryTypes'  BY <1>1, <1>2 DEF MemoryTypes, PortTypes, FlowTypes, CmdTypes
<1>4. PortsInv' /\ CmdInv'  BY DEF IndInv, PortsInv, CmdInv, CmdHolds
<1>5. ActsInv'
  <2>1. ASSUME NEW a \in ActObj PROVE OneOwner(a)'
    <3>1. OneOwner(a)  BY <1>1 DEF ActsInv
    <3>2. (\E y \in deferred': WaitHas(y, a)) <=> (\E x \in deferred: WaitHas(x, a))
      BY <1>1, LeavesHasAct
    <3>3. QED  BY <3>1, <3>2, OwnerLeft
  <2>2. QED  BY <1>1, <2>1 DEF ActsInv
<1>6. HeldInv'
  <2>1. ASSUME NEW b \in Reader, b # c PROVE HeldOf(b)'  BY <2>1, OthersRead
  <2>2. QED  BY <2>1 DEF HeldInv
<1>7. QED  BY <1>2, <1>3, <1>4, <1>5, <1>6 DEF IndInv

LEMMA IdleHolds ==
  ASSUME NEW c \in Reader, cpu'[c] = Idle
  PROVE  HeldOf(c)'
BY DEF HeldOf, Idle

LEMMA IdleType == Idle \in CpuRecords
BY DEF Idle, CpuRecords, Opt

\* A port that is attached, and its datapath, do not wait to be freed.
LEMMA AttachedHeld ==
  ASSUME IndInv, NEW c \in Reader, NEW v \in Attached
  PROVE  /\ v \in VportObj /\ v # Null /\ vport[v].st = "live" /\ WaitsFor("vport", v, c)
         /\ vport[v].dp \in DpObj /\ vport[v].dp # Null
         /\ dp[vport[v].dp].st = "live" /\ WaitsFor("dp", vport[v].dp, c)
<1>1. v \in VportObj /\ vport[v].st = "live"  BY DEF Attached
<1>2. vport[v].dp \in DpObj /\ dp[vport[v].dp].st = "live"  BY <1>1 DEF IndInv, PortsInv
<1>3. WaitsFor("vport", v, c) /\ WaitsFor("dp", vport[v].dp, c)
  BY <1>1, <1>2 DEF IndInv, DeferredInv, WaitsFor
<1>4. QED  BY <1>1, <1>2, <1>3, DatapathAssumption

\* A processor is not a thread.
LEMMA CpuReads == \A c \in Cpu: c \in Reader /\ c \notin Thread
BY DatapathAssumption DEF Reader

LEMMA ReceiveKeeps == ASSUME IndInv, NEW c \in Cpu, Receive(c) PROVE IndInv'
<1>1. PICK v \in Attached, k \in Key:
        /\ cpu[c].pc = "idle"
        /\ cpu' = [cpu EXCEPT ![c] = [pc |-> "lookup", vport |-> v, dp |-> Null, key |-> k,
                                      flow |-> Null, act |-> Null]]
        /\ UNCHANGED <<portVars, flowVars, cmd, deferred, dump, registered, faults>>
  BY DEF Receive
<1>2. c \in Reader /\ c \notin Thread  BY CpuReads
<1>3. /\ v \in VportObj /\ v # Null /\ vport[v].st = "live" /\ WaitsFor("vport", v, c)
      /\ vport[v].dp \in DpObj /\ vport[v].dp # Null
      /\ dp[vport[v].dp].st = "live" /\ WaitsFor("dp", vport[v].dp, c)
  BY <1>2, AttachedHeld
<1>4. PICK r \in CpuRecords: r = [pc |-> "lookup", vport |-> v, dp |-> Null, key |-> k,
                                  flow |-> Null, act |-> Null]
  BY <1>3 DEF CpuRecords, Opt
<1>5. r.pc = "lookup" /\ r.vport = v /\ r.dp = Null /\ r.flow = Null /\ r.act = Null  BY <1>4
<1>6. /\ cpu \in [Reader -> CpuRecords] /\ cpu' = [cpu EXCEPT ![c] = r]
      /\ UNCHANGED <<dp, dps, vport, flow, act, cmd, deferred, faults>>
  BY <1>1, <1>4 DEF IndInv, MemoryTypes, CpuTypes, portVars, flowVars
<1>7. CpuTypes' /\ cpu'[c] = r /\ \A b \in Reader: b # c => cpu'[b] = cpu[b]
  BY <1>2, <1>6 DEF CpuTypes
<1>8. PICK d \in DpObj: d = vport[v].dp  BY <1>3
<1>9. WaitsFor("vport", v, c)' /\ WaitsFor("dp", d, c)'  BY <1>3, <1>6, <1>8 DEF WaitsFor
<1>10. HeldPort(c)'  BY <1>3, <1>5, <1>6, <1>7, <1>8, <1>9 DEF HeldPort
<1>11. HeldOf(c)'  BY <1>2, <1>5, <1>7, <1>10 DEF HeldOf
<1>12. FaultsInv'  BY <1>6 DEF IndInv, FaultsInv
<1>13. QED  BY <1>2, <1>6, <1>7, <1>11, <1>12, ReaderStepKeeps

LEMMA LookupKeeps == ASSUME IndInv, NEW c \in Cpu, Lookup(c) PROVE IndInv'
<1>1. c \in Reader /\ c \notin Thread  BY CpuReads
<1>2. /\ cpu \in [Reader -> CpuRecords] /\ cpu[c].pc = "lookup" /\ HeldOf(c)
      /\ UNCHANGED <<dp, dps, vport, flow, act, cmd, deferred, faults>>
  BY <1>1 DEF IndInv, MemoryTypes, CpuTypes, HeldInv, portVars, flowVars, Lookup
<1>3. HeldPort(c) /\ cpu[c].dp = Null /\ cpu[c].flow = Null /\ cpu[c].act = Null
  BY <1>2 DEF HeldOf
<1>4. PICK v \in VportObj: v = cpu[c].vport
  BY <1>1, <1>2, <1>3, DatapathAssumption DEF HeldPort, CpuRecords, Opt
<1>5. PICK d \in DpObj: d = vport[v].dp
  BY <1>3, <1>4 DEF IndInv, MemoryTypes, PortTypes, HeldPort, Opt
<1>6. PICK r \in CpuRecords:
        /\ cpu' = [cpu EXCEPT ![c] = r]
        /\ r.vport = v /\ r.dp = d /\ r.act = Null
        /\ \/ r.pc = "upcall" /\ r.flow = Null
           \/ r.pc = "found" /\ r.flow \in FlowObj /\ flow[r.flow].st = "table" /\ flow[r.flow].dp = d
  <2>1. CASE \E f \in LookupKey(d, cpu[c].key):
               cpu' = [cpu EXCEPT ![c].pc = "found", ![c].dp = d, ![c].flow = f]
    <3>1. PICK f \in LookupKey(d, cpu[c].key):
            cpu' = [cpu EXCEPT ![c].pc = "found", ![c].dp = d, ![c].flow = f]
      BY <2>1
    <3>2. f \in FlowObj /\ flow[f].st = "table" /\ flow[f].dp = d  BY DEF LookupKey, Flows
    <3>3. PICK r \in CpuRecords: r = [cpu[c] EXCEPT !.pc = "found", !.dp = d, !.flow = f]
      BY <1>1, <1>2, <3>2 DEF CpuRecords, Opt
    <3>4. r.pc = "found" /\ r.vport = v /\ r.dp = d /\ r.flow = f /\ r.act = Null
      BY <1>1, <1>2, <1>3, <1>4, <3>3 DEF CpuRecords
    <3>5. cpu' = [cpu EXCEPT ![c] = r]  BY <1>1, <1>2, <3>1, <3>3
    <3>6. QED  BY <3>2, <3>4, <3>5
  <2>2. CASE cpu' = [cpu EXCEPT ![c].pc = "upcall", ![c].dp = d]
    <3>1. PICK r \in CpuRecords: r = [cpu[c] EXCEPT !.pc = "upcall", !.dp = d]
      BY <1>1, <1>2 DEF CpuRecords, Opt
    <3>2. r.pc = "upcall" /\ r.vport = v /\ r.dp = d /\ r.flow = Null /\ r.act = Null
      BY <1>1, <1>2, <1>3, <1>4, <3>1 DEF CpuRecords
    <3>3. cpu' = [cpu EXCEPT ![c] = r]  BY <1>1, <1>2, <2>2, <3>1
    <3>4. QED  BY <3>2, <3>3
  <2>3. QED  BY <1>4, <1>5, <2>1, <2>2 DEF Lookup
<1>7. CpuTypes' /\ cpu'[c] = r /\ \A b \in Reader: b # c => cpu'[b] = cpu[b]
  BY <1>1, <1>2, <1>6 DEF CpuTypes
<1>8. HeldPort(c)'
  <2>1. WaitsFor("vport", v, c) /\ WaitsFor("dp", d, c)  BY <1>3, <1>4, <1>5 DEF HeldPort
  <2>2. WaitsFor("vport", v, c)' /\ WaitsFor("dp", d, c)'  BY <1>2, <2>1 DEF WaitsFor
  <2>3. QED  BY <1>2, <1>3, <1>4, <1>5, <1>6, <1>7, <2>2 DEF HeldPort
<1>9. r.flow # Null => HeldFlow(c)'  BY <1>2, <1>6, <1>7 DEF HeldFlow
<1>10. r.dp # Null /\ (r.pc = "found" => r.flow # Null)  BY <1>6, DatapathAssumption
<1>11. HeldOf(c)'  BY <1>1, <1>6, <1>7, <1>8, <1>9, <1>10 DEF HeldOf
<1>12. FaultsInv'  BY <1>2 DEF IndInv, FaultsInv
<1>13. QED  BY <1>1, <1>2, <1>7, <1>11, <1>12, ReaderStepKeeps

LEMMA TakeActsKeeps == ASSUME IndInv, NEW c \in Cpu, TakeActs(c) PROVE IndInv'
<1>1. c \in Reader /\ c \notin Thread  BY CpuReads
<1>2. /\ cpu \in [Reader -> CpuRecords] /\ cpu[c].pc = "found" /\ HeldOf(c)
      /\ UNCHANGED <<dp, dps, vport, flow, act, cmd, deferred, faults>>
  BY <1>1 DEF IndInv, MemoryTypes, CpuTypes, HeldInv, portVars, flowVars, TakeActs
<1>3. HeldPort(c) /\ cpu[c].dp # Null /\ cpu[c].flow # Null /\ HeldFlow(c)
  BY <1>2 DEF HeldOf
<1>4. PICK f \in FlowObj: f = cpu[c].flow  BY <1>1, <1>2, <1>3 DEF CpuRecords, Opt
<1>5. PICK a \in Opt(ActObj): a = flow[f].act
  BY DEF IndInv, MemoryTypes, FlowTypes, FlowRecords
<1>6. PICK r \in CpuRecords: r = [cpu[c] EXCEPT !.pc = "execute", !.act = a]
  BY <1>1, <1>2 DEF CpuRecords
<1>7. r.pc = "execute" /\ r.vport = cpu[c].vport /\ r.dp = cpu[c].dp /\ r.flow = f /\ r.act = a
  BY <1>1, <1>2, <1>4, <1>6 DEF CpuRecords
<1>8. cpu' = [cpu EXCEPT ![c] = r]  BY <1>1, <1>2, <1>4, <1>5, <1>6 DEF TakeActs
<1>9. CpuTypes' /\ cpu'[c] = r /\ \A b \in Reader: b # c => cpu'[b] = cpu[b]
  BY <1>1, <1>2, <1>8 DEF CpuTypes
<1>10. \A k, o: WaitsFor(k, o, c) => WaitsFor(k, o, c)'  BY <1>2 DEF WaitsFor
<1>11. HeldPort(c)'
  <2>1. PICK v: v = cpu[c].vport  OBVIOUS
  <2>2. PICK d: d = vport[v].dp  OBVIOUS
  <2>3. WaitsFor("vport", v, c)' /\ WaitsFor("dp", d, c)'
    BY <1>3, <1>10, <2>1, <2>2 DEF HeldPort
  <2>4. QED  BY <1>2, <1>3, <1>7, <1>9, <2>1, <2>2, <2>3 DEF HeldPort
<1>12. HeldFlow(c)'
  <2>1. WaitsFor("flow", f, c) => WaitsFor("flow", f, c)'  BY <1>10
  <2>2. QED  BY <1>2, <1>3, <1>4, <1>7, <1>9, <2>1 DEF HeldFlow
<1>13. HeldAct(c)'  BY <1>2, <1>5, <1>7, <1>9 DEF HeldAct, FlowHas
<1>14. HeldOf(c)'  BY <1>1, <1>3, <1>4, <1>7, <1>9, <1>11, <1>12, <1>13 DEF HeldOf
<1>15. FaultsInv'  BY <1>2 DEF IndInv, FaultsInv
<1>16. QED  BY <1>1, <1>2, <1>9, <1>14, <1>15, ReaderStepKeeps

\* Wherever an upcall fails it frees what it owns.
LEMMA FreesWhatItOwns ==
  \A step \in ToSet(UpcallSteps), tagged \in BOOLEAN: Owned(step, tagged) = Freed(step, tagged)
<1>1. ToSet(UpcallSteps) \subseteq {"ifindex", "clone", "vlan", "size", "alloc", "copy", "send", "sent"}
  BY DEF ToSet, UpcallSteps
<1>2. QED  BY <1>1 DEF Owned, Freed

LEMMA LastStepKeeps == ASSUME IndInv, NEW c \in Cpu, Upcall(c) \/ Execute(c) PROVE IndInv'
<1>1. c \in Reader  BY CpuReads
<1>2. /\ cpu \in [Reader -> CpuRecords] /\ cpu' = [cpu EXCEPT ![c] = Idle]
      /\ UNCHANGED <<dp, dps, vport, flow, act, cmd>> /\ deferred' = Leaves(c)
  BY DEF IndInv, MemoryTypes, CpuTypes, portVars, flowVars, Upcall, Execute
<1>3. CpuTypes' /\ cpu'[c] = Idle /\ \A b \in Reader: b # c => cpu'[b] = cpu[b]
  BY <1>1, <1>2, IdleType DEF CpuTypes
<1>4. FaultsInv'
  <2>1. FaultsInv  BY DEF IndInv
  <2>2. CASE Upcall(c)
    <3>1. PICK step \in ToSet(UpcallSteps), tagged \in BOOLEAN:
            faults' = faults \cup
                        IF Owned(step, tagged) # Freed(step, tagged) THEN {"buffer"} ELSE {}
      BY <2>2, Zenon DEF Upcall
    <3>2. Owned(step, tagged) = Freed(step, tagged)  BY FreesWhatItOwns, Zenon
    <3>3. faults' = faults  BY <3>1, <3>2
    <3>4. QED  BY <2>1, <3>3 DEF FaultsInv
  <2>3. CASE Execute(c)  BY <2>1, <2>3 DEF FaultsInv, Execute
  <2>4. QED  BY <2>2, <2>3
<1>5. HeldOf(c)'  BY <1>1, <1>3, IdleHolds
<1>6. QED  BY <1>1, <1>2, <1>3, <1>4, <1>5, ReaderStepKeeps

LEMMA StartPacketKeeps == ASSUME IndInv, NEW t \in Thread, StartPacket(t) PROVE IndInv'
<1>1. cmd[t].pc = "packet" /\ cpu[t].pc = "idle" /\ CmdHolds(t)
  BY DEF IndInv, CmdInv, StartPacket
<1>2. CASE GiveUp(t, Null)  BY <1>1, <1>2, GiveUpPacketKeeps
<1>3. ASSUME NEW d \in GetDp, NEW v \in PortsOf(d),
             cpu' = [cpu EXCEPT ![t] = [pc |-> "execute", vport |-> v, dp |-> d, key |-> Null,
                                        flow |-> cmd[t].flow, act |-> flow[cmd[t].flow].act]],
             UNCHANGED <<portVars, flowVars, cmd, deferred, dump, registered, faults, budget>>
      PROVE  IndInv'
  <2>1. t \in Reader  BY DEF Reader
  <2>2. v \in Attached /\ vport[v].dp = d  BY DEF PortsOf
  <2>3. /\ v \in VportObj /\ v # Null /\ vport[v].st = "live" /\ WaitsFor("vport", v, t)
        /\ d \in DpObj /\ d # Null /\ dp[d].st = "live" /\ WaitsFor("dp", d, t)
    BY <2>1, <2>2, AttachedHeld
  <2>4. PICK f \in FlowObj: f = cmd[t].flow  BY <1>1, OwnFlow DEF CmdHolds
  <2>5. f # Null /\ flow[f].st = "new"  BY <1>1, <2>4, DatapathAssumption DEF CmdHolds
  <2>6. PICK a \in Opt(ActObj): a = flow[f].act
    BY DEF IndInv, MemoryTypes, FlowTypes, FlowRecords
  <2>7. PICK r \in CpuRecords: r = [pc |-> "execute", vport |-> v, dp |-> d, key |-> Null,
                                    flow |-> f, act |-> a]
    BY <2>3 DEF CpuRecords, Opt
  <2>8. r.pc = "execute" /\ r.vport = v /\ r.dp = d /\ r.flow = f /\ r.act = a  BY <2>7
  <2>9. /\ cpu \in [Reader -> CpuRecords] /\ cpu' = [cpu EXCEPT ![t] = r]
        /\ UNCHANGED <<dp, dps, vport, flow, act, cmd, deferred, faults>>
    BY <1>3, <2>4, <2>6, <2>7 DEF IndInv, MemoryTypes, CpuTypes, portVars, flowVars
  <2>10. CpuTypes' /\ cpu'[t] = r /\ \A b \in Reader: b # t => cpu'[b] = cpu[b]
    BY <2>1, <2>9 DEF CpuTypes
  <2>11. WaitsFor("vport", v, t)' /\ WaitsFor("dp", d, t)'  BY <2>3, <2>9 DEF WaitsFor
  <2>12. HeldPort(t)'  BY <2>2, <2>3, <2>8, <2>9, <2>10, <2>11 DEF HeldPort
  <2>13. HeldFlow(t)'  BY <2>4, <2>5, <2>8, <2>9, <2>10 DEF HeldFlow
  <2>14. HeldAct(t)'  BY <2>6, <2>8, <2>9, <2>10 DEF HeldAct, FlowHas
  <2>15. HeldOf(t)'
    BY <1>1, <2>3, <2>4, <2>5, <2>8, <2>9, <2>10, <2>12, <2>13, <2>14 DEF HeldOf
  <2>16. FaultsInv'  BY <2>9 DEF IndInv, FaultsInv
  <2>17. QED  BY <2>1, <2>9, <2>10, <2>15, <2>16, ReaderStepKeeps
<1>4. QED  BY <1>2, <1>3 DEF StartPacket

LEMMA EndPacketKeeps == ASSUME IndInv, NEW t \in Thread, EndPacket(t) PROVE IndInv'
<1>1. t \in Reader /\ cpu[t].pc = "execute"  BY DEF Reader, EndPacket
<1>2. cmd[t].pc = "packet" /\ CmdHolds(t)  BY <1>1 DEF IndInv, CmdInv, HeldInv, HeldOf
<1>3. /\ cmd[t].flow # Null /\ cmd[t].act = Null /\ cmd[t].old = Null
      /\ flow[cmd[t].flow].act # Null
  BY <1>2 DEF CmdHolds
<1>4. PICK f \in FlowObj: f = cmd[t].flow  BY <1>2, <1>3, OwnFlow
<1>5. /\ flow[f].st = "new"
      /\ \A u \in Thread: u # t => cmd[u].flow # f
      /\ \A x \in deferred: x.kind = "flow" => x.obj # f
  BY <1>2, <1>3, <1>4, OwnFlow
<1>6. PICK a \in ActObj: a = flow[f].act
  BY <1>3, <1>4 DEF IndInv, MemoryTypes, FlowTypes, FlowRecords, Opt
<1>7. /\ MemoryTypes /\ FlowTypes /\ CmdTypes /\ CpuTypes /\ ActsInv /\ DeferredInv
      /\ UNCHANGED <<dp, dps, vport>>
  BY DEF IndInv, MemoryTypes, portVars, EndPacket
<1>8. /\ act[a] = "used"
      /\ \A g \in FlowObj: flow[g].act = a => g = f
      /\ \A s \in Thread: cmd[s].act # a /\ cmd[s].old # a
      /\ \A x \in deferred: ~ WaitHas(x, a)
  BY <1>6, <1>7, FlowOwns
<1>9. a # Null  BY DatapathAssumption
<1>10. /\ flow' = [flow EXCEPT ![f] = NoFlow] /\ act' = [act EXCEPT ![a] = "free"]
       /\ faults' = faults
       /\ cmd' = [cmd EXCEPT ![t] = NoCmd] /\ cpu' = [cpu EXCEPT ![t] = Idle]
       /\ deferred' = Leaves(t)
  BY <1>4, <1>6, <1>8, <1>9 DEF EndPacket, FreeFlow, FreeAct, DoubleFree
<1>11. /\ \A g \in FlowObj: flow'[g] = IF g = f THEN NoFlow ELSE flow[g]
       /\ \A b \in ActObj: act'[b] = IF b = a THEN "free" ELSE act[b]
       /\ \A s \in Thread: cmd'[s] = IF s = t THEN NoCmd ELSE cmd[s]
       /\ cpu'[t] = Idle /\ \A b \in Reader: b # t => cpu'[b] = cpu[b]
  BY <1>1, <1>7, <1>10 DEF FlowTypes, CmdTypes, CpuTypes
<1>12. /\ NoFlow.st = "free" /\ NoFlow.act = Null
       /\ NoCmd.pc = "idle" /\ NoCmd.flow = Null /\ NoCmd.act = Null /\ NoCmd.old = Null
  BY DEF NoFlow, NoCmd
<1>13. DeferredTypes' /\ DeferredInv'
  <2>1. \A x \in deferred: x.kind = "flow" => \A s \in Thread: cmd'[s].flow # x.obj
    <3>1. \A x \in deferred: x.kind = "flow" => x.obj # Null
      BY <1>7, WaitingFields, DatapathAssumption
    <3>2. QED  BY <1>7, <1>11, <1>12, <3>1 DEF DeferredInv
  <2>2. \A g \in FlowObj: flow[g].st = "removed" => flow'[g].st = "removed"
    BY <1>5, <1>11
  <2>3. QED  BY <1>1, <1>7, <1>10, <2>1, <2>2, DeferredLeft
<1>14. MemoryTypes'
  <2>1. FlowTypes' /\ CmdTypes' /\ CpuTypes'
    BY <1>7, <1>10, NoFlowType, NoCmdType, IdleType DEF FlowTypes, CmdTypes, CpuTypes
  <2>2. QED  BY <1>7, <1>13, <2>1 DEF MemoryTypes, PortTypes
<1>15. CmdInv'
  <2>1. CmdHolds(t)'  BY <1>11, <1>12 DEF CmdHolds
  <2>2. QED  BY <1>4, <1>11, <1>12, <2>1, OthersHold
<1>16. ActsInv'
  <2>1. ASSUME NEW b \in ActObj PROVE OneOwner(b)'
    <3>1. b # Null /\ OneOwner(b)  BY <1>7, DatapathAssumption DEF ActsInv
    <3>2. (\E y \in deferred': WaitHas(y, b)) <=> (\E x \in deferred: WaitHas(x, b))
      BY <1>1, <1>7, <1>10, LeavesHasAct
    <3>3. CASE b = a
      <4>1. /\ \A g \in FlowObj: flow'[g].act # a
            /\ \A s \in Thread: cmd'[s].act # a /\ cmd'[s].old # a
            /\ \A x \in deferred': ~ WaitHas(x, a)
        BY <1>8, <1>9, <1>11, <1>12, <3>2, <3>3
      <4>2. act'[a] # "used"  BY <1>11
      <4>3. QED  BY <3>3, <4>1, <4>2, OwnerIsNobody
    <3>4. CASE b # a
      BY <1>3, <1>6, <1>11, <1>12, <3>1, <3>2, <3>4, OwnerLeft
    <3>5. QED  BY <3>3, <3>4
  <2>2. \A g \in FlowObj:
          /\ flow'[g].st = "free" => flow'[g].act = Null
          /\ flow'[g].st \in {"table", "removed"} => flow'[g].act # Null
    BY <1>7, <1>11, <1>12 DEF ActsInv
  <2>3. QED  BY <2>1, <2>2 DEF ActsInv
<1>17. HeldInv'
  <2>1. ASSUME NEW b \in Reader, b # t PROVE HeldOf(b)'
    <3>1. \A s \in Thread: /\ cmd'[s].old = cmd[s].old
                           /\ s # t => cmd'[s] = cmd[s] /\ (cmd[s].flow \in FlowObj =>
                                         flow'[cmd[s].flow] = flow[cmd[s].flow])
      BY <1>3, <1>5, <1>11, <1>12
    <3>2. \A g \in FlowObj: flow[g].st \in {"table", "removed"} => flow'[g] = flow[g]
      BY <1>5, <1>11
    <3>3. QED  BY <1>1, <1>7, <1>10, <1>11, <2>1, <3>1, <3>2, OthersRead
  <2>2. HeldOf(t)'  BY <1>1, <1>11, IdleHolds
  <2>3. QED  BY <2>1, <2>2 DEF HeldInv
<1>18. PortsInv' /\ FaultsInv'  BY <1>7, <1>10 DEF IndInv, PortsInv, FaultsInv
<1>19. QED  BY <1>13, <1>14, <1>15, <1>16, <1>17, <1>18 DEF IndInv

-----------------------------------------------------------------------------
(* Reclaiming memory *)

\* When nobody uses what is freed, the rest of the invariant holds on.
LEMMA ReclaimFrame ==
  ASSUME IndInv, NEW x \in deferred, x.wait = {}, deferred' = deferred \ {x},
         UNCHANGED <<dps, cpu, cmd, faults>>, PortTypes', FlowTypes', ActsInv',
         \A v \in VportObj:
             \/ vport'[v] = vport[v]
             \/ vport'[v].st = "free" /\ x.kind = "vport" /\ x.obj = v,
         \A d \in DpObj: (x.kind = "dp" /\ x.obj = d) \/ dp'[d] = dp[d],
         \A f \in FlowObj:
             \/ flow'[f] = flow[f]
             \/ x.kind = "flow" /\ x.obj = f
             \/ x.kind = "dp" /\ flow[f].st = "table" /\ flow[f].dp = x.obj
  PROVE  IndInv'
<1>1. MemoryTypes /\ DeferredInv /\ CmdInv  BY DEF IndInv
<1>2. \A y \in deferred': y \in deferred /\ ~ (y.kind = x.kind /\ y.obj = x.obj)
  BY <1>1 DEF DeferredInv
<1>3. MemoryTypes'  BY <1>1 DEF MemoryTypes, CpuTypes, CmdTypes, DeferredTypes
<1>4. PortsInv'
  <2>1. PortsInv  BY DEF IndInv
  <2>2. \A d \in DpObj: dp[d].st = "live" => dp'[d] = dp[d]  BY <1>1 DEF DeferredInv
  <2>3. \A v \in VportObj: vport'[v].st = "live" => vport'[v] = vport[v]  OBVIOUS
  <2>4. QED  BY <1>1, <2>1, <2>2, <2>3 DEF PortsInv, MemoryTypes, PortTypes
<1>5. DeferredInv'
  <2>1. ASSUME NEW y \in deferred'
        PROVE  /\ y.kind = "vport" => vport'[y.obj].st = "dead"
               /\ y.kind = "dp" => dp'[y.obj].st = "dead"
               /\ y.kind = "flow" => flow'[y.obj].st = "removed"
                                     /\ \A t \in Thread: cmd'[t].flow # y.obj
    <3>1. y \in deferred /\ ~ (y.kind = x.kind /\ y.obj = x.obj)  BY <1>2
    <3>2. /\ y.kind = "vport" => y.obj \in VportObj /\ vport[y.obj].st = "dead"
          /\ y.kind = "dp" => y.obj \in DpObj /\ dp[y.obj].st = "dead"
          /\ y.kind = "flow" => y.obj \in FlowObj /\ flow[y.obj].st = "removed"
                                /\ \A t \in Thread: cmd[t].flow # y.obj
      BY <1>1, <3>1, WaitingFields DEF DeferredInv
    <3>3. QED  BY <3>1, <3>2
  <2>2. \A y, z \in deferred': y.kind = z.kind /\ y.obj = z.obj => y = z
    BY <1>1, <1>2 DEF DeferredInv
  <2>3. QED  BY <2>1, <2>2 DEF DeferredInv
<1>6. CmdInv'
  <2>1. ASSUME NEW t \in Thread PROVE CmdHolds(t)'
    <3>1. CASE cmd[t].flow = Null  BY <1>1, <3>1, CmdKept DEF CmdInv
    <3>2. CASE cmd[t].flow # Null
      <4>1. PICK f \in FlowObj: f = cmd[t].flow  BY <1>1, <3>2, CmdsTyped
      <4>2. flow[f].st # "table"  BY <4>1, CmdFlowInNoTable
      <4>3. flow'[f] = flow[f]  BY <1>1, <4>1, <4>2 DEF DeferredInv
      <4>4. QED  BY <1>1, <4>1, <4>3, CmdKept DEF CmdInv
    <3>3. QED  BY <3>1, <3>2
  <2>2. QED  BY <1>1, <2>1 DEF CmdInv
<1>7. HeldInv'
  <2>1. ASSUME NEW c \in Reader, cpu[c].pc # "idle"
        PROVE  /\ HeldPort(c) => HeldPort(c)'
               /\ cpu[c].flow # Null /\ HeldFlow(c) => HeldFlow(c)'
               /\ cpu[c].act # Null /\ HeldAct(c) => HeldAct(c)'
    <3>1. \A y \in deferred': c \in y.wait \/ (\E z \in deferred:
             z.kind = y.kind /\ z.obj = y.obj /\ (c \in z.wait => c \in y.wait))
      OBVIOUS
    <3>2. \A k, o: WaitsFor(k, o, c) => WaitsFor(k, o, c)' /\ ~ (x.kind = k /\ x.obj = o)
      <4>1. \A k, o: WaitsFor(k, o, c) => WaitsFor(k, o, c)'  BY <3>1, WaitsKept
      <4>2. \A k, o: WaitsFor(k, o, c) => ~ (x.kind = k /\ x.obj = o)  BY DEF WaitsFor
      <4>3. QED  BY <4>1, <4>2
    <3>3. HeldOf(c) /\ HeldPort(c)  BY <2>1 DEF IndInv, HeldInv, HeldOf
    <3>4. HeldPort(c)'
      <4>1. \A v \in VportObj: vport[v].st # "free" /\ WaitsFor("vport", v, c) =>
                vport'[v].st # "free" /\ vport'[v].dp = vport[v].dp
        BY <3>2
      <4>2. \A d \in DpObj: dp[d].st # "free" /\ WaitsFor("dp", d, c) => dp'[d].st # "free"
        BY <3>2
      <4>3. QED  BY <1>1, <3>1, <3>3, <4>1, <4>2, HeldPortKept
    <3>5. cpu[c].flow # Null =>
            /\ cpu[c].flow \in FlowObj /\ HeldFlow(c)
            /\ flow'[cpu[c].flow] = flow[cpu[c].flow]
      <4>1. SUFFICES ASSUME cpu[c].flow # Null
                     PROVE  /\ cpu[c].flow \in FlowObj /\ HeldFlow(c)
                            /\ flow'[cpu[c].flow] = flow[cpu[c].flow]
        OBVIOUS
      <4>2. PICK f \in FlowObj: f = cpu[c].flow
        BY <1>1, <4>1 DEF MemoryTypes, CpuTypes, CpuRecords, Opt
      <4>3. cpu[c].pc \in {"found", "execute"}
        BY <1>1, <2>1, <3>3, <4>1 DEF HeldOf, MemoryTypes, CpuTypes, CpuRecords
      <4>4. HeldFlow(c) /\ cpu[c].dp # Null  BY <3>3, <4>3 DEF HeldOf
      <4>5. WaitsFor("dp", cpu[c].dp, c)  BY <3>3, <4>4 DEF HeldPort
      <4>6. ~ (x.kind = "dp" /\ x.obj = cpu[c].dp)  BY <3>2, <4>5
      <4>7. CASE flow[f].st = "table" /\ flow[f].dp = cpu[c].dp
        <5>1. ~ (x.kind = "flow" /\ x.obj = f)  BY <1>1, <4>7 DEF DeferredInv
        <5>2. QED  BY <4>2, <4>4, <4>6, <4>7, <5>1
      <4>8. CASE flow[f].st = "removed" /\ WaitsFor("flow", f, c)
        BY <3>2, <4>2, <4>4, <4>8
      <4>9. CASE c \in Thread /\ flow[f].st = "new"
        <5>1. ~ (x.kind = "flow" /\ x.obj = f)  BY <1>1, <4>9 DEF DeferredInv
        <5>2. QED  BY <4>2, <4>4, <4>9, <5>1
      <4>10. QED  BY <4>2, <4>4, <4>7, <4>8, <4>9 DEF HeldFlow
    <3>6. cpu[c].flow # Null => HeldFlow(c)'
      <4>1. PICK f: f = cpu[c].flow  OBVIOUS
      <4>2. WaitsFor("flow", f, c) => WaitsFor("flow", f, c)'  BY <3>2
      <4>3. QED  BY <3>5, <4>1, <4>2 DEF HeldFlow
    <3>7. ASSUME cpu[c].act # Null, HeldAct(c) PROVE HeldAct(c)'
      <4>1. PICK a: a = cpu[c].act  OBVIOUS
      <4>2. CASE FlowHas(cpu[c].flow, a)
        <5>1. cpu[c].flow # Null
          BY <1>1, <2>1, <3>3, <3>7 DEF HeldOf, MemoryTypes, CpuTypes, CpuRecords
        <5>2. QED  BY <3>5, <4>1, <4>2, <5>1 DEF HeldAct, FlowHas
      <4>3. CASE \E t \in Thread: cmd[t].old = a  BY <4>1, <4>3 DEF HeldAct
      <4>4. CASE (\E y \in deferred: WaitHas(y, a)) /\ WaitsFor("act", a, c)
        <5>1. WaitsFor("act", a, c)' /\ ~ (x.kind = "act" /\ x.obj = a)  BY <3>2, <4>4
        <5>2. \E y \in deferred': WaitHas(y, a)  BY <4>4, <5>1 DEF WaitHas
        <5>3. QED  BY <4>1, <5>1, <5>2 DEF HeldAct, WaitHas
      <4>5. QED  BY <3>7, <4>1, <4>2, <4>3, <4>4 DEF HeldAct
    <3>8. QED  BY <3>4, <3>6, <3>7
  <2>2. HeldInv  BY DEF IndInv
  <2>3. QED  BY <2>1, <2>2, HeldInvKept
<1>8. FaultsInv'  BY DEF IndInv, FaultsInv
<1>9. QED  BY <1>3, <1>4, <1>5, <1>6, <1>7, <1>8 DEF IndInv

LEMMA ReclaimFlowKeeps ==
  ASSUME IndInv, NEW x \in deferred, x.wait = {}, deferred' = deferred \ {x}, x.kind = "flow",
         FreeFlow(x.obj), UNCHANGED portVars, UNCHANGED <<cpu, cmd>>
  PROVE  IndInv'
<1>1. MemoryTypes /\ PortTypes /\ FlowTypes /\ ActsInv /\ DeferredInv
  BY DEF IndInv, MemoryTypes
<1>2. PICK f \in FlowObj: f = x.obj  BY <1>1, WaitingFields
<1>3. flow[f].st = "removed" /\ flow[f].act # Null  BY <1>1, <1>2 DEF DeferredInv, ActsInv
<1>4. PICK a \in ActObj: a = flow[f].act  BY <1>1, <1>3 DEF FlowTypes, FlowRecords, Opt
<1>5. /\ act[a] = "used" /\ a # Null
      /\ \A g \in FlowObj: flow[g].act = a => g = f
      /\ \A s \in Thread: cmd[s].act # a /\ cmd[s].old # a
      /\ \A y \in deferred: ~ WaitHas(y, a)
  BY <1>1, <1>3, <1>4, FlowOwns
<1>6. /\ flow' = [flow EXCEPT ![f] = NoFlow] /\ act' = [act EXCEPT ![a] = "free"]
      /\ faults' = faults /\ UNCHANGED <<dp, dps, vport>>
  BY <1>2, <1>4, <1>5 DEF FreeFlow, FreeAct, DoubleFree, portVars
<1>7. /\ \A g \in FlowObj: flow'[g] = IF g = f THEN NoFlow ELSE flow[g]
      /\ \A b \in ActObj: act'[b] = IF b = a THEN "free" ELSE act[b]
  BY <1>1, <1>6 DEF FlowTypes
<1>8. NoFlow.st = "free" /\ NoFlow.act = Null  BY DEF NoFlow
<1>9. PortTypes' /\ FlowTypes'  BY <1>1, <1>6, NoFlowType DEF PortTypes, FlowTypes
<1>10. ActsInv'
  <2>1. ASSUME NEW b \in ActObj PROVE OneOwner(b)'
    <3>1. b # Null /\ OneOwner(b)  BY <1>1, DatapathAssumption DEF ActsInv
    <3>2. CASE b = a
      <4>1. /\ \A g \in FlowObj: flow'[g].act # a
            /\ \A s \in Thread: cmd'[s].act # a /\ cmd'[s].old # a
            /\ \A y \in deferred': ~ WaitHas(y, a)
        BY <1>5, <1>7, <1>8
      <4>2. act'[a] # "used"  BY <1>7
      <4>3. QED  BY <3>2, <4>1, <4>2, OwnerIsNobody
    <3>3. CASE b # a
      <4>1. \A y: WaitHas(y, b) => (y \in deferred' <=> y \in deferred)  BY DEF WaitHas
      <4>2. QED  BY <1>4, <1>7, <1>8, <3>1, <3>3, <4>1, OwnerKept
    <3>4. QED  BY <3>2, <3>3
  <2>2. \A g \in FlowObj:
          /\ flow'[g].st = "free" => flow'[g].act = Null
          /\ flow'[g].st \in {"table", "removed"} => flow'[g].act # Null
    BY <1>1, <1>7, <1>8 DEF ActsInv
  <2>3. QED  BY <2>1, <2>2 DEF ActsInv
<1>11. QED  BY <1>2, <1>6, <1>7, <1>9, <1>10, ReclaimFrame

LEMMA ReclaimActKeeps ==
  ASSUME IndInv, NEW x \in deferred, x.wait = {}, deferred' = deferred \ {x}, x.kind = "act",
         act' = FreeAct(act, x.obj), faults' = faults \cup DoubleFree(act, x.obj),
         UNCHANGED <<portVars, flow>>, UNCHANGED <<cpu, cmd>>
  PROVE  IndInv'
<1>1. MemoryTypes /\ PortTypes /\ FlowTypes /\ ActsInv /\ DeferredInv
  BY DEF IndInv, MemoryTypes
<1>2. PICK a \in ActObj: a = x.obj  BY <1>1, WaitingFields
<1>3. WaitHas(x, a) /\ OneOwner(a) /\ a # Null
  BY <1>1, <1>2, DatapathAssumption DEF WaitHas, ActsInv
<1>4. /\ act[a] = "used"
      /\ \A f \in FlowObj: flow[f].act # a
      /\ \A s \in Thread: cmd[s].act # a /\ cmd[s].old # a
  BY <1>3 DEF OneOwner, FlowHas, CmdHas
<1>5. \A y \in deferred': ~ WaitHas(y, a)  BY <1>1, <1>2 DEF DeferredInv, WaitHas
<1>6. act' = [act EXCEPT ![a] = "free"] /\ UNCHANGED <<dp, dps, vport, flow, faults>>
  BY <1>2, <1>3, <1>4 DEF FreeAct, DoubleFree, portVars
<1>7. \A b \in ActObj: act'[b] = IF b = a THEN "free" ELSE act[b]
  BY <1>1, <1>6 DEF FlowTypes
<1>8. PortTypes' /\ FlowTypes'  BY <1>1, <1>6 DEF PortTypes, FlowTypes
<1>9. ActsInv'
  <2>1. ASSUME NEW b \in ActObj PROVE OneOwner(b)'
    <3>1. CASE b = a
      <4>1. act'[a] # "used"  BY <1>7
      <4>2. QED  BY <1>4, <1>5, <1>6, <3>1, <4>1, OwnerIsNobody
    <3>2. CASE b # a
      <4>1. \A y: WaitHas(y, b) => (y \in deferred' <=> y \in deferred)
        BY <1>2, <3>2 DEF WaitHas
      <4>2. OneOwner(b)  BY <1>1 DEF ActsInv
      <4>3. QED  BY <1>6, <1>7, <3>2, <4>1, <4>2, OwnerKept
    <3>3. QED  BY <3>1, <3>2
  <2>2. QED  BY <1>1, <1>6, <2>1 DEF ActsInv
<1>10. QED  BY <1>6, <1>8, <1>9, ReclaimFrame

LEMMA ReclaimVportKeeps ==
  ASSUME IndInv, NEW x \in deferred, x.wait = {}, deferred' = deferred \ {x}, x.kind = "vport",
         vport' = [vport EXCEPT ![x.obj] = NoVport],
         UNCHANGED <<dp, dps, ports, flowVars, faults>>, UNCHANGED <<cpu, cmd>>
  PROVE  IndInv'
<1>1. MemoryTypes /\ PortTypes /\ FlowTypes /\ ActsInv
  BY DEF IndInv, MemoryTypes
<1>2. PICK v \in VportObj: v = x.obj  BY <1>1, WaitingFields
<1>3. UNCHANGED <<dp, dps, flow, act, cmd, cpu, faults>>  BY DEF flowVars
<1>4. NoVport \in [st: {"free", "live", "dead"}, no: Nat, internal: BOOLEAN,
                   dp: Opt(DpObj), room: Rooms, rx: Rooms]
  BY DatapathAssumption DEF NoVport, Opt, Rooms
<1>5. vport' = [vport EXCEPT ![v] = NoVport]  BY <1>2
<1>6. PortTypes' /\ FlowTypes'
  <2>1. PICK r \in [st: {"free", "live", "dead"}, no: Nat, internal: BOOLEAN,
                    dp: Opt(DpObj), room: Rooms, rx: Rooms]: r = NoVport
    BY <1>4
  <2>2. vport' = [vport EXCEPT ![v] = r]  BY <1>5, <2>1
  <2>3. PICK R: R = [st: {"free", "live", "dead"}, no: Nat, internal: BOOLEAN,
                     dp: Opt(DpObj), room: Rooms, rx: Rooms]
    OBVIOUS
  <2>4. vport \in [VportObj -> R] /\ r \in R  BY <1>1, <2>1, <2>3 DEF PortTypes
  <2>5. vport' \in [VportObj -> R]  BY ONLY <2>2, <2>4
  <2>6. PortTypes'  BY <1>1, <1>3, <2>3, <2>5 DEF PortTypes
  <2>7. FlowTypes'  BY <1>1, <1>3 DEF FlowTypes
  <2>8. QED  BY <2>6, <2>7
<1>7. \A w \in VportObj: vport'[w] = vport[w] \/ (vport'[w].st = "free" /\ x.obj = w)
  BY <1>1, <1>2, <1>5 DEF PortTypes, NoVport
<1>8. ActsInv'
  <2>1. ASSUME NEW b \in ActObj PROVE OneOwner(b)'
    <3>1. \A y: WaitHas(y, b) => (y \in deferred' <=> y \in deferred)  BY DEF WaitHas
    <3>2. OneOwner(b)  BY <1>1 DEF ActsInv
    <3>3. QED  BY <1>3, <3>1, <3>2, OwnerKept
  <2>2. QED  BY <1>1, <1>3, <2>1 DEF ActsInv
<1>9. QED  BY <1>3, <1>6, <1>7, <1>8, ReclaimFrame

LEMMA ReclaimDpKeeps ==
  ASSUME IndInv, NEW x \in deferred, x.wait = {}, deferred' = deferred \ {x}, x.kind = "dp",
         FreeDp(x.obj), UNCHANGED <<dps, ports, vport, faults>>, UNCHANGED <<cpu, cmd>>
  PROVE  IndInv'
<1>1. MemoryTypes /\ PortTypes /\ FlowTypes /\ ActsInv
  BY DEF IndInv, MemoryTypes
<1>2. PICK d \in DpObj: d = x.obj  BY <1>1, WaitingFields
<1>3. PICK fs \in SUBSET FlowObj: fs = {f \in FlowObj: flow[f].st = "table" /\ flow[f].dp = d}
  OBVIOUS
<1>4. /\ dp' = [dp EXCEPT ![d] = [st |-> "free", maxroom |-> 0]]
      /\ flow' = [f \in FlowObj |-> IF f \in fs THEN NoFlow ELSE flow[f]]
      /\ act' = [a \in ActObj |-> IF \E f \in fs: flow[f].act = a THEN "free" ELSE act[a]]
  BY <1>2, <1>3 DEF FreeDp
<1>5. NoFlow.st = "free" /\ NoFlow.act = Null  BY DEF NoFlow
<1>6. PortTypes'
  <2>1. [st |-> "free", maxroom |-> 0] \in [st: {"free", "live", "dead"}, maxroom: Rooms]
    BY DatapathAssumption DEF Rooms
  <2>2. QED  BY <1>1, <1>4, <2>1 DEF PortTypes
<1>7. FlowTypes'
  <2>1. flow' \in [FlowObj -> FlowRecords]  BY <1>1, <1>4, NoFlowType DEF FlowTypes
  <2>2. act' \in [ActObj -> {"free", "used"}]  BY <1>1, <1>4 DEF FlowTypes
  <2>3. QED  BY <2>1, <2>2 DEF FlowTypes
<1>8. \A f \in FlowObj: flow'[f] = IF f \in fs THEN NoFlow ELSE flow[f]  BY <1>4
<1>9. \A e \in DpObj: x.obj = e \/ dp'[e] = dp[e]  BY <1>1, <1>2, <1>4 DEF PortTypes
<1>10. \A f \in FlowObj: flow'[f] = flow[f] \/ (flow[f].st = "table" /\ flow[f].dp = x.obj)
  BY <1>2, <1>3, <1>8
<1>11. ActsInv'
  <2>1. ASSUME NEW b \in ActObj PROVE OneOwner(b)'
    <3>1. b # Null /\ OneOwner(b)  BY <1>1, DatapathAssumption DEF ActsInv
    <3>2. ASSUME NEW f \in fs, flow[f].act = b PROVE OneOwner(b)'
      <4>1. /\ \A g \in FlowObj: flow[g].act = b => g = f
            /\ \A s \in Thread: cmd[s].act # b /\ cmd[s].old # b
            /\ \A y \in deferred: ~ WaitHas(y, b)
        BY <1>1, <3>2, FlowOwns
      <4>2. act'[b] # "used"  BY <1>4, <3>2
      <4>3. \A g \in FlowObj: flow'[g].act # b  BY <1>5, <1>8, <3>1, <4>1
      <4>4. QED  BY <4>1, <4>2, <4>3, OwnerIsNobody
    <3>3. ASSUME \A f \in fs: flow[f].act # b PROVE OneOwner(b)'
      <4>1. act'[b] = act[b]  BY <1>4, <3>3
      <4>2. \A y: WaitHas(y, b) => (y \in deferred' <=> y \in deferred)  BY DEF WaitHas
      <4>3. \A g \in FlowObj: flow'[g].act = b <=> flow[g].act = b
        BY <1>5, <1>8, <3>1, <3>3
      <4>4. QED  BY <3>1, <4>1, <4>2, <4>3, OwnerKept
    <3>4. QED  BY <3>2, <3>3
  <2>2. \A g \in FlowObj:
          /\ flow'[g].st = "free" => flow'[g].act = Null
          /\ flow'[g].st \in {"table", "removed"} => flow'[g].act # Null
    BY <1>1, <1>5, <1>8 DEF ActsInv
  <2>3. QED  BY <2>1, <2>2 DEF ActsInv
<1>12. QED  BY <1>6, <1>7, <1>9, <1>10, <1>11, ReclaimFrame

LEMMA ReclaimKeeps == ASSUME IndInv, Reclaim PROVE IndInv'
<1>1. PICK x \in deferred:
        /\ x.wait = {}
        /\ deferred' = deferred \ {x}
        /\ \/ /\ x.kind = "flow"
              /\ FreeFlow(x.obj)
              /\ UNCHANGED portVars
           \/ /\ x.kind = "act"
              /\ act' = FreeAct(act, x.obj)
              /\ faults' = faults \cup DoubleFree(act, x.obj)
              /\ UNCHANGED <<portVars, flow>>
           \/ /\ x.kind = "vport"
              /\ vport' = [vport EXCEPT ![x.obj] = NoVport]
              /\ UNCHANGED <<dp, dps, ports, flowVars, faults>>
           \/ /\ x.kind = "dp"
              /\ FreeDp(x.obj)
              /\ UNCHANGED <<dps, ports, vport, faults>>
        /\ UNCHANGED <<cpu, cmd, dump, registered, budget>>
  BY Zenon DEF Reclaim
<1>2. UNCHANGED <<cpu, cmd>>  BY <1>1
<1>3. QED
  BY <1>1, <1>2, ReclaimFlowKeeps, ReclaimActKeeps, ReclaimVportKeeps, ReclaimDpKeeps

-----------------------------------------------------------------------------
(* The invariant *)

LEMMA InitHolds == Init => IndInv
<1>1. SUFFICES ASSUME Init PROVE IndInv  OBVIOUS
<1>2. Reader = Cpu \cup Thread  BY DEF Reader
<1>3. /\ \A c \in Reader: cpu[c] = Idle
      /\ \A t \in Thread: cmd[t] = NoCmd
      /\ \A f \in FlowObj: flow[f] = NoFlow
      /\ \A a \in ActObj: act[a] = "free"
      /\ \A v \in VportObj: vport[v] = NoVport
      /\ deferred = {} /\ faults = {} /\ dps = {}
  BY <1>1, <1>2 DEF Init
<1>4. MemoryTypes
  <2>1. PortTypes
    <3>1. NoVport \in [st: {"free", "live", "dead"}, no: Nat, internal: BOOLEAN,
                       dp: Opt(DpObj), room: Rooms, rx: Rooms]
      BY DatapathAssumption DEF NoVport, Opt, Rooms
    <3>2. [st |-> "free", maxroom |-> 0] \in [st: {"free", "live", "dead"}, maxroom: Rooms]
      BY DatapathAssumption DEF Rooms
    <3>3. QED  BY <1>1, <3>1, <3>2 DEF Init, PortTypes
  <2>2. FlowTypes  BY <1>1, NoFlowType DEF Init, FlowTypes
  <2>3. CpuTypes  BY <1>1, <1>2, IdleType DEF Init, CpuTypes
  <2>4. CmdTypes  BY <1>1, NoCmdType DEF Init, CmdTypes
  <2>5. DeferredTypes  BY <1>3 DEF DeferredTypes
  <2>6. QED  BY <2>1, <2>2, <2>3, <2>4, <2>5 DEF MemoryTypes
<1>5. PortsInv  BY <1>3 DEF PortsInv, NoVport
<1>6. DeferredInv /\ FaultsInv  BY <1>3 DEF DeferredInv, FaultsInv
<1>7. CmdInv  BY <1>3 DEF CmdInv, CmdHolds, NoCmd
<1>8. ActsInv
  <2>1. ASSUME NEW a \in ActObj PROVE OneOwner(a)
    <3>1. a # Null  BY DatapathAssumption
    <3>2. QED  BY <1>3, <3>1 DEF OneOwner, FlowHas, CmdHas, NoFlow, NoCmd
  <2>2. QED  BY <1>3, <2>1 DEF ActsInv, NoFlow
<1>9. HeldInv  BY <1>3 DEF HeldInv, HeldOf, Idle
<1>10. QED  BY <1>4, <1>5, <1>6, <1>7, <1>8, <1>9 DEF IndInv

\* Steps that change nothing the invariant is about but the faults.
LEMMA QuietKeeps ==
  ASSUME IndInv, UNCHANGED <<dp, dps, vport, flow, act, cpu, cmd, deferred>>, FaultsInv'
  PROVE  IndInv'
<1>1. MemoryTypes'
  BY DEF IndInv, MemoryTypes, PortTypes, FlowTypes, CpuTypes, CmdTypes, DeferredTypes
<1>2. PortsInv' /\ DeferredInv'  BY DEF IndInv, PortsInv, DeferredInv
<1>3. CmdInv'  BY DEF IndInv, CmdInv, CmdHolds
<1>4. ActsInv'  BY DEF IndInv, ActsInv, OneOwner, FlowHas, CmdHas, WaitHas
<1>5. HeldInv'
  BY DEF IndInv, HeldInv, HeldOf, HeldPort, HeldFlow, HeldAct, FlowHas, WaitHas, WaitsFor
<1>6. QED  BY <1>1, <1>2, <1>3, <1>4, <1>5 DEF IndInv

LEMMA NextKeeps == ASSUME IndInv, [Next]_vars PROVE IndInv'
<1>1. FaultsInv  BY DEF IndInv
<1>2. CASE UNCHANGED vars
  BY <1>1, <1>2, QuietKeeps DEF vars, portVars, flowVars, FaultsInv
<1>3. CASE Load  BY <1>1, <1>3, QuietKeeps DEF Load, portVars, flowVars, FaultsInv
<1>4. ASSUME NEW n \in DOMAIN Subsystems, LoadFails(n) PROVE IndInv'
  BY <1>1, <1>4, QuietKeeps DEF LoadFails, portVars, flowVars, FaultsInv
<1>5. CASE Ports
  BY <1>5, NewDpKeeps, DelDpKeeps, NetExitKeeps, AddPortKeeps, DelPortKeeps DEF Ports
<1>6. CASE Dumps
  <2>1. UNCHANGED <<portVars, flowVars, cpu, cmd, deferred, faults>>
    BY <1>6 DEF Dumps, StartDump, DumpSome, EndDump
  <2>2. QED  BY <1>1, <2>1, QuietKeeps DEF portVars, flowVars, FaultsInv
<1>7. ASSUME NEW t \in Thread, FlowCommand(t) PROVE IndInv'
  BY <1>7, AllocNewFlowKeeps, NewFlowKeeps, AllocSetFlowKeeps, SetFlowKeeps, FreeOldKeeps,
     RemoveFlowKeeps, FreeRemovedKeeps, AllocPacketKeeps, StartPacketKeeps, EndPacketKeeps
     DEF FlowCommand
<1>8. CASE Flush  BY <1>8, FlushKeeps
<1>9. CASE SetReplyFails
  BY <1>1, <1>9, QuietKeeps DEF SetReplyFails, portVars, flowVars, FaultsInv
<1>10. ASSUME NEW c \in Cpu, Packet(c) PROVE IndInv'
  BY <1>10, ReceiveKeeps, LookupKeeps, TakeActsKeeps, LastStepKeeps DEF Packet
<1>11. CASE Reclaim  BY <1>11, ReclaimKeeps
<1>12. QED
  BY <1>2, <1>3, <1>4, <1>5, <1>6, <1>7, <1>8, <1>9, <1>10, <1>11 DEF Next

\* What is in memory, what a command has in hand, who has actions and what
\* readers hold is as the invariant says, in every state of every behaviour.
THEOREM Invariance == Spec => []IndInv
<1>1. Init => IndInv  BY InitHolds
<1>2. IndInv /\ [Next]_vars => IndInv'  BY NextKeeps
<1>3. QED  BY <1>1, <1>2, PTL DEF Spec

\* The objects of the kernel are where and what they should be (datapath.c).
THEOREM TypesHold == Spec => []MemoryTypes
<1>1. IndInv => MemoryTypes  BY DEF IndInv
<1>2. QED  BY <1>1, Invariance, PTL

\* What a reader uses has not been freed, for any number of ports, flows,
\* processors and threads (datapath.c:300-308, 357-392, 1190, 1479).
THEOREM HeldIsLiveHolds == Spec => []HeldIsLive
<1>1. ASSUME IndInv PROVE HeldIsLive
  <2>1. ASSUME NEW c \in Reader, cpu[c].pc # "idle"
        PROVE  /\ cpu[c].vport # Null => vport[cpu[c].vport].st # "free"
               /\ cpu[c].dp # Null => dp[cpu[c].dp].st # "free"
               /\ cpu[c].flow # Null => flow[cpu[c].flow].st # "free"
               /\ cpu[c].act # Null => act[cpu[c].act] # "free"
    <3>1. HeldOf(c)  BY <1>1 DEF IndInv, HeldInv
    <3>2. cpu \in [Reader -> CpuRecords]  BY <1>1 DEF IndInv, MemoryTypes, CpuTypes
    <3>3. HeldPort(c)  BY <2>1, <3>1 DEF HeldOf
    <3>4. cpu[c].flow # Null => HeldFlow(c)  BY <2>1, <3>1, <3>2 DEF HeldOf, CpuRecords
    <3>5. cpu[c].flow # Null => flow[cpu[c].flow].st # "free"  BY <3>4 DEF HeldFlow
    <3>6. ASSUME cpu[c].act # Null PROVE act[cpu[c].act] # "free"
      <4>1. PICK a \in ActObj: a = cpu[c].act  BY <3>2, <3>6 DEF CpuRecords, Opt
      <4>2. HeldAct(c) /\ cpu[c].flow # Null  BY <2>1, <3>1, <3>2, <3>6 DEF HeldOf, CpuRecords
      <4>3. cpu[c].flow \in FlowObj  BY <3>2, <4>2 DEF CpuRecords, Opt
      <4>4. OneOwner(a)  BY <1>1 DEF IndInv, ActsInv
      <4>5. act[a] = "used"  BY <4>1, <4>2, <4>3, <4>4 DEF HeldAct, OneOwner, CmdHas
      <4>6. QED  BY <4>1, <4>5
    <3>7. QED  BY <3>3, <3>5, <3>6 DEF HeldPort
  <2>2. QED  BY <2>1 DEF HeldIsLive, Reading, Reader
<1>2. QED  BY <1>1, Invariance, PTL

\* Actions are never lost and never freed twice, whichever way a command fails
\* and whatever commands run beside it (datapath.c:1133, 1190, 1198-1204,
\* 1341-1345).
THEOREM ActsHaveOneOwnerHolds == Spec => []ActsHaveOneOwner
<1>1. ASSUME IndInv PROVE ActsHaveOneOwner
  <2>1. ASSUME NEW a \in ActObj
        PROVE  Cardinality(Owners(a)) = IF act[a] = "used" THEN 1 ELSE 0
    <3>1. OneOwner(a) /\ DeferredInv  BY <1>1 DEF IndInv, ActsInv
    <3>2. \A o: o \in Owners(a) <=> \/ o \in FlowObj /\ FlowHas(o, a)
                                    \/ o \in Thread /\ CmdHas(o, a)
                                    \/ o \in deferred /\ WaitHas(o, a)
      BY DEF Owners, FlowHas, CmdHas, WaitHas
    <3>3. \A o, p \in Owners(a): o = p
      <4>1. \A x, y \in deferred: WaitHas(x, a) /\ WaitHas(y, a) => x = y
        BY <3>1 DEF DeferredInv, WaitHas
      <4>2. QED  BY <3>1, <3>2, <4>1 DEF OneOwner
    <3>4. act[a] = "used" <=> Owners(a) # {}  BY <3>1, <3>2 DEF OneOwner
    <3>5. CASE Owners(a) = {}  BY <3>4, <3>5, FS_EmptySet
    <3>6. CASE Owners(a) # {}
      <4>1. PICK o: Owners(a) = {o}  BY <3>3, <3>6
      <4>2. QED  BY <3>4, <3>6, <4>1, FS_Singleton
    <3>7. QED  BY <3>5, <3>6
  <2>2. QED  BY <1>1, <2>1 DEF ActsHaveOneOwner, IndInv, FaultsInv
<1>2. QED  BY <1>1, Invariance, PTL

-----------------------------------------------------------------------------
(* No two flows of a table are twins *)

\* Tables only lose flows, and those that stay match what they did.
TablesShrink ==
    \A f \in FlowObj: flow'[f].st = "table" =>
        /\ flow[f].st = "table" /\ flow'[f].dp = flow[f].dp
        /\ flow'[f].key = flow[f].key /\ flow'[f].wild = flow[f].wild
        /\ flow'[f].ufid = flow[f].ufid

LEMMA ShrinkKeepsNoTwins == ASSUME NoTwins, TablesShrink PROVE NoTwins'
BY DEF NoTwins, TablesShrink

\* One flow that leaves its table, or is made for none.
LEMMA OneFlowShrinks ==
  ASSUME FlowTypes, NEW f, NEW r, r.st # "table", flow' = [flow EXCEPT ![f] = r]
  PROVE  TablesShrink
BY DEF FlowTypes, TablesShrink

LEMMA FlowsStayShrink == ASSUME flow' = flow PROVE TablesShrink
BY DEF TablesShrink

\* A flow whose actions are replaced is the flow it was.
LEMMA UpdateShrinks ==
  ASSUME FlowTypes, NEW t \in Thread, NEW g, UpdateActs(t, g)
  PROVE  TablesShrink
<1>1. flow \in [FlowObj -> FlowRecords] /\ flow' = [flow EXCEPT ![g].act = cmd[t].act]
  BY DEF FlowTypes, UpdateActs
<1>2. \A f \in FlowObj: flow'[f] = IF f = g THEN [flow[g] EXCEPT !.act = cmd[t].act] ELSE flow[f]
  BY <1>1
<1>3. \A f \in FlowObj: flow[f] \in FlowRecords  BY <1>1
<1>4. QED  BY <1>2, <1>3 DEF TablesShrink, FlowRecords

\* The flow a command inserts has no twin: it looks for one with either way of
\* naming a flow, whatever the other commands have inserted since it was made.
LEMMA InsertKeepsNoTwins ==
  ASSUME IndInv, NoTwins, NEW t \in Thread, cmd[t].pc = "new", NEW d \in GetDp,
         Duplicates(d, cmd[t].flow) = {}, InsertFlow(t, d)
  PROVE  NoTwins'
<1>1. CmdHolds(t)  BY DEF IndInv, CmdInv
<1>2. PICK f \in FlowObj: f = cmd[t].flow  BY <1>1, OwnFlow DEF CmdHolds
<1>3. flow \in [FlowObj -> FlowRecords] /\ d \in DpObj
  BY GetDpLive DEF IndInv, MemoryTypes, FlowTypes
<1>4. PICK r: r = [flow[f] EXCEPT !.st = "table", !.dp = d, !.act = cmd[t].act]  OBVIOUS
<1>5. r.dp = d /\ r.key = flow[f].key /\ r.ufid = flow[f].ufid
  BY <1>3, <1>4 DEF FlowRecords
<1>6. r.wild = flow[f].wild  BY <1>3, <1>4 DEF FlowRecords
<1>7. flow' = [flow EXCEPT ![f] = r]  BY <1>2, <1>3, <1>4 DEF InsertFlow
<1>8. \A g \in FlowObj: flow'[g] = IF g = f THEN r ELSE flow[g]  BY <1>3, <1>7
<1>9. LookupUfid(d, flow[f].ufid) = {} /\ LookupKey(d, flow[f].key) = {}
  BY <1>2 DEF Duplicates
<1>10. \A g \in FlowObj: flow[g].st = "table" /\ flow[g].dp = d =>
         /\ flow[f].ufid # Null => flow[g].ufid # flow[f].ufid
         /\ ~ flow[g].wild /\ flow[g].key # flow[f].key
  BY <1>9 DEF LookupUfid, LookupKey, Flows
<1>11. QED  BY <1>5, <1>6, <1>8, <1>10 DEF NoTwins

LEMMA FlowCommandNoTwins ==
  ASSUME IndInv, NoTwins, NEW t \in Thread, FlowCommand(t)
  PROVE  NoTwins'
<1>1. FlowTypes  BY DEF IndInv, MemoryTypes
<1>2. NoFlow.st # "table"  BY DEF NoFlow
<1>3. CASE AllocNewFlow(t)
  <2>1. PICK f \in FreshFlow, a \in FreshAct, k \in Key, u \in Ufid \cup {Null}, wild \in BOOLEAN:
          /\ Loaded /\ cmd[t].pc = "idle" /\ cpu[t].pc = "idle" /\ Spend("flow")
          /\ flow' = [flow EXCEPT ![f] = [st |-> "new", dp |-> Null, key |-> k, wild |-> wild,
                                          ufid |-> u, act |-> Null]]
          /\ act' = [act EXCEPT ![a] = "used"]
          /\ cmd' = [cmd EXCEPT ![t] = [pc |-> "new", flow |-> f, act |-> a, old |-> Null]]
          /\ UNCHANGED <<portVars, cpu, deferred, dump, registered, faults>>
    BY <1>3, Zenon DEF AllocNewFlow
  <2>2. PICK r: r = [st |-> "new", dp |-> Null, key |-> k, wild |-> wild, ufid |-> u, act |-> Null]
    OBVIOUS
  <2>3. r.st # "table" /\ flow' = [flow EXCEPT ![f] = r]  BY <2>1, <2>2
  <2>4. QED  BY <1>1, <2>3, OneFlowShrinks, ShrinkKeepsNoTwins
<1>4. CASE NewFlow(t)
  <2>1. CASE GiveUp(t, cmd[t].act) \/ InsertFails(t)
    BY <1>1, <1>2, <2>1, OneFlowShrinks, ShrinkKeepsNoTwins DEF GiveUp, InsertFails
  <2>2. ASSUME NEW d \in GetDp, Duplicates(d, cmd[t].flow) = {}, InsertFlow(t, d) PROVE NoTwins'
    BY <1>4, <2>2, InsertKeepsNoTwins DEF NewFlow
  <2>3. ASSUME NEW g, UpdateActs(t, g) PROVE NoTwins'
    BY <1>1, <2>3, UpdateShrinks, ShrinkKeepsNoTwins
  <2>4. QED  BY <1>4, <2>1, <2>2, <2>3 DEF NewFlow
<1>5. CASE SetFlow(t)
  BY <1>1, <1>5, FlowsStayShrink, UpdateShrinks, ShrinkKeepsNoTwins DEF SetFlow
<1>6. CASE FreeOld(t)
  BY <1>1, <1>2, <1>6, FlowsStayShrink, OneFlowShrinks, ShrinkKeepsNoTwins DEF FreeOld
<1>7. CASE RemoveFlow(t)
  <2>1. PICK f \in Named: flow' = [flow EXCEPT ![f].st = "removed", ![f].dp = Null]
    BY <1>7 DEF RemoveFlow
  <2>2. PICK r: r = [flow[f] EXCEPT !.st = "removed", !.dp = Null]  OBVIOUS
  <2>3. f \in FlowObj  BY NamedInTable DEF IndInv
  <2>4. r.st # "table"  BY <1>1, <2>2, <2>3 DEF FlowTypes, FlowRecords
  <2>5. flow' = [flow EXCEPT ![f] = r]  BY <1>1, <2>1, <2>2, <2>3 DEF FlowTypes
  <2>6. QED  BY <1>1, <2>4, <2>5, OneFlowShrinks, ShrinkKeepsNoTwins
<1>8. CASE AllocPacket(t)
  <2>1. PICK f \in FreshFlow, a \in FreshAct:
          flow' = [flow EXCEPT ![f] = [st |-> "new", dp |-> Null, key |-> Null, wild |-> FALSE,
                                       ufid |-> Null, act |-> a]]
    BY <1>8 DEF AllocPacket
  <2>2. PICK r: r = [st |-> "new", dp |-> Null, key |-> Null, wild |-> FALSE,
                     ufid |-> Null, act |-> a]
    OBVIOUS
  <2>3. r.st # "table" /\ flow' = [flow EXCEPT ![f] = r]  BY <2>1, <2>2
  <2>4. QED  BY <1>1, <2>3, OneFlowShrinks, ShrinkKeepsNoTwins
<1>9. CASE AllocSetFlow(t) \/ FreeRemoved(t)
  BY <1>9, FlowsStayShrink, ShrinkKeepsNoTwins DEF AllocSetFlow, FreeRemoved, flowVars
<1>10. CASE StartPacket(t)
  BY <1>1, <1>2, <1>10, FlowsStayShrink, OneFlowShrinks, ShrinkKeepsNoTwins
     DEF StartPacket, GiveUp, flowVars
<1>11. CASE EndPacket(t)
  BY <1>1, <1>2, <1>11, OneFlowShrinks, ShrinkKeepsNoTwins DEF EndPacket, FreeFlow
<1>12. QED
  BY <1>3, <1>4, <1>5, <1>6, <1>7, <1>8, <1>9, <1>10, <1>11 DEF FlowCommand

LEMMA FlushShrinks == ASSUME FlowTypes, Flush PROVE TablesShrink
<1>1. PICK d \in GetDp:
        flow' = [f \in FlowObj |-> IF f \in Flows(d)
                                     THEN [flow[f] EXCEPT !.st = "removed", !.dp = Null]
                                     ELSE flow[f]]
  BY DEF Flush
<1>2. ASSUME NEW f \in FlowObj, flow'[f].st = "table" PROVE flow'[f] = flow[f]
  <2>1. flow[f] \in FlowRecords  BY DEF FlowTypes
  <2>2. [flow[f] EXCEPT !.st = "removed", !.dp = Null].st = "removed"
    BY <2>1 DEF FlowRecords
  <2>3. QED  BY <1>1, <1>2, <2>2
<1>3. QED  BY <1>2 DEF TablesShrink

LEMMA ReclaimShrinks == ASSUME FlowTypes, Reclaim PROVE TablesShrink
<1>1. NoFlow.st # "table"  BY DEF NoFlow
<1>2. ASSUME NEW f, FreeFlow(f) PROVE TablesShrink
  BY <1>1, <1>2, OneFlowShrinks DEF FreeFlow
<1>3. ASSUME NEW d, FreeDp(d) PROVE TablesShrink
  BY <1>1, <1>3 DEF FreeDp, TablesShrink
<1>4. QED  BY <1>2, <1>3, FlowsStayShrink DEF Reclaim, flowVars

LEMMA NextKeepsNoTwins == ASSUME IndInv, NoTwins, [Next]_vars PROVE NoTwins'
<1>1. FlowTypes  BY DEF IndInv, MemoryTypes
<1>2. CASE \E t \in Thread: FlowCommand(t)  BY <1>2, FlowCommandNoTwins
<1>3. CASE Flush  BY <1>1, <1>3, FlushShrinks, ShrinkKeepsNoTwins
<1>4. CASE Reclaim  BY <1>1, <1>4, ReclaimShrinks, ShrinkKeepsNoTwins
<1>5. CASE \/ Load \/ \E n \in DOMAIN Subsystems: LoadFails(n)
           \/ SetReplyFails \/ UNCHANGED vars
  BY <1>5, FlowsStayShrink, ShrinkKeepsNoTwins
     DEF Load, LoadFails, SetReplyFails, vars, flowVars
<1>6. CASE Ports
  BY <1>6, FlowsStayShrink, ShrinkKeepsNoTwins
     DEF Ports, NewDp, DelDp, NetExit, AddPort, DelPort, flowVars
<1>7. CASE Dumps
  BY <1>7, FlowsStayShrink, ShrinkKeepsNoTwins DEF Dumps, StartDump, DumpSome, EndDump, flowVars
<1>8. CASE \E c \in Cpu: Packet(c)
  BY <1>8, FlowsStayShrink, ShrinkKeepsNoTwins
     DEF Packet, Receive, Lookup, TakeActs, Upcall, Execute, flowVars
<1>9. QED  BY <1>2, <1>3, <1>4, <1>5, <1>6, <1>7, <1>8 DEF Next

\* Whatever commands insert flows side by side, no two flows of a table have the
\* same identifier or match the same packets (datapath.c:1123-1126).
THEOREM NoTwinsHolds == Spec => []NoTwins
<1>1. Init => NoTwins  BY DEF Init, NoTwins, NoFlow
<1>2. IndInv /\ NoTwins /\ [Next]_vars => NoTwins'  BY NextKeepsNoTwins
<1>3. QED  BY <1>1, <1>2, Invariance, PTL DEF Spec

-----------------------------------------------------------------------------
(* Headroom *)

\* A datapath none of whose ports changes has the headroom it needs.
LEMMA NeedsKept ==
  ASSUME NEW d \in DpObj, Needs(d), dp'[d].maxroom = dp[d].maxroom,
         \A v \in VportObj:
             (vport[v].st = "live" /\ vport[v].dp = d) \/ (vport'[v].st = "live" /\ vport'[v].dp = d)
                => vport'[v] = vport[v]
  PROVE  Needs(d)'
BY DEF Needs, PortsOf, Attached

\* So has one that has just been updated, if it has its local port.
LEMMA UpdateNeeds ==
  ASSUME PortTypes, NEW d \in DpObj,
         NEW vp \in [VportObj -> [st: {"free", "live", "dead"}, no: Nat, internal: BOOLEAN,
                                  dp: Opt(DpObj), room: Rooms, rx: Rooms]],
         UpdateHeadroom(d, vp), dps' = dps,
         \E v \in VportObj: /\ vp[v].st = "live" /\ vp[v].dp = d
                            /\ vp[v].no = LOCAL_PORT /\ vp[v].room = 0
  PROVE  /\ Needs(d)'
         /\ \A e \in DpObj: e # d => dp'[e] = dp[e]
         /\ \A v \in VportObj: vp[v].dp # d => vport'[v] = vp[v]
         /\ dp'[d].st = dp[d].st
<1> DEFINE vs == {v \in VportObj: vp[v].st = "live" /\ vp[v].dp = d}
           most == Max({vp[v].room: v \in vs} \cup {0})
<1>1. /\ most \in {vp[v].room: v \in vs} \cup {0}
      /\ \A v \in vs: most >= vp[v].room
      /\ most \in Rooms
      /\ dp' = [dp EXCEPT ![d].maxroom = most]
      /\ vport' = [v \in VportObj |-> IF v \in vs THEN [vp[v] EXCEPT !.rx = most] ELSE vp[v]]
  BY UpdateHeadroomEach
<1>2. \A v: v \in vs <=> v \in VportObj /\ vp[v].st = "live" /\ vp[v].dp = d  OBVIOUS
<1> HIDE DEF most, vs
<1>3. dp'[d].maxroom = most /\ dp'[d].st = dp[d].st /\ \A e \in DpObj: e # d => dp'[e] = dp[e]
  BY <1>1 DEF PortTypes
<1>4. \A v \in VportObj: /\ vport'[v].st = vp[v].st /\ vport'[v].dp = vp[v].dp
                         /\ vport'[v].no = vp[v].no /\ vport'[v].room = vp[v].room
  BY UpdateHeadroomKeeps
<1>5. \A v \in vs: vport'[v].rx = most
  <2>1. TAKE v \in vs
  <2>2. v \in VportObj /\ vport'[v] = [vp[v] EXCEPT !.rx = most]  BY <1>1, <1>2
  <2>3. QED  BY <2>2
<1>6. \A v \in VportObj: vp[v].dp # d => vport'[v] = vp[v]  BY <1>1, <1>2
<1>7. \A v: v \in PortsOf(d)' <=> v \in vs  BY <1>2, <1>4 DEF PortsOf, Attached
<1>8. Needs(d)'
  <2>1. PICK l \in vs: vp[l].no = LOCAL_PORT /\ vp[l].room = 0  BY <1>2
  <2>2. \E v \in vs: vp[v].room = most  BY <1>1, <2>1
  <2>3. \A v \in vs: vp[v].room <= most
    BY <1>1, <1>2, RoomsAreNumbers
  <2>4. \A v \in vs: v \in VportObj  BY <1>2
  <2>5. QED  BY <1>3, <1>4, <1>5, <1>7, <2>1, <2>2, <2>3, <2>4 DEF Needs, LOCAL_PORT
<1>9. QED  BY <1>3, <1>6, <1>8

LEMMA NewDpNeeds == ASSUME IndInv, HeadroomInv, NewDp PROVE HeadroomInv'
<1>1. PICK d \in FreshDp, v \in FreshVport:
        LET r == [st |-> "live", no |-> LOCAL_PORT, internal |-> TRUE, dp |-> d,
                  room |-> 0, rx |-> 0] IN
        /\ dp' = [dp EXCEPT ![d].st = "live"]
        /\ vport' = [vport EXCEPT ![v] = r]
  BY DEF NewDp
<1>2. d \in DpObj /\ dp[d].st = "free" /\ v \in VportObj /\ vport[v].st = "free"
  BY FreshObjects
<1>3. PICK r: r = [st |-> "live", no |-> LOCAL_PORT, internal |-> TRUE, dp |-> d,
                   room |-> 0, rx |-> 0]
  OBVIOUS
<1>4. r.st = "live" /\ r.dp = d /\ r.no = LOCAL_PORT /\ r.room = 0  BY <1>3
<1>5. PortTypes /\ PortsInv  BY DEF IndInv, MemoryTypes
<1>6. \A w \in VportObj: vport'[w] = IF w = v THEN r ELSE vport[w]
  BY <1>1, <1>2, <1>3, <1>5 DEF PortTypes
<1>7. /\ dp'[d].st = "live" /\ dp'[d].maxroom = dp[d].maxroom
      /\ \A e \in DpObj: e # d => dp'[e] = dp[e]
  BY <1>1, <1>2, <1>5 DEF PortTypes
<1>8. dp[d].maxroom = 0  BY <1>2 DEF HeadroomInv
<1>9. Needs(d)'
  <2>1. \A w \in VportObj: vport[w].st = "live" => vport[w].dp # d  BY <1>2, <1>5 DEF PortsInv
  <2>2. \A w: w \in PortsOf(d)' <=> w = v
    BY <1>2, <1>4, <1>6, <2>1 DEF PortsOf, Attached
  <2>3. vport'[v] = r  BY <1>2, <1>6
  <2>4. QED  BY <1>4, <1>7, <1>8, <2>2, <2>3 DEF Needs, LOCAL_PORT
<1>10. ASSUME NEW e \in DpObj, e # d, dp[e].st = "live" PROVE Needs(e)'
  BY <1>2, <1>4, <1>6, <1>7, <1>10, NeedsKept DEF HeadroomInv
<1>11. QED  BY <1>7, <1>9, <1>10 DEF HeadroomInv

\* A port is not given the number of the local one.
LEMMA PortNoNotLocal ==
  ASSUME NEW d \in DpObj, NEW no \in 0 .. MaxPorts - 1, NEW m \in PortNo(d, no)
  PROVE  m \in Nat /\ m # LOCAL_PORT
<1> DEFINE free == {k \in 1 .. MaxPorts - 1: LookupVport(d, k) = {}}
<1>1. no \in Nat  BY DatapathAssumption
<1>2. free \in SUBSET Nat /\ \A k \in free: k # 0
  <2>1. free \subseteq 1 .. MaxPorts - 1  OBVIOUS
  <2>2. \A k \in 1 .. MaxPorts - 1: k \in Nat /\ k # 0  BY DatapathAssumption
  <2>3. QED  BY <2>1, <2>2
<1>3. free # {} => Min(free) \in Nat /\ Min(free) # 0
  <2> HIDE DEF free
  <2> QED  BY <1>2, MinIn
<1>4. QED  BY <1>1, <1>3 DEF PortNo, LOCAL_PORT

LEMMA AddPortNeeds == ASSUME IndInv, HeadroomInv, AddPort PROVE HeadroomInv'
<1> DEFINE PortRecords == [st: {"free", "live", "dead"}, no: Nat, internal: BOOLEAN,
                           dp: Opt(DpObj), room: Rooms, rx: Rooms]
<1>1. PICK v \in FreshVport, no \in 0 .. MaxPorts - 1, internal \in BOOLEAN, room \in Room,
           d \in GetDp: \E m \in PortNo(d, no):
        LET r == [st |-> "live", no |-> m, internal |-> internal, dp |-> d, room |-> room,
                  rx |-> dp[d].maxroom] IN
        /\ IF room > dp[d].maxroom
             THEN UpdateHeadroom(d, [vport EXCEPT ![v] = r])
             ELSE vport' = [vport EXCEPT ![v] = r] /\ UNCHANGED dp
        /\ UNCHANGED <<dps, flowVars, cpu, cmd, deferred, faults>>
  BY DEF AddPort
<1>2. v \in VportObj /\ vport[v].st = "free" /\ d \in DpObj /\ dp[d].st = "live"
  BY FreshObjects, GetDpLive DEF IndInv
<1>3. PICK m \in PortNo(d, no):
        LET r == [st |-> "live", no |-> m, internal |-> internal, dp |-> d, room |-> room,
                  rx |-> dp[d].maxroom] IN
        /\ IF room > dp[d].maxroom
             THEN UpdateHeadroom(d, [vport EXCEPT ![v] = r])
             ELSE vport' = [vport EXCEPT ![v] = r] /\ UNCHANGED dp
  BY <1>1
<1>4. PortTypes /\ Needs(d)  BY <1>2 DEF IndInv, MemoryTypes, HeadroomInv
<1>5. m \in Nat /\ m # LOCAL_PORT  BY <1>2, PortNoNotLocal
<1>6. room \in Rooms /\ dp[d].maxroom \in Rooms  BY <1>2, <1>4, RoomIsRoom DEF PortTypes
<1>7. PICK r \in PortRecords:
        /\ r.st = "live" /\ r.dp = d /\ r.no # LOCAL_PORT /\ r.room = room /\ r.rx = dp[d].maxroom
        /\ IF room > dp[d].maxroom
             THEN UpdateHeadroom(d, [vport EXCEPT ![v] = r])
             ELSE vport' = [vport EXCEPT ![v] = r] /\ UNCHANGED dp
  <2>1. [st |-> "live", no |-> m, internal |-> internal, dp |-> d, room |-> room,
         rx |-> dp[d].maxroom] \in PortRecords
    BY <1>2, <1>5, <1>6 DEF Opt
  <2>2. QED  BY <1>3, <1>5, <2>1
<1>8. [vport EXCEPT ![v] = r] \in [VportObj -> PortRecords]
  BY <1>2, <1>4 DEF PortTypes
<1>9. PICK vp \in [VportObj -> PortRecords]: vp = [vport EXCEPT ![v] = r]
  BY <1>8
<1>10. \A w \in VportObj: vp[w] = IF w = v THEN r ELSE vport[w]
  BY <1>2, <1>4, <1>9 DEF PortTypes
<1>11. PICK l \in VportObj: /\ vport[l].st = "live" /\ vport[l].dp = d
                            /\ vport[l].no = LOCAL_PORT /\ vport[l].room = 0
  BY <1>4 DEF Needs, PortsOf, Attached
<1>12. vp[l] = vport[l]  BY <1>2, <1>10, <1>11
<1>13. /\ Needs(d)'
       /\ \A e \in DpObj: dp'[e].st = dp[e].st /\ (e # d => dp'[e] = dp[e])
       /\ \A w \in VportObj: vp[w].dp # d => vport'[w] = vp[w]
       /\ \A w \in VportObj: vport'[w].dp = vp[w].dp
  <2>1. CASE room > dp[d].maxroom
    <3>1. UpdateHeadroom(d, vp) /\ dps' = dps  BY <1>1, <1>7, <1>9, <2>1
    <3>2. QED  BY <1>2, <1>4, <1>11, <1>12, <3>1, UpdateNeeds, UpdateHeadroomKeeps
  <2>2. CASE ~ (room > dp[d].maxroom)
    <3>1. vport' = vp /\ dp' = dp  BY <1>7, <1>9, <2>2
    <3>2. room <= dp[d].maxroom  BY <1>6, <2>2, RoomsAreNumbers
    <3>3. \A w: w \in PortsOf(d)' <=> w \in PortsOf(d) \/ w = v
      BY <1>2, <1>7, <1>10, <3>1 DEF PortsOf, Attached
    <3>4. \A w \in PortsOf(d): w # v /\ vport'[w] = vport[w]
      BY <1>2, <1>10, <3>1 DEF PortsOf, Attached
    <3>5. vport'[v] = r  BY <1>2, <1>10, <3>1
    <3>6. Needs(d)'
      BY <1>4, <1>7, <3>1, <3>2, <3>3, <3>4, <3>5 DEF Needs
    <3>7. QED  BY <3>1, <3>6
  <2>3. QED  BY <2>1, <2>2
<1>14. ASSUME NEW e \in DpObj, e # d, dp[e].st = "live" PROVE Needs(e)'
  <2>1. \A w \in VportObj:
          (vport[w].st = "live" /\ vport[w].dp = e) \/ (vport'[w].st = "live" /\ vport'[w].dp = e)
             => vport'[w] = vport[w]
    BY <1>2, <1>7, <1>10, <1>13, <1>14
  <2>2. Needs(e) /\ dp'[e].maxroom = dp[e].maxroom  BY <1>13, <1>14 DEF HeadroomInv
  <2>3. QED  BY <2>1, <2>2, NeedsKept
<1>15. QED  BY <1>2, <1>13, <1>14 DEF HeadroomInv

LEMMA DelPortNeeds == ASSUME IndInv, HeadroomInv, DelPort PROVE HeadroomInv'
<1> DEFINE PortRecords == [st: {"free", "live", "dead"}, no: Nat, internal: BOOLEAN,
                           dp: Opt(DpObj), room: Rooms, rx: Rooms]
<1>1. PICK v \in Attached:
        /\ vport[v].no # LOCAL_PORT
        /\ IF vport[v].room = dp[vport[v].dp].maxroom
             THEN UpdateHeadroom(vport[v].dp, [vport EXCEPT ![v].st = "dead"])
             ELSE vport' = [vport EXCEPT ![v].st = "dead"] /\ UNCHANGED dp
        /\ dps' = dps
  BY DEF DelPort
<1>2. PICK d \in DpObj: d = vport[v].dp /\ dp[d].st = "live"
  BY DEF Attached, IndInv, PortsInv
<1>3. v \in VportObj /\ vport[v].st = "live"  BY DEF Attached
<1>4. PortTypes /\ Needs(d)  BY <1>2 DEF IndInv, MemoryTypes, HeadroomInv
<1>5. [vport EXCEPT ![v].st = "dead"] \in [VportObj -> PortRecords]
  BY <1>3, <1>4 DEF PortTypes
<1>6. PICK vp \in [VportObj -> PortRecords]: vp = [vport EXCEPT ![v].st = "dead"]
  BY <1>5
<1>7. /\ vp[v].st = "dead" /\ vp[v].dp = d
      /\ \A w \in VportObj: w # v => vp[w] = vport[w]
  BY <1>2, <1>3, <1>4, <1>6 DEF PortTypes
<1>8. PICK l \in VportObj: /\ vport[l].st = "live" /\ vport[l].dp = d
                           /\ vport[l].no = LOCAL_PORT /\ vport[l].room = 0
  BY <1>4 DEF Needs, PortsOf, Attached
<1>9. l # v /\ vp[l] = vport[l]  BY <1>1, <1>7, <1>8
<1>10. /\ Needs(d)'
       /\ \A e \in DpObj: dp'[e].st = dp[e].st /\ (e # d => dp'[e] = dp[e])
       /\ \A w \in VportObj: vp[w].dp # d => vport'[w] = vp[w]
       /\ \A w \in VportObj: vport'[w].dp = vp[w].dp
  <2>1. CASE vport[v].room = dp[d].maxroom
    <3>1. UpdateHeadroom(d, vp) /\ dps' = dps  BY <1>1, <1>2, <1>6, <2>1
    <3>2. QED  BY <1>2, <1>4, <1>8, <1>9, <3>1, UpdateNeeds, UpdateHeadroomKeeps
  <2>2. CASE vport[v].room # dp[d].maxroom
    <3>1. vport' = vp /\ dp' = dp  BY <1>1, <1>2, <1>6, <2>2
    <3>2. \A w: w \in PortsOf(d)' <=> w \in PortsOf(d) /\ w # v
      BY <1>2, <1>3, <1>7, <3>1 DEF PortsOf, Attached
    <3>3. \A w \in PortsOf(d): w # v => vport'[w] = vport[w]
      BY <1>7, <3>1 DEF PortsOf, Attached
    <3>4. PICK w \in PortsOf(d): vport[w].room = dp[d].maxroom  BY <1>4 DEF Needs
    <3>5. w # v  BY <2>2, <3>4
    <3>6. l \in PortsOf(d)  BY <1>8 DEF PortsOf, Attached
    <3>7. Needs(d)'
      BY <1>4, <1>8, <1>9, <3>1, <3>2, <3>3, <3>4, <3>5, <3>6 DEF Needs
    <3>8. QED  BY <3>1, <3>7
  <2>3. QED  BY <2>1, <2>2
<1>11. ASSUME NEW e \in DpObj, e # d, dp[e].st = "live" PROVE Needs(e)'
  <2>1. \A w \in VportObj:
          (vport[w].st = "live" /\ vport[w].dp = e) \/ (vport'[w].st = "live" /\ vport'[w].dp = e)
             => vport'[w] = vport[w]
    BY <1>2, <1>7, <1>10, <1>11
  <2>2. Needs(e) /\ dp'[e].maxroom = dp[e].maxroom  BY <1>10, <1>11 DEF HeadroomInv
  <2>3. QED  BY <2>1, <2>2, NeedsKept
<1>12. QED  BY <1>2, <1>10, <1>11 DEF HeadroomInv

LEMMA DestroyNeeds ==
  ASSUME IndInv, HeadroomInv, NEW ds \in SUBSET DpObj, \A d \in ds: dp[d].st = "live",
         DestroyDps(ds)
  PROVE  HeadroomInv'
<1>1. PICK vs \in SUBSET VportObj:
        /\ \A v \in VportObj: v \in vs <=> vport[v].st = "live" /\ vport[v].dp \in ds
        /\ vport' = [v \in VportObj |-> IF v \in vs THEN [vport[v] EXCEPT !.st = "dead"] ELSE vport[v]]
        /\ dp' = [d \in DpObj |-> IF d \in ds THEN [dp[d] EXCEPT !.st = "dead"] ELSE dp[d]]
  <2> DEFINE vs == UNION {PortsOf(d): d \in ds}
  <2>1. \A v: v \in vs <=> v \in VportObj /\ vport[v].st = "live" /\ vport[v].dp \in ds
    BY DEF PortsOf, Attached
  <2>2. vs \in SUBSET VportObj  BY <2>1
  <2>3. /\ vport' = [v \in VportObj |-> IF v \in vs THEN [vport[v] EXCEPT !.st = "dead"] ELSE vport[v]]
        /\ dp' = [d \in DpObj |-> IF d \in ds THEN [dp[d] EXCEPT !.st = "dead"] ELSE dp[d]]
    BY DEF DestroyDps
  <2> HIDE DEF vs
  <2>4. QED  BY <2>1, <2>2, <2>3
<1>2. PortTypes  BY DEF IndInv, MemoryTypes
<1>3. \A v \in VportObj:
        /\ vport'[v].st = IF v \in vs THEN "dead" ELSE vport[v].st
        /\ vport'[v].dp = vport[v].dp
        /\ v \notin vs => vport'[v] = vport[v]
  BY <1>1, <1>2 DEF PortTypes
<1>4. \A d \in DpObj:
        /\ d \in ds => dp'[d].st = "dead"
        /\ d \notin ds => dp'[d] = dp[d]
  BY <1>1, <1>2 DEF PortTypes
<1>5. ASSUME NEW e \in DpObj, dp'[e].st = "live" PROVE Needs(e)'
  <2>1. e \notin ds /\ dp'[e] = dp[e] /\ Needs(e)  BY <1>4, <1>5 DEF HeadroomInv
  <2>2. \A v \in VportObj:
          (vport[v].st = "live" /\ vport[v].dp = e) \/ (vport'[v].st = "live" /\ vport'[v].dp = e)
             => vport'[v] = vport[v]
    BY <1>1, <1>3, <2>1
  <2>3. QED  BY <2>1, <2>2, NeedsKept
<1>6. QED  BY <1>4, <1>5 DEF HeadroomInv

LEMMA ReclaimNeeds == ASSUME IndInv, HeadroomInv, Reclaim PROVE HeadroomInv'
<1>1. PortTypes /\ DeferredInv /\ MemoryTypes  BY DEF IndInv, MemoryTypes
<1>2. PICK x \in deferred:
        \/ UNCHANGED <<dp, vport>>
        \/ x.kind = "vport" /\ vport' = [vport EXCEPT ![x.obj] = NoVport] /\ dp' = dp
        \/ x.kind = "dp" /\ dp' = [dp EXCEPT ![x.obj] = [st |-> "free", maxroom |-> 0]] /\ vport' = vport
  BY DEF Reclaim, FreeDp, portVars
<1>3. CASE UNCHANGED <<dp, vport>>
  BY <1>3 DEF HeadroomInv, Needs, PortsOf, Attached
<1>4. CASE x.kind = "vport" /\ vport' = [vport EXCEPT ![x.obj] = NoVport] /\ dp' = dp
  <2>1. x.obj \in VportObj /\ vport[x.obj].st = "dead"
    BY <1>1, <1>4, WaitingFields DEF DeferredInv
  <2>2. \A v \in VportObj: vport[v].st = "live" \/ vport'[v].st = "live" => vport'[v] = vport[v]
    BY <1>1, <1>4, <2>1 DEF PortTypes, NoVport
  <2>3. ASSUME NEW d \in DpObj, dp[d].st = "live" PROVE Needs(d)'
    BY <1>4, <2>2, <2>3, NeedsKept DEF HeadroomInv
  <2>4. QED  BY <1>4, <2>3 DEF HeadroomInv
<1>5. CASE x.kind = "dp" /\ dp' = [dp EXCEPT ![x.obj] = [st |-> "free", maxroom |-> 0]]
           /\ vport' = vport
  <2>1. x.obj \in DpObj  BY <1>1, <1>5, WaitingFields
  <2>2. \A d \in DpObj: dp'[d] = dp[d] \/ (dp'[d].st = "free" /\ dp'[d].maxroom = 0)
    BY <1>1, <1>5, <2>1 DEF PortTypes
  <2>3. ASSUME NEW d \in DpObj, dp'[d].st = "live" PROVE Needs(d)'
    BY <1>5, <2>2, <2>3, NeedsKept DEF HeadroomInv
  <2>4. QED  BY <2>2, <2>3 DEF HeadroomInv
<1>6. QED  BY <1>2, <1>3, <1>4, <1>5

\* Flow commands leave ports and dumps alone.
LEMMA FlowCommandPorts ==
  ASSUME NEW t \in Thread, FlowCommand(t)
  PROVE  UNCHANGED <<dp, dps, ports, vport, dump>>
<1>1. CASE AllocNewFlow(t)  BY <1>1 DEF AllocNewFlow, portVars
<1>2. CASE NewFlow(t)
  BY <1>2 DEF NewFlow, GiveUp, InsertFlow, InsertFails, UpdateActs, portVars
<1>3. CASE AllocSetFlow(t)  BY <1>3 DEF AllocSetFlow, portVars
<1>4. CASE SetFlow(t)
  <2>1. ASSUME NEW g, UpdateActs(t, g) PROVE UNCHANGED <<portVars, dump>>
    BY <2>1 DEF UpdateActs
  <2>2. UNCHANGED <<portVars, dump>>  BY <1>4, <2>1 DEF SetFlow
  <2>3. QED  BY <2>2 DEF portVars
<1>5. CASE FreeOld(t)  BY <1>5 DEF FreeOld, portVars
<1>6. CASE RemoveFlow(t)  BY <1>6 DEF RemoveFlow, portVars
<1>7. CASE FreeRemoved(t)  BY <1>7 DEF FreeRemoved, portVars
<1>8. CASE AllocPacket(t)  BY <1>8 DEF AllocPacket, portVars
<1>9. CASE StartPacket(t)  BY <1>9 DEF StartPacket, GiveUp, portVars
<1>10. CASE EndPacket(t)  BY <1>10 DEF EndPacket, portVars
<1>11. QED  BY <1>1, <1>2, <1>3, <1>4, <1>5, <1>6, <1>7, <1>8, <1>9, <1>10 DEF FlowCommand

LEMMA NextKeepsNeeds == ASSUME IndInv, HeadroomInv, [Next]_vars PROVE HeadroomInv'
<1>1. ASSUME UNCHANGED <<dp, vport>> PROVE HeadroomInv'
  BY <1>1 DEF HeadroomInv, Needs, PortsOf, Attached
<1>2. CASE Ports
  <2>1. CASE DelDp
    <3>1. PICK d \in GetDp: DestroyDps({d})  BY <2>1 DEF DelDp
    <3>2. d \in DpObj /\ dp[d].st = "live"  BY GetDpLive DEF IndInv
    <3>3. QED  BY <3>1, <3>2, DestroyNeeds
  <2>2. CASE NetExit
    <3>1. dps \in SUBSET DpObj /\ \A d \in dps: dp[d].st = "live"
      BY DEF IndInv, MemoryTypes, PortTypes, PortsInv
    <3>2. DestroyDps(dps)  BY <2>2 DEF NetExit
    <3>3. QED  BY <3>1, <3>2, DestroyNeeds
  <2>3. QED  BY <1>2, <2>1, <2>2, NewDpNeeds, AddPortNeeds, DelPortNeeds DEF Ports
<1>3. CASE Reclaim  BY <1>3, ReclaimNeeds
<1>4. CASE (\E n \in DOMAIN Subsystems: LoadFails(n)) \/ Load \/ Dumps
           \/ SetReplyFails \/ Flush \/ UNCHANGED vars
  BY <1>1, <1>4
     DEF Load, LoadFails, SetReplyFails, Flush, Dumps, StartDump, DumpSome, EndDump, vars, portVars
<1>5. CASE \E t \in Thread: FlowCommand(t)
  BY <1>1, <1>5, FlowCommandPorts
<1>6. CASE \E c \in Cpu: Packet(c)
  BY <1>1, <1>6 DEF Packet, Receive, Lookup, TakeActs, Upcall, Execute, portVars
<1>7. QED  BY <1>2, <1>3, <1>4, <1>5, <1>6 DEF Next

\* The headroom of a live datapath is what its neediest port needs, and its ports
\* reserve it, after commands have added and removed any ports in any order
\* (datapath.c:2066-2086, 2155-2158, 2252-2258).
THEOREM HeadroomIsMostHolds == Spec => []HeadroomIsMost
<1>1. Init => HeadroomInv  BY DEF Init, HeadroomInv
<1>2. IndInv /\ HeadroomInv /\ [Next]_vars => HeadroomInv'  BY NextKeepsNeeds
<1>3. ASSUME IndInv, HeadroomInv PROVE HeadroomIsMost
  <2>1. ASSUME NEW d \in DpObj, dp[d].st = "live"
        PROVE  /\ dp[d].maxroom = Max({vport[v].room: v \in PortsOf(d)})
               /\ \A v \in PortsOf(d): vport[v].no # LOCAL_PORT => vport[v].rx = dp[d].maxroom
    <3> DEFINE S == {vport[v].room: v \in PortsOf(d)}
    <3>1. PortTypes /\ Needs(d)  BY <1>3, <2>1 DEF IndInv, MemoryTypes, HeadroomInv
    <3>2. S \in SUBSET Rooms  BY <3>1 DEF PortTypes, PortsOf, Attached
    <3>3. dp[d].maxroom \in S /\ \A y \in S: y <= dp[d].maxroom  BY <3>1 DEF Needs
    <3>4. dp[d].maxroom \in Rooms  BY <3>1 DEF PortTypes
    <3> HIDE DEF S
    <3>5. Max(S) \in S /\ \A y \in S: Max(S) >= y  BY <3>2, <3>3, MaxIn
    <3>6. dp[d].maxroom = Max(S)
      BY <3>2, <3>3, <3>4, <3>5, RoomsAreNumbers
    <3>7. QED  BY <3>1, <3>6 DEF Needs, S
  <2>2. QED  BY <2>1 DEF HeadroomIsMost
<1>4. QED  BY <1>1, <1>2, <1>3, Invariance, PTL DEF Spec

-----------------------------------------------------------------------------
(* Dumps *)

Bins == 0 .. Buckets - 1

DumpRecords == [pc: {"idle", "more", "done"}, dp: Opt(DpObj), at: Nat \X Nat,
                seen: SUBSET VportObj, base: SUBSET VportObj, shift: SUBSET Bins]

PlaceTypes == ports \in [DpObj -> [Bins -> Seq(VportObj)]] /\ dump \in DumpRecords

\* Port v is in a list.
In(s, v) == \E i \in DOMAIN s: s[i] = v

\* Port v has a place in bucket b, the list s, that a dump has not been to.
Ahead(s, b, v, at) == \E i \in DOMAIN s: s[i] = v /\ ~ Before(<<b, i - 1>>, at)

\* Ports that are attached are in their lists.
ListedInv == \A v \in Attached: In(ports[vport[v].dp][Bucket(v)], v)

\* A dump that goes on has reported a port or has its place ahead, unless its bucket
\* has moved up.
DumpInv ==
    /\ dump.base \subseteq PortsOf(dump.dp)
    /\ dump.pc = "more" => \A v \in dump.base:
          \/ v \in dump.seen \/ Bucket(v) \in dump.shift
          \/ Ahead(ports[dump.dp][Bucket(v)], Bucket(v), v, dump.at)
    /\ DumpReports

PlacesInv == PlaceTypes /\ ListedInv /\ DumpInv

\* The first in a set of places.
First(T) == CHOOSE p \in T: \A q \in T \ {p}: Before(p, q)

LEMMA FirstPlace ==
  ASSUME NEW T \in SUBSET (Nat \X Nat), T # {}
  PROVE  First(T) \in T /\ \A q \in T \ {First(T)}: Before(First(T), q)
<1> DEFINE Bs == {p[1]: p \in T}
<1>1. Bs \in SUBSET Nat /\ Bs # {} /\ \A p \in T: p[1] \in Bs  OBVIOUS
<1>2. \A b \in Bs: \E p \in T: p[1] = b  OBVIOUS
<1> HIDE DEF Bs
<1>3. PICK b \in Bs: b \in Nat /\ \A c \in Bs: b <= c
  BY <1>1, MinIn
<1> DEFINE Js == {j \in Nat: <<b, j>> \in T}
<1>4. PICK r \in T: r[1] = b  BY <1>2, <1>3
<1>5. r = <<b, r[2]>> /\ r[2] \in Nat  BY <1>4
<1>6. Js \in SUBSET Nat /\ Js # {}  BY <1>4, <1>5
<1>7. \A j \in Js: <<b, j>> \in T  OBVIOUS
<1>8. \A j \in Nat: <<b, j>> \in T => j \in Js  OBVIOUS
<1> HIDE DEF Js
<1>9. PICK j \in Js: j \in Nat /\ \A k \in Js: j <= k  BY <1>6, MinIn
<1>10. PICK p \in T: p = <<b, j>>  BY <1>7, <1>9
<1>11. ASSUME NEW q \in T \ {p} PROVE Before(p, q)
  <2>1. PICK c \in Nat, k \in Nat: q = <<c, k>>  BY <1>11
  <2>2. c \in Bs /\ q[1] = c /\ q[2] = k /\ p[1] = b /\ p[2] = j  BY <1>1, <1>10, <2>1
  <2>3. b <= c  BY <1>3, <2>2
  <2>4. CASE c = b
    <3>1. k \in Js /\ k # j  BY <1>8, <1>10, <1>11, <2>1, <2>4
    <3>2. j < k  BY <1>9, <2>1, <3>1
    <3>3. QED  BY <2>2, <2>4, <3>2 DEF Before
  <2>5. CASE c # b
    <3>1. b < c  BY <1>3, <2>1, <2>3, <2>5
    <3>2. QED  BY <2>2, <3>1 DEF Before
  <2>6. QED  BY <2>4, <2>5
<1>12. QED  BY <1>10, <1>11 DEF First

LEMMA BeforeOnce ==
  ASSUME NEW p \in Nat \X Nat, NEW q \in Nat \X Nat, Before(p, q)
  PROVE  ~ Before(q, p)
<1>1. p[1] \in Nat /\ p[2] \in Nat /\ q[1] \in Nat /\ q[2] \in Nat  OBVIOUS
<1>2. QED  BY <1>1 DEF Before

\* A list with another port in front, and one without a port.
LEMMA InFront ==
  ASSUME NEW s \in Seq(VportObj), NEW w \in VportObj
  PROVE  /\ <<w>> \o s \in Seq(VportObj) /\ In(<<w>> \o s, w)
         /\ \A i \in DOMAIN s: i + 1 \in DOMAIN (<<w>> \o s) /\ (<<w>> \o s)[i + 1] = s[i]
<1>1. <<w>> \o s \in Seq(VportObj) /\ Len(<<w>> \o s) = Len(s) + 1  OBVIOUS
<1>2. (<<w>> \o s)[1] = w /\ 1 \in DOMAIN (<<w>> \o s)  BY <1>1
<1>3. \A i \in DOMAIN s: i + 1 \in DOMAIN (<<w>> \o s) /\ (<<w>> \o s)[i + 1] = s[i]
  BY <1>1
<1>4. QED  BY <1>1, <1>2, <1>3 DEF In

LEMMA StaysAhead ==
  ASSUME NEW s \in Seq(VportObj), NEW w \in VportObj, NEW b \in Nat, NEW v, NEW at \in Nat \X Nat
  PROVE  /\ In(s, v) => In(<<w>> \o s, v)
         /\ Ahead(s, b, v, at) => Ahead(<<w>> \o s, b, v, at)
<1>1. ASSUME In(s, v) PROVE In(<<w>> \o s, v)
  <2>1. PICK i \in DOMAIN s: s[i] = v  BY <1>1 DEF In
  <2>2. QED  BY <2>1, InFront DEF In
<1>2. ASSUME Ahead(s, b, v, at) PROVE Ahead(<<w>> \o s, b, v, at)
  <2>1. PICK i \in DOMAIN s: s[i] = v /\ ~ Before(<<b, i - 1>>, at)  BY <1>2 DEF Ahead
  <2>2. i \in Nat /\ at[1] \in Nat /\ at[2] \in Nat  BY <2>1
  <2>3. ~ Before(<<b, (i + 1) - 1>>, at)  BY <2>1, <2>2 DEF Before
  <2>4. QED  BY <2>1, <2>3, InFront DEF Ahead
<1>3. QED  BY <1>1, <1>2

LEMMA UnlinkedLists ==
  ASSUME NEW s \in Seq(VportObj), NEW v, In(s, v)
  PROVE  /\ Unlinked(s, v) \in Seq(VportObj)
         /\ \A w: w # v /\ In(s, w) => In(Unlinked(s, v), w)
<1>1. PICK i \in DOMAIN s: s[i] = v /\ Unlinked(s, v) = RemoveAt(s, i)  BY DEF In, Unlinked
<1> DEFINE t == SubSeq(s, 1, i - 1)
           u == SubSeq(s, i + 1, Len(s))
<1>2. i \in Nat /\ 1 <= i /\ i <= Len(s) /\ Len(s) \in Nat  BY <1>1
<1>3. t \in Seq(VportObj) /\ Len(t) = i - 1 /\ \A j \in 1 .. i - 1: t[j] = s[j]  BY <1>2
<1>4. u \in Seq(VportObj) /\ Len(u) = Len(s) - i /\ \A j \in 1 .. Len(s) - i: u[j] = s[i + j]  BY <1>2
<1>5. Unlinked(s, v) = t \o u  BY <1>1 DEF RemoveAt
<1> HIDE DEF t, u
<1>6. t \o u \in Seq(VportObj) /\ Len(t \o u) = Len(s) - 1  BY <1>2, <1>3, <1>4
<1>7. ASSUME NEW w, w # v, In(s, w) PROVE In(t \o u, w)
  <2>1. PICK j \in DOMAIN s: s[j] = w /\ j # i  BY <1>1, <1>7 DEF In
  <2>2. j \in 1 .. Len(s)  BY <2>1
  <2>3. CASE j < i
    <3>1. j \in 1 .. Len(t) /\ j \in DOMAIN (t \o u)  BY <1>2, <1>3, <1>6, <2>2, <2>3
    <3>2. (t \o u)[j] = s[j]  BY <1>2, <1>3, <1>4, <2>2, <2>3, <3>1
    <3>3. QED  BY <2>1, <3>1, <3>2 DEF In
  <2>4. CASE j > i
    <3>1. j - 1 \in DOMAIN (t \o u)  BY <1>2, <1>6, <2>2, <2>4
    <3>2. (t \o u)[j - 1] = u[(j - 1) - (i - 1)]  BY <1>2, <1>3, <1>4, <2>2, <2>4
    <3>3. (j - 1) - (i - 1) = j - i /\ j - i \in 1 .. Len(s) - i /\ i + (j - i) = j
      BY <1>2, <2>2, <2>4
    <3>4. u[j - i] = s[j]  BY <1>4, <3>3
    <3>5. QED  BY <2>1, <3>1, <3>2, <3>3, <3>4 DEF In
  <2>5. QED  BY <1>2, <2>1, <2>2, <2>3, <2>4
<1>8. QED  BY <1>5, <1>6, <1>7

LEMMA BucketBin == ASSUME PortTypes, NEW v \in VportObj PROVE Bucket(v) \in Bins
<1>1. vport[v].no \in Nat /\ Buckets \in Nat /\ Buckets > 0  BY DatapathAssumption DEF PortTypes
<1>2. vport[v].no % Buckets \in 0 .. Buckets - 1  BY <1>1
<1>3. QED  BY <1>2 DEF Bucket, Bins

LEMMA BinsAreNumbers == \A b \in Bins: b \in Nat
  BY DatapathAssumption DEF Bins

\* What attached ports are found by.
PortsFound ==
    \A v \in VportObj: vport[v].st = "live" =>
        vport'[v].st = "live" /\ vport'[v].no = vport[v].no /\ vport'[v].dp = vport[v].dp

\* Each list is as it was, or has another port in front.
ListsGrow ==
    \A d \in DpObj, b \in Bins:
        \/ ports'[d][b] = ports[d][b]
        \/ \E w \in VportObj: ports'[d][b] = <<w>> \o ports[d][b]

\* A step of which no port goes.
LEMMA GrowPlaces ==
  ASSUME PortTypes, PortsInv, PlacesInv, PlaceTypes', PortsFound, ListsGrow, dump' = dump,
         \A v \in VportObj: vport'[v].st = "live" /\ vport[v].st # "live" =>
             In(ports'[vport'[v].dp][Bucket(v)'], v)
  PROVE  PlacesInv'
<1>1. \A v \in Attached: /\ v \in Attached' /\ Bucket(v)' = Bucket(v) /\ vport'[v].dp = vport[v].dp
                         /\ v \in VportObj /\ vport[v].dp \in DpObj /\ Bucket(v) \in Bins
  BY BucketBin DEF PortsFound, Attached, Bucket, PortsInv
<1>2. \A d \in DpObj, b \in Bins: ports[d][b] \in Seq(VportObj)  BY DEF PlacesInv, PlaceTypes
<1>3. ASSUME NEW d \in DpObj, NEW b \in Bins, NEW v
      PROVE  /\ In(ports[d][b], v) => In(ports'[d][b], v)
             /\ \A at \in Nat \X Nat: Ahead(ports[d][b], b, v, at) => Ahead(ports'[d][b], b, v, at)
  <2>1. CASE ports'[d][b] = ports[d][b]  BY <2>1
  <2>2. ASSUME NEW w \in VportObj, ports'[d][b] = <<w>> \o ports[d][b]
        PROVE  /\ In(ports[d][b], v) => In(ports'[d][b], v)
               /\ \A at \in Nat \X Nat: Ahead(ports[d][b], b, v, at) => Ahead(ports'[d][b], b, v, at)
    <3>1. PICK s \in Seq(VportObj): s = ports[d][b]  BY <1>2
    <3>2. b \in Nat  BY BinsAreNumbers
    <3>3. \A at \in Nat \X Nat: /\ In(s, v) => In(<<w>> \o s, v)
                                /\ Ahead(s, b, v, at) => Ahead(<<w>> \o s, b, v, at)
      BY <3>2, StaysAhead
    <3>4. In(s, v) => In(<<w>> \o s, v)
      <4>1. <<0, 0>> \in Nat \X Nat  OBVIOUS
      <4>2. QED  BY <3>3, <4>1
    <3>5. QED  BY <2>2, <3>1, <3>3, <3>4
  <2>3. QED  BY <2>1, <2>2 DEF ListsGrow
<1>4. ListedInv'
  <2>1. ASSUME NEW v \in Attached' PROVE In(ports'[vport'[v].dp][Bucket(v)'], v)
    <3>1. v \in VportObj /\ vport'[v].st = "live"  BY DEF Attached
    <3>2. CASE vport[v].st = "live"
      <4>1. v \in Attached  BY <3>1, <3>2 DEF Attached
      <4>2. QED  BY <1>1, <1>3, <4>1 DEF PlacesInv, ListedInv
    <3>3. QED  BY <3>1, <3>2
  <2>2. QED  BY <2>1 DEF ListedInv
<1>5. DumpInv'
  <2>1. dump.base \subseteq PortsOf(dump.dp) /\ DumpReports  BY DEF PlacesInv, DumpInv
  <2>2. \A v \in dump.base: v \in Attached /\ vport[v].dp = dump.dp  BY <2>1 DEF PortsOf
  <2>3. (dump.base \subseteq PortsOf(dump.dp))'  BY <1>1, <2>2 DEF PortsOf
  <2>4. DumpReports'  BY <1>1, <2>1, <2>2 DEF DumpReports
  <2>5. ASSUME dump.pc = "more", NEW v \in dump.base
        PROVE  \/ v \in dump.seen \/ Bucket(v)' \in dump.shift
               \/ Ahead(ports'[dump.dp][Bucket(v)'], Bucket(v)', v, dump.at)
    <3>1. \/ v \in dump.seen \/ Bucket(v) \in dump.shift
          \/ Ahead(ports[dump.dp][Bucket(v)], Bucket(v), v, dump.at)
      BY <2>5 DEF PlacesInv, DumpInv
    <3>2. dump.at \in Nat \X Nat  BY DEF PlacesInv, PlaceTypes, DumpRecords
    <3>3. dump.dp \in DpObj /\ Bucket(v) \in Bins /\ Bucket(v)' = Bucket(v)  BY <1>1, <2>2
    <3>4. QED  BY <1>3, <3>1, <3>2, <3>3
  <2>6. QED  BY <2>3, <2>4, <2>5 DEF DumpInv
<1>6. QED  BY <1>4, <1>5 DEF PlacesInv

\* Steps that have nothing to do with lists and dumps.
LEMMA QuietPlaces ==
  ASSUME PortTypes, PortsInv, PlacesInv, UNCHANGED <<ports, vport, dump>>
  PROVE  PlacesInv'
<1>1. PlaceTypes'  BY DEF PlacesInv, PlaceTypes
<1>2. PortsFound /\ ListsGrow  BY DEF PortsFound, ListsGrow
<1>3. QED  BY <1>1, <1>2, GrowPlaces

\* The ports vs go, with the datapaths ds.
LEMMA GoPlaces ==
  ASSUME PortTypes, PortsInv, PlacesInv, ports' \in [DpObj -> [Bins -> Seq(VportObj)]],
         NEW vs \in SUBSET VportObj, NEW ds \in SUBSET DpObj, dump' = Shifts(vs, ds),
         \A v \in vs: vport[v].st = "live",
         \A v \in VportObj: /\ vport'[v].st = "live" <=> vport[v].st = "live" /\ v \notin vs
                            /\ vport'[v].no = vport[v].no /\ vport'[v].dp = vport[v].dp,
         \A v \in Attached: vport[v].dp \in ds => v \in vs,
         \A v \in Attached \ vs:
             LET d == vport[v].dp
                 b == Bucket(v) IN
             \/ ports'[d][b] = ports[d][b]
             \/ In(ports'[d][b], v) /\ \E w \in vs: vport[w].dp = d /\ Bucket(w) = b
  PROVE  PlacesInv'
<1>1. \A v \in VportObj: /\ v \in Attached' <=> v \in Attached /\ v \notin vs
                         /\ Bucket(v)' = Bucket(v) /\ Bucket(v) \in Bins
  BY BucketBin DEF Attached, Bucket
<1>2. Attached \subseteq VportObj /\ Attached' \subseteq VportObj  BY DEF Attached
<1>3. ListedInv'
  <2>1. ASSUME NEW v \in Attached' PROVE In(ports'[vport'[v].dp][Bucket(v)'], v)
    <3>1. v \in Attached \ vs /\ vport'[v].dp = vport[v].dp /\ Bucket(v)' = Bucket(v)  BY <1>1, <1>2
    <3>2. In(ports[vport[v].dp][Bucket(v)], v)  BY <3>1 DEF PlacesInv, ListedInv
    <3>3. QED  BY <3>1, <3>2
  <2>2. QED  BY <2>1 DEF ListedInv
<1>4. dump \in DumpRecords  BY DEF PlacesInv, PlaceTypes
<1>5. /\ dump.base \subseteq PortsOf(dump.dp) /\ DumpReports
      /\ \A v \in dump.base: v \in Attached /\ vport[v].dp = dump.dp
  BY DEF PlacesInv, DumpInv, PortsOf
<1>6. CASE dump.dp \in ds
  <2>1. dump' = [dump EXCEPT !.dp = Null, !.base = {}]  BY <1>6 DEF Shifts
  <2>2. dump' \in DumpRecords /\ dump'.base = {}  BY <1>4, <2>1 DEF DumpRecords, Opt
  <2>3. PlaceTypes'  BY <2>2 DEF PlaceTypes
  <2>4. DumpInv'  BY <2>2 DEF DumpInv, DumpReports
  <2>5. QED  BY <1>3, <2>3, <2>4 DEF PlacesInv
<1>7. CASE dump.dp \notin ds
  <2> DEFINE moved == {Bucket(v): v \in {w \in vs: vport[w].dp = dump.dp}}
  <2>1. moved \subseteq Bins /\ \A w \in vs: vport[w].dp = dump.dp => Bucket(w) \in moved  BY <1>1
  <2>2. dump' = [dump EXCEPT !.base = @ \ vs,
                             !.shift = IF dump.pc = "more" THEN @ \cup moved ELSE @]
    BY <1>7 DEF Shifts
  <2> HIDE DEF moved
  <2>3. /\ dump'.pc = dump.pc /\ dump'.dp = dump.dp /\ dump'.at = dump.at /\ dump'.seen = dump.seen
        /\ dump'.base = dump.base \ vs
        /\ dump'.shift = (IF dump.pc = "more" THEN dump.shift \cup moved ELSE dump.shift)
        /\ dump' \in DumpRecords
    <3>1. PICK m: m = IF dump.pc = "more" THEN dump.shift \cup moved ELSE dump.shift  OBVIOUS
    <3>2. dump = [pc |-> dump.pc, dp |-> dump.dp, at |-> dump.at, seen |-> dump.seen,
                  base |-> dump.base, shift |-> dump.shift]
      BY <1>4 DEF DumpRecords
    <3>3. dump' = [pc |-> dump.pc, dp |-> dump.dp, at |-> dump.at, seen |-> dump.seen,
                   base |-> dump.base \ vs, shift |-> m]
      BY <2>2, <3>1, <3>2
    <3>4. m \in SUBSET Bins  BY <1>4, <2>1, <3>1 DEF DumpRecords
    <3>5. dump' \in DumpRecords  BY <1>4, <3>3, <3>4 DEF DumpRecords
    <3>6. QED  BY <3>1, <3>3, <3>5
  <2>4. PlaceTypes'  BY <2>3 DEF PlaceTypes
  <2>5. (dump.base \subseteq PortsOf(dump.dp))'  BY <1>1, <1>2, <1>5, <2>3 DEF PortsOf
  <2>6. DumpReports'  BY <1>1, <1>2, <1>5, <2>3 DEF DumpReports
  <2>7. ASSUME dump.pc = "more", NEW v \in dump.base \ vs
        PROVE  \/ v \in dump.seen \/ Bucket(v)' \in dump.shift \cup moved
               \/ Ahead(ports'[dump.dp][Bucket(v)'], Bucket(v)', v, dump.at)
    <3>1. \/ v \in dump.seen \/ Bucket(v) \in dump.shift
          \/ Ahead(ports[dump.dp][Bucket(v)], Bucket(v), v, dump.at)
      BY <2>7 DEF PlacesInv, DumpInv
    <3>2. v \in Attached \ vs /\ vport[v].dp = dump.dp /\ Bucket(v)' = Bucket(v)
      BY <1>1, <1>2, <1>5, <2>7
    <3>3. ports'[dump.dp][Bucket(v)] = ports[dump.dp][Bucket(v)] \/ Bucket(v) \in moved
      BY <2>1, <3>2
    <3>4. QED  BY <3>1, <3>2, <3>3
  <2>8. DumpInv'  BY <2>3, <2>5, <2>6, <2>7 DEF DumpInv
  <2>9. QED  BY <1>3, <2>4, <2>8 DEF PlacesInv
<1>8. QED  BY <1>6, <1>7

\* A port is added to a bucket.
LEMMA NewPlace ==
  ASSUME PortTypes, PlaceTypes, NEW d \in DpObj, NEW v \in VportObj, NEW b \in Bins,
         ports' = [ports EXCEPT ![d][b] = <<v>> \o @], dump' = dump
  PROVE  PlaceTypes' /\ ListsGrow /\ In(ports'[d][b], v)
<1>1. \A e \in DpObj, c \in Bins:
        ports'[e][c] = IF e = d /\ c = b THEN <<v>> \o ports[e][c] ELSE ports[e][c]
  BY DEF PlaceTypes
<1>2. \A e \in DpObj, c \in Bins: ports[e][c] \in Seq(VportObj)  BY DEF PlaceTypes
<1>3. <<v>> \o ports[d][b] \in Seq(VportObj) /\ In(<<v>> \o ports[d][b], v)
  BY <1>2, InFront
<1>4. ports' \in [DpObj -> [Bins -> Seq(VportObj)]]
  <2>1. PICK s \in Seq(VportObj): s = <<v>> \o ports[d][b]  BY <1>3
  <2>2. ports' = [ports EXCEPT ![d][b] = s]  BY <2>1
  <2>3. QED  BY <2>2 DEF PlaceTypes
<1>5. PlaceTypes'  BY <1>4 DEF PlaceTypes
<1>6. ListsGrow  BY <1>1 DEF ListsGrow
<1>7. QED  BY <1>1, <1>3, <1>5, <1>6

LEMMA NewDpPlaces == ASSUME IndInv, PlacesInv, NewDp PROVE PlacesInv'
<1>1. PICK d \in FreshDp, v \in FreshVport:
        LET r == [st |-> "live", no |-> LOCAL_PORT, internal |-> TRUE, dp |-> d,
                  room |-> 0, rx |-> 0] IN
        NewVport(d, v, r) /\ vport' = [vport EXCEPT ![v] = r] /\ dump' = dump
  BY DEF NewDp
<1>2. v \in VportObj /\ vport[v].st = "free" /\ d \in DpObj  BY <1>1, FreshObjects
<1>3. PICK r: /\ r.st = "live" /\ r.no = LOCAL_PORT /\ r.dp = d
              /\ NewVport(d, v, r) /\ vport' = [vport EXCEPT ![v] = r]
  BY <1>1
<1>4. PortTypes /\ PortsInv /\ PlaceTypes  BY DEF IndInv, MemoryTypes, PlacesInv
<1>5. PICK b \in Bins: b = r.no % Buckets
  BY <1>3, DatapathAssumption DEF LOCAL_PORT, Bins
<1>6. ports' = [ports EXCEPT ![d][b] = <<v>> \o @]  BY <1>3, <1>5 DEF NewVport
<1>7. PlaceTypes' /\ ListsGrow /\ In(ports'[d][b], v)  BY <1>1, <1>2, <1>4, <1>6, NewPlace
<1>8. \A w \in VportObj: vport'[w] = IF w = v THEN r ELSE vport[w]  BY <1>2, <1>3, <1>4 DEF PortTypes
<1>9. PortsFound  BY <1>2, <1>8 DEF PortsFound
<1>10. ASSUME NEW w \in VportObj, vport'[w].st = "live", vport[w].st # "live"
       PROVE  In(ports'[vport'[w].dp][Bucket(w)'], w)
  <2>1. w = v /\ vport'[w] = r  BY <1>8, <1>10
  <2>2. Bucket(w)' = b  BY <1>5, <2>1 DEF Bucket
  <2>3. QED  BY <1>3, <1>7, <2>1, <2>2
<1>11. QED  BY <1>1, <1>4, <1>7, <1>9, <1>10, GrowPlaces

LEMMA AddPortPlaces == ASSUME IndInv, PlacesInv, AddPort PROVE PlacesInv'
<1> DEFINE PortRecords == [st: {"free", "live", "dead"}, no: Nat, internal: BOOLEAN,
                           dp: Opt(DpObj), room: Rooms, rx: Rooms]
<1>1. PICK v \in FreshVport, no \in 0 .. MaxPorts - 1, internal \in BOOLEAN, room \in Room,
           d \in GetDp: \E m \in PortNo(d, no):
        LET r == [st |-> "live", no |-> m, internal |-> internal, dp |-> d, room |-> room,
                  rx |-> dp[d].maxroom] IN
        /\ NewVport(d, v, r)
        /\ IF room > dp[d].maxroom
             THEN UpdateHeadroom(d, [vport EXCEPT ![v] = r])
             ELSE vport' = [vport EXCEPT ![v] = r] /\ UNCHANGED dp
        /\ UNCHANGED <<dps, dump>>
  BY DEF AddPort
<1>2. v \in VportObj /\ vport[v].st = "free" /\ d \in DpObj /\ dp[d].st = "live"
  BY FreshObjects, GetDpLive DEF IndInv
<1>3. PICK m \in PortNo(d, no):
        LET r == [st |-> "live", no |-> m, internal |-> internal, dp |-> d, room |-> room,
                  rx |-> dp[d].maxroom] IN
        /\ NewVport(d, v, r)
        /\ IF room > dp[d].maxroom
             THEN UpdateHeadroom(d, [vport EXCEPT ![v] = r])
             ELSE vport' = [vport EXCEPT ![v] = r] /\ UNCHANGED dp
        /\ UNCHANGED <<dps, dump>>
  BY <1>1
<1>4. PortTypes /\ PortsInv /\ PlaceTypes  BY DEF IndInv, MemoryTypes, PlacesInv
<1>5. m \in Nat  BY <1>2, PortNoNotLocal
<1>6. room \in Rooms /\ dp[d].maxroom \in Rooms  BY <1>2, <1>4, RoomIsRoom DEF PortTypes
<1>7. PICK r \in PortRecords:
        /\ r.st = "live" /\ r.dp = d /\ r.no = m
        /\ NewVport(d, v, r)
        /\ IF room > dp[d].maxroom
             THEN UpdateHeadroom(d, [vport EXCEPT ![v] = r])
             ELSE vport' = [vport EXCEPT ![v] = r] /\ UNCHANGED dp
  <2>1. [st |-> "live", no |-> m, internal |-> internal, dp |-> d, room |-> room,
         rx |-> dp[d].maxroom] \in PortRecords
    BY <1>2, <1>5, <1>6 DEF Opt
  <2>2. QED  BY <1>3, <2>1
<1>8. PICK vp \in [VportObj -> PortRecords]: vp = [vport EXCEPT ![v] = r]
  BY <1>2, <1>4 DEF PortTypes
<1>9. \A w \in VportObj: vp[w] = IF w = v THEN r ELSE vport[w]
  BY <1>2, <1>4, <1>8 DEF PortTypes
<1>10. \A w \in VportObj: vport'[w].st = vp[w].st /\ vport'[w].dp = vp[w].dp /\ vport'[w].no = vp[w].no
  <2>1. CASE room > dp[d].maxroom
    <3>1. UpdateHeadroom(d, vp) /\ dps' = dps  BY <1>3, <1>7, <1>8, <2>1
    <3>2. QED  BY <1>2, <1>4, <3>1, UpdateHeadroomKeeps
  <2>2. CASE ~ (room > dp[d].maxroom)  BY <1>7, <1>8, <2>2
  <2>3. QED  BY <2>1, <2>2
<1>11. PICK b \in Bins: b = m % Buckets
  <2>1. m % Buckets \in 0 .. Buckets - 1  BY <1>5, DatapathAssumption
  <2>2. QED  BY <2>1 DEF Bins
<1>12. ports' = [ports EXCEPT ![d][b] = <<v>> \o @]  BY <1>7, <1>11 DEF NewVport
<1>13. PlaceTypes' /\ ListsGrow /\ In(ports'[d][b], v)  BY <1>2, <1>3, <1>4, <1>12, NewPlace
<1>14. PortsFound  BY <1>2, <1>9, <1>10 DEF PortsFound
<1>15. ASSUME NEW w \in VportObj, vport'[w].st = "live", vport[w].st # "live"
       PROVE  In(ports'[vport'[w].dp][Bucket(w)'], w)
  <2>1. w = v /\ vport'[w].no = m /\ vport'[w].dp = d  BY <1>7, <1>9, <1>10, <1>15
  <2>2. Bucket(w)' = b  BY <1>11, <2>1 DEF Bucket
  <2>3. QED  BY <1>13, <2>1, <2>2
<1>16. QED  BY <1>3, <1>4, <1>13, <1>14, <1>15, GrowPlaces

LEMMA DelPortPlaces == ASSUME IndInv, PlacesInv, DelPort PROVE PlacesInv'
<1> DEFINE PortRecords == [st: {"free", "live", "dead"}, no: Nat, internal: BOOLEAN,
                           dp: Opt(DpObj), room: Rooms, rx: Rooms]
<1>1. PICK v \in Attached:
        /\ ports' = [ports EXCEPT ![vport[v].dp][Bucket(v)] = Unlinked(@, v)]
        /\ IF vport[v].room = dp[vport[v].dp].maxroom
             THEN UpdateHeadroom(vport[v].dp, [vport EXCEPT ![v].st = "dead"])
             ELSE vport' = [vport EXCEPT ![v].st = "dead"] /\ UNCHANGED dp
        /\ dump' = Shifts({v}, {}) /\ dps' = dps
  BY DEF DelPort
<1>2. PortTypes /\ PortsInv /\ PlaceTypes  BY DEF IndInv, MemoryTypes, PlacesInv
<1>3. v \in VportObj /\ vport[v].st = "live"  BY DEF Attached
<1>4. PICK d \in DpObj, b \in Bins: d = vport[v].dp /\ b = Bucket(v)
  BY <1>2, <1>3, BucketBin DEF PortsInv
<1>5. PICK vp \in [VportObj -> PortRecords]: vp = [vport EXCEPT ![v].st = "dead"]
  BY <1>2, <1>3 DEF PortTypes
<1>6. \A w \in VportObj: /\ vp[w].st = (IF w = v THEN "dead" ELSE vport[w].st)
                         /\ vp[w].dp = vport[w].dp /\ vp[w].no = vport[w].no
  BY <1>2, <1>3, <1>5 DEF PortTypes
<1>7. \A w \in VportObj: vport'[w].st = vp[w].st /\ vport'[w].dp = vp[w].dp /\ vport'[w].no = vp[w].no
  <2>1. CASE vport[v].room = dp[d].maxroom
    <3>1. UpdateHeadroom(d, vp)  BY <1>1, <1>4, <1>5, <2>1
    <3>2. QED  BY <1>1, <1>2, <3>1, UpdateHeadroomKeeps
  <2>2. CASE vport[v].room # dp[d].maxroom  BY <1>1, <1>4, <1>5, <2>2
  <2>3. QED  BY <2>1, <2>2
<1>8. PICK s \in Seq(VportObj): s = ports[d][b]  BY <1>2 DEF PlaceTypes
<1>9. In(s, v)  BY <1>4, <1>8 DEF PlacesInv, ListedInv
<1>10. PICK t \in Seq(VportObj): t = Unlinked(s, v) /\ \A w: w # v /\ In(s, w) => In(t, w)
  BY <1>9, UnlinkedLists
<1>11. ports' = [ports EXCEPT ![d][b] = t]  BY <1>1, <1>2, <1>4, <1>8, <1>10 DEF PlaceTypes
<1>12. /\ ports' \in [DpObj -> [Bins -> Seq(VportObj)]]
       /\ \A e \in DpObj, c \in Bins: ports'[e][c] = IF e = d /\ c = b THEN t ELSE ports[e][c]
  BY <1>2, <1>11 DEF PlaceTypes
<1>13. ASSUME NEW w \in Attached \ {v}
       PROVE  \/ ports'[vport[w].dp][Bucket(w)] = ports[vport[w].dp][Bucket(w)]
              \/ /\ In(ports'[vport[w].dp][Bucket(w)], w)
                 /\ \E u \in {v}: vport[u].dp = vport[w].dp /\ Bucket(u) = Bucket(w)
  <2>1. w \in VportObj /\ vport[w].dp \in DpObj /\ Bucket(w) \in Bins
    BY <1>2, BucketBin DEF Attached, PortsInv
  <2>2. In(ports[vport[w].dp][Bucket(w)], w)  BY DEF PlacesInv, ListedInv
  <2>3. QED  BY <1>4, <1>8, <1>10, <1>12, <2>1, <2>2
<1>14. /\ \A w \in {v}: vport[w].st = "live"
       /\ \A w \in VportObj: /\ vport'[w].st = "live" <=> vport[w].st = "live" /\ w \notin {v}
                             /\ vport'[w].no = vport[w].no /\ vport'[w].dp = vport[w].dp
  BY <1>3, <1>6, <1>7
<1>15. PICK vs \in SUBSET VportObj, ds \in SUBSET DpObj: vs = {v} /\ ds = {}  BY <1>3
<1>16. dump' = Shifts(vs, ds)  BY <1>1, <1>15
<1>17. /\ \A w \in vs: vport[w].st = "live"
       /\ \A w \in VportObj: /\ vport'[w].st = "live" <=> vport[w].st = "live" /\ w \notin vs
                             /\ vport'[w].no = vport[w].no /\ vport'[w].dp = vport[w].dp
       /\ \A w \in Attached: vport[w].dp \in ds => w \in vs
  BY <1>14, <1>15
<1>18. \A w \in Attached \ vs:
         \/ ports'[vport[w].dp][Bucket(w)] = ports[vport[w].dp][Bucket(w)]
         \/ /\ In(ports'[vport[w].dp][Bucket(w)], w)
            /\ \E u \in vs: vport[u].dp = vport[w].dp /\ Bucket(u) = Bucket(w)
  BY <1>13, <1>15
<1>19. QED  BY <1>2, <1>12, <1>16, <1>17, <1>18, GoPlaces

LEMMA DestroyPlaces ==
  ASSUME IndInv, PlacesInv, NEW ds \in SUBSET DpObj, DestroyDps(ds)
  PROVE  PlacesInv'
<1>1. PICK vs \in SUBSET VportObj:
        /\ \A v \in VportObj: v \in vs <=> vport[v].st = "live" /\ vport[v].dp \in ds
        /\ ports' = [d \in DpObj |-> IF d \in ds THEN NoPorts ELSE ports[d]]
        /\ vport' = [v \in VportObj |-> IF v \in vs THEN [vport[v] EXCEPT !.st = "dead"] ELSE vport[v]]
        /\ dump' = Shifts(vs, ds)
  <2> DEFINE vs == UNION {PortsOf(d): d \in ds}
  <2>1. \A v: v \in vs <=> v \in VportObj /\ vport[v].st = "live" /\ vport[v].dp \in ds
    BY DEF PortsOf, Attached
  <2>2. vs \in SUBSET VportObj  BY <2>1
  <2>3. /\ ports' = [d \in DpObj |-> IF d \in ds THEN NoPorts ELSE ports[d]]
        /\ vport' = [v \in VportObj |-> IF v \in vs THEN [vport[v] EXCEPT !.st = "dead"] ELSE vport[v]]
        /\ dump' = Shifts(vs, ds)
    BY DEF DestroyDps
  <2> HIDE DEF vs
  <2>4. QED  BY <2>1, <2>2, <2>3
<1>2. PortTypes /\ PortsInv /\ PlaceTypes  BY DEF IndInv, MemoryTypes, PlacesInv
<1>3. \A v \in VportObj: /\ vport'[v].st = (IF v \in vs THEN "dead" ELSE vport[v].st)
                         /\ vport'[v].dp = vport[v].dp /\ vport'[v].no = vport[v].no
  BY <1>1, <1>2 DEF PortTypes
<1>4. NoPorts \in [Bins -> Seq(VportObj)]  BY DEF NoPorts, Bins
<1>5. ports' \in [DpObj -> [Bins -> Seq(VportObj)]]  BY <1>1, <1>2, <1>4 DEF PlaceTypes
<1>6. ASSUME NEW v \in Attached \ vs
      PROVE  ports'[vport[v].dp][Bucket(v)] = ports[vport[v].dp][Bucket(v)]
  <2>1. vport[v].dp \in DpObj /\ vport[v].dp \notin ds  BY <1>1, <1>2 DEF Attached, PortsInv
  <2>2. QED  BY <1>1, <2>1
<1>7. \A v \in Attached: vport[v].dp \in ds => v \in vs  BY <1>1 DEF Attached
<1>8. \A v \in VportObj: /\ vport'[v].st = "live" <=> vport[v].st = "live" /\ v \notin vs
                         /\ vport'[v].no = vport[v].no /\ vport'[v].dp = vport[v].dp
  BY <1>3
<1>9. \A v \in vs: vport[v].st = "live"  BY <1>1
<1>10. QED  BY <1>1, <1>2, <1>5, <1>6, <1>7, <1>8, <1>9, GoPlaces

LEMMA StartDumpPlaces == ASSUME IndInv, PlacesInv, StartDump PROVE PlacesInv'
<1>1. PICK d \in dps: dump' = [NoDump EXCEPT !.pc = "more", !.dp = d, !.base = PortsOf(d)]
  BY DEF StartDump
<1>2. UNCHANGED <<ports, vport>>  BY DEF StartDump, portVars
<1>3. PortTypes /\ PortsInv  BY DEF IndInv, MemoryTypes
<1>4. d \in DpObj /\ PortsOf(d) \subseteq VportObj  BY <1>1, <1>3 DEF PortTypes, PortsOf, Attached
<1>5. PICK vs \in SUBSET VportObj: vs = PortsOf(d)  BY <1>4
<1>6. dump' = [pc |-> "more", dp |-> d, at |-> <<0, 0>>, seen |-> {}, base |-> vs, shift |-> {}]
  BY <1>1, <1>5 DEF NoDump
<1>7. PlaceTypes'
  <2>1. dump' \in DumpRecords  BY <1>4, <1>6 DEF DumpRecords, Opt
  <2>2. QED  BY <1>2, <2>1 DEF PlacesInv, PlaceTypes
<1>8. ListedInv'  BY <1>2 DEF PlacesInv, ListedInv, Attached, In, Bucket
<1>9. DumpInv'
  <2>1. (dump.base \subseteq PortsOf(dump.dp))'  BY <1>2, <1>5, <1>6 DEF PortsOf, Attached
  <2>2. DumpReports'  BY <1>6 DEF DumpReports
  <2>3. ASSUME NEW v \in vs PROVE Ahead(ports[d][Bucket(v)], Bucket(v), v, <<0, 0>>)
    <3>1. v \in Attached /\ v \in VportObj /\ vport[v].dp = d  BY <1>4, <1>5 DEF PortsOf
    <3>2. PICK b \in Bins: b = Bucket(v) /\ b \in Nat  BY <1>3, <3>1, BucketBin, BinsAreNumbers
    <3>3. PICK s \in Seq(VportObj): s = ports[d][b]  BY <1>4 DEF PlacesInv, PlaceTypes
    <3>4. PICK i \in DOMAIN s: s[i] = v  BY <3>1, <3>2, <3>3 DEF PlacesInv, ListedInv, In
    <3>5. i - 1 \in Nat  BY <3>4
    <3>6. ~ Before(<<b, i - 1>>, <<0, 0>>)  BY <3>2, <3>5 DEF Before
    <3>7. QED  BY <3>2, <3>3, <3>4, <3>6 DEF Ahead
  <2>4. \A v \in vs: Bucket(v)' = Bucket(v)  BY <1>2 DEF Bucket
  <2>5. QED  BY <1>2, <1>6, <2>1, <2>2, <2>3, <2>4 DEF DumpInv
<1>10. QED  BY <1>7, <1>8, <1>9 DEF PlacesInv

\* The places to report, and what is there.
LEMMA TodoPlaces ==
  ASSUME PlaceTypes, NEW d \in DpObj, NEW at
  PROVE  /\ Todo(d, at) \in SUBSET (Nat \X Nat)
         /\ \A p \in Todo(d, at): ports[d][p[1]][p[2] + 1] \in VportObj
         /\ \A b \in Bins: \A i \in DOMAIN ports[d][b]:
              ~ Before(<<b, i - 1>>, at) => <<b, i - 1>> \in Todo(d, at)
<1> DEFINE Of(b) == {b} \X (0 .. Len(ports[d][b]) - 1)
<1>1. Todo(d, at) = {p \in UNION {Of(b): b \in Bins}: ~ Before(p, at)}  BY DEF Todo, Bins
<1>2. \A b \in Bins: ports[d][b] \in Seq(VportObj)  BY DEF PlaceTypes
<1>3. ASSUME NEW p \in Todo(d, at)
      PROVE  p \in Nat \X Nat /\ ports[d][p[1]][p[2] + 1] \in VportObj
  <2>1. PICK b \in Bins: p \in Of(b)  BY <1>1
  <2>2. b \in Nat  BY BinsAreNumbers
  <2>3. PICK s \in Seq(VportObj): s = ports[d][b]  BY <1>2
  <2>4. PICK j \in 0 .. Len(s) - 1: p = <<b, j>>  BY <2>1, <2>3
  <2>5. j \in Nat /\ j + 1 \in 1 .. Len(s)  BY <2>4
  <2>6. s[j + 1] \in VportObj  BY <2>5
  <2>7. QED  BY <2>2, <2>3, <2>4, <2>5, <2>6
<1>4. ASSUME NEW b \in Bins, NEW i \in DOMAIN ports[d][b], ~ Before(<<b, i - 1>>, at)
      PROVE  <<b, i - 1>> \in Todo(d, at)
  <2>1. i \in 1 .. Len(ports[d][b]) /\ Len(ports[d][b]) \in Nat  BY <1>2
  <2>2. i - 1 \in 0 .. Len(ports[d][b]) - 1  BY <2>1
  <2>3. <<b, i - 1>> \in Of(b)  BY <2>2
  <2>4. QED  BY <1>1, <1>4, <2>3
<1>5. QED  BY <1>3, <1>4

LEMMA DumpSomePlaces == ASSUME IndInv, PlacesInv, DumpSome PROVE PlacesInv'
<1>1. PortTypes /\ PortsInv /\ PlaceTypes /\ dump \in DumpRecords
  BY DEF IndInv, MemoryTypes, PlacesInv, PlaceTypes
<1>2. PICK d \in DpObj: d = dump.dp  BY <1>1 DEF DumpSome, DumpRecords, Opt
<1>3. PICK todo: todo = Todo(d, dump.at)  OBVIOUS
<1>4. PICK sent: sent = {p \in todo: Cardinality({q \in todo: Before(q, p)}) < Fit}  OBVIOUS
<1>5. PICK rest: rest = todo \ sent  OBVIOUS
<1>6. PICK new: new = {ports[d][p[1]][p[2] + 1]: p \in sent}  OBVIOUS
<1>7. PICK at: at = IF rest = {} THEN <<Buckets, 0>> ELSE First(rest)
  OBVIOUS
<1>8. PICK pc: pc = IF rest = {} THEN "done" ELSE "more"  OBVIOUS
<1>9. /\ dump' = [dump EXCEPT !.seen = @ \cup new, !.at = at, !.pc = pc]
      /\ UNCHANGED <<ports, vport>> /\ dump.pc = "more"
  BY <1>2, <1>3, <1>4, <1>5, <1>6, <1>7, <1>8 DEF DumpSome, First, portVars
<1>10. /\ todo \in SUBSET (Nat \X Nat) /\ sent \subseteq todo /\ rest \subseteq todo
       /\ \A p \in todo: p \in sent \/ p \in rest
       /\ \A p \in todo: ports[d][p[1]][p[2] + 1] \in VportObj
  BY <1>1, <1>2, <1>3, <1>4, <1>5, TodoPlaces
<1>11. new \in SUBSET VportObj  BY <1>6, <1>10
<1>12. /\ at \in Nat \X Nat
       /\ rest # {} => at \in rest /\ \A q \in rest \ {at}: Before(at, q)
  <2>1. CASE rest = {}  BY <1>7, <2>1, DatapathAssumption
  <2>2. CASE rest # {}  BY <1>7, <1>10, <2>2, FirstPlace
  <2>3. QED  BY <2>1, <2>2
<1>13. dump' = [pc |-> pc, dp |-> dump.dp, at |-> at, seen |-> dump.seen \cup new,
                base |-> dump.base, shift |-> dump.shift]
  <2>1. dump = [pc |-> dump.pc, dp |-> dump.dp, at |-> dump.at, seen |-> dump.seen,
                base |-> dump.base, shift |-> dump.shift]
    BY <1>1 DEF DumpRecords
  <2>2. QED  BY <1>9, <2>1
<1>14. dump' \in DumpRecords
  <2>1. pc \in {"idle", "more", "done"}  BY <1>8
  <2>2. QED  BY <1>1, <1>11, <1>12, <1>13, <2>1 DEF DumpRecords
<1>15. PlaceTypes'  BY <1>1, <1>9, <1>14 DEF PlaceTypes
<1>16. ListedInv'  BY <1>9 DEF PlacesInv, ListedInv, Attached, In, Bucket
<1>17. dump.base \subseteq PortsOf(d)  BY <1>2 DEF PlacesInv, DumpInv
<1>18. ASSUME NEW v \in dump.base
       PROVE  \/ v \in dump.seen \cup new \/ Bucket(v) \in dump.shift
              \/ rest # {} /\ Ahead(ports[d][Bucket(v)], Bucket(v), v, at)
  <2>1. PICK b \in Bins: b = Bucket(v)  BY <1>1, <1>17, BucketBin DEF PortsOf, Attached
  <2>2. CASE v \in dump.seen \/ Bucket(v) \in dump.shift  BY <2>2
  <2>3. CASE Ahead(ports[d][b], b, v, dump.at)
    <3>1. PICK i \in DOMAIN ports[d][b]: ports[d][b][i] = v /\ ~ Before(<<b, i - 1>>, dump.at)
      BY <2>3 DEF Ahead
    <3>2. <<b, i - 1>> \in todo  BY <1>1, <1>3, <3>1, TodoPlaces
    <3>3. i \in Nat
      <4>1. ports[d][b] \in Seq(VportObj)  BY <1>1 DEF PlaceTypes
      <4>2. QED  BY <4>1
    <3>4. CASE <<b, i - 1>> \in sent
      <4>1. ports[d][b][(i - 1) + 1] \in new  BY <1>6, <3>4
      <4>2. (i - 1) + 1 = i  BY <3>3
      <4>3. QED  BY <3>1, <4>1, <4>2
    <3>5. CASE <<b, i - 1>> \in rest
      <4>1. PICK p \in Nat \X Nat: p = <<b, i - 1>>  BY <1>10, <3>2
      <4>2. ~ Before(p, at)
        <5>1. CASE p = at
          <6>1. p[1] \in Nat /\ p[2] \in Nat  OBVIOUS
          <6>2. QED  BY <5>1, <6>1 DEF Before
        <5>2. CASE p # at
          <6>1. Before(at, p)  BY <1>12, <3>5, <4>1, <5>2
          <6>2. QED  BY <1>12, <6>1, BeforeOnce
        <5>3. QED  BY <5>1, <5>2
      <4>3. Ahead(ports[d][b], b, v, at)  BY <3>1, <4>1, <4>2 DEF Ahead
      <4>4. QED  BY <2>1, <3>5, <4>3
    <3>6. QED  BY <1>10, <3>2, <3>4, <3>5
  <2>4. QED  BY <1>2, <1>9, <2>1, <2>2, <2>3 DEF PlacesInv, DumpInv
<1>19. DumpInv'
  <2>1. \A v \in dump.base: Bucket(v)' = Bucket(v)  BY <1>9 DEF Bucket
  <2>2. /\ dump'.pc = pc /\ dump'.dp = d /\ dump'.at = at /\ dump'.seen = dump.seen \cup new
        /\ dump'.base = dump.base /\ dump'.shift = dump.shift
    BY <1>2, <1>13
  <2>3. (dump.base \subseteq PortsOf(dump.dp))'  BY <1>9, <1>17, <2>2 DEF PortsOf, Attached
  <2>4. DumpReports'
    <3>1. pc = "done" => rest = {}  BY <1>8
    <3>2. QED  BY <1>18, <2>1, <2>2, <3>1 DEF DumpReports
  <2>5. QED  BY <1>9, <1>18, <2>1, <2>2, <2>3, <2>4 DEF DumpInv
<1>20. QED  BY <1>15, <1>16, <1>19 DEF PlacesInv

\* No dump.
LEMMA NoDumpPlaces == NoDump \in DumpRecords /\ NoDump.pc = "idle" /\ NoDump.base = {}
  BY DEF NoDump, DumpRecords, Opt

LEMMA EndDumpPlaces == ASSUME PlacesInv, EndDump PROVE PlacesInv'
<1>1. dump' = NoDump /\ UNCHANGED <<ports, vport>>  BY DEF EndDump, portVars
<1>2. PlaceTypes'  BY <1>1, NoDumpPlaces DEF PlacesInv, PlaceTypes
<1>3. ListedInv'  BY <1>1 DEF PlacesInv, ListedInv, Attached, In, Bucket
<1>4. DumpInv'  BY <1>1, NoDumpPlaces DEF DumpInv, DumpReports
<1>5. QED  BY <1>2, <1>3, <1>4 DEF PlacesInv

LEMMA ReclaimPlaces == ASSUME IndInv, PlacesInv, Reclaim PROVE PlacesInv'
<1>1. PortTypes /\ PortsInv /\ DeferredInv /\ MemoryTypes  BY DEF IndInv, MemoryTypes
<1>2. PICK x \in deferred:
        \/ vport' = vport
        \/ x.kind = "vport" /\ vport' = [vport EXCEPT ![x.obj] = NoVport]
  BY DEF Reclaim, portVars
<1>3. UNCHANGED <<ports, dump>>  BY DEF Reclaim, portVars
<1>4. CASE vport' = vport  BY <1>1, <1>3, <1>4, QuietPlaces
<1>5. CASE x.kind = "vport" /\ vport' = [vport EXCEPT ![x.obj] = NoVport]
  <2>1. x.obj \in VportObj /\ vport[x.obj].st = "dead"
    BY <1>1, <1>5, WaitingFields DEF DeferredInv
  <2>2. \A v \in VportObj: vport[v].st = "live" \/ vport'[v].st = "live" => vport'[v] = vport[v]
    BY <1>1, <1>5, <2>1 DEF PortTypes, NoVport
  <2>3. PortsFound  BY <2>2 DEF PortsFound
  <2>4. ListsGrow /\ PlaceTypes'  BY <1>3 DEF ListsGrow, PlacesInv, PlaceTypes
  <2>5. \A v \in VportObj: ~ (vport'[v].st = "live" /\ vport[v].st # "live")  BY <2>2
  <2>6. QED  BY <1>1, <1>3, <2>3, <2>4, <2>5, GrowPlaces
<1>6. QED  BY <1>2, <1>4, <1>5

LEMMA NextKeepsPlaces == ASSUME IndInv, PlacesInv, [Next]_vars PROVE PlacesInv'
<1>1. ASSUME UNCHANGED <<ports, vport, dump>> PROVE PlacesInv'
  BY <1>1, QuietPlaces DEF IndInv, MemoryTypes
<1>2. CASE Ports
  <2>1. CASE DelDp
    <3>1. PICK d \in GetDp: DestroyDps({d})  BY <2>1 DEF DelDp
    <3>2. d \in DpObj  BY GetDpLive DEF IndInv
    <3>3. QED  BY <3>1, <3>2, DestroyPlaces
  <2>2. CASE NetExit
    <3>1. dps \in SUBSET DpObj  BY DEF IndInv, MemoryTypes, PortTypes
    <3>2. DestroyDps(dps)  BY <2>2 DEF NetExit
    <3>3. QED  BY <3>1, <3>2, DestroyPlaces
  <2>3. QED  BY <1>2, <2>1, <2>2, NewDpPlaces, AddPortPlaces, DelPortPlaces DEF Ports
<1>3. CASE Dumps  BY <1>3, StartDumpPlaces, DumpSomePlaces, EndDumpPlaces DEF Dumps
<1>4. CASE Reclaim  BY <1>4, ReclaimPlaces
<1>5. CASE (\E n \in DOMAIN Subsystems: LoadFails(n)) \/ Load
           \/ SetReplyFails \/ Flush \/ UNCHANGED vars
  BY <1>1, <1>5 DEF Load, LoadFails, SetReplyFails, Flush, vars, portVars
<1>6. CASE \E t \in Thread: FlowCommand(t)
  BY <1>1, <1>6, FlowCommandPorts
<1>7. CASE \E c \in Cpu: Packet(c)
  BY <1>1, <1>7 DEF Packet, Receive, Lookup, TakeActs, Upcall, Execute, portVars
<1>8. QED  BY <1>2, <1>3, <1>4, <1>5, <1>6, <1>7 DEF Next

LEMMA InitPlaces == Init => PlacesInv
<1> SUFFICES ASSUME Init PROVE PlacesInv  OBVIOUS
<1>1. /\ ports = [d \in DpObj |-> NoPorts] /\ dump = NoDump
      /\ vport = [v \in VportObj |-> NoVport]
  BY DEF Init
<1>2. NoPorts \in [Bins -> Seq(VportObj)]  BY DEF NoPorts, Bins
<1>3. PlaceTypes  BY <1>1, <1>2, NoDumpPlaces DEF PlaceTypes
<1>4. Attached = {}  BY <1>1 DEF Attached, NoVport
<1>5. ListedInv  BY <1>4 DEF ListedInv
<1>6. DumpInv  BY <1>1, NoDumpPlaces DEF DumpInv, DumpReports
<1>7. QED  BY <1>3, <1>5, <1>6 DEF PlacesInv

\* A dump of the ports of a datapath, whose replies go by places in lists, leaves out
\* no port that is there all the while, whatever ports come and go between the
\* replies, unless another port of its bucket went (datapath.c:2301-2338, 340, 350).
THEOREM DumpReportsHolds == Spec => []DumpReports
<1>1. Init => PlacesInv  BY InitPlaces
<1>2. IndInv /\ PlacesInv /\ [Next]_vars => PlacesInv'  BY NextKeepsPlaces
<1>3. PlacesInv => DumpReports  BY DEF PlacesInv, DumpInv
<1>4. QED  BY <1>1, <1>2, <1>3, Invariance, PTL DEF Spec
=============================================================================
